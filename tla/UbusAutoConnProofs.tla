-------------------------- MODULE UbusAutoConnProofs -------------------------
(***************************************************************************)
(* A process that keeps its connection to ubusd, for any objects and any     *)
(* number of crashes of the daemon: a connection that is set up again misses *)
(* no object to subscribe to but one whose answer is still put off when the  *)
(* lookup ends, and what the process believes about its own subscribers is   *)
(* right.                                                                   *)
(***************************************************************************)
EXTENDS UbusAutoConn, SequenceTheorems, FiniteSetTheorems, NaturalsInduction,
        WellFoundedInduction, TLAPS

Connecting == {"connect", "setup", "refresh", "register"}
Connected == {"lookup", "subscribe", "attach", "idle"}
ObjMessage == [obj : Obj \cup {Ev}, gen : Nat, t : Target \cup {"none"}, id : Nat,
    active : BOOLEAN]

ConnTypes ==
    /\ up \in BOOLEAN /\ timer \in BOOLEAN /\ auto \in BOOLEAN /\ listening \in BOOLEAN
    /\ gen \in Nat /\ epoch \in Nat /\ gen >= 1 /\ epoch <= gen
    /\ pc \in Connecting \cup Connected
    /\ queue \in Seq(ObjMessage)
    /\ has_subscribers \in [Obj -> BOOLEAN] /\ watchers \in [Obj -> BOOLEAN]
    /\ target \in [Target -> Nat] /\ subs \in [Target -> Nat] /\ tids \in Nat

\* What the daemon knows is what the process has told it over this connection.
DaemonKnows ==
    /\ timer => ~Live
    /\ pub = IF Live THEN tree ELSE {}
    /\ listening => Ev \in pub
    /\ \A o \in Obj : watchers[o] => o \in pub
    /\ \A t \in Target : subs[t] # 0 => target[t] # 0 /\ Live
    /\ \A t \in Target : target[t] <= tids
    /\ pc = "connect" => epoch = 0 /\ tree = {} /\ \A o \in Obj : ~has_subscribers[o]

\* Messages are of this connection or of earlier ones; those of this one are
\* for objects that are published; an event tells of one publication.
MessagesOK(q) ==
    /\ \A i \in 1..Len(q) : q[i].gen >= 1 /\ q[i].gen <= epoch
    /\ \A i \in 1..Len(q) : Live /\ q[i].gen = epoch => q[i].obj \in pub
    /\ \A i \in 1..Len(q) : q[i].obj = Ev => q[i].t \in Target /\ q[i].id \in 1..tids
    /\ \A i, j \in 1..Len(q) :
         q[i].obj = Ev /\ q[j].obj = Ev /\ q[i].id = q[j].id => i = j

\* A NOTIFY of this connection for o.
Told(q, i, o) == q[i].obj = o /\ q[i].gen = epoch
LastTold(q, i, o) == Told(q, i, o) /\ \A j \in 1..Len(q) : Told(q, j, o) => j <= i

\* The last NOTIFY on its way tells the truth, and if there is none the object
\* knows it, or has not heard since it was published again.
SubscribersTold ==
    Live => \A o \in Obj :
      /\ \A i \in 1..Len(queue) : LastTold(queue, i, o) => queue[i].active = watchers[o]
      /\ \/ \E i \in 1..Len(queue) : Told(queue, i, o)
         \/ has_subscribers[o] = watchers[o]
         \/ has_subscribers[o] /\ o \in stale

\* The publication of t with this id will be subscribed to: for an event ...
Announced(q, t, id) ==
    \E i \in 1..Len(q) : q[i].obj = Ev /\ q[i].gen = epoch /\ q[i].t = t /\ q[i].id = id
\* ... or by the lookup, that is about to begin, has not come to t yet, or has
\* an answer about t to hand out.
Answers == todo \cup sent \cup late
ToBeListed(t, id) ==
    pc = "lookup" \/ (pc = "subscribe" /\ (t \in left \/ <<t, id>> \in Answers))

Subscriptions(t, id) == subs[t] + (IF Announced(queue, t, id) THEN 1 ELSE 0)
                        + (IF ToBeListed(t, id) THEN 1 ELSE 0)

\* A publication is covered, or its answer was never handed out.
Covered(t, id) == /\ Subscriptions(t, id) \in 0..2
                  /\ Subscriptions(t, id) = 0 => <<t, id>> \in missed

\* There is one answer at most about a target, and none before the visit.
Listed ==
    pc = "subscribe" =>
      /\ \A x \in Answers : \E t \in Target \ left, n \in 1..tids : x = <<t, n>>
      /\ todo \cap sent = {} /\ todo \cap late = {} /\ sent \cap late = {}

TargetsCounted ==
    /\ Listed
    /\ Live /\ pc \in Connecting =>
         /\ ~listening /\ \A t \in Target : subs[t] = 0
         /\ \A i \in 1..Len(queue) : queue[i].gen = epoch => queue[i].obj # Ev
    /\ Live /\ pc \in Connected /\ auto =>
         /\ listening
         /\ Sub \in tree =>
              \A t \in Target : target[t] # 0 => Covered(t, target[t])

ConnInv == ConnTypes /\ DaemonKnows /\ MessagesOK(queue) /\ SubscribersTold /\ TargetsCounted

----------------------------------------------------------------------------
(* Nothing has been told or promised before the first connection.            *)
LEMMA ConnInit == ASSUME Init PROVE ConnInv
<1>0. queue \in Seq(ObjMessage) /\ Len(queue) = 0 /\ ~Live
  BY DEF Init, Live
<1>a. has_subscribers \in [Obj -> BOOLEAN] /\ watchers \in [Obj -> BOOLEAN]
  BY Zenon DEF Init
<1>b. target \in [Target -> Nat] /\ subs \in [Target -> Nat] /\ tids \in Nat
  BY DEF Init
<1>c. /\ up \in BOOLEAN /\ timer \in BOOLEAN /\ auto \in BOOLEAN /\ listening \in BOOLEAN
      /\ pc \in Connecting \cup Connected
  BY Zenon DEF Init, Connecting
<1>d. gen \in Nat /\ epoch \in Nat /\ gen >= 1 /\ epoch <= gen
  BY DEF Init
<1>1. ConnTypes /\ Len(queue) = 0 /\ ~Live
  BY <1>0, <1>a, <1>b, <1>c, <1>d DEF ConnTypes
<1>2. DaemonKnows /\ MessagesOK(queue) /\ SubscribersTold
  BY <1>1 DEF Init, DaemonKnows, MessagesOK, SubscribersTold, Live
<1>3. TargetsCounted
  BY <1>1 DEF Init, TargetsCounted, Listed
<1> QED
  BY <1>1, <1>2, <1>3 DEF ConnInv

(* A call, answered or not, changes what is published; messages and what the *)
(* objects know stay as they are.                                           *)
LEMMA CallKeeps ==
    ASSUME ConnInv, UNCHANGED <<up, gen, epoch, queue, has_subscribers, stale, target,
             watchers, tids>>,
           timer' \in BOOLEAN, auto' \in BOOLEAN, listening' \in BOOLEAN,
           pc' \in Connecting \cup Connected, pc' # "connect",
           subs' \in [Target -> Nat], \A t \in Target : subs'[t] # 0 =>
               target[t] # 0 /\ Live,
           timer' => ~Live, tree \subseteq tree',
               pub' = IF Live THEN tree' ELSE {},
           listening' => Ev \in pub'
    PROVE  ConnTypes' /\ DaemonKnows' /\ MessagesOK(queue)' /\ SubscribersTold'
           /\ Live' = Live
<1>1. Live' = Live
  BY DEF Live
<1>2. ConnTypes'
  BY DEF ConnInv, ConnTypes
<1>3. pub \subseteq pub'
  BY DEF ConnInv, DaemonKnows
<1>4. DaemonKnows'
  BY <1>1, <1>3 DEF ConnInv, DaemonKnows
<1>5. MessagesOK(queue)'
  BY <1>1, <1>3 DEF ConnInv, MessagesOK
<1>6. SubscribersTold'
  BY <1>1 DEF ConnInv, SubscribersTold, LastTold, Told
<1> QED
  BY <1>1, <1>2, <1>4, <1>5, <1>6

(* The same for a call that publishes an object, before the lookup.          *)
LEMMA PublishKeeps ==
    ASSUME ConnInv, NEW o,
           \/ ubus_add_object(o)
           \/ CallFails /\ tree' \in {tree, tree \cup {o}},
           UNCHANGED <<up, gen, epoch, queue, has_subscribers, stale, tids>>,
           auto' \in BOOLEAN, pc \in Connecting, pc' \in Connecting \cup Connected,
               pc' # "connect",
           Live => pc' \in Connecting, pc' # "subscribe"
    PROVE  ConnInv'
<1>1. CASE Live /\ pub' = pub \cup {o} /\ tree' = tree \cup {o}
           /\ UNCHANGED <<timer, listening, target, subs, watchers>>
  <2>1. pub' = IF Live THEN tree' ELSE {}
    BY <1>1 DEF ConnInv, DaemonKnows
  <2>2. ConnTypes' /\ DaemonKnows' /\ MessagesOK(queue)' /\ SubscribersTold'
           /\ Live' = Live
    BY <1>1, <2>1, CallKeeps DEF ConnInv, ConnTypes, DaemonKnows
  <2>3. TargetsCounted'
    BY <1>1, <2>2 DEF ConnInv, TargetsCounted, Listed, Connecting, Connected
  <2> QED
    BY <2>2, <2>3 DEF ConnInv
<1>2. CASE CallFails /\ tree' \in {tree, tree \cup {o}}
  <2>1. ~Live /\ timer' \in BOOLEAN /\ UNCHANGED <<pub, listening, target, subs,
          watchers>>
    BY <1>2 DEF CallFails, daemon, ConnInv, ConnTypes
  <2>2. pub' = IF Live THEN tree' ELSE {}
    BY <2>1 DEF ConnInv, DaemonKnows
  <2>3. ConnTypes' /\ DaemonKnows' /\ MessagesOK(queue)' /\ SubscribersTold'
           /\ Live' = Live
    BY <1>2, <2>1, <2>2, CallKeeps DEF ConnInv, ConnTypes, DaemonKnows
  <2>4. TargetsCounted'
    BY <2>1, <2>3 DEF TargetsCounted, Listed
  <2> QED
    BY <2>3, <2>4 DEF ConnInv
<1> QED
  BY <1>1, <1>2 DEF ubus_add_object

(* The calls after a connect, up to the registration of the event handler.   *)
LEMMA SetupKeeps ==
    ASSUME ConnInv, Setup \/ ubus_register_subscriber \/ AddEventObject
                    \/ (ubus_refresh_state /\ todo # {})
    PROVE  ConnInv'
<1> auto \in BOOLEAN /\ Live \in BOOLEAN
  BY DEF ConnInv, ConnTypes, Live
<1>1. CASE Setup
  BY <1>1, PublishKeeps DEF Setup, bounds, Connecting
<1>2. CASE ubus_register_subscriber
  BY <1>2, PublishKeeps DEF ubus_register_subscriber, bounds, Connecting, Connected
<1>3. CASE AddEventObject
  <2>1. CASE Live /\ ubus_add_object(Ev) /\ UNCHANGED pc
    BY <1>3, <2>1, PublishKeeps DEF AddEventObject, bounds, Connecting
  <2>2. CASE CallFails /\ tree' \in {tree, tree \cup {Ev}} /\ pc' = "lookup"
    BY <1>3, <2>2, PublishKeeps
        DEF AddEventObject, bounds, Connecting, Connected, CallFails
  <2> QED
    BY <1>3, <2>1, <2>2 DEF AddEventObject
<1>4. CASE ubus_refresh_state /\ todo # {}
  BY <1>4, PublishKeeps DEF ubus_refresh_state, bounds, Connecting
<1> QED
  BY <1>1, <1>2, <1>3, <1>4

(* ubus_refresh_state has published everything.                             *)
LEMMA RefreshKeeps ==
    ASSUME ConnInv, ubus_refresh_state, todo = {}
    PROVE  ConnInv'
<1>1. /\ UNCHANGED <<timer, daemon, tree, todo, up, gen, epoch, auto, queue,
           has_subscribers, bounds, stale>>
      /\ pc' = IF auto THEN "register" ELSE "attach"
  BY DEF ubus_refresh_state
<1>2. ConnTypes' /\ DaemonKnows' /\ MessagesOK(queue)' /\ SubscribersTold'
           /\ Live' = Live
  BY <1>1, CallKeeps DEF ConnInv, ConnTypes, DaemonKnows, daemon, bounds, Connecting,
      Connected
<1>3. TargetsCounted'
  BY <1>1, <1>2 DEF ConnInv, TargetsCounted, Listed, Connecting, Connected,
      ubus_refresh_state, daemon, bounds
<1> QED
  BY <1>2, <1>3 DEF ConnInv

(* From the registration of the pattern on every publication is announced,   *)
(* and those there are already will be found by the lookup.                  *)
LEMMA RegisterKeeps ==
    ASSUME ConnInv, RegisterPattern
    PROVE  ConnInv'
<1>1. /\ UNCHANGED <<pub, target, subs, watchers, up, gen, epoch, tree, auto, queue,
           has_subscribers, bounds, stale, todo>>
      /\ pc = "register" /\ pc' = "lookup" /\ Ev \in tree
      /\ \/ Live /\ listening' = (Ev \in pub) /\ timer' = timer
         \/ ~Live /\ listening' = listening /\ timer' \in BOOLEAN
  BY DEF RegisterPattern, CallFails, daemon, ConnInv, ConnTypes
<1>d. pub' = pub
  BY <1>1
<1>e. \/ Live /\ listening' = (Ev \in pub) /\ timer' = timer
      \/ ~Live /\ listening' = listening /\ timer' \in BOOLEAN
  BY <1>1
<1>a. listening' \in BOOLEAN /\ (listening' => Ev \in pub')
  <2>1. CASE listening' = (Ev \in pub)
    <3>1. CASE Ev \in pub
      BY <1>d, <2>1, <3>1
    <3>2. CASE Ev \notin pub
      <4>1. (Ev \in pub) = FALSE
        BY <3>2
      <4>2. listening' = FALSE
        BY <2>1, <4>1
      <4> QED
        BY <4>2
    <3> QED
      BY <3>1, <3>2
  <2>2. CASE listening' = listening
    BY <1>d, <2>2, Zenon DEF ConnInv, ConnTypes, DaemonKnows
  <2> QED
    BY <1>e, <2>1, <2>2
<1>c. timer' \in BOOLEAN /\ (timer' => ~Live)
  BY <1>e DEF ConnInv, ConnTypes, DaemonKnows
<1>b. /\ pc' \in Connecting \cup Connected /\ pc' # "connect"
      /\ pub' = (IF Live THEN tree' ELSE {}) /\ tree \subseteq tree'
  BY <1>1 DEF ConnInv, DaemonKnows, Connected
<1>2. ConnTypes' /\ DaemonKnows' /\ MessagesOK(queue)' /\ SubscribersTold'
           /\ Live' = Live
  BY <1>1, <1>a, <1>b, <1>c, CallKeeps DEF ConnInv, ConnTypes, DaemonKnows, bounds
<1>3. CASE ~Live
  BY <1>1, <1>2, <1>3 DEF ConnInv, TargetsCounted, Listed
<1>4. CASE Live
  <2>1. listening'
    BY <1>1, <1>4 DEF ConnInv, DaemonKnows
  <2>2. \A t \in Target : subs[t] = 0 /\ ~Announced(queue, t, target[t])'
    BY <1>1, <1>4 DEF ConnInv, TargetsCounted, Connecting, Announced
  <2>3. \A t \in Target : Subscriptions(t, target[t])' = 1
    BY <1>1, <2>2 DEF Subscriptions, ToBeListed
  <2>4. TargetsCounted'
    BY <1>1, <2>1, <2>3 DEF TargetsCounted, Listed, Covered, Connecting
  <2> QED
    BY <1>2, <2>4 DEF ConnInv
<1> QED
  BY <1>2, <1>3, <1>4 DEF ConnInv, TargetsCounted

(* The lookup is to visit everything.                                       *)
LEMMA LookupKeeps ==
    ASSUME ConnInv, ubus_lookup
    PROVE  ConnInv'
<1>1. /\ UNCHANGED <<daemon, up, gen, epoch, tree, auto, queue, has_subscribers,
           missed, bounds, stale>>
      /\ pc = "lookup"
      /\ \/ /\ Live /\ timer' = timer /\ pc' = "subscribe"
            /\ left' = Target /\ todo' = {} /\ sent' = {} /\ late' = {}
         \/ ~Live /\ timer' \in BOOLEAN /\ pc' = "attach"
  BY DEF ubus_lookup, CallFails, ConnInv, ConnTypes
<1>2. timer' \in BOOLEAN /\ (timer' => ~Live)
  BY <1>1 DEF ConnInv, ConnTypes, DaemonKnows
<1>3. /\ pc' \in Connecting \cup Connected /\ pc' # "connect"
      /\ pub' = (IF Live THEN tree' ELSE {}) /\ tree \subseteq tree'
  BY <1>1 DEF ConnInv, DaemonKnows, Connected, daemon
<1>4. ConnTypes' /\ DaemonKnows' /\ MessagesOK(queue)' /\ SubscribersTold'
           /\ Live' = Live
  BY <1>1, <1>2, <1>3, CallKeeps DEF ConnInv, ConnTypes, DaemonKnows, bounds, daemon
<1>5. Listed'
  BY <1>1 DEF Listed, Answers
<1>6. Live => \A t \in Target : Subscriptions(t, target[t])' = Subscriptions(t, target[t])
  BY <1>1 DEF Subscriptions, ToBeListed, Announced, daemon
<1>7. TargetsCounted'
  BY <1>1, <1>4, <1>5, <1>6
      DEF ConnInv, TargetsCounted, Covered, Connecting, Connected, daemon, bounds
<1> QED
  BY <1>4, <1>7 DEF ConnInv

(* ubusd visits an object.                                                  *)
LEMMA VisitKeeps ==
    ASSUME ConnInv, NEW t \in Target, Visit(t)
    PROVE  ConnInv'
<1>1. /\ UNCHANGED <<daemon, up, gen, epoch, timer, pc, todo, tree, auto, queue,
           has_subscribers, late, missed, bounds, stale>>
      /\ Live /\ t \in left /\ left' = left \ {t}
      /\ sent' = sent \cup {<<t, id>> : id \in {target[t]} \ {0}}
  BY DEF Visit, client
<1>2. UNCHANGED <<pub, listening, target, subs, watchers, tids>> /\ Live' = Live
  BY <1>1 DEF daemon, bounds, Live
<1>3. ConnTypes' /\ DaemonKnows' /\ MessagesOK(queue)' /\ SubscribersTold'
  BY <1>1, <1>2 DEF ConnInv, ConnTypes, DaemonKnows, MessagesOK, SubscribersTold, LastTold, Told
<1>4. target[t] \in Nat /\ target[t] <= tids /\ tids \in Nat
  BY DEF ConnInv, ConnTypes, DaemonKnows
<1>5. \A y \in sent' : y \in sent \/ (target[t] # 0 /\ y = <<t, target[t]>>)
  BY <1>1
<1>6. Listed'
  <2> SUFFICES ASSUME pc = "subscribe"
               PROVE  /\ \A x \in Answers' : \E u \in Target \ left', n \in 1..tids : x = <<u, n>>
                      /\ todo \cap sent' = {} /\ todo \cap late = {} /\ sent' \cap late = {}
    BY <1>1, <1>2 DEF Listed
  <2>1. /\ \A x \in Answers : \E u \in Target \ left, n \in 1..tids : x = <<u, n>>
        /\ todo \cap sent = {} /\ todo \cap late = {} /\ sent \cap late = {}
    BY DEF ConnInv, TargetsCounted, Listed
  <2>2. \A n : <<t, n>> \notin Answers
    BY <1>1, <2>1
  <2>3. target[t] # 0 => target[t] \in 1..tids
    BY <1>4
  <2>4. ASSUME NEW x \in Answers' PROVE \E u \in Target \ left', n \in 1..tids : x = <<u, n>>
    <3>1. CASE x \in Answers
      BY <1>1, <2>1, <3>1
    <3>2. CASE target[t] # 0 /\ x = <<t, target[t]>>
      BY <1>1, <2>3, <3>2
    <3> QED
      BY <1>1, <1>5, <3>1, <3>2 DEF Answers
  <2> QED
    BY <1>5, <2>1, <2>2, <2>4 DEF Answers
<1>7. ASSUME NEW u \in Target, target[u] # 0
      PROVE  Subscriptions(u, target[u])' = Subscriptions(u, target[u])
  <2>1. Announced(queue, u, target[u])' <=> Announced(queue, u, target[u])
    BY <1>1, <1>2 DEF Announced
  <2>2. ToBeListed(u, target[u])' <=> ToBeListed(u, target[u])
    <3>1. CASE u = t
      BY <1>1, <1>2, <1>7, <3>1 DEF ToBeListed, Answers
    <3>2. CASE u # t
      <4>1. <<u, target[u]>> \in sent' <=> <<u, target[u]>> \in sent
        BY <1>1, <3>2
      <4> QED
        BY <1>1, <1>2, <3>2, <4>1 DEF ToBeListed, Answers
    <3> QED
      BY <3>1, <3>2
  <2> QED
    BY <1>2, <2>1, <2>2 DEF Subscriptions
<1>8. TargetsCounted'
  BY <1>1, <1>2, <1>6, <1>7 DEF ConnInv, TargetsCounted, Covered
<1> QED
  BY <1>3, <1>8 DEF ConnInv

(* What ubus_subscribe does to the daemon's subscriptions.                  *)
LEMMA SubscribeIs ==
    ASSUME ConnInv, NEW t \in Target, NEW id, ubus_subscribe(t, id)
    PROVE  /\ UNCHANGED <<pub, listening, target, watchers>>
           /\ timer' \in BOOLEAN /\ (timer' => ~Live)
           /\ subs' \in [Target -> Nat]
           /\ \A u \in Target : subs'[u] =
                IF Live /\ u = t /\ target[t] = id /\ Sub \in tree
                THEN subs[u] + 1 ELSE subs[u]
<1>1. CASE CallFails
  BY <1>1 DEF CallFails, daemon, ConnInv, ConnTypes
<1>2. CASE /\ Live
           /\ subs' = IF target[t] = id /\ Sub \in pub
                      THEN [subs EXCEPT ![t] = @ + 1] ELSE subs
           /\ UNCHANGED <<timer, pub, listening, target, watchers>>
  <2>1. pub = tree /\ timer' \in BOOLEAN /\ (timer' =>
          ~Live) /\ subs \in [Target -> Nat]
    BY <1>2 DEF ConnInv, ConnTypes, DaemonKnows
  <2> QED
    BY <1>2, <2>1
<1> QED
  BY <1>1, <1>2 DEF ubus_subscribe

(* The callback of the lookup subscribes to what was listed: this answer, and *)
(* no other, leaves the set of those that are to be handed out.             *)
LEMMA AnswerKeeps ==
    ASSUME ConnInv, NEW x \in Answers, pc = "subscribe",
           ubus_subscribe(x[1], x[2]), Answers' = Answers \ {x},
           todo' \cap sent' = {}, todo' \cap late' = {}, sent' \cap late' = {},
           UNCHANGED <<up, gen, epoch, pc, tree, auto, queue, has_subscribers, left, missed,
               bounds, stale>>
    PROVE  ConnInv'
<1>1. PICK t \in Target \ left, n \in 1..tids : x = <<t, n>>
  BY DEF ConnInv, TargetsCounted, Listed
<1>2. /\ UNCHANGED <<pub, listening, target, watchers>>
      /\ timer' \in BOOLEAN /\ (timer' => ~Live)
      /\ subs' \in [Target -> Nat]
      /\ \A u \in Target : subs'[u] =
           IF Live /\ u = t /\ target[t] = n /\ Sub \in tree
                THEN subs[u] + 1 ELSE subs[u]
  BY <1>1, SubscribeIs
<1>3. \A u \in Target : subs'[u] # 0 => target[u] # 0 /\ Live
  BY <1>2 DEF ConnInv, ConnTypes, DaemonKnows
<1>4. ConnTypes' /\ DaemonKnows' /\ MessagesOK(queue)' /\ SubscribersTold'
           /\ Live' = Live
  BY <1>2, <1>3, CallKeeps DEF ConnInv, ConnTypes, DaemonKnows, bounds
<1>5. Listed'
  <2>1. \A y \in Answers' : \E u \in Target \ left, k \in 1..tids : y = <<u, k>>
    BY DEF ConnInv, TargetsCounted, Listed
  <2> QED
    BY <2>1 DEF Listed, bounds
<1>6. ASSUME Live, Sub \in tree, NEW u \in Target, target[u] # 0
      PROVE  Subscriptions(u, target[u])' = Subscriptions(u, target[u])
  <2>1. Announced(queue, u, target[u])' <=> Announced(queue, u, target[u])
    BY <1>2 DEF Announced
  <2>2. CASE u = t /\ target[t] = n
    <3>1. ToBeListed(u, target[u]) /\ ~ToBeListed(u, target[u])'
      BY <1>1, <1>2, <2>2 DEF ToBeListed
    <3>2. subs'[u] = subs[u] + 1 /\ subs[u] \in Nat
      BY <1>2, <1>6, <2>2 DEF ConnInv, ConnTypes
    <3> QED
      BY <2>1, <3>1, <3>2 DEF Subscriptions
  <2>3. CASE ~(u = t /\ target[t] = n)
    <3>1. ToBeListed(u, target[u])' <=> ToBeListed(u, target[u])
      BY <1>1, <1>2, <2>3 DEF ToBeListed
    <3>2. subs'[u] = subs[u]
      BY <1>2, <2>3
    <3> QED
      BY <2>1, <3>1, <3>2 DEF Subscriptions
  <2> QED
    BY <2>2, <2>3
<1>7. TargetsCounted'
  BY <1>2, <1>4, <1>5, <1>6 DEF ConnInv, TargetsCounted, Covered, Connecting, bounds
<1> QED
  BY <1>4, <1>7 DEF ConnInv

(* An answer is handed to the callback.                                     *)
LEMMA AnswersKeep ==
    ASSUME ConnInv, FirstAnswer \/ PutOffAnswer
    PROVE  ConnInv'
<1>1. /\ pc = "subscribe"
      /\ todo \cap sent = {} /\ todo \cap late = {} /\ sent \cap late = {}
  BY DEF FirstAnswer, PutOffAnswer, ConnInv, TargetsCounted, Listed
<1>2. CASE FirstAnswer
  <2>1. PICK x \in sent : ubus_subscribe(x[1], x[2]) /\ todo' = late \cup (sent \ {x})
    BY <1>2 DEF FirstAnswer
  <2>2. todo = {} /\ sent' = {} /\ late' = {}
    BY <1>2 DEF FirstAnswer
  <2>3. x \in Answers /\ Answers' = Answers \ {x}
    BY <1>1, <2>1, <2>2 DEF Answers
  <2> QED
    BY <1>1, <1>2, <2>1, <2>2, <2>3, AnswerKeeps DEF FirstAnswer
<1>3. CASE PutOffAnswer
  <2>1. PICK x \in todo : ubus_subscribe(x[1], x[2]) /\ todo' = todo \ {x}
    BY <1>3 DEF PutOffAnswer
  <2>2. sent' = {} /\ late' = late \cup sent
    BY <1>3 DEF PutOffAnswer
  <2>3. x \in Answers /\ Answers' = Answers \ {x}
    BY <1>1, <2>1, <2>2 DEF Answers
  <2>4. todo' \cap sent' = {} /\ todo' \cap late' = {} /\ sent' \cap late' = {}
    BY <1>1, <2>1, <2>2
  <2> QED
    BY <1>1, <1>3, <2>1, <2>3, <2>4, AnswerKeeps DEF PutOffAnswer
<1> QED
  BY <1>2, <1>3

(* What was put off is taken up.                                            *)
LEMMA UnwantedKeeps ==
    ASSUME ConnInv, UnwantedAnswer
    PROVE  ConnInv'
<1>1. /\ pc = "subscribe" /\ todo = {} /\ todo' = late /\ late' = {}
      /\ UNCHANGED <<up, gen, epoch, timer, pc, tree, auto, queue, has_subscribers,
           daemon, left, sent, missed, bounds, stale>>
  BY DEF UnwantedAnswer
<1>2. UNCHANGED <<pub, listening, target, subs, watchers, tids>> /\ Live' = Live
  BY <1>1 DEF daemon, bounds, Live
<1>3. ConnTypes' /\ DaemonKnows' /\ MessagesOK(queue)' /\ SubscribersTold'
  BY <1>1, <1>2 DEF ConnInv, ConnTypes, DaemonKnows, MessagesOK, SubscribersTold, LastTold, Told
<1>4. Answers' = Answers
  BY <1>1 DEF Answers
<1>5. Listed'
  BY <1>1, <1>2, <1>4 DEF ConnInv, TargetsCounted, Listed
<1>6. \A t \in Target : Subscriptions(t, target[t])' = Subscriptions(t, target[t])
  BY <1>1, <1>2, <1>4 DEF Subscriptions, ToBeListed, Announced
<1>7. TargetsCounted'
  BY <1>1, <1>2, <1>5, <1>6 DEF ConnInv, TargetsCounted, Covered
<1> QED
  BY <1>3, <1>7 DEF ConnInv

(* The lookup ends, and what it never handed out is missed.                  *)
LEMMA DoneKeeps ==
    ASSUME ConnInv, LookupDone
    PROVE  ConnInv'
<1>1. /\ pc = "subscribe" /\ todo = {} /\ pc' = "attach" /\ missed' = missed \cup late
      /\ \/ left = {} /\ sent = {} /\ timer' = timer
         \/ ~Live /\ timer' \in BOOLEAN
      /\ UNCHANGED <<up, gen, epoch, tree, auto, queue, has_subscribers, daemon, bounds, stale>>
  BY DEF LookupDone, CallFails, ConnInv, ConnTypes
<1>2. timer' \in BOOLEAN /\ (timer' => ~Live)
  BY <1>1 DEF ConnInv, ConnTypes, DaemonKnows
<1>3. /\ pc' \in Connecting \cup Connected /\ pc' # "connect" /\ pc' \notin Connecting
      /\ pc \in Connected
      /\ pub' = (IF Live THEN tree' ELSE {}) /\ tree \subseteq tree'
  BY <1>1 DEF ConnInv, DaemonKnows, Connecting, Connected, daemon
<1>4. ConnTypes' /\ DaemonKnows' /\ MessagesOK(queue)' /\ SubscribersTold'
           /\ Live' = Live
  BY <1>1, <1>2, <1>3, CallKeeps DEF ConnInv, ConnTypes, DaemonKnows, bounds, daemon
<1>5. Listed'
  BY <1>1 DEF Listed
<1>6. ASSUME Live, NEW t \in Target, Covered(t, target[t]) PROVE Covered(t, target[t])'
  <2>1. /\ target' = target /\ subs' = subs /\ subs[t] \in Nat
        /\ Announced(queue, t, target[t])' <=> Announced(queue, t, target[t])
    BY <1>1 DEF Announced, daemon, ConnInv, ConnTypes
  <2>2. ~ToBeListed(t, target[t])' /\ (ToBeListed(t, target[t]) => <<t, target[t]>> \in missed')
    BY <1>1, <1>6, <2>1 DEF ToBeListed, Answers
  <2> QED
    BY <1>1, <1>6, <2>1, <2>2 DEF Covered, Subscriptions
<1>7. TargetsCounted'
  BY <1>1, <1>3, <1>4, <1>5, <1>6 DEF ConnInv, TargetsCounted, daemon, bounds
<1> QED
  BY <1>4, <1>7 DEF ConnInv

(* The process attaches to the event loop.                                  *)
LEMMA AttachKeeps ==
    ASSUME ConnInv, ubus_add_uloop
    PROVE  ConnInv'
<1>0. /\ pc = "attach" /\ pc' = "idle"
      /\ UNCHANGED <<up, gen, epoch, timer, todo, tree, auto, queue, has_subscribers,
                     daemon, look, bounds, stale>>
  BY DEF ubus_add_uloop
<1>1. /\ pc' \in Connecting \cup Connected /\ pc' # "connect" /\ pc' # "subscribe"
      /\ pc \in Connected /\ pc' \in Connected /\ pc' \notin Connecting
  BY <1>0 DEF Connecting, Connected
<1>2. ConnTypes' /\ DaemonKnows' /\ MessagesOK(queue)' /\ SubscribersTold'
           /\ Live' = Live
  BY <1>0, <1>1, CallKeeps DEF ConnInv, ConnTypes, DaemonKnows, bounds, daemon
<1>3. \A t \in Target : Subscriptions(t, target[t])' = Subscriptions(t, target[t])
  BY <1>0 DEF Subscriptions, ToBeListed, Announced, daemon
<1>4. TargetsCounted'
  BY <1>0, <1>1, <1>2, <1>3 DEF ConnInv, TargetsCounted, Listed, Covered, daemon, bounds, look
<1> QED
  BY <1>2, <1>4 DEF ConnInv

(* Every call keeps the invariant, except those that open a connection.      *)
LEMMA CallsKeep ==
    ASSUME ConnInv, Calls, ~ubus_auto_connect_cb, ~ubus_auto_reconnect_cb
    PROVE  ConnInv'
<1>1. CASE ubus_refresh_state
  BY <1>1, RefreshKeeps, SetupKeeps
<1> QED
  BY <1>1, SetupKeeps, RegisterKeeps, LookupKeeps, AnswersKeep, DoneKeeps, AttachKeeps DEF Calls

(* A new connection: nothing of it is on its way yet, and its daemon knows   *)
(* nothing of the process.                                                  *)
LEMMA ConnectKeeps ==
    ASSUME ConnInv, timer, up, epoch' = gen, timer' = FALSE, UNCHANGED <<up, gen,
             auto, daemon, has_subscribers, bounds>>,
           tree' = {}, pc' \in {"setup", "refresh"}, queue' \in Seq(ObjMessage),
           Len(queue') <= Len(queue), \A i \in 1..Len(queue') : queue'[i] = queue[i],
           \A o \in Obj : has_subscribers[o] => o \in stale'
    PROVE  ConnInv'
<1>1. ~Live /\ epoch < gen /\ epoch \in Nat /\ gen \in Nat
  BY DEF ConnInv, ConnTypes, DaemonKnows, Live
<1>2. /\ queue \in Seq(ObjMessage) /\ queue' \in Seq(ObjMessage) /\ Len(queue') \in Nat
      /\ \A i \in 1..Len(queue') : queue'[i] = queue[i] /\ i \in 1..Len(queue)
  BY DEF ConnInv, ConnTypes
<1>3. /\ pc' \in Connecting \cup Connected /\ pc' \notin Connected
      /\ pc' # "connect" /\ pc' # "subscribe"
  BY DEF Connecting, Connected
<1>a. UNCHANGED <<up, gen, auto, listening, target, subs, watchers, pub, has_subscribers, tids>>
  BY DEF daemon, bounds
<1>b. timer' \in BOOLEAN
  OBVIOUS
<1>d. epoch' \in Nat /\ epoch' <= gen
  BY <1>1
<1>4. ConnTypes'
  BY <1>1, <1>2, <1>3, <1>a, <1>b, <1>d DEF ConnInv, ConnTypes
<1>c. \A i \in 1..Len(queue) : queue[i] \in ObjMessage
  BY <1>2
<1>5. /\ pub' = {} /\ ~listening' /\ \A o \in Obj : ~watchers'[o]
      /\ \A t \in Target : subs'[t] = 0 /\ target'[t] <= tids'
  BY <1>1 DEF ConnInv, DaemonKnows, daemon, bounds
<1>6. DaemonKnows'
  BY <1>3, <1>5 DEF DaemonKnows
<1>7. \A i \in 1..Len(queue') : queue'[i].gen < epoch'
  <2> SUFFICES ASSUME NEW i \in 1..Len(queue') PROVE queue'[i].gen < epoch'
    OBVIOUS
  <2>1. i \in 1..Len(queue) /\ queue[i].gen <= epoch
    BY <1>2 DEF ConnInv, MessagesOK
  <2>2. queue[i].gen \in Nat
    BY <1>c, <2>1 DEF ObjMessage
  <2> QED
    BY <1>1, <1>2, <2>1, <2>2
<1>8. \A i \in 1..Len(queue') : queue'[i].gen \in Nat
  BY <1>2, <1>c DEF ObjMessage
<1>9. MessagesOK(queue)'
  <2>1. \A i \in 1..Len(queue') :
          queue'[i].gen >= 1 /\ queue'[i].gen <= epoch' /\ queue'[i].gen # epoch'
    BY <1>1, <1>2, <1>7, <1>8 DEF ConnInv, MessagesOK
  <2> QED
    BY <1>2, <1>a, <2>1 DEF ConnInv, MessagesOK
<1>10. SubscribersTold'
  <2> SUFFICES ASSUME NEW o \in Obj
               PROVE  /\ \A i \in 1..Len(queue') : ~Told(queue, i, o)'
                      /\ \/ has_subscribers'[o] = watchers'[o]
                         \/ has_subscribers'[o] /\ o \in stale'
    BY DEF SubscribersTold, LastTold
  <2>1. \A i \in 1..Len(queue') : ~Told(queue, i, o)'
    BY <1>7, <1>8 DEF Told
  <2>2. /\ has_subscribers[o] \in BOOLEAN /\ watchers'[o] \in BOOLEAN
        /\ has_subscribers' = has_subscribers
    BY <1>4 DEF ConnInv, ConnTypes
  <2>3. CASE has_subscribers[o]
    BY <2>1, <2>2, <2>3
  <2>4. CASE ~has_subscribers[o]
    <3>1. has_subscribers[o] = FALSE
      BY <2>2, <2>4
    <3>2. watchers'[o] = FALSE
      BY <1>5, <2>2
    <3> QED
      BY <2>1, <2>2, <3>1, <3>2
  <2> QED
    BY <2>3, <2>4
<1>11. TargetsCounted'
  BY <1>3, <1>5, <1>7, <1>8 DEF TargetsCounted, Listed
<1> QED
  BY <1>4, <1>6, <1>9, <1>10, <1>11 DEF ConnInv

(* The first connection and the later ones.                                 *)
LEMMA ConnectsKeep ==
    ASSUME ConnInv, ubus_auto_connect_cb \/ ubus_auto_reconnect_cb
    PROVE  ConnInv'
<1>1. CASE ~up
  <2>1. /\ UNCHANGED <<up, gen, epoch, timer, pc, todo, tree, auto, queue,
             has_subscribers, daemon, look, bounds, stale>>
    BY <1>1 DEF ubus_auto_connect_cb, ubus_auto_reconnect_cb
  <2> QED
    BY <2>1 DEF ConnInv, ConnTypes, DaemonKnows, MessagesOK, SubscribersTold, Told, LastTold,
        TargetsCounted, Listed, Answers, Covered, Subscriptions, Announced,
        ToBeListed, Live, daemon, bounds, look
<1>2. CASE up /\ ubus_auto_connect_cb
  <2>1. epoch = 0 /\ tree = {} /\ \A o \in Obj : ~has_subscribers[o]
    BY <1>2 DEF ubus_auto_connect_cb, ConnInv, DaemonKnows
  <2>2. UNCHANGED <<up, gen, auto, daemon, has_subscribers,
          bounds>> /\ timer /\ timer' = FALSE
        /\ epoch' = gen /\ tree' = tree /\ queue' = queue /\ pc' = "setup"
    BY <1>2 DEF ubus_auto_connect_cb
  <2>3. queue' \in Seq(ObjMessage) /\ Len(queue') <= Len(queue)
    BY <2>2 DEF ConnInv, ConnTypes
  <2> QED
    BY <1>2, <2>1, <2>2, <2>3, ConnectKeeps
<1>3. CASE up /\ ubus_auto_reconnect_cb
  <2>1. PICK n \in 0..Len(queue) : queue' = SubSeq(queue, 1, n)
    BY <1>3 DEF ubus_auto_reconnect_cb
  <2>2. UNCHANGED <<up, gen, auto, daemon, has_subscribers,
          bounds>> /\ timer /\ timer' = FALSE
        /\ epoch' = gen /\ tree' = {} /\ pc' = "refresh" /\ stale' = Obj
    BY <1>3 DEF ubus_auto_reconnect_cb
  <2>3. /\ queue' \in Seq(ObjMessage) /\ Len(queue') <= Len(queue)
        /\ \A i \in 1..Len(queue') : queue'[i] = queue[i]
    BY <2>1 DEF ConnInv, ConnTypes
  <2> QED
    BY <1>3, <2>2, <2>3, ConnectKeeps
<1> QED
  BY <1>1, <1>2, <1>3

----------------------------------------------------------------------------
(* The first message is taken out of the queue.                             *)
LEMMA TakeMessage ==
    ASSUME ConnInv, queue # <<>>
    PROVE  /\ Tail(queue) \in Seq(ObjMessage) /\ Len(queue) \in Nat /\ Len(queue) > 0
           /\ Head(queue) = queue[1] /\ Head(queue) \in ObjMessage /\ 1 \in 1..Len(queue)
           /\ Len(Tail(queue)) = Len(queue) - 1
           /\ \A i \in 1..(Len(queue) - 1) :
                Tail(queue)[i] = queue[i + 1] /\ i + 1 \in 1..Len(queue)
  BY DEF ConnInv, ConnTypes

(* What stays in the queue is as it was.                                    *)
LEMMA TakeKeepsMessages ==
    ASSUME ConnInv, queue # <<>>, queue' = Tail(queue), UNCHANGED <<up, gen, epoch, pub, tids>>
    PROVE  MessagesOK(queue)'
<1>1. Len(queue') = Len(queue) - 1 /\ Len(queue) \in Nat
      /\ \A i \in 1..(Len(queue) - 1) : queue'[i] = queue[i + 1] /\ i + 1 \in 1..Len(queue)
  BY TakeMessage
<1>2. Live' = Live
  BY DEF Live
<1>3. \A i \in 1..Len(queue') : queue'[i].gen >= 1 /\ queue'[i].gen <= epoch
  BY <1>1 DEF ConnInv, MessagesOK
<1>4. \A i \in 1..Len(queue') : Live /\ queue'[i].gen = epoch => queue'[i].obj \in pub
  BY <1>1 DEF ConnInv, MessagesOK
<1>5. \A i \in 1..Len(queue') : queue'[i].obj = Ev =>
        queue'[i].t \in Target /\ queue'[i].id \in 1..tids
  BY <1>1 DEF ConnInv, MessagesOK
<1>6. \A i, j \in 1..Len(queue') :
        queue'[i].obj = Ev /\ queue'[j].obj = Ev /\ queue'[i].id = queue'[j].id => i = j
  <2> SUFFICES ASSUME NEW i \in 1..Len(queue'), NEW j \in 1..Len(queue'),
                      queue'[i].obj = Ev, queue'[j].obj = Ev,
                          queue'[i].id = queue'[j].id
               PROVE  i = j
    OBVIOUS
  <2>1. /\ i + 1 \in 1..Len(queue) /\ j + 1 \in 1..Len(queue)
        /\ queue'[i] = queue[i + 1] /\ queue'[j] = queue[j + 1]
    BY <1>1
  <2>2. i + 1 = j + 1
    BY <2>1 DEF ConnInv, MessagesOK
  <2> QED
    BY <2>2
<1> QED
  BY <1>2, <1>3, <1>4, <1>5, <1>6 DEF MessagesOK

(* A NOTIFY that is handled was the last one, or another follows.            *)
LEMMA TakeKeepsKnown ==
    ASSUME ConnInv, ubus_process_obj_msg, UNCHANGED watchers
    PROVE  SubscribersTold'
<1> DEFINE m == Head(queue)
<1>1. /\ queue # <<>> /\ queue' = Tail(queue) /\ UNCHANGED <<up, gen, epoch, tree>>
  BY DEF ubus_process_obj_msg
<1>2. Live' = Live
  BY <1>1 DEF Live
<1>3. /\ Len(queue') = Len(queue) - 1 /\ Len(queue) \in Nat /\ m = queue[1] /\ 1 \in 1..Len(queue)
      /\ \A i \in 1..(Len(queue) - 1) : queue'[i] = queue[i + 1] /\ i + 1 \in 1..Len(queue)
      /\ m \in ObjMessage
  BY <1>1, TakeMessage
<1> SUFFICES ASSUME Live, NEW o \in Obj
             PROVE  /\ \A i \in 1..Len(queue') : LastTold(queue, i, o)' =>
                         queue'[i].active = watchers[o]
                    /\ \/ \E i \in 1..Len(queue') : Told(queue, i, o)'
                       \/ has_subscribers'[o] = watchers[o]
                       \/ has_subscribers'[o] /\ o \in stale'
  BY <1>2 DEF SubscribersTold
<1>4. \A i \in 1..Len(queue') : Told(queue, i, o)' <=> Told(queue, i + 1, o)
  BY <1>1, <1>3 DEF Told
<1>5. ASSUME NEW i \in 1..Len(queue'), LastTold(queue, i, o)'
      PROVE  queue'[i].active = watchers[o]
  <2>1. Told(queue, i + 1, o) /\ i + 1 \in 1..Len(queue)
    BY <1>3, <1>4, <1>5 DEF LastTold
  <2>2. ASSUME NEW j \in 1..Len(queue), Told(queue, j, o) PROVE j <= i + 1
    <3>1. CASE j = 1
      BY <3>1, <1>3
    <3>2. CASE j # 1
      <4>1. j - 1 \in 1..Len(queue') /\ (j - 1) + 1 = j
        BY <1>3, <3>2
      <4>2. Told(queue, j - 1, o)'
        BY <1>4, <2>2, <4>1
      <4>3. j - 1 <= i
        BY <1>5, <4>1, <4>2 DEF LastTold
      <4> QED
        BY <1>3, <4>3
    <3> QED
      BY <3>1, <3>2
  <2>3. LastTold(queue, i + 1, o)
    BY <2>1, <2>2 DEF LastTold
  <2> QED
    BY <1>3, <2>1, <2>3 DEF ConnInv, SubscribersTold
<1>6. ASSUME ~\E i \in 1..Len(queue') : Told(queue, i, o)'
      PROVE  has_subscribers'[o] = watchers[o] \/ (has_subscribers'[o] /\ o \in stale')
  <2>1. \A j \in 1..Len(queue) : Told(queue, j, o) => j = 1
    <3> SUFFICES ASSUME NEW j \in 1..Len(queue), Told(queue, j, o), j # 1 PROVE FALSE
      OBVIOUS
    <3>1. j - 1 \in 1..Len(queue') /\ (j - 1) + 1 = j
      BY <1>3
    <3> QED
      BY <1>4, <1>6, <3>1
  <2>2. CASE Told(queue, 1, o)
    <3>1. LastTold(queue, 1, o)
      BY <2>1, <2>2 DEF LastTold
    <3>2. m.active = watchers[o]
      BY <1>3, <3>1 DEF ConnInv, SubscribersTold
    <3>3. m.gen = epoch /\ m.obj = o
      BY <1>3, <2>2 DEF Told
    <3>4. o \in tree
      BY <1>3, <3>3 DEF ConnInv, MessagesOK, DaemonKnows
    <3>5. has_subscribers' = [has_subscribers EXCEPT ![o] = m.active]
      BY <3>3, <3>4 DEF ubus_process_obj_msg
    <3> QED
      BY <3>2, <3>5 DEF ConnInv, ConnTypes
  <2>3. CASE ~Told(queue, 1, o)
    <3>1. has_subscribers[o] = watchers[o] \/ (has_subscribers[o] /\ o \in stale)
      BY <2>1, <2>3 DEF ConnInv, SubscribersTold
    <3>2. ~(m.gen = epoch /\ m.obj = o)
      BY <1>3, <2>3 DEF Told
    <3>3. has_subscribers'[o] = has_subscribers[o] /\ (o \in stale => o \in stale')
      BY <3>2 DEF ubus_process_obj_msg, ConnInv, ConnTypes
    <3> QED
      BY <3>1, <3>3
  <2> QED
    BY <2>2, <2>3
<1> QED
  BY <1>5, <1>6

(* What a message does to the daemon's tables: an event of this connection   *)
(* makes one subscription, if it tells of what is published now.             *)
LEMMA TakeSubscribes ==
    ASSUME ConnInv, ubus_process_obj_msg
    PROVE  /\ UNCHANGED <<pub, listening, target, watchers>>
           /\ timer' \in BOOLEAN /\ (timer' => ~Live)
           /\ subs' \in [Target -> Nat]
           /\ \A u \in Target : subs'[u] =
                IF /\ Live /\ Head(queue).obj = Ev /\ Head(queue).gen = epoch
                   /\ u = Head(queue).t /\ target[u] = Head(queue).id /\ Sub \in tree
                THEN subs[u] + 1 ELSE subs[u]
<1> DEFINE m == Head(queue)
<1>1. queue # <<>>
  BY DEF ubus_process_obj_msg
<1>2. 1 \in 1..Len(queue) /\ m = queue[1]
  BY <1>1, TakeMessage
<1>3. CASE m.gen = epoch /\ m.obj \in tree /\ m.obj = Ev
  <2>1. m.t \in Target
    BY <1>2, <1>3 DEF ConnInv, MessagesOK
  <2>2. ubus_subscribe(m.t, m.id)
    BY <1>3 DEF ubus_process_obj_msg
  <2> QED
    BY <1>3, <2>1, <2>2, SubscribeIs
<1>4. CASE ~(m.gen = epoch /\ m.obj \in tree /\ m.obj = Ev)
  <2>1. UNCHANGED <<timer, daemon>>
    BY <1>4 DEF ubus_process_obj_msg
  <2>2. ~(Live /\ m.gen = epoch /\ m.obj = Ev)
    BY <1>2, <1>4 DEF ConnInv, MessagesOK, DaemonKnows
  <2> QED
    BY <2>1, <2>2 DEF daemon, ConnInv, ConnTypes, DaemonKnows
<1> QED
  BY <1>3, <1>4

(* An event that is handled has become a subscription.                      *)
LEMMA TakeKeepsCover ==
    ASSUME ConnInv, ubus_process_obj_msg
    PROVE  TargetsCounted'
<1> DEFINE m == Head(queue)
<1>1. /\ queue # <<>> /\ queue' = Tail(queue) /\ pc # "subscribe"
      /\ UNCHANGED <<up, gen, epoch, pc, todo, tree, auto, tids, left, sent, late, missed>>
  BY DEF ubus_process_obj_msg, bounds, look
<1>2. Live' = Live
  BY <1>1 DEF Live
<1>3. /\ Len(queue') = Len(queue) - 1 /\ Len(queue) \in Nat /\ m = queue[1] /\ 1 \in 1..Len(queue)
      /\ \A i \in 1..(Len(queue) - 1) : queue'[i] = queue[i + 1] /\ i + 1 \in 1..Len(queue)
  BY <1>1, TakeMessage
<1>4. /\ UNCHANGED <<pub, listening, target, watchers>>
      /\ \A u \in Target : subs'[u] =
           IF /\ Live /\ m.obj = Ev /\ m.gen = epoch
              /\ u = m.t /\ target[u] = m.id /\ Sub \in tree
           THEN subs[u] + 1 ELSE subs[u]
  BY TakeSubscribes
<1>5. ASSUME Live, pc \in Connecting
      PROVE  /\ ~listening' /\ \A t \in Target : subs'[t] = 0
             /\ \A i \in 1..Len(queue') : queue'[i].gen = epoch => queue'[i].obj # Ev
  BY <1>3, <1>4, <1>5 DEF ConnInv, TargetsCounted
<1>6. ASSUME Live, Sub \in tree, NEW t \in Target, target[t] # 0
      PROVE  Subscriptions(t, target[t])' = Subscriptions(t, target[t])
  <2> DEFINE id == target[t]
  <2> DEFINE Is(k) == /\ queue[k].obj = Ev /\ queue[k].gen = epoch
                      /\ queue[k].t = t /\ queue[k].id = id
  <2>1. ToBeListed(t, id)' <=> ToBeListed(t, id)
    BY <1>1, <1>4 DEF ToBeListed
  <2>2. Announced(queue, t, id)' <=> \E i \in 1..Len(queue') : Is(i + 1)
    BY <1>1, <1>3, <1>4 DEF Announced
  <2>3. Announced(queue, t, id) <=> \E i \in 1..Len(queue) : Is(i)
    BY DEF Announced
  <2>4. CASE Is(1)
    <3>1. \A k \in 1..Len(queue) : Is(k) => k = 1
      BY <1>3, <2>4 DEF ConnInv, MessagesOK
    <3>2. ~\E i \in 1..Len(queue') : Is(i + 1)
      <4> SUFFICES ASSUME NEW i \in 1..Len(queue'), Is(i + 1) PROVE FALSE
        OBVIOUS
      <4>1. i + 1 \in 1..Len(queue) /\ i + 1 # 1
        BY <1>3
      <4> QED
        BY <3>1, <4>1
    <3>3. Announced(queue, t, id) /\ ~Announced(queue, t, id)'
      BY <1>3, <2>2, <2>3, <2>4, <3>2
    <3>4. subs'[t] = subs[t] + 1 /\ subs[t] \in Nat
      BY <1>3, <1>4, <1>6, <2>4 DEF ConnInv, ConnTypes
    <3> HIDE DEF Is
    <3> QED
      BY <1>4, <2>1, <3>3, <3>4 DEF Subscriptions
  <2>5. CASE ~Is(1)
    <3>1. (\E i \in 1..Len(queue') : Is(i + 1)) <=> (\E i \in 1..Len(queue) : Is(i))
      <4> HIDE DEF Is
      <4>1. ASSUME NEW k \in 1..Len(queue), Is(k) PROVE \E i \in 1..Len(queue') : Is(i + 1)
        <5>1. k # 1
          BY <2>5, <4>1
        <5>2. k - 1 \in 1..Len(queue') /\ (k - 1) + 1 = k
          BY <1>3, <5>1
        <5> QED
          BY <4>1, <5>2
      <4>2. ASSUME NEW k \in 1..Len(queue'), Is(k + 1) PROVE \E i \in 1..Len(queue) : Is(i)
        BY <1>3, <4>2
      <4> QED
        BY <4>1, <4>2
    <3>2. Announced(queue, t, id)' <=> Announced(queue, t, id)
      BY <2>2, <2>3, <3>1
    <3>3. subs'[t] = subs[t]
      BY <1>3, <1>4, <2>5
    <3> HIDE DEF Is
    <3> QED
      BY <1>4, <2>1, <3>2, <3>3 DEF Subscriptions
  <2> QED
    BY <2>4, <2>5
<1> QED
  BY <1>1, <1>2, <1>4, <1>5, <1>6 DEF ConnInv, TargetsCounted, Listed, Covered

(* A message keeps the invariant.                                           *)
LEMMA MessageKeeps ==
    ASSUME ConnInv, ubus_process_obj_msg
    PROVE  ConnInv'
<1> DEFINE m == Head(queue)
<1>1. /\ queue # <<>> /\ queue' = Tail(queue)
      /\ UNCHANGED <<up, gen, epoch, pc, todo, tree, auto, tids>>
  BY DEF ubus_process_obj_msg, bounds
<1>2. Live' = Live
  BY <1>1 DEF Live
<1>3. /\ UNCHANGED <<pub, listening, target, watchers>>
      /\ timer' \in BOOLEAN /\ (timer' => ~Live) /\ subs' \in [Target -> Nat]
      /\ \A u \in Target : subs'[u] =
           IF /\ Live /\ m.obj = Ev /\ m.gen = epoch
              /\ u = m.t /\ target[u] = m.id /\ Sub \in tree
           THEN subs[u] + 1 ELSE subs[u]
  BY TakeSubscribes
<1>4. queue' \in Seq(ObjMessage) /\ m = queue[1] /\ 1 \in 1..Len(queue) /\ m \in ObjMessage
  BY <1>1, TakeMessage
<1>5. has_subscribers' \in [Obj -> BOOLEAN]
  BY <1>4 DEF ubus_process_obj_msg, ConnInv, ConnTypes, ObjMessage
<1>6. ConnTypes'
  BY <1>1, <1>3, <1>4, <1>5 DEF ConnInv, ConnTypes
<1>7. pc = "connect" => has_subscribers' = has_subscribers
  BY <1>4 DEF ubus_process_obj_msg, ConnInv, DaemonKnows, MessagesOK
<1>8. \A u \in Target : subs'[u] # 0 => target[u] # 0 /\ Live
  <2> SUFFICES ASSUME NEW u \in Target, subs'[u] # 0 PROVE target[u] # 0 /\ Live
    OBVIOUS
  <2>1. CASE subs'[u] = subs[u]
    BY <2>1 DEF ConnInv, DaemonKnows
  <2>2. CASE subs'[u] # subs[u]
    <3>1. Live /\ m.obj = Ev /\ target[u] = m.id
      BY <1>3, <2>2
    <3>2. m.id \in 1..tids /\ tids \in Nat
      BY <1>4, <3>1 DEF ConnInv, MessagesOK, ConnTypes
    <3> QED
      BY <3>1, <3>2
  <2> QED
    BY <2>1, <2>2
<1>9. DaemonKnows'
  BY <1>1, <1>2, <1>3, <1>7, <1>8 DEF ConnInv, DaemonKnows
<1> QED
  BY <1>1, <1>3, <1>6, <1>9, TakeKeepsMessages, TakeKeepsKnown, TakeKeepsCover DEF ConnInv

----------------------------------------------------------------------------
(* A message that the daemon appends.                                       *)
LEMMA AppendMessage ==
    ASSUME ConnInv, NEW m \in ObjMessage, queue' = Append(queue, m)
    PROVE  /\ queue' \in Seq(ObjMessage) /\ Len(queue) \in Nat /\ Len(queue') = Len(queue) + 1
           /\ queue'[Len(queue) + 1] = m
           /\ \A i \in 1..Len(queue) : queue'[i] = queue[i]
           /\ \A i \in 1..Len(queue') : i = Len(queue) + 1 \/ i \in 1..Len(queue)
  BY DEF ConnInv, ConnTypes

(* The end of the stream is noticed.                                        *)
LEMMA HangUpKeeps ==
    ASSUME ConnInv, HangUp
    PROVE  ConnInv'
<1>1. /\ ~Live /\ timer' = TRUE
      /\ UNCHANGED <<up, gen, epoch, pc, todo, tree, auto, queue, has_subscribers, daemon,
           look, bounds, stale>>
  BY DEF HangUp
<1>2. timer' \in BOOLEAN
  BY <1>1
<1>3. Live' = Live
  BY <1>1 DEF Live
<1>4. ConnTypes'
  BY <1>1, <1>2 DEF ConnInv, ConnTypes, daemon, bounds
<1>5. DaemonKnows'
  BY <1>1, <1>3 DEF ConnInv, DaemonKnows, daemon, bounds
<1>6. MessagesOK(queue)'
  BY <1>1, <1>3 DEF ConnInv, MessagesOK, daemon, bounds
<1>7. SubscribersTold' /\ TargetsCounted'
  BY <1>1, <1>3 DEF ConnInv, SubscribersTold, TargetsCounted, Listed, Answers, bounds, look
<1> QED
  BY <1>4, <1>5, <1>6, <1>7 DEF ConnInv

(* A daemon that ends takes its tables with it.                             *)
LEMMA CrashKeeps ==
    ASSUME ConnInv, Crash
    PROVE  ConnInv'
<1>1. /\ up' = FALSE /\ pub' = {} /\ listening' = FALSE
      /\ target' = [t \in Target |-> 0] /\ subs' = [t \in Target |-> 0]
      /\ watchers' = [o \in Obj |-> FALSE]
      /\ UNCHANGED <<gen, epoch, timer, pc, todo, tree, auto, has_subscribers, queue,
           left, sent, late, missed, tids, stale>>
  BY DEF Crash, client, bounds, look
<1>2. ~Live' /\ up' \in BOOLEAN /\ listening' \in BOOLEAN
  BY <1>1 DEF Live
<1>3. watchers' \in [Obj -> BOOLEAN] /\ \A o \in Obj : ~watchers'[o]
  BY <1>1, Zenon
<1>4. target' \in [Target -> Nat] /\ subs' \in [Target -> Nat]
      /\ \A t \in Target : subs'[t] = 0 /\ target'[t] = 0
  BY <1>1
<1>5. ConnTypes'
  BY <1>1, <1>2, <1>3, <1>4 DEF ConnInv, ConnTypes
<1>6. DaemonKnows'
  BY <1>1, <1>2, <1>3, <1>4 DEF ConnInv, ConnTypes, DaemonKnows
<1>7. MessagesOK(queue)'
  BY <1>1, <1>2 DEF ConnInv, MessagesOK
<1>8. SubscribersTold'
  BY <1>2 DEF SubscribersTold
<1>9. Listed'
  BY <1>1 DEF ConnInv, TargetsCounted, Listed, Answers
<1>10. TargetsCounted'
  BY <1>2, <1>9 DEF TargetsCounted
<1> QED
  BY <1>5, <1>6, <1>7, <1>8, <1>10 DEF ConnInv

(* The next daemon does not know the process.                               *)
LEMMA RestartKeeps ==
    ASSUME ConnInv, Restart
    PROVE  ConnInv'
<1>1. /\ ~up /\ up' = TRUE /\ gen' = gen + 1
      /\ UNCHANGED <<epoch, timer, pc, todo, tree, auto, has_subscribers, queue,
           daemon, left, sent, late, missed, tids, stale>>
  BY DEF Restart, client, bounds, look
<1>2. gen \in Nat /\ epoch \in Nat /\ epoch <= gen /\ up' \in BOOLEAN
  BY <1>1 DEF ConnInv, ConnTypes
<1>3. ~Live /\ ~Live'
  BY <1>1, <1>2 DEF Live
<1>4. ConnTypes'
  BY <1>1, <1>2 DEF ConnInv, ConnTypes, daemon
<1>5. DaemonKnows'
  BY <1>1, <1>3 DEF ConnInv, DaemonKnows, daemon
<1>6. MessagesOK(queue)' /\ SubscribersTold' /\ TargetsCounted'
  BY <1>1, <1>3 DEF ConnInv, MessagesOK, SubscribersTold, TargetsCounted, Listed, Answers, daemon
<1> QED
  BY <1>4, <1>5, <1>6 DEF ConnInv

(* An object of others goes, and the subscriptions to it.                   *)
LEMMA UnpublishKeeps ==
    ASSUME ConnInv, NEW t \in Target, Unpublish(t)
    PROVE  ConnInv'
<1>1. /\ target' = [target EXCEPT ![t] = 0] /\ subs' = [subs EXCEPT ![t] = 0]
      /\ UNCHANGED <<up, gen, epoch, timer, pc, todo, tree, auto, has_subscribers, queue,
           pub, listening, watchers, left, sent, late, missed, tids, stale>>
  BY DEF Unpublish, client, bounds, look
<1>2. Live' = Live
  BY <1>1 DEF Live
<1>3. /\ target' \in [Target -> Nat] /\ subs' \in [Target -> Nat] /\ tids \in Nat
      /\ \A u \in Target : \/ target'[u] = 0 /\ subs'[u] = 0
                           \/ target'[u] = target[u] /\ subs'[u] = subs[u]
  BY <1>1 DEF ConnInv, ConnTypes
<1>4. ConnTypes'
  BY <1>1, <1>3 DEF ConnInv, ConnTypes
<1>5. DaemonKnows'
  BY <1>1, <1>2, <1>3 DEF ConnInv, DaemonKnows
<1>6. MessagesOK(queue)' /\ SubscribersTold'
  BY <1>1, <1>2 DEF ConnInv, MessagesOK, SubscribersTold, LastTold, Told
<1>7. \A u \in Target : target'[u] # 0 => Subscriptions(u, target[u])' = Subscriptions(u,
        target[u]) /\ target[u] # 0
  BY <1>1, <1>3 DEF Subscriptions, Announced, ToBeListed, Answers
<1>8. TargetsCounted'
  BY <1>1, <1>2, <1>3, <1>7 DEF ConnInv, TargetsCounted, Listed, Answers, Covered
<1> QED
  BY <1>4, <1>5, <1>6, <1>8 DEF ConnInv

(* A first subscriber comes or the last one goes: the owner is told.         *)
LEMMA WatchKeeps ==
    ASSUME ConnInv, NEW o \in Obj, NEW w \in BOOLEAN, w => o \in pub,
           watchers' = [watchers EXCEPT ![o] = w],
           queue' = IF Live THEN Append(queue, Notify(o, w)) ELSE queue,
           UNCHANGED <<up, gen, client, pub, listening, target, subs, look, tids, stale>>,
               watchers[o] \/ w
    PROVE  ConnInv'
<1>1. /\ UNCHANGED <<up, gen, epoch, timer, pc, todo, tree, auto, has_subscribers, pub,
           listening, target, subs, left, sent, late, missed, tids, stale>>
  BY DEF client, look
<1>2. Live' = Live
  BY <1>1 DEF Live
<1>3. watchers' \in [Obj -> BOOLEAN] /\ watchers'[o] = w
      /\ \A p \in Obj : p # o => watchers'[p] = watchers[p]
  BY DEF ConnInv, ConnTypes
<1>4. \A p \in Obj : watchers'[p] => p \in pub
  BY <1>3 DEF ConnInv, DaemonKnows
<1>5. DaemonKnows'
  BY <1>1, <1>2, <1>4 DEF ConnInv, DaemonKnows
<1>6. CASE ~Live
  <2>1. queue' = queue
    BY <1>6
  <2>2. ConnTypes'
    BY <1>1, <1>3, <2>1 DEF ConnInv, ConnTypes
  <2>3. MessagesOK(queue)' /\ SubscribersTold' /\ TargetsCounted'
    BY <1>1, <1>2, <1>6, <2>1 DEF ConnInv, MessagesOK, SubscribersTold, TargetsCounted, Listed,
       Answers
  <2> QED
    BY <1>5, <2>2, <2>3 DEF ConnInv
<1>7. CASE Live
  <2> DEFINE m == Notify(o, w)
  <2>1. m \in ObjMessage /\ m.obj = o /\ m.gen = epoch /\ m.gen = gen /\ m.active = w
    BY <1>7 DEF Notify, ObjMessage, ConnInv, ConnTypes, Live
  <2>2. o \in pub /\ epoch >= 1 /\ epoch \in Nat
    BY <1>7 DEF ConnInv, ConnTypes, DaemonKnows, Live
  <2> HIDE DEF m
  <2>3. queue' = Append(queue, m)
    BY <1>7 DEF m
  <2>4. /\ queue' \in Seq(ObjMessage) /\ Len(queue) \in Nat /\ Len(queue') = Len(queue) + 1
        /\ queue'[Len(queue) + 1] = m
        /\ \A i \in 1..Len(queue) : queue'[i] = queue[i]
        /\ \A i \in 1..Len(queue') : i = Len(queue) + 1 \/ i \in 1..Len(queue)
    BY <2>1, <2>3, AppendMessage
  <2>5. ConnTypes'
    BY <1>1, <1>3, <2>4 DEF ConnInv, ConnTypes
  <2>6. \A i \in 1..Len(queue') : queue'[i].obj = Ev =>
          i \in 1..Len(queue) /\ queue'[i] = queue[i]
    BY <2>1, <2>4, NamesAssumption
  <2>7. MessagesOK(queue)'
    <3>1. \A i \in 1..Len(queue') : queue'[i].gen >= 1 /\ queue'[i].gen <= epoch
      BY <2>1, <2>2, <2>4 DEF ConnInv, MessagesOK
    <3>2. \A i \in 1..Len(queue') : queue'[i].gen = epoch => queue'[i].obj \in pub
      BY <1>7, <2>1, <2>2, <2>4 DEF ConnInv, MessagesOK
    <3>3. \A i \in 1..Len(queue') : queue'[i].obj = Ev =>
            queue'[i].t \in Target /\ queue'[i].id \in 1..tids
      BY <2>6 DEF ConnInv, MessagesOK
    <3>4. \A i, j \in 1..Len(queue') :
            queue'[i].obj = Ev /\ queue'[j].obj = Ev /\ queue'[i].id = queue'[j].id
              => i = j
      BY <2>6 DEF ConnInv, MessagesOK
    <3> QED
      BY <1>1, <1>2, <3>1, <3>2, <3>3, <3>4 DEF MessagesOK
  <2>8. SubscribersTold'
    <3> SUFFICES ASSUME NEW p \in Obj
                 PROVE  /\ \A i \in 1..Len(queue') : LastTold(queue, i, p)' =>
                             queue'[i].active = watchers'[p]
                        /\ \/ \E i \in 1..Len(queue') : Told(queue, i, p)'
                           \/ has_subscribers'[p] = watchers'[p]
                           \/ has_subscribers'[p] /\ p \in stale'
      BY DEF SubscribersTold
    <3>1. CASE p = o
      <4>0. PICK k \in Nat : k = Len(queue) + 1
        BY <2>4
      <4>1. Told(queue, k, p)' /\ k \in 1..Len(queue') /\ queue'[k].active = watchers'[p]
        BY <1>1, <1>3, <2>1, <2>4, <3>1, <4>0 DEF Told
      <4>2. ASSUME NEW i \in 1..Len(queue'), LastTold(queue, i, p)' PROVE i = k
        BY <2>4, <4>0, <4>1, <4>2 DEF LastTold
      <4> QED
        BY <4>1, <4>2
    <3>2. CASE p # o
      <4>1. \A i \in 1..Len(queue') :
              Told(queue, i, p)' <=> i \in 1..Len(queue) /\ Told(queue, i, p)
        BY <1>1, <2>1, <2>4, <3>2 DEF Told
      <4>2. 1..Len(queue) \subseteq 1..Len(queue')
        BY <2>4
      <4>3. \A i \in 1..Len(queue') : LastTold(queue, i, p)' =>
              i \in 1..Len(queue) /\ LastTold(queue, i, p)
        BY <4>1, <4>2 DEF LastTold
      <4>4. watchers'[p] = watchers[p]
        BY <1>3, <3>2
      <4>5. /\ \A i \in 1..Len(queue) : LastTold(queue, i, p) => queue[i].active = watchers[p]
            /\ \/ \E i \in 1..Len(queue) : Told(queue, i, p)
               \/ has_subscribers[p] = watchers[p]
               \/ has_subscribers[p] /\ p \in stale
        BY <1>7 DEF ConnInv, SubscribersTold
      <4> QED
        BY <1>1, <2>4, <4>1, <4>2, <4>3, <4>4, <4>5
    <3> QED
      BY <3>1, <3>2
  <2>9. \A t \in Target : Announced(queue, t, target[t])' <=> Announced(queue, t, target[t])
    BY <1>1, <2>4, <2>6 DEF Announced
  <2>10. \A t \in Target : Subscriptions(t, target[t])' = Subscriptions(t, target[t])
    BY <1>1, <2>9 DEF Subscriptions, ToBeListed, Answers
  <2>11. TargetsCounted'
    BY <1>1, <1>2, <2>6, <2>10 DEF ConnInv, TargetsCounted, Listed, Answers, Covered
  <2> QED
    BY <1>5, <2>5, <2>7, <2>8, <2>11 DEF ConnInv
<1> QED
  BY <1>6, <1>7

(* An object of others appears: announced if the handler is registered, and  *)
(* with an id that nothing else carries.                                    *)
LEMMA AppearKeeps ==
    ASSUME ConnInv, NEW t \in Target, Publish(t)
    PROVE  ConnInv'
<1>1. /\ target[t] = 0 /\ tids' = tids + 1 /\ target' = [target EXCEPT ![t] = tids + 1]
      /\ UNCHANGED <<up, gen, epoch, timer, pc, todo, tree, auto, has_subscribers, pub,
           listening, subs, watchers, left, sent, late, missed, stale>>
  BY DEF Publish, client, look
<1>2. Live' = Live
  BY <1>1 DEF Live
<1>3. /\ tids \in Nat /\ tids' \in Nat /\ target' \in [Target -> Nat] /\ target'[t] = tids + 1
      /\ \A u \in Target : u # t => target'[u] = target[u]
      /\ \A u \in Target : target[u] \in Nat /\ target[u] <= tids
  BY <1>1 DEF ConnInv, ConnTypes, DaemonKnows
<1>4. DaemonKnows'
  BY <1>1, <1>2, <1>3 DEF ConnInv, DaemonKnows
<1>5. Listed' /\ Answers' = Answers
  <2>1. Answers' = Answers
    BY <1>1 DEF Answers
  <2>2. 1..tids \subseteq 1..tids'
    BY <1>1, <1>3
  <2> QED
    BY <1>1, <2>1, <2>2 DEF ConnInv, TargetsCounted, Listed
<1>6. subs[t] = 0 /\ subs \in [Target -> Nat]
  BY <1>1 DEF ConnInv, DaemonKnows, ConnTypes
<1>8. CASE ~(Live /\ listening)
  <2>1. queue' = queue
    BY <1>8 DEF Publish
  <2>2. ConnTypes'
    BY <1>1, <1>3, <2>1 DEF ConnInv, ConnTypes
  <2>3. \A i \in 1..Len(queue) : queue[i].obj = Ev => queue[i].id \in 1..tids'
    BY <1>1, <1>3 DEF ConnInv, MessagesOK
  <2>4. MessagesOK(queue)'
    BY <1>1, <1>2, <2>1, <2>3 DEF ConnInv, MessagesOK
  <2>5. SubscribersTold'
    BY <1>1, <1>2, <2>1 DEF ConnInv, SubscribersTold, LastTold, Told
  <2>6. TargetsCounted'
    BY <1>1, <1>2, <1>5, <1>8, <2>1 DEF ConnInv, TargetsCounted, Connecting, Connected
  <2> QED
    BY <1>4, <2>2, <2>4, <2>5, <2>6 DEF ConnInv
<1>9. CASE Live /\ listening
  <2> DEFINE m == Event(tids + 1, t)
  <2>1. /\ m \in ObjMessage /\ m.obj = Ev /\ m.gen = epoch /\ m.t = t /\ m.id = tids + 1
        /\ epoch >= 1 /\ epoch \in Nat
    BY <1>3, <1>9 DEF Event, ObjMessage, ConnInv, ConnTypes, Live
  <2>2. queue' = Append(queue, m)
    BY <1>9 DEF Publish
  <2> HIDE DEF m
  <2>3. /\ queue' \in Seq(ObjMessage) /\ Len(queue) \in Nat /\ Len(queue') = Len(queue) + 1
        /\ queue'[Len(queue) + 1] = m
        /\ \A i \in 1..Len(queue) : queue'[i] = queue[i]
        /\ \A i \in 1..Len(queue') : i = Len(queue) + 1 \/ i \in 1..Len(queue)
    BY <2>1, <2>2, AppendMessage
  <2>4. ConnTypes'
    BY <1>1, <1>3, <2>3 DEF ConnInv, ConnTypes
  <2>5. Ev \in pub
    BY <1>9 DEF ConnInv, DaemonKnows
  <2>6. \A i \in 1..Len(queue) : queue[i].obj = Ev =>
          queue[i].t \in Target /\ queue[i].id \in 1..tids /\ queue[i].id # tids + 1
    BY <1>3 DEF ConnInv, MessagesOK
  <2>7. MessagesOK(queue)'
    <3>1. \A i \in 1..Len(queue') : queue'[i].gen >= 1 /\ queue'[i].gen <= epoch
      BY <2>1, <2>3 DEF ConnInv, MessagesOK
    <3>2. \A i \in 1..Len(queue') : queue'[i].gen = epoch => queue'[i].obj \in pub
      BY <1>9, <2>1, <2>3, <2>5 DEF ConnInv, MessagesOK
    <3>3. \A i \in 1..Len(queue') : queue'[i].obj = Ev =>
            queue'[i].t \in Target /\ queue'[i].id \in 1..tids'
      BY <1>1, <1>3, <2>1, <2>3, <2>6
    <3>4. \A i, j \in 1..Len(queue') :
            queue'[i].obj = Ev /\ queue'[j].obj = Ev /\ queue'[i].id = queue'[j].id => i = j
      BY <2>1, <2>3, <2>6 DEF ConnInv, MessagesOK
    <3> QED
      BY <1>1, <1>2, <3>1, <3>2, <3>3, <3>4 DEF MessagesOK
  <2>8. SubscribersTold'
    <3> SUFFICES ASSUME NEW p \in Obj
                 PROVE  /\ \A i \in 1..Len(queue') : LastTold(queue, i, p)' =>
                             queue'[i].active = watchers'[p]
                        /\ \/ \E i \in 1..Len(queue') : Told(queue, i, p)'
                           \/ has_subscribers'[p] = watchers'[p]
                           \/ has_subscribers'[p] /\ p \in stale'
      BY DEF SubscribersTold
    <3>1. \A i \in 1..Len(queue') :
            Told(queue, i, p)' <=> i \in 1..Len(queue) /\ Told(queue, i, p)
      BY <1>1, <2>1, <2>3, NamesAssumption DEF Told
    <3>2. 1..Len(queue) \subseteq 1..Len(queue')
      BY <2>3
    <3>3. \A i \in 1..Len(queue') : LastTold(queue, i, p)' =>
            i \in 1..Len(queue) /\ LastTold(queue, i, p)
      BY <3>1, <3>2 DEF LastTold
    <3>4. /\ \A i \in 1..Len(queue) : LastTold(queue, i, p) => queue[i].active = watchers[p]
          /\ \/ \E i \in 1..Len(queue) : Told(queue, i, p)
             \/ has_subscribers[p] = watchers[p]
             \/ has_subscribers[p] /\ p \in stale
      BY <1>9 DEF ConnInv, SubscribersTold
    <3> QED
      BY <1>1, <2>3, <3>1, <3>2, <3>3, <3>4
  <2>9. ASSUME NEW u \in Target, u # t
        PROVE  Subscriptions(u, target[u])' = Subscriptions(u,
                 target[u]) /\ target'[u] = target[u]
    <3>1. target'[u] = target[u]
      BY <1>3, <2>9
    <3>2. Announced(queue, u, target[u])' <=> Announced(queue, u, target[u])
      BY <1>1, <2>1, <2>3, <2>9, <3>1 DEF Announced
    <3> QED
      BY <1>1, <1>5, <3>1, <3>2 DEF Subscriptions, ToBeListed
  <2>10. Subscriptions(t, target[t])' \in 1..2
    <3>1. Announced(queue, t, target[t])'
      BY <1>1, <1>3, <2>1, <2>3 DEF Announced
    <3> QED
      BY <1>1, <1>6, <3>1 DEF Subscriptions
  <2>11. pc \notin Connecting
    BY <1>9 DEF ConnInv, TargetsCounted
  <2>13. Covered(t, target[t])'
    BY <2>10 DEF Covered
  <2>14. \A u \in Target : u # t /\ Covered(u, target[u]) => Covered(u, target[u])'
    BY <1>1, <2>9 DEF Covered
  <2>12. TargetsCounted'
    BY <1>1, <1>2, <1>5, <1>9, <2>9, <2>11, <2>13, <2>14 DEF ConnInv, TargetsCounted
  <2> QED
    BY <1>4, <2>4, <2>7, <2>8, <2>12 DEF ConnInv
<1> QED
  BY <1>8, <1>9

(* Every step keeps the invariant.                                          *)
LEMMA ConnNext ==
    ASSUME ConnInv, [Next]_vars
    PROVE  ConnInv'
<1>1. CASE Calls
  BY <1>1, CallsKeep, ConnectsKeep
<1>2. CASE UnwantedAnswer \/ ubus_process_obj_msg \/ HangUp \/ Crash \/ Restart
  BY <1>2, UnwantedKeeps, MessageKeeps, HangUpKeeps, CrashKeeps, RestartKeeps
<1>3. ASSUME NEW t \in Target, Visit(t) \/ Publish(t) \/ Unpublish(t) PROVE ConnInv'
  BY <1>3, AppearKeeps, UnpublishKeeps, VisitKeeps
<1>4. ASSUME NEW o \in Obj, Watch(o) \/ Unwatch(o) PROVE ConnInv'
  BY <1>4, WatchKeeps DEF Watch, Unwatch, bounds
<1>5. CASE UNCHANGED vars
  BY <1>5 DEF vars, client, daemon, bounds, look, ConnInv, ConnTypes, DaemonKnows, MessagesOK,
      SubscribersTold, Told, LastTold, TargetsCounted, Listed, Answers, Covered, Subscriptions,
      Announced, ToBeListed, Live
<1> QED
  BY <1>1, <1>2, <1>3, <1>4, <1>5 DEF Next

(* The invariant of a connection that survives its daemon.                  *)
LEMMA ConnSafe == Spec => []ConnInv
<1>1. Init => ConnInv
  BY ConnInit
<1>2. ConnInv /\ [Next]_vars => ConnInv'
  BY ConnNext
<1> QED
  BY <1>1, <1>2, PTL DEF Spec

(* Auto-subscription (ubus_register_event_handler, then ubus_lookup) leaves   *)
(* no gap but the answers of the lookup that are put off and never handed     *)
(* out (__ubus_process_req_data), and it subscribes at most twice; for any    *)
(* objects, any number of crashes, and any interleaving of the answers with  *)
(* the calls of the callback and with publications.                         *)
THEOREM NothingMissed == Spec => []TargetsCovered
<1>1. ConnInv => TargetsCovered
  <2> SUFFICES ASSUME ConnInv, Settled, auto, Sub \in tree, NEW t \in Target,
                        target[t] # 0
               PROVE  subs[t] \in 1..2 \/ (subs[t] = 0 /\ <<t, target[t]>> \in missed)
    BY DEF TargetsCovered
  <2>1. Live /\ pc \in Connected /\ Len(queue) = 0 /\ pc # "lookup" /\ pc # "subscribe"
    BY DEF Settled, Connected
  <2>2. Covered(t, target[t]) /\ subs[t] \in Nat
    BY <2>1 DEF ConnInv, TargetsCounted, ConnTypes
  <2>3. ~Announced(queue, t, target[t]) /\ ~ToBeListed(t, target[t])
    BY <2>1 DEF Announced, ToBeListed
  <2> QED
    BY <2>2, <2>3 DEF Covered, Subscriptions
<1> QED
  BY <1>1, ConnSafe, PTL

(* has_subscribers is right once all messages are handled, or was not heard  *)
(* of since the reconnect; a NOTIFY of an earlier connection never counts.   *)
THEOREM SubscribersKnown == Spec => []HasSubscribersKnown
<1>1. ConnInv => HasSubscribersKnown
  <2> SUFFICES ASSUME ConnInv, Settled, NEW o \in Obj \cap tree
               PROVE  has_subscribers[o] = watchers[o] \/ (has_subscribers[o] /\ o \in stale)
    BY DEF HasSubscribersKnown
  <2>1. Live /\ Len(queue) = 0
    BY DEF Settled
  <2> QED
    BY <2>1 DEF ConnInv, SubscribersTold
<1> QED
  BY <1>1, ConnSafe, PTL
=============================================================================
