----------------------------- MODULE UbusdEvent -----------------------------
(***************************************************************************)
(* Event delivery in ubusd (ubusd_event.c): the pattern tree, the traversal  *)
(* of ubusd_send_event with its early exit, and the sequence number by which *)
(* an object with several matching patterns is served once.                 *)
(*                                                                          *)
(* A string is a sequence of numbers (characters), a pattern a key and the   *)
(* flag `partial' for a trailing "*".  The traversal is modelled entry by    *)
(* entry: ubusd is single-threaded, but sighup_handler runs ubusd_acl_load,  *)
(* and with it a whole ubusd_send_event, inside whatever was interrupted.    *)
(* The message of an event is built for its first listener and points into   *)
(* the global buffer b, which every other message is built in as well.       *)
(***************************************************************************)
EXTENDS Naturals, Sequences

CONSTANTS Object,    \* objects that listen
          Owner,     \* Object -> client
          Sender,    \* clients that send events; NULL for ubusd itself is one
          Key,       \* pattern strings
          EventId,   \* event names
          AclEvent,  \* "ubus.acl.sequence"
          MaxPat,    \* bound: event sources
          MaxSeq     \* bound: events sent

ASSUME StringsAssumption == Key \cup EventId \cup {AclEvent} \subseteq Seq(Nat)

VARIABLES patterns,      \* the tree, in order
          event_seen,    \* object -> number of the last event it was sent
          obj_event_seq, \* number of the current event
          loop,          \* the ubusd_send_event that runs, or Idle; loop.seq is a
                         \* history variable, its number when it began
          ub,            \* the one message of the running ubusd_send_event: not
                         \* built, its own text, or overwritten with another
          dest,          \* the object it is made out to and not yet sent to
          got,           \* history: object -> how often the current event was
                         \* made out to it
          strange        \* history: objects that were sent another text instead

message == <<ub, dest, strange>>
vars == <<patterns, event_seen, obj_event_seq, loop, message, got>>

Source == {ev \in [key: Key, partial: BOOLEAN, obj: Object] : ev.partial \/ ev.key # <<>>}

Idle == [id |-> <<>>, from |-> <<>>, at |-> 0, match_len |-> 0, seq |-> 0]

----------------------------------------------------------------------------
\* strcmp
Before(a, b) ==
    \E i \in 1..Len(b) :
      /\ i <= Len(a) + 1
      /\ SubSeq(a, 1, i - 1) = SubSeq(b, 1, i - 1)
      /\ i <= Len(a) => a[i] < b[i]

\* The length that ubus_strmatch_len stores; it returns a = b.
MatchLen(a, b) ==
    CHOOSE n \in 0..Len(a) :
      /\ n <= Len(b) /\ SubSeq(a, 1, n) = SubSeq(b, 1, n)
      /\ n < Len(a) /\ n < Len(b) => a[n + 1] # b[n + 1]

\* The tests on an entry that the traversal reaches.
Hit(id, ev) == id = ev.key \/ (ev.partial /\ MatchLen(id, ev.key) = Len(ev.key))

\* Fault: the tree is not kept in order.
InsertLast(tree, ev) == Append(tree, ev)

\* A new entry goes after those with the same key.
Insert(tree, ev) ==
    LET k == CHOOSE n \in 0..Len(tree) :
               \A i \in 1..Len(tree) : Before(ev.key, tree[i].key) <=> i > n
    IN  SubSeq(tree, 1, k) \o <<ev>> \o SubSeq(tree, k + 1, Len(tree))

----------------------------------------------------------------------------
Init ==
    /\ patterns = <<>>
    /\ event_seen = [o \in Object |-> 0]
    /\ obj_event_seq = 1
    /\ loop = Idle
    /\ ub = "none" /\ dest = {} /\ strange = {}
    /\ got = [o \in Object |-> 0]

ubusd_alloc_event_pattern(ev) ==
    /\ loop = Idle /\ Len(patterns) < MaxPat
    /\ patterns' = Insert(patterns, ev)
    /\ got' = [o \in Object |-> 0]
    /\ UNCHANGED <<event_seen, obj_event_seq, loop, message>>

ubusd_send_event(from, id) ==
    /\ loop = Idle /\ obj_event_seq <= MaxSeq
    /\ obj_event_seq' = obj_event_seq + 1
    /\ loop' = [id |-> id, from |-> from, at |-> 1, match_len |-> 0, seq |-> obj_event_seq']
    /\ ub' = "none" /\ dest' = {} /\ strange' = {}
    /\ got' = [o \in Object |-> 0]
    /\ UNCHANGED <<patterns, event_seen>>

\* Fault: events are looped back.
LoopBack(from, o) ==
    IF event_seen[o] = obj_event_seq
    THEN UNCHANGED <<event_seen, got, ub, dest>>
    ELSE /\ event_seen' = [event_seen EXCEPT ![o] = obj_event_seq]
         /\ got' = [got EXCEPT ![o] = @ + 1]
         /\ ub' = (IF ub = "none" THEN "own" ELSE ub)
         /\ dest' = {o}

\* Up to ubus_msg_send: the message is built, or made out to another object.
ubusd_send_event_msg(from, o) ==
    IF Owner[o] = from \/ event_seen[o] = obj_event_seq
    THEN UNCHANGED <<event_seen, got, ub, dest>>
    ELSE /\ event_seen' = [event_seen EXCEPT ![o] = obj_event_seq]
         /\ got' = [got EXCEPT ![o] = @ + 1]
         /\ ub' = (IF ub = "none" THEN "own" ELSE ub)
         /\ dest' = {o}

\* One entry of the tree.
Visit ==
    LET ev == patterns[loop.at]
        len == MatchLen(loop.id, ev.key)
    IN  /\ loop.at \in 1..Len(patterns) /\ dest = {}
        /\ len >= loop.match_len
        /\ loop' = [loop EXCEPT !.at = @ + 1, !.match_len = len]
        /\ IF Hit(loop.id, ev) THEN ubusd_send_event_msg(loop.from, ev.obj)
                               ELSE UNCHANGED <<event_seen, got, ub, dest>>
        /\ UNCHANGED <<patterns, obj_event_seq, strange>>

\* ubus_msg_send: what the buffer holds by now is written or copied.
Deliver ==
    /\ dest # {}
    /\ strange' = IF ub = "other" THEN strange \cup dest ELSE strange
    /\ dest' = {}
    /\ UNCHANGED <<patterns, event_seen, obj_event_seq, loop, ub, got>>

\* The traversal ends behind the last entry, or when the match gets shorter.
Return ==
    /\ loop # Idle /\ dest = {}
    /\ loop.at <= Len(patterns) =>
         MatchLen(loop.id, patterns[loop.at].key) < loop.match_len
    /\ loop' = Idle
    /\ UNCHANGED <<patterns, event_seen, obj_event_seq, message, got>>

AclListeners ==
    {o \in Object : \E i \in 1..Len(patterns) : patterns[i].obj = o /\ Hit(AclEvent, patterns[i])}

\* The signal interrupts a traversal: the event of ubusd_acl_load gets the next
\* number and is sent to its listeners (what they get of it is not counted).
\* If there are any its message is built in b, which the interrupted event's
\* message points to (if b grows, to what was freed: another text, too).
sighup_handler ==
    /\ loop # Idle
    /\ obj_event_seq <= MaxSeq
    /\ obj_event_seq' = obj_event_seq + 1
    /\ event_seen' = [o \in Object |->
                        IF o \in AclListeners THEN obj_event_seq + 1 ELSE event_seen[o]]
    /\ ub' = (IF ub = "own" /\ AclListeners # {} THEN "other" ELSE ub)
    /\ UNCHANGED <<patterns, loop, dest, strange, got>>

Next ==
    \/ \E ev \in Source : ubusd_alloc_event_pattern(ev)
    \/ \E from \in Sender, id \in EventId : ubusd_send_event(from, id)
    \/ Visit \/ Deliver
    \/ Return
    \/ sighup_handler

Spec == Init /\ [][Next]_vars

----------------------------------------------------------------------------
(* The tree is sorted and no object has seen an event of the future.        *)
TypeOK ==
    /\ \A i, j \in 1..Len(patterns) : i < j => ~Before(patterns[j].key, patterns[i].key)
    /\ \A i \in 1..Len(patterns) : patterns[i] \in Source
    /\ event_seen \in [Object -> 0..obj_event_seq]
    /\ got \in [Object -> Nat]
    /\ ub \in {"none", "own", "other"} /\ dest \subseteq Object /\ strange \subseteq Object

(* What an event's listeners are, without a tree: a pattern is the event's  *)
(* name, or a "*" pattern whose text begins it.                             *)
Listens(o, id) ==
    \E i \in 1..Len(patterns) :
      LET ev == patterns[i]
      IN  /\ ev.obj = o
          /\ \/ ev.key = id
             \/ ev.partial /\ Len(ev.key) <= Len(id) /\ SubSeq(id, 1, Len(ev.key)) = ev.key

(* When a traversal that was not interrupted returns, every object that      *)
(* listens to the event has got it exactly once and with its own text, and   *)
(* no other object and no object of the sender has got it: leaving the       *)
(* sorted tree early misses nothing, and interruptions of earlier events     *)
(* leave nothing behind.                                                     *)
DeliveredExactlyOnce ==
    [][Return /\ loop.seq = obj_event_seq =>
         /\ strange = {}
         /\ \A o \in Object :
              got[o] = IF Listens(o, loop.id) /\ Owner[o] # loop.from THEN 1 ELSE 0]_vars

(* The event is made out to nobody else, whatever interrupts its delivery:   *)
(* neither to an object that does not listen to it nor to one of the client  *)
(* that sends it (`do not loop back events', ubusd_event.c:117).  What is    *)
(* sent is the event itself, unless a SIGHUP interrupted this very           *)
(* traversal, for an ACL event that somebody listens to: then the text of    *)
(* that event may go to listeners of the interrupted one.                    *)
OnlyListenersServed ==
    loop # Idle => \A o \in Object :
      /\ got[o] > 0 => Listens(o, loop.id) /\ Owner[o] # loop.from
      /\ o \in strange => got[o] > 0 /\ loop.seq < obj_event_seq /\ AclListeners # {}

(* An object is sent no text but that of events it listens to: what the      *)
(* pattern tests of ubusd_send_event are for.                                *)
OwnText == \A o \in strange : Listens(o, AclEvent)

(* `do not send duplicate events' (ubusd_event.c:121).                      *)
NoDuplicates == \A o \in Object : got[o] <= 1
=============================================================================
