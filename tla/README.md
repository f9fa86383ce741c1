# A TLA+ model of ubus, libubox's event loop and uci

The repository is a collection of libraries found in routers and other small
devices: the OpenWrt stack (`ubus`, `libubox`, `uci`), an older fork of it inside
`traffic`, and third-party libraries (`linux-pam`, `jansson`, `ixml`, CGI
libraries). Most of it is sequential data handling. The parts in which several
actors meet are modelled here:

- **ubus**: a daemon (`ubusd`) to which clients connect over a Unix socket, on
  which they publish objects, call each other's methods, subscribe to each other's
  objects and send events; and **libubus**, the client's side of it;
- **libubox**: the event loop (`uloop`) under all of them, its timers, and the task
  queue on top of it;
- **uci**: configuration files that several processes read and change.

`PROJECT.json` lists the runs, the mutants with which each property is tested, the
lines every definition stands for, the findings, the hazards and the theorems.

## Inventory

### The daemon (`src/ubus/ubusd*.c`)

One thread runs the `uloop` event loop; a callback runs to its end. Concurrency
comes from the order in which clients' requests arrive, from sockets that take a
message only in part, from the peers' reading, and from a signal handler that
does real work.

| part | state | operations | what makes it correct |
|---|---|---|---|
| objects, types, subscriptions (`ubusd_obj.c`) | trees `objects`, `path`, `obj_types`; subscription lists | create, free, subscribe, unsubscribe, take and drop a type | no list or tree keeps a freed object; a type lives as long as its users; paths are unique |
| request handlers (`ubusd_proto.c`) | tree `clients`, a client's object list and command queue | ping, add/remove object, lookup, invoke, answer, notify, subscribe, unsubscribe, connect, disconnect | what a client has been told agrees with the trees; messages name objects their reader has; lookups are complete |
| events (`ubusd_event.c`) | tree `patterns`, `event_seen`, `obj_event_seq` | register, send, object events, cleanup | exactly the listeners get an event, once, not its sender |
| message buffers, transmit queue (`ubusd.c`) | `tx_queue`, `txq_ofs`, `txq_len`, reference counts, descriptors | send, enqueue, free | bytes leave in order and whole; nothing waits for ever; descriptors are closed once, at the right time |
| connections, main loop (`ubusd_main.c`) | `hdrbuf`, `pending_msg`, `pending_msg_offset`, `pending_msg_fd`, events asked for, `eof` | accept, `client_cb`, disconnect, SIGHUP | requests are whole and served; wakeups are not lost; a client that has gone is freed with everything it holds |
| access control (`ubusd_acl.c`) | ACL files and trees | load, check, query | not modelled: the verdict is an input |
| monitors (`ubusd_monitor.c`) | list of monitor clients | add, remove, copy of every message | not modelled |

Interaction: a handler changes the trees and calls `ubus_msg_send` for any number
of clients, from nested functions; the order of those calls is the order in which
a client learns of things. `ubus_msg_send` writes at once or queues; the write
event of `client_cb` flushes the queue and then continues interrupted lookups.
`ubusd_acl_check` gives a verdict to most handlers. `sighup_handler` reloads the
ACLs and sends an event inside whatever handler it interrupts.

### The client library (`src/ubus/libubus*.c`)

| part | state | operations | what makes it correct |
|---|---|---|---|
| requests (`libubus-req.c`, `libubus-io.c`) | `ctx->requests`, `ctx->pending`, `stack_depth`, `cancel_poll`, a request's `blocked`, `pending`, `status_msg` | blocking and asynchronous calls, notifications with several answers, abort, timeouts, callbacks that make calls | no request outlives its call; messages for own objects come in order; timed calls return |
| connection (`libubus.c`, `libubus-io.c`, `libubus-sub.c`, `libubus-obj.c`) | `ctx->objects`, `auto_subscribers`, the event handler's object, the reconnect timer | connect, disconnect, reconnect, republish, auto-subscribe | a client gets back after any crash of the daemon, with its objects published and nothing it wants missed |

Interaction: one thread again, but functions nest: a callback may make a blocking
call, which polls and calls further callbacks. The daemon answers or does not.

### libubox (`src/libubox`)

| part | state | operations | what makes it correct |
|---|---|---|---|
| event loop (`uloop.c`, `uloop-epoll.c`) | poll set, the batch of fetched events `cur_fds`, the stack of active callbacks, `uloop_cancelled`, `do_sigchld`, the waker pipe | add and delete descriptors, run a loop inside a callback, end, signals, children | no callback after a delete; no event and no child is lost |
| timers (`uloop.c`) | the list `timeouts` | set, cancel, process | the list is sorted well enough that due timers are found |
| task queue (`runqueue.c`, `safe_list.c`) | lists of active and waiting tasks, flags, counters, timers | add, cancel, kill, complete, stop, resume | lists, flags and counters agree; tasks end; emptiness is reported |

### uci (`src/uci`)

| part | state | operations | what makes it correct |
|---|---|---|---|
| packages (`file.c`, `delta.c`, `util.c`) | the config file, the delta file, their `flock` locks, packages in memory | load, set, save, revert, commit | the config file is always whole; a saved change is not lost; calls end |

Interaction: only through the files. A commit replaces the config file by `rename`.

### Left out

`trafficd` (an old fork of the same ubus and libubox code), `linux-pam`, `jansson`,
`ixml`, `xmldb`, the CGI libraries, `gesthiper_c`, `nku`: third-party, forks, course
projects or sequential string handling; see "Not modelled".

### What is hard here

The hazards in `PROJECT.json` each name a line. They fall into six groups:
sequences of legal requests by several clients that leave a dangling pointer or a
stale notification (`ubusd_obj.c`, `ubusd_event.c`); partial reads and writes,
unsigned counters and edge-triggered events (`ubusd.c`, `ubusd_main.c`); state kept
across a return to the event loop (an interrupted lookup, a queued descriptor, a
half received message); functions that nest through callbacks (`libubus-req.c`,
`uloop.c`, `runqueue.c`); crashes and reconnects, and messages of an earlier
connection (`libubus-io.c`); and processes that share files, and may be killed
(`uci`).

## Modules

| module | models | checked by |
|---|---|---|
| `UbusRegistry` | the trees and lists alone: the abstract specification of the daemon | `MCUbusRegistry`, proofs in `UbusRegistryProofs` |
| `Ubusd` | every request handler with all functions it calls and the messages queued, in order; implements `UbusRegistry` | `MCUbusd` (two instances), proofs in `UbusdProofs` |
| `UbusdTx` | one connection's sending half, byte by byte | itself (three instances), proofs in `UbusdTxProofs` |
| `UbusdRx` | one connection's receiving half, with eof, hang-up and answers that wait | itself, proofs in `UbusdTxProofs` |
| `UbusdEvent` | pattern matching and the traversal of the pattern tree, with SIGHUP | `MCUbusdEvent` (two instances), proofs in `UbusdEventProofs` |
| `UbusdLookup` | lookups interrupted by back-pressure and the command queue | itself (two instances) |
| `UbusdFd` | descriptor numbers in sockets, pending and queued messages | itself (two instances), proofs in `UbusdFdProofs` |
| `Libubus` | requests, nested calls and callbacks, timeouts, messages put off, connection loss | itself, proofs in `LibubusProofs` |
| `UbusAutoConn` | a client with auto-reconnect and auto-subscription, and a daemon that crashes and restarts | itself, proofs in `UbusAutoConnProofs` |
| `Uloop` | descriptors, batches of events, loops inside callbacks, signals and children | itself, proofs in `UbusdTxProofs` (third part) |
| `UloopTimeout` | the timer list and `tv_diff` | itself (extra instance), proofs in `UbusdTxProofs` (third part) |
| `Runqueue` | the task queue with callbacks that use it | itself (extra instance) |
| `Uci` | one package, its files and locks, several processes, crashes | itself (two instances), proofs in `UciProofs` |

Definitions keep the names of the C functions. Operators introduced by `Fault:`
are the mutated forms that the mutants of `PROJECT.json` put in place of the real
definition; no specification uses them.

**UbusRegistry.** A tree is a function from keys; an id that is not in a tree maps
to `NoObject`, `Null` or 0. The two lists of a subscription are one count per pair
of objects, since duplicates are allowed. `FreeObjects(O)` is `ubusd_free_object`
for a set of objects, so that a disconnect is one step. Ids are random and distinct
(`ubus_alloc_id`), so an action picks any free one. Allocation does not fail.

**Ubusd.** The state is a record `bus`, and each C function is an operator from
`bus` to `bus`: nested calls, their order and the lists' order are kept
(`list_add` puts the newest first), and a loop over a list is a `ForEach`, which
passes the state from one element to the next. A connection delivers in order (that is what
`UbusdTx` shows), so what a client will know when it has read everything is
settled when the messages are queued. `bus.view[c]` is that knowledge, updated by
`Learn` in `ubus_msg_send`; of the queue itself only the length is kept. A message
that does not fit is dropped: the client joins `lost` and the properties say
nothing of it until it reconnects. `stray` remembers that a client was sent a call,
an event or an UNSUBSCRIBE for an object it did not know at that point of its
stream. A request that publishes an object may name any id of the type tree (lookups
give them all away), and the end of a type is told to the client that removes its last
object and to nobody else; `bus.taken` remembers the type ids that a client was told
of and that another one has named since. `ImplementsRegistry` is the refinement: `Registry == INSTANCE UbusRegistry`
maps lists to counts and sets, and every handler is one registry action or leaves
the tables alone. Assumed of the constants: object ids are finitely many and `Null` is
none of the names (`IdsAssumption`); clients send no event called `ubus.object.add` or
`ubus.object.remove`, which `ubusd_forward_event` refuses (`EventAssumption`); the
bounds are natural numbers (`SizesAssumption`).

**UbusdTx.** `ubus_msg_writev` writes as much as the socket has room for. Every
call of it is a step, because the peer reads meanwhile; `pc` says whether the
transmit loop of `client_cb` is running. `txq_len` is kept modulo `W`. `ready` is
epoll's pending edge: raised by `uloop_fd_add` if there is room, and by the peer's
reads. Errors other than EAGAIN end the connection and are not modelled here.

**UbusdRx.** The stream is a sequence of pieces, each with its message, its place in
it and the length in its header (a malformed length is `Bad`); a read takes what is
there. `pc` is the place in `client_cb`: `tx`, `rx` (header), `body`, `out`. The
socket's registration, the edge, and `eof` are uloop's: `uloop_fd_add` resets `eof`
and makes epoll report again what is the case already; a hang-up takes the socket
out of the poll set. Each request is answered by one message, which may have to
wait.

**UbusdEvent.** Strings are short sequences over a small alphabet, with strcmp
order and `ubus_strmatch_len` as operators; `Listens` is the reference definition,
without a tree, against which the traversal is checked. The one message of an event
(`ub`) is built for its first listener and lies in the global buffer `b`; for each
listener it is made out to an object (`ubusd_send_event_msg`) and then sent
(`Deliver`). `sighup_handler` may come between any two of these steps: its event takes
the next number and, if anybody listens to it, overwrites `b`, so that what is sent
afterwards is another text (`strange`).

**UbusdLookup.** Paths are numbers in tree order; an object pointer is a path with
the generation it was published in, which makes a stale pointer visible. What
following one does is undefined, so the model does not go past it: `FreeCursor`
says whether the instance allows the situation at all. The socket holds `Cap`
messages. The limit of the transmit queue is not reached here (it is in `Ubusd`
and `UbusdTx`).

**UbusdFd.** `table` is the process's descriptor table with the lowest-free-number
rule; a reference is a number with the file it was obtained for. The history
variable `invoked` remembers that an INVOKE met a full socket.

**Libubus.** `stack` holds the active library functions and user callbacks, the
innermost first; an action is what the code does up to the next callback, read, write
or poll. User code may do anything the library allows, in every callback. A message
is read in two steps: its beginning is there (`MsgBegins`), and the rest has come
(`HandleRecv`); in between (`partial`) `recv_retry` waits without a time limit, and so
does `writev_retry` in a frame that is at "write". `Readable` is what may be read: an
answer to a listed request from someone it waits for, or a message for an own object;
an answer to a request that is gone (`LateMsg`) is read and ignored by
`ubus_find_request`. Any number of these may come. `down` says how the connection
ended: a write failed, a message was cut off in its body (only the next read finds the
end), or the end was read. Nobody has to answer.
`ubus_abort_request` from the callback for a DATA message that was put off is not
modelled: the code frees the entry with which its traversal goes on.

**UbusAutoConn.** Every blocking call of the connect and reconnect sequences is a
step, and the daemon may crash before, between and (for `ubus_add_object`) inside
them. The lookup is not one step: `ubusd` visits the objects in path order (`left`),
also when it goes on after waiting for room, and its answers (`sent`) are handed to
`ubus_auto_sub_lookup` one by one. Each makes a blocking subscribe call, during which
further answers are put off (`todo`, newest first); those that come while these are
handed out (`late`) wait for another answer to be read, and are lost at the STATUS
(`missed`). `gen` numbers the daemon's lives; messages carry it, since ids are drawn
afresh by each. `dropped` and `stale` are history: objects that a crash during
`ubus_refresh_state` has made fall out of `ctx->objects`, and objects whose
`has_subscribers` has not been confirmed since the reconnect.

**Uloop.** The stack holds loops and callbacks. `cur` is the batch of fetched
events, which nested loops share. A descriptor is level- or edge-triggered; its
callback reads everything when it is called. Signals come between any two steps.

**UloopTimeout.** Times are pairs of seconds and microseconds as in `struct
timeval`; `tv_usec` may stay at 1000000 (the code compares with `>`). The clock
takes any of the values of `Clock`.

**Runqueue.** As `Libubus`: a stack of functions and callbacks; the iterators of
`safe_list_for_each` are in its frames and are moved by `safe_list_del`.

**Uci.** A change is a model value and a file is the set of changes it holds;
changes concern different options, so that order does not matter. The path of the
config file names a numbered file; a process that waits for a lock waits for the
lock of the file it opened. A step is what happens under one lock, except in
`uci_file_commit` and `uci_revert`, which are cut at every file operation. A process
may be killed between any two steps, and while it writes the delta file
(`CrashInSave`, `CrashInRebuild`): then some of its changes are in the file, and the
last line may have no end (`torn`), so that any of the changes appended behind it may
be misread. `mkstemp` and the rename (with `realpath`, `stat` and `chmod`) may fail.
`exposed` collects the changes that met a window in which the code does not protect
them.

## Runs

- **registry**: 2 clients, 3 objects, 2 paths, 1 type, 1 pattern, up to 2 equal
  subscriptions. Three objects of two clients give sharing of a type, a path that
  changes hands, chains and duplicates of subscriptions. Symmetric. The remaining
  registry invariants (`TypeOK`, `ObjectsOwned`, `NoDanglingPattern`) are proved
  with these (`RegistryConsistent`).
- **ubusd_subscribe**, **ubusd_objects**: two sets of requests (`Cmd`), each with
  2 clients and 3 objects. The first has subscriptions (up to 3), notifications, calls,
  answers and pings, and queues of 4 messages; the second a path, a type that either
  client may name, an event pattern and events, and queues of 3 messages. A queue can
  overflow within a removal. Every handler fires in one of them, disconnects in both.
  `NothingForTheGone` is the model's form of "no use of a freed `struct ubus_client`".
- **tx**: header 2, data 1 or 3, limit 5, socket 4, counters modulo 16, 4 messages:
  messages both smaller and larger than the socket, splits inside the header, and
  more messages than the counter needs to wrap.
- **rx**: header 2, data 0 or 2 or malformed, 4 messages, one answer fits into the
  socket: requests split anywhere, several behind one edge, answers that wait while
  requests arrive, half-closed and closed clients at every point. A request in
  front of a close may be skipped (eof overtakes it); the property says so.
- **event**: all trees of 3 patterns over strings of length up to 2 on two
  letters, two objects of which one may belong to the sender, 3 events (those of a
  SIGHUP included), each of which a SIGHUP may interrupt before, between and after the
  listeners.
- **lookup**: 3 paths, 2 lookups, 3 publications, socket of 1 message: a lookup
  that stops again, two that wait, objects coming and going before and behind the
  stopping place.
- **fd**: 2 clients, 4 numbers, 6 files, queues of 2: the table runs
  full and numbers are reused.
- **libubus**: 3 requests, 3 DATA and 2 object messages, notifications with 2
  subscribers of which one fits (`UBUS_MAX_NOTIFY_PEERS`): a call in a callback of
  a call in a callback, answers in every order and in pieces, writes that wait,
  timeouts at every depth, with and without an event loop. Late messages are not
  bounded, so that reading may go on for ever.
- **autoconn**: 1 object, 3 wanted objects, 3 lives of the daemon, so that one
  recovery is interrupted by the next crash, and 3 publications and subscriptions by
  others: with three answers one can come while a put-off one is handed out, the least
  with which an answer is lost.
- **uloop**: an edge- and a level-triggered descriptor, a child, stacks of 4 (a
  loop in a callback of a loop, with a callback in it), 2 arrivals and 2 operations
  of callbacks.
- **uci**: 3 processes, 2 changes, 5 calls, 2 new files, one crash: two commits and
  a save or a load between their steps, a torn line and a save or revert after it.

`CHECK_DEADLOCK FALSE` is given where the instance ends at a bound (`MaxSeq`,
`MaxFile`, `MaxReq`, `MaxOps`, `MaxCalls`, ...), or the program may legitimately end
(a loop that is left, a client that has gone).

### Further instances

These are kept beside the runs and started by hand. They show behaviour that a
comment of the code rules out, one finding each:

| command | what it shows |
|---|---|
| `tlc -config UbusdTx_torn.cfg UbusdTx` | a partial write of more than `ub->len` bytes makes `txq_len + ub->len` wrap, and the message is refused with its beginning already on the wire (`WholeMessages`) |
| `tlc -config UbusdTx_drop.cfg UbusdTx` | the header is subtracted from `txq_len` but never added; after a few messages the counter wraps and refuses messages that would fit (`DropOnlyWhenFull`) |
| `tlc -config MCUbusdEvent_sighup.cfg MCUbusdEvent` | the nested `ubusd_send_event` changes `obj_event_seq` under the interrupted traversal, and an object gets one event twice (`NoDuplicates`); it also overwrites the buffer of the interrupted event's message, and a listener of the latter gets the text of an ACL event that it does not listen to (`OwnText`). TLC stops at the first of the two it meets; give one of them to see each |
| `tlc -config UbusdLookup_stale.cfg UbusdLookup` | the object from which a waiting lookup would go on is freed (`CursorLive`) |
| `tlc -config UbusdFd_invoke.cfg UbusdFd` | an INVOKE that has to wait loses its descriptor (`QueuedFdKept`) |
| `tlc -config Uci_diskfull.cfg Uci` | errors of writing the temporary file are not looked at, and a part of it becomes the config file (`ConfigWhole`) |

And two that pass:

- `tlc -config UloopTimeout.cfg UloopTimeout`: 3 timers, clock values around full
  milliseconds and a full second; the invariants that
  `UbusdTxProofs` proves.
- `tlc -config Runqueue.cfg Runqueue`: 3 tasks, one of which may run, 5 operations,
  stacks of 5: `QueueConsistent`, `TasksEnd`, `EmptyIsReported`. The exceptions these
  name are the code's: `runqueue_kill` cancels the queue's timer although a complete
  callback may have added a task.

The runs say what holds nevertheless: framing up to a tear (`FramedUnlessTorn`), the
exact drift of the counter (`CounterMeaning`), no event made out to a wrong object
under SIGHUP and no wrong text but after one that interrupted this very event
(`OnlyListenersServed`), complete lookups while the stopping object lives, descriptor safety of
answers, no descriptor leak at all. For `Ubusd`, `Libubus`, `UbusAutoConn`, `Uloop` and `Uci`
the exceptions are in the properties themselves:

- a client may not be told the end of a type that another client has named (`taken`);
- a DATA message put off while others are handed out is lost (`late`), and with it an
  object that an auto-subscription wants (`missed`);
- a call with a time limit does not return while libubus waits for the rest of a
  message or for room to write, or reads messages that come without end (`Reading`,
  `Writing`), or while a call without a limit inside it waits (`Untimed`);
- an object that was being republished when the daemon crashed is not published again
  (`dropped`), and its idea of having subscribers may be out of date (`stale`);
- a callback may be called once more for buffered events after its descriptor was
  deleted (`buffered`);
- saved changes can be lost (`exposed`): between a commit's reading and emptying of the
  delta file; from there to the rename if the process dies or `mkstemp` or the rename
  fails; when two commits overlap; when a save or a revert is killed while it writes;
  and behind a line that a killed writer left without its end. Each of these clauses
  is needed: without it `LostOnlyInWindow` is violated.

### Fairness

- `UbusdTx!FairSpec`, `UbusdLookup!Spec`, `UbusdRx!Spec`: the event loop reports a
  pending event (`uloop_run` polls for ever), a callback runs to its end (one thread,
  non-blocking sockets), and the peer goes on reading. The last is an assumption on
  the client; without it a queue may stay full for ever, and the code has no timeout
  for that. In `UbusdRx` it is only assumed of a client that has closed its sending
  side.
- `Libubus!Spec`: library functions and callbacks go on, the pending timer expires,
  and a timed call that looks at the clock again and again finds its time over
  (strong fairness of `TimesOut`: between two looks it polls, so it is not enabled
  all the time, and `get_time_msec` grows). No answer is ever assumed, nor that
  `ubusd` completes a message that it has begun or takes what is written: there is no
  fairness for `HandleRecv`, `Sent` and `Answered`, and the liveness properties except
  behaviours that end in reading or in writing.
- `UbusAutoConn!Spec`: calls of a live connection return (a daemon that runs reads and
  completes its messages, which is more than `Libubus` assumes), `ubusd` goes on with a
  lookup, timers expire, messages are read, and init restarts the daemon. Crashes are bounded by `MaxGen`: a daemon that
  crashes for ever is never recovered from.
- `Uloop!Spec`: loop and callbacks go on; no event, signal or exit need come.
- `Runqueue!Spec`: functions and callbacks return, timers expire; tasks need not end.
- `Uci!Spec`: each process goes on; `flock` is granted in the end because calls are
  bounded (`MaxCalls`): with endless loads a shared lock could keep a commit out.

No fairness is assumed for requests, connects, disconnects, crashes or user calls.

## Proofs

`UbusRegistryProofs`: `RegInv`, the conjunction of the six registry invariants, is
inductive (theorem `RegistryConsistent`); `SubscriptionsSafe`, `TypeRefcountSafe`
and `PathTreeSafe` follow. Assumptions: the set of object ids is finite, `Null` is
no id, path or type. The conjuncts need each other: a reference count can only be
shown equal to the number of users if a freed id carries nothing over
(`ObjectsOwned`), and it does not go below zero (`TypeOK`) because it is that
number. The lemma `FreeObjectsKeeps` covers `ubusd_free_object` and a whole
disconnect alike; the cardinality facts are in `UsersFinite` and `CreateRefs`.

`UbusdProofs`, for any clients, objects, paths, types and patterns, any relation
`Matches` between events and patterns, and any limits. The assumptions are the three
of the module.

- `Invariant`: `Inv` is inductive. Its first half, `TablesOK`, is the consistency of
  the trees and lists: a live object has a connected client, paths and objects point
  at each other, types count their users, subscriptions join live objects of different
  clients, event sources are of live objects, a client's list has each of its objects
  once. Its second half is `OK(bus, c, {})` for every client: unless it has lost a
  message, what it will know from the messages sent is what the tables say, it was
  never sent anything for an object it did not know, its queue is within the limit, and
  empty while it is not connected. Three clauses are stronger than
  the properties: a type id that a client knows is used by this client's objects and
  by no others, unless it is in `taken` (somebody else's removal may take it away
  untold); whatever a
  listener has seen belongs to an object of its own that listens for additions still;
  and a client that has lost a message knows nothing.
- A handler is several functions, and between them the invariant is broken: a removal
  is answered before the object is freed, a creation after the object is in the trees
  and its event is sent. `OK(B, c, X)` says that `c` knows the tables but for the
  objects `X`. Each function has a lemma that keeps `OK` for the `X` of that moment
  (`ubus_subscribe` and `ubus_unsubscribe`, `LeaveTargets`, `DropSubscribers`,
  `ubusd_send_event`, `WithdrawPath`, `FreeId`, `ubusd_create_object`); a handler
  composes them and ends with `X` empty. In a disconnect nothing is promised to the
  client that goes, and every round of the loop over its objects keeps `OK` for the
  others.
- `OwnersKnow`, `SubscribersKnow`, `ClientsKnow`, `ListenersTrack`, `NoStrays`,
  `NoneForTheGone` and `TypesCorrect` follow from `Inv`, state by state. That nothing is
  queued for a client that has been freed rests on `TablesOK`: every message goes to the
  client of a live object, and that client is connected.
- `IsRegistry`: the refinement. With `Inv` every step is one of six kinds: nothing
  but messages, a connection, a new object, a new event source, one subscription more
  or less, a set of objects freed. Each is an action of `UbusRegistry` under
  the mapping. Reference counts are compared through the number of users of a type
  (`TypesLess`), and list operations through how often an element occurs (`Count`).
- Loops: `Unroll` gives the sequence of intermediate states of a `ForEach` whose body
  is a function, and `Rounds` the induction over it, from the least round that fails.

`UbusdTxProofs`, for every header size, set of lengths, socket size and limit,
provided the counter's range exceeds twice the limit:

- `TxInv == TypeOK /\ OffsetInHead /\ NoLostWakeup` is inductive (`TxSafe`);
  `OffsetSafe` and `WakeupSafe` follow. `NoLostWakeup` needs the offset to be inside
  the head of the queue: only then does a round that does not finish its message
  leave the socket full.
- `CounterSafe`: `CounterMeaning` is inductive together with `TxInv`. The sum over the
  queue is kept by lemmas on taking the first message off and adding one at the end.
- `FramingSafe`: `FramedUnlessTorn` needs `WireInv`, which says where the last message
  on the wire is broken off: exactly at `txq_ofs` of the head of the queue, and at a
  boundary when the queue is empty; and `QueueOrdered`, the ids of the queued messages.

`UbusdTxProofs`, second part, about `UbusdRx` through `Rx == INSTANCE UbusdRx`.
`WholeRequests`: the requests handed on are whole messages of the
stream, in order, for every header size and all lengths. The inductive invariant
`RxInv` adds the position in the stream: what was read is what was handed on and the
buffer (`Position`), and the buffer is a beginning of the next message whose header
has been looked at exactly when it is complete (`Pending`). The header is not empty
and lengths are natural numbers, as for the sending half.

`UbusdFdProofs`, `NoLeak` and `HeldFdsIntact`, for any clients, any number of
descriptors and any queue length. `NoFdLeak` alone is not inductive: a message that is
freed closes its number, and this must not take the number away from another holder.
`FdInv` therefore says that no two holders have the same descriptor and that each
number stands for the file it was obtained for (`Owned`), until an INVOKE had to wait,
after which the code really breaks that; `Held`, every open number has a holder, does
not need it. Assumed: sizes are natural numbers.

`UbusdEventProofs`, for any strings and patterns, any objects and owners, and SIGHUP
at any point. `OnlyListeners`: `ubusd_send_event` serves nobody but listeners, and with
the event's own text unless a SIGHUP interrupted this traversal and the ACL event has
listeners. `Delivered`: a traversal that was not interrupted has served each listener
once, with its own text. The reason is the order of the tree: entries are sorted as strings, so the
length they have in common with the event's id grows up to the place of the id and
shrinks after it, and an entry behind the first one that has less in common
(`match_len`) can neither be the id nor a prefix of it. `EventInv` says which listeners
are served at a point of the traversal: those with a matching entry in front of the
cursor. Assumed: event ids and patterns are sequences of character codes.

`LibubusProofs`, for any number of requests, answers and objects and any
depth of calls in callbacks:

- `LiveRequests` and `DataHandedOut` from `ReqInv`: the entries of `ctx->requests` are
  distinct, without a status and, unless asynchronous, of a call on the stack
  (`ListOK`); each frame of the stack is at a point that fits the state of its request
  (`StackOK`); and the counts of DATA messages received, handed out and put off agree
  (`RequestsOK`). The invariant must speak of the whole stack, since a callback may
  return into any of the calls below it.
- `ObjectsInOrder` from `ObjInv`: what was served followed by what is pending is the
  stream, and one message is handled at a time. It also needs `Mid`: while `recv_retry`
  waits for the rest of a message, nothing is put off that could be handled first.

`UbusAutoConnProofs`, for any objects and targets, any number of daemon crashes and
any bounds. Assumed (`NamesAssumption`): the two objects of the auto-subscription are
not among the process's other objects, and targets are numbers (in path order).

- `NothingMissed`: `TargetsCovered` speaks of settled states only. The invariant counts
  promises instead (`TargetsCounted`): for each published target the subscriptions made,
  an event on its way, and a lookup that has yet to visit it or to hand out its answer
  (`ToBeListed`) add up to two at most, and to none only if its answer was missed
  (`Covered`), at every point after the registration. `Listed` says that there is one
  answer at most about a target, and none before its visit.
- `SubscribersKnown`: the last NOTIFY of this connection still on its way tells the
  truth (`SubscribersTold`), and messages of earlier connections, which stay in the
  queue after a crash, are told apart by their connection (`MessagesOK`).
- Both need `DaemonKnows`: what client and daemon hold of each other, and that nothing
  of it outlives the connection.

`UbusdTxProofs`, third part, about the event loop that calls all this:

- `DeletedSilent`, through `Poll == INSTANCE Uloop`, for any finite set of descriptors
  that are neither the waker pipe nor `None` (`FdsApart`, the assumption of `Uloop`)
  and any nesting of loops: the invariant `LoopInv` says that the batch of fetched events (`cur`), which all loops
  share, names no deleted descriptor. `uloop_fd_delete` establishes it for its own
  descriptor and a fetch by a loop inside a callback replaces the batch as a whole.
- About `UloopTimeout`, through `Timers == INSTANCE UloopTimeout`, for any timers and
  any natural numbers as delays and clock readings: the timer list is sorted up to a
  millisecond (`TimersSorted`), and after `uloop_process_timeouts` no timer is overdue
  by a millisecond or more (`TimersServed`). `tv_diff` rounds towards zero on the
  microseconds alone, so it is off by less than a millisecond in either direction
  (`DiffBounds`) and "not later than" is not transitive; a list built by insertion is
  still nearly sorted, because an insertion compares the new timer with every one in
  front of it. The inductive invariant `TimersInv` adds that no timer is in the list
  twice (setting a pending timer takes it out first) and that the time last read is not
  in the future (a timer set after it is not overdue with respect to it).

`UciProofs`, for any processes, changes, calls and crashes:

- `ChangesKept`: `LostOnlyInWindow` is part of `UciInv`. It needs to know that the
  files a commit may still read or put in place hold the same changes but for exposed
  ones (`SameContents`), that a temporary file belongs to one process (`TmpPrivate`),
  that a commit's memory is its file and the delta it parsed (`CommitHas`), what was
  saved between its reading and emptying the delta (`FlushKnows`), and that the delta is
  locked while a revert has it in memory (`DeltaLocked`). Saves and reverts that are
  killed, and saves behind a torn line, add to `exposed` what they did not write.
- `LoadsComplete` adds `LoadProtected`: while such a load holds its shared lock, every
  commit waits before it has read anything.
- `ConfigSafe`, if the disk does not fill up: also, what is renamed was exported
  completely (`TmpWhole`). With `DiskFull` the property is false (`Uci_diskfull.cfg`).

Facts that are usually proved by induction on a number (the first message of a stream
that is not whole, the first entry that matches) are proved here from a least
counterexample: the natural numbers are well founded (`NatLessThanWellFounded`,
`WFMin`), and no operator has to be instantiated.

Only model-checked:

- `AnswersComplete` of `UbusdLookup`, which is about `SelectSeq` over the path tree;
- `QueueConsistent` of `Runqueue`;
- all liveness properties, since TLAPS does not handle liveness under fairness.

## Not modelled

- In ubus: failing allocations; malformed messages beyond the lengths `client_cb`
  and the attributes handlers test for; text, blobs and policies; start-up and
  options; ACL contents and their reload (the verdict is an input); monitors; on the
  client's side `ubus_remove_object`, ACLs, descriptors in messages, and the numbers
  of descriptors over a reconnect.
- In libubox: `ustream`, `usock`, `vlist`, `avl`, blobs, JSON scripting, md5, the
  kqueue variant.
- In uci: overwriting commits, packages outside the config directory, parsing and
  export of the text, conflicting changes, further delta directories.
- The rest of the repository, by far the larger part of its lines, is third-party
  code (`linux-pam`, `jansson`, `ixml`), a fork of what is modelled (`trafficd`) or
  programs that parse and print strings in one thread (`xmldb`, CGI libraries, `nku`,
  `gesthiper_c`). There is nothing in it for a model checker to interleave.

## Plan

Done: the daemon but for ACLs and monitors; the client library's requests and its
connection; event loop, timers and task queue; uci's files; proofs for all of them but
the lookup and the task queue. Next, in this order:

1. Proofs: `AnswersComplete` of `UbusdLookup`, `QueueConsistent` of `Runqueue`.
2. `UbusSystem`: `Libubus` twice with `Ubusd`, a call from request to answer as the
   abstract specification.
3. `UbusdAcl` and `UbusdMonitor`: the best-match check against a reference
   definition, reload under check, nested sends to monitors.
4. `Ustream`: buffers, pending reads and notifications.
