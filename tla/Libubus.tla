------------------------------ MODULE Libubus -------------------------------
(***************************************************************************)
(* A process that uses libubus: requests, the nesting of calls inside        *)
(* callbacks, timeouts and late answers, and messages for the process's own  *)
(* objects that arrive while a call waits (libubus-req.c, libubus-io.c,      *)
(* libubus.c).                                                              *)
(*                                                                          *)
(* The process has one thread.  `stack' holds the library functions and the  *)
(* user's callbacks that are active, the innermost first; every action is    *)
(* what the code does up to the next callback, read, write or poll.  Reading *)
(* the rest of a message and writing one wait without a limit (wait_data).   *)
(* Requests are numbered in the order they are started: the number stands    *)
(* for the sequence number (16 bits, no wrap while an answer can arrive).    *)
(***************************************************************************)
EXTENDS Naturals, Sequences, SequencesExt, FiniteSetsExt

CONSTANTS MaxReq,    \* bound: requests started
          MaxData,   \* bound: DATA messages accepted
          MaxObj,    \* bound: messages for the process's objects
          NumPeers,  \* bound: subscribers that answer a notification
          MaxPeers   \* UBUS_MAX_NOTIFY_PEERS

ASSUME BoundsAssumption == {MaxReq, MaxData, MaxObj, NumPeers, MaxPeers} \subseteq Nat

VARIABLES req,         \* the requests
          requests,    \* ctx->requests, a list
          pending,     \* ctx->pending: object messages put off
          timer,       \* ctx->pending_timer is set
          cancel_poll, \* ctx->cancel_poll
          down,        \* how the connection ended: "no", a "write" failed, a message
                       \* was "cut" off, the end was "read"
          lost,        \* connection_lost has been called
          registered,  \* ctx->sock.registered: the process runs the event loop
          partial,     \* part of a message is read, recv_retry waits for the rest
          stack,       \* active functions, innermost first
          objs,        \* object messages read so far
          datas,       \* DATA messages accepted so far
          served       \* history: object messages handed to their handler

vars == <<req, requests, pending, timer, cancel_poll, down, lost, registered,
          partial, stack, objs, datas, served>>

----------------------------------------------------------------------------
Req == 1..MaxReq
Ubusd == 0

\* pend counts the DATA messages put off; late says that one was put off while
\* the ones put off before were handed out.
NoReq == [kind |-> "none", timed |-> FALSE, ids |-> <<>>, status |-> "none",
          blocked |-> FALSE, pend |-> 0, late |-> FALSE]
Ended == [NoReq EXCEPT !.kind = "ended"]

\* The functions on the stack: r is a request or an object message, at a place
\* in the function, n the entries that a traversal has still to visit, or the
\* time limit of a call.
Frame(f, r, at, n) == [f |-> f, r |-> r, at |-> at, n |-> n]
Top(f, at) == IF stack = <<>> THEN FALSE ELSE Head(stack).f = f /\ Head(stack).at = at
User == stack # <<>> => Head(stack).at = "user"

\* ctx->stack_depth > 0: a blocking call or an object's handler is active.
Nested(st) == \E i \in 1..Len(st) : st[i].f \in {"complete", "handler"}

\* The frame on top goes on at another place.
Goto(at) == <<[Head(stack) EXCEPT !.at = at]>> \o Tail(stack)

Running(f, r) == \E i \in 1..Len(stack) : stack[i].f = f /\ stack[i].r = r
Traversed(r) == \E i \in 1..Len(stack) : stack[i].f = "pend" /\ stack[i].r = r
                                         /\ stack[i].at = "next"
Listed(r) == r \in Range(requests)
Started == Cardinality({r \in Req : req[r].kind # "none"})

\* ctx->sock.eof: a write has failed, or the end of the stream has been read.
eof == down \in {"write", "read"}
AtEnd == down \in {"cut", "read"}
WriteFails == down' = IF AtEnd THEN "read" ELSE "write"

----------------------------------------------------------------------------
Init ==
    /\ req = [r \in Req |-> NoReq] /\ requests = <<>>
    /\ pending = <<>> /\ timer = FALSE /\ cancel_poll = FALSE
    /\ down = "no" /\ lost = FALSE /\ registered \in BOOLEAN /\ partial = FALSE
    /\ stack = <<>> /\ objs = 0 /\ datas = 0 /\ served = <<>>

\* A request is sent: __ubus_start_request and ubus_complete_request_async.
Send(r, new) ==
    /\ down = "no"
    /\ req' = [req EXCEPT ![r] = new]
    /\ requests' = <<r>> \o requests
    /\ UNCHANGED down

\* On a connection that is closed the write fails, and the caller is told.
SendFails(r) ==
    /\ WriteFails
    /\ req' = [req EXCEPT ![r] = Ended]
    /\ UNCHANGED requests

NewReq(kind, timed) == [NoReq EXCEPT !.kind = kind, !.timed = timed, !.ids = <<Ubusd>>]

\* ubus_invoke, ubus_notify, ubus_lookup... ("sync", and ubus_complete_request
\* then waits for the answer), ubus_invoke_async... with
\* ubus_complete_request_async ("async").  The request is written first.
Call(kind, limit) ==
    /\ User /\ Started < MaxReq /\ ~lost
    /\ stack' = <<Frame(kind, 0, "write", limit)>> \o stack
    /\ UNCHANGED <<req, requests, pending, timer, cancel_poll, down, lost, registered, partial,
                   objs, datas, served>>

\* writev_retry has written the request, or has failed.
Sent ==
    LET fr == Head(stack)
        r == Started + 1
    IN  /\ Top("sync", "write") \/ Top("async", "write")
        /\ Started < MaxReq
        /\ \/ /\ Send(r, NewReq(fr.f, fr.n # 0))
              /\ stack' = IF fr.f = "sync"
                          THEN <<Frame("complete", r, "loop", 0)>> \o Tail(stack)
                          ELSE Tail(stack)
           \/ SendFails(r) /\ stack' = Tail(stack)
        /\ UNCHANGED <<pending, timer, cancel_poll, lost, registered, partial, objs, datas, served>>

\* User code gives a request up.  (Not from the callback for a DATA message
\* that was put off: that frees the entry with which the traversal goes on.)
ubus_abort_request(r) ==
    /\ User /\ Listed(r) /\ req[r].kind = "async" /\ ~Traversed(r)
    /\ requests' = RemoveFirst(requests, r)
    /\ req' = [req EXCEPT ![r] = Ended]
    /\ UNCHANGED <<pending, timer, cancel_poll, down, lost, registered, partial, stack, objs,
                   datas, served>>

\* A callback returns.
Return ==
    /\ stack # <<>> /\ User
    /\ stack' = Tail(stack)
    /\ req' = IF Head(stack).f = "complete_cb" THEN [req EXCEPT ![Head(stack).r] = Ended] ELSE req
    /\ UNCHANGED <<requests, pending, timer, cancel_poll, down, lost, registered, partial,
                   objs, datas, served>>

\* A method handler's answer is written after it, and may fail.
Answer ==
    /\ Top("handler", "user")
    /\ stack' = Goto("write")
    /\ UNCHANGED <<req, requests, pending, timer, cancel_poll, down, lost, registered, partial,
                   objs, datas, served>>

Answered ==
    /\ Top("handler", "write")
    /\ stack' = Tail(stack)
    /\ WriteFails \/ (down = "no" /\ UNCHANGED down)
    /\ UNCHANGED <<req, requests, pending, timer, cancel_poll, lost, registered, partial, objs,
                   datas, served>>

----------------------------------------------------------------------------
\* ubus_req_complete_cb: for a blocking call it is ubus_sync_req_cb.
complete_cb(r, st) ==
    IF req[r].kind = "sync"
    THEN cancel_poll' = TRUE /\ stack' = st
    ELSE stack' = <<Frame("complete_cb", r, "user", 0)>> \o st /\ UNCHANGED cancel_poll

\* Fault: a request that is blocked stays in the list.
KeepBlockedListed(r, R, code, st) ==
    /\ req' = [R EXCEPT ![r].status = code]
    /\ IF req[r].blocked
       THEN stack' = st /\ UNCHANGED <<cancel_poll, requests>>
       ELSE requests' = RemoveFirst(requests, r) /\ complete_cb(r, st)

ubus_set_req_status(r, R, code, st) ==
    /\ requests' = RemoveFirst(requests, r)
    /\ req' = [R EXCEPT ![r].status = code]
    /\ IF req[r].blocked THEN stack' = st /\ UNCHANGED cancel_poll
                         ELSE complete_cb(r, st)

\* ubus_process_req_status and ubus_process_notify_status.  The first status
\* comes from ubusd, or in its name; that of a notification (subs) says whose
\* answers will follow.
Status(m, st) ==
    LET r == m.r
        more == SubSeq(m.subs, 1, Min({Len(m.subs), MaxPeers}))
        R == [req EXCEPT ![r].ids = RemoveFirst(@, m.from) \o more]
    IN  IF R[r].ids = <<>> THEN ubus_set_req_status(r, R, "OK", st)
        ELSE req' = R /\ stack' = st /\ UNCHANGED <<requests, cancel_poll>>

\* ubus_process_req_data: a message that comes while the callback for an
\* earlier one is active is put off.
Data(m, st) ==
    LET r == m.r
    IN  /\ IF req[r].blocked
           THEN /\ req' = [req EXCEPT ![r].pend = @ + 1, ![r].late = @ \/ Traversed(r)]
                /\ stack' = st
           ELSE /\ req' = [req EXCEPT ![r].blocked = TRUE]
                /\ stack' = <<Frame("data_cb", r, "user", 0), Frame("pend", r, "start", 0)>> \o st
        /\ UNCHANGED <<requests, cancel_poll>>

\* ubus_process_msg and ubus_queue_msg for INVOKE, UNSUBSCRIBE and NOTIFY.
ObjMsg(m, st) ==
    IF Nested(st)
    THEN /\ pending' = Append(pending, m.r)
         /\ timer' = (timer \/ registered)
         /\ stack' = st /\ UNCHANGED served
    ELSE /\ stack' = <<Frame("handler", m.r, "user", 0)>> \o st
         /\ served' = Append(served, m.r)
         /\ UNCHANGED <<pending, timer>>

ubus_process_msg(m, st) ==
    IF m.type = "OBJ"
    THEN ObjMsg(m, st) /\ objs' = m.r /\ UNCHANGED <<req, requests, cancel_poll, datas>>
    ELSE /\ \/ m.type = "STATUS" /\ Status(m, st) /\ UNCHANGED datas
            \/ m.type = "DATA" /\ Data(m, st) /\ datas' = datas + 1
         /\ UNCHANGED <<pending, timer, served, objs>>

\* What may be read next.  An answer finds its request by number and by who
\* sent it (ubus_find_request).
\* Nothing obliges ubusd or a peer to answer: ubusd keeps no record of a call
\* that it has forwarded.
Msg(type, r, from, subs) == [type |-> type, r |-> r, from |-> from, subs |-> subs]
AnswersFor(r, p) ==
    {Msg("STATUS", r, p, [i \in 1..k |-> i]) : k \in IF p = Ubusd THEN 0..NumPeers ELSE {0}}
      \cup IF datas < MaxData THEN {Msg("DATA", r, p, <<>>)} ELSE {}
Found == UNION {AnswersFor(r, p) : r \in Range(requests), p \in 0..NumPeers}
Readable ==
    IF AtEnd THEN {}
    ELSE {m \in Found : m.from \in Range(req[m.r].ids)}
           \cup IF objs < MaxObj THEN {Msg("OBJ", objs + 1, Ubusd, <<>>)} ELSE {}

Drain == Frame("drain", 0, "loop", 0)
MustDrain == pending # <<>> /\ ~Nested(stack)

\* get_next_msg finds nothing, or the end of the stream.
NothingToRead ==
    /\ stack' = Goto("exit")
    /\ down' \in IF AtEnd THEN {"read"} ELSE {down, "read"}
    /\ UNCHANGED <<req, requests, pending, timer, cancel_poll, partial, objs, datas, served>>

\* Part of a message is there: recv_retry waits for the rest.
MsgBegins ==
    /\ ~AtEnd
    /\ partial' = TRUE
    /\ UNCHANGED <<req, requests, pending, timer, cancel_poll, down, stack, objs, datas, served>>

\* Fault: messages that were put off are not looked at before the next one.
ReadFirst ==
    /\ Top("handle", "loop") /\ ~partial
    /\ NothingToRead \/ MsgBegins
    /\ UNCHANGED <<registered, lost>>

\* ubus_handle_data: messages that were put off, then the next one to read.
HandleLoop ==
    /\ Top("handle", "loop") /\ ~partial
    /\ IF MustDrain
       THEN /\ stack' = <<Drain>> \o stack
            /\ UNCHANGED <<req, requests, pending, timer, cancel_poll, down, partial, objs,
                           datas, served>>
       ELSE NothingToRead \/ MsgBegins
    /\ UNCHANGED <<registered, lost>>

NextMsg == \E m \in Readable : ubus_process_msg(m, Goto("check")) /\ UNCHANGED down

\* An answer that finds no request: it is late, and is ignored.
LateMsg ==
    /\ stack' = Goto("check")
    /\ UNCHANGED <<req, requests, pending, timer, cancel_poll, down, objs, datas, served>>

\* The connection ends in the middle of a message: of its header, or of its
\* body, when only the next read finds the end.
CutOff ==
    /\ stack' = Goto("exit")
    /\ down' \in IF eof THEN {"read"} ELSE {"cut", "read"}
    /\ UNCHANGED <<req, requests, pending, timer, cancel_poll, objs, datas, served>>

\* get_next_msg and ubus_process_msg, once the message is complete.
HandleRecv ==
    /\ partial /\ partial' = FALSE
    /\ NextMsg \/ LateMsg \/ CutOff
    /\ UNCHANGED <<registered, lost>>

\* After connection_lost the event loop is being left (uloop_cancelling).
HandleCheck ==
    /\ Top("handle", "check")
    /\ stack' = Goto(IF cancel_poll \/ (lost /\ registered) THEN "exit" ELSE "loop")
    /\ UNCHANGED <<req, requests, pending, timer, cancel_poll, down, lost, registered, partial,
                   objs, datas, served>>

HandleExit ==
    /\ Top("handle", "exit")
    /\ IF MustDrain THEN stack' = <<Drain>> \o stack /\ UNCHANGED lost
                    ELSE stack' = Tail(stack) /\ lost' = (lost \/ eof)
    /\ UNCHANGED <<req, requests, pending, timer, cancel_poll, down, registered, partial, objs,
                   datas, served>>

ubus_process_pending_msg ==
    /\ Top("drain", "loop")
    /\ IF MustDrain
       THEN /\ stack' = <<Frame("handler", Head(pending), "user", 0)>> \o stack
            /\ served' = Append(served, Head(pending))
            /\ pending' = Tail(pending)
       ELSE stack' = Tail(stack) /\ UNCHANGED <<pending, served>>
    /\ UNCHANGED <<req, requests, timer, cancel_poll, down, lost, registered, partial, objs,
                   datas>>

\* Fault: the entries put off are left where they are.
DropPutOff ==
    /\ stack # <<>> => Head(stack).f = "pend"
    /\ stack # <<>>
    /\ LET r == Head(stack).r
       IN  /\ req' = [req EXCEPT ![r].blocked = FALSE]
           /\ IF req[r].status # "none" THEN complete_cb(r, Tail(stack))
              ELSE stack' = Tail(stack) /\ UNCHANGED cancel_poll
    /\ UNCHANGED <<requests, pending, timer, down, lost, registered, partial, objs, datas,
                   served>>

\* __ubus_process_req_data visits the entries that are there when it starts;
\* list_add puts later ones in front, where the traversal has been.
ProcessReqData ==
    /\ stack # <<>> => Head(stack).f = "pend"
    /\ stack # <<>>
    /\ LET r == Head(stack).r
           n == IF Head(stack).at = "start" THEN req[r].pend ELSE Head(stack).n
       IN  IF n > 0
           THEN /\ req' = [req EXCEPT ![r].pend = @ - 1]
                /\ stack' = <<Frame("data_cb", r, "user", 0), Frame("pend", r, "next", n - 1)>>
                            \o Tail(stack)
                /\ UNCHANGED cancel_poll
           ELSE /\ req' = [req EXCEPT ![r].blocked = FALSE]
                /\ IF req[r].status # "none" THEN complete_cb(r, Tail(stack))
                   ELSE stack' = Tail(stack) /\ UNCHANGED cancel_poll
    /\ UNCHANGED <<requests, pending, timer, down, lost, registered, partial, objs, datas,
                   served>>

----------------------------------------------------------------------------
\* Fault: a call inside a callback does not look at the time.
OuterTimesOut(r) ==
    /\ Top("complete", "loop") /\ Head(stack).r = r /\ ~Nested(Tail(stack))
    /\ req[r].timed /\ req[r].status = "none"
    /\ ubus_set_req_status(r, req, "TIMEOUT", Goto("return"))
    /\ UNCHANGED <<pending, timer, down, lost, registered, partial, objs, datas, served>>

\* ubus_complete_request.  The time is looked at before every poll.
TimesOut(r) ==
    /\ Top("complete", "loop") /\ Head(stack).r = r
    /\ req[r].timed /\ req[r].status = "none"
    /\ ubus_set_req_status(r, req, "TIMEOUT", Goto("return"))
    /\ UNCHANGED <<pending, timer, down, lost, registered, partial, objs, datas, served>>

\* poll returns for a message, the end of the connection or of the time, or a
\* signal.
CompleteLoop ==
    /\ Top("complete", "loop")
    /\ IF req[Head(stack).r].status # "none"
       THEN stack' = Goto("return") /\ UNCHANGED cancel_poll
       ELSE /\ cancel_poll' = FALSE
            /\ stack' = <<Frame("handle", 0, "loop", 0)>> \o Goto("polled")
    /\ UNCHANGED <<req, requests, pending, timer, down, lost, registered, partial, objs, datas,
                   served>>

\* A lost connection overrides a status that has arrived.
CompletePolled ==
    /\ Top("complete", "polled")
    /\ IF eof
       THEN /\ requests' = RemoveFirst(requests, Head(stack).r)
            /\ req' = [req EXCEPT ![Head(stack).r].status = "CONNECTION_FAILED"]
            /\ cancel_poll' = TRUE
            /\ stack' = Goto("return")
       ELSE stack' = Goto("loop") /\ UNCHANGED <<req, requests, cancel_poll>>
    /\ UNCHANGED <<pending, timer, down, lost, registered, partial, objs, datas, served>>

\* Fault: without an event loop nobody looks at the messages put off.
ReturnNoDrain ==
    /\ Top("complete", "return")
    /\ cancel_poll' = (cancel_poll \/ Nested(Tail(stack)))
    /\ stack' = Tail(stack)
    /\ req' = [req EXCEPT ![Head(stack).r] = Ended]
    /\ UNCHANGED <<requests, pending, timer, down, lost, registered, partial, objs, datas,
                   served>>

\* The functions further down must look at their own request: cancel_poll.
\* Without an event loop, messages put off are handled before the call returns.
CompleteReturn ==
    LET rest == Tail(stack)
    IN  /\ Top("complete", "return")
        /\ cancel_poll' = (cancel_poll \/ Nested(rest))
        /\ stack' = IF ~Nested(rest) /\ ~registered THEN <<Drain>> \o rest ELSE rest
        /\ req' = [req EXCEPT ![Head(stack).r] = Ended]
        /\ UNCHANGED <<requests, pending, timer, down, lost, registered, partial, objs, datas,
                       served>>

----------------------------------------------------------------------------
\* The event loop, or a program without one, by ubus_handle_event.
ubus_handle_data ==
    /\ stack = <<>> /\ ~lost
    /\ stack' = <<Frame("handle", 0, "loop", 0)>>
    /\ UNCHANGED <<req, requests, pending, timer, cancel_poll, down, lost, registered, partial,
                   objs, datas, served>>

PendingTimer ==
    /\ stack = <<>> /\ ~lost /\ timer
    /\ timer' = FALSE /\ stack' = <<Drain>>
    /\ UNCHANGED <<req, requests, pending, cancel_poll, down, lost, registered, partial, objs,
                   datas, served>>

----------------------------------------------------------------------------
Library == HandleLoop \/ HandleCheck \/ HandleExit \/ ubus_process_pending_msg
           \/ ProcessReqData \/ CompleteLoop \/ CompletePolled \/ CompleteReturn

Next ==
    \/ Call("sync", 0) \/ Call("sync", 1) \/ Call("async", 0)
    \/ Sent \/ Answer \/ Answered \/ HandleRecv
    \/ \E r \in Req : ubus_abort_request(r) \/ TimesOut(r)
    \/ Return \/ Library \/ ubus_handle_data \/ PendingTimer

\* One thread that never stops; callbacks return; when the time is looked at
\* again and again, it is over some day.  Nothing makes ubusd take what is
\* written, or complete a message that it has begun.
Spec ==
    /\ Init /\ [][Next]_vars
    /\ WF_vars(Library) /\ WF_vars(Return) /\ WF_vars(PendingTimer)
    /\ SF_vars(\E r \in Req : TimesOut(r))

----------------------------------------------------------------------------
(* ctx->requests holds no request that has ended.  A blocking call's request *)
(* lies in its caller's stack frame: after a timeout, a lost connection or   *)
(* an answer that came during a callback, no entry may be left for a late    *)
(* message to find.                                                         *)
RequestsLive ==
    /\ IsInjective(requests)
    /\ \A r \in Range(requests) :
         /\ req[r].status = "none"
         /\ \/ req[r].kind = "async"
            \/ req[r].kind = "sync" /\ Running("complete", r)

(* The process's objects see their messages one at a time and in the order   *)
(* in which ubusd sent them, although some are put off while a call waits    *)
(* and others are not: a handler starts when all earlier ones have ended.    *)
ObjectMessagesInOrder ==
    /\ \A i \in 1..Len(served) : served[i] = i
    /\ \A i, j \in 1..Len(stack) : stack[i].f = "handler" /\ stack[j].f = "handler" => i = j

(* A call that returns with a status has given its callback every DATA       *)
(* message that came before, also those that came while the callback was     *)
(* active; except that one may have been put off while those put off before  *)
(* were handed out (the traversal of __ubus_process_req_data does not meet   *)
(* it).                                                                     *)
DataBeforeStatus ==
    \A r \in Req : req[r].status # "none" /\ ~req[r].blocked => req[r].pend = 0 \/ req[r].late

\* A call without a timeout waits: nothing but an answer can end it.
Untimed == \E r \in Req : Running("complete", r) /\ ~req[r].timed

\* libubus reads, or waits for room to write: it does not look at the time.
Reading == stack # <<>> /\ Head(stack).f = "handle" /\ Head(stack).at # "exit"
Writing == stack # <<>> /\ Head(stack).at = "write"

(* Calls with a timeout return, whether an answer comes or not, with three   *)
(* exceptions.  A callback that they are in the middle of may make a call    *)
(* without a timeout: the inner call hides the time limit of the outer one.  *)
(* ubusd may leave a message unfinished or not take what is written:         *)
(* recv_retry and writev_retry wait without a limit.  And messages may come  *)
(* without end: ubus_handle_data looks at the time when it has read all.     *)
CallsReturn ==
    \/ []<>(Untimed \/ \A r \in Req : ~Running("complete", r))
    \/ <>[]Reading \/ <>[]Writing

(* Messages for objects that were put off are handled, at any depth of calls *)
(* in callbacks, with and without an event loop, unless the connection is    *)
(* lost, a call without a timeout waits, or libubus is kept reading or       *)
(* writing.                                                                 *)
PutOffIsServed ==
    \/ []<>(pending = <<>> \/ lost \/ Untimed)
    \/ <>[]Reading \/ <>[]Writing
=============================================================================
