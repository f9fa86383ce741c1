---------------------------- MODULE UloopTimeout ----------------------------
(***************************************************************************)
(* The timers of libubox's event loop (uloop.c): a list that is kept sorted   *)
(* with tv_diff, a comparison in whole milliseconds that rounds towards zero  *)
(* within a second, and uloop_process_timeouts, which stops at the first      *)
(* entry that is not due.  Times are <<seconds, microseconds>>.               *)
(***************************************************************************)
EXTENDS Integers, Sequences

CONSTANTS Timer,
          Clock,   \* instants at which something happens, in microseconds
          Delay    \* msecs of uloop_timeout_set

VARIABLES now,       \* CLOCK_MONOTONIC
          time,      \* timer -> timeout->time
          timeouts,  \* the list
          pc, tv     \* uloop_process_timeouts runs; the time that it works with

vars == <<now, time, timeouts, pc, tv>>

----------------------------------------------------------------------------
\* Division as C does it, by a thousand.
Thousandth(n) == IF n >= 0 THEN n \div 1000 ELSE -((-n) \div 1000)

tv_diff(t1, t2) == (t1[1] - t2[1]) * 1000 + Thousandth(t1[2] - t2[2])

\* The time that is meant.
Us(t) == t[1] * 1000000 + t[2]

uloop_gettime(n) == <<n \div 1000000, n % 1000000>>

Pending(t) == \E i \in 1..Len(timeouts) : timeouts[i] = t

Init ==
    /\ now \in Clock
    /\ time = [t \in Timer |-> <<0, 0>>]
    /\ timeouts = <<>> /\ pc = "poll" /\ tv = <<0, 0>>

\* When now + msecs falls on a full second, tv_usec stays at 1000000.
Expiry(n, msecs) ==
    LET s == (n \div 1000000) + (msecs \div 1000)
        u == (n % 1000000) + (msecs % 1000) * 1000
    IN  IF u > 1000000 THEN <<s + 1, u - 1000000>> ELSE <<s, u>>

\* The place of a new timer: before the first one that is later by a millisecond.
Place(list, T, x, k) ==
    /\ k \in 1..(Len(list) + 1)
    /\ \A i \in 1..Len(list) : i < k => tv_diff(T[list[i]], T[x]) <= 0
    /\ k <= Len(list) => tv_diff(T[list[k]], T[x]) > 0

Inserted(list, x, k) ==
    [i \in 1..(Len(list) + 1) |-> IF i < k THEN list[i] ELSE IF i = k THEN x ELSE list[i - 1]]

Without(list, k) ==
    [i \in 1..(Len(list) - 1) |-> IF i < k THEN list[i] ELSE list[i + 1]]

uloop_timeout_add(list, T, x) ==
    \E k \in 1..(Len(list) + 1) : Place(list, T, x, k) /\ timeouts' = Inserted(list, x, k)

\* From a callback of a timer, or of another event.
uloop_timeout_set(t, msecs) ==
    /\ time' = [time EXCEPT ![t] = Expiry(now, msecs)]
    /\ \/ ~Pending(t) /\ uloop_timeout_add(timeouts, time', t)
       \/ \E k \in 1..Len(timeouts) :
            timeouts[k] = t /\ uloop_timeout_add(Without(timeouts, k), time', t)
    /\ UNCHANGED <<now, pc, tv>>

uloop_timeout_cancel(t) ==
    /\ \E k \in 1..Len(timeouts) : timeouts[k] = t /\ timeouts' = Without(timeouts, k)
    /\ UNCHANGED <<now, time, pc, tv>>

\* uloop_process_timeouts reads the clock once.
ProcessStart ==
    /\ pc = "poll"
    /\ pc' = "process" /\ tv' = uloop_gettime(now)
    /\ UNCHANGED <<now, time, timeouts>>

\* The first timer is due: it is taken off and its callback is called.
Expire ==
    /\ pc = "process" /\ timeouts # <<>>
    /\ tv_diff(time[timeouts[1]], tv) <= 0
    /\ timeouts' = Without(timeouts, 1)
    /\ UNCHANGED <<now, time, pc, tv>>

ProcessEnd ==
    /\ pc = "process"
    /\ timeouts # <<>> => tv_diff(time[timeouts[1]], tv) > 0
    /\ pc' = "poll"
    /\ UNCHANGED <<now, time, timeouts, tv>>

Tick ==
    /\ now' \in Clock /\ now' > now
    /\ UNCHANGED <<time, timeouts, pc, tv>>

Next ==
    \/ \E t \in Timer : uloop_timeout_cancel(t) \/ \E d \in Delay : uloop_timeout_set(t, d)
    \/ ProcessStart \/ Expire \/ ProcessEnd \/ Tick

Spec == Init /\ [][Next]_vars

----------------------------------------------------------------------------
TypeOK ==
    /\ now \in Nat /\ pc \in {"poll", "process"} /\ tv \in Int \X Int
    /\ time \in [Timer -> Int \X Int] /\ timeouts \in Seq(Timer)

SortedList(list, T) ==
    \A i, j \in 1..Len(list) : i < j => Us(T[list[i]]) - Us(T[list[j]]) < 1000

(* The list is sorted up to a millisecond: no timer stands before one that   *)
(* is due a millisecond or more earlier, although tv_diff rounds in both     *)
(* directions and is not transitive.                                        *)
Sorted == SortedList(timeouts, time)

\* The parts of the inductive invariant that only serve the others.
NoDuplicates == \A i, j \in 1..Len(timeouts) : timeouts[i] = timeouts[j] => i = j
ClockRead == Us(tv) <= now

(* When uloop_process_timeouts has returned, no timer is overdue by a        *)
(* millisecond or more with respect to the time that it read: stopping at    *)
(* the first timer that is not due misses none behind it.  Timers set later  *)
(* do not change that.                                                      *)
NoneOverdue ==
    pc = "poll" => \A i \in 1..Len(timeouts) : Us(tv) - Us(time[timeouts[i]]) < 1000
=============================================================================
