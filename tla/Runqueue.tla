------------------------------ MODULE Runqueue ------------------------------
(***************************************************************************)
(* The task queue of libubox (runqueue.c, on safe_list.c): at most           *)
(* MaxRunning tasks run, the others wait; tasks that take too long are       *)
(* cancelled, and killed if that does not help.                              *)
(*                                                                          *)
(* `stack' holds the library functions and the user's callbacks that are     *)
(* active, the innermost first; a callback may call any operation of the     *)
(* queue.  Timers expire, and processes end, when the stack is empty.  All   *)
(* tasks have a run_timeout and a cancel_timeout.                            *)
(***************************************************************************)
EXTENDS Naturals, Sequences, SequencesExt, FiniteSetsExt

CONSTANTS Task,
          MaxRunning,  \* q->max_running_tasks
          MaxOps,      \* bound: operations called by the user
          MaxDepth     \* bound: callbacks and functions that are active

VARIABLES tasks_active, tasks_inactive,
          queued, running, cancelled, timeout,  \* of each task
          running_tasks, stopped, empty,        \* of the queue
          qtimer,   \* q->timeout: off, start (__runqueue_start_next) or empty
          stack, ops,
          told,     \* history: empty_cb was called since the last task came
          killed    \* history: runqueue_kill cancelled q->timeout, not set since

lists == <<tasks_active, tasks_inactive>>
flags == <<queued, running, cancelled, timeout>>
queue == <<running_tasks, stopped, empty, qtimer>>
vars == <<lists, flags, queue, stack, ops, told, killed>>

----------------------------------------------------------------------------
End == "end"

\* next: where the iterator of safe_list_for_each goes on.
Frame(f, t, next) == [f |-> f, t |-> t, next |-> next]
UserFrames == {"run", "cancel", "complete", "empty"}
Top(f) == IF stack = <<>> THEN FALSE ELSE Head(stack).f = f
User == stack # <<>> => Head(stack).f \in UserFrames

Successor(s, t) ==
    LET i == CHOOSE i \in 1..Len(s) : s[i] = t
    IN  IF i < Len(s) THEN s[i + 1] ELSE End
First(s) == IF s = <<>> THEN End ELSE Head(s)

\* safe_list_del moves every iterator that stands at the entry.
Moved(st, s, t) ==
    [i \in 1..Len(st) |-> IF st[i].next = t THEN [st[i] EXCEPT !.next = Successor(s, t)]
                                            ELSE st[i]]

Init ==
    /\ tasks_active = <<>> /\ tasks_inactive = <<>>
    /\ queued = [t \in Task |-> FALSE] /\ running = [t \in Task |-> FALSE]
    /\ cancelled = [t \in Task |-> FALSE] /\ timeout = [t \in Task |-> FALSE]
    /\ running_tasks = 0 /\ stopped = FALSE /\ empty = FALSE /\ qtimer = "off"
    /\ stack = <<>> /\ ops = 0 /\ told = TRUE /\ killed = FALSE

----------------------------------------------------------------------------
\* e: the value of q->empty.
runqueue_start_next(e) ==
    IF e THEN UNCHANGED <<qtimer, killed>>
         ELSE qtimer' = "start" /\ killed' = FALSE

\* runqueue_task_complete up to the callback (after which the next task is
\* started); st: the functions that go on after it.
Complete(t, st) ==
    /\ running_tasks' = IF running[t] THEN running_tasks - 1 ELSE running_tasks
    /\ timeout' = [timeout EXCEPT ![t] = FALSE]
    /\ tasks_active' = Remove(tasks_active, t) /\ tasks_inactive' = Remove(tasks_inactive, t)
    /\ queued' = [queued EXCEPT ![t] = FALSE] /\ running' = [running EXCEPT ![t] = FALSE]
    /\ cancelled' = [cancelled EXCEPT ![t] = FALSE]
    /\ stack' = <<Frame("complete", t, End)>> \o
                Moved(st, IF running[t] THEN tasks_active ELSE tasks_inactive, t)

runqueue_task_cancel(t, st) ==
    IF ~running[t] THEN Complete(t, st)
    ELSE /\ cancelled' = [cancelled EXCEPT ![t] = TRUE]
         /\ timeout' = [timeout EXCEPT ![t] = TRUE]
         /\ stack' = <<Frame("cancel", t, End)>> \o st
         /\ UNCHANGED <<lists, queued, running, running_tasks>>

----------------------------------------------------------------------------
\* The user's calls, in callbacks and elsewhere.
Call == User /\ ops < MaxOps /\ ops' = ops + 1 /\ Len(stack) < MaxDepth

\* _runqueue_task_add with and without first; with run also
\* runqueue_process_add for a process that was started elsewhere.
runqueue_task_add(t, run, first) ==
    LET Put(s) == IF first THEN <<t>> \o s ELSE Append(s, t)
    IN  /\ Call /\ ~queued[t]
        /\ IF run THEN tasks_active' = Put(tasks_active) /\ UNCHANGED tasks_inactive
                  ELSE tasks_inactive' = Put(tasks_inactive) /\ UNCHANGED tasks_active
        /\ running_tasks' = IF run THEN running_tasks + 1 ELSE running_tasks
        /\ queued' = [queued EXCEPT ![t] = TRUE] /\ running' = [running EXCEPT ![t] = run]
        /\ cancelled' = [cancelled EXCEPT ![t] = FALSE]
        /\ empty' = FALSE /\ told' = FALSE
        /\ runqueue_start_next(FALSE)
        /\ UNCHANGED <<timeout, stopped, stack>>

runqueue_task_complete(t) ==
    /\ Call /\ queued[t]
    /\ Complete(t, stack)
    /\ UNCHANGED <<stopped, empty, qtimer, told, killed>>

CancelTask(t) ==
    /\ Call /\ queued[t]
    /\ runqueue_task_cancel(t, stack)
    /\ UNCHANGED <<stopped, empty, qtimer, told, killed>>

\* runqueue_cancel_pending and runqueue_cancel_active; runqueue_cancel is one
\* after the other.
CancelAll(active) ==
    /\ Call
    /\ stack' = <<Frame("each", End, First(IF active THEN tasks_active ELSE tasks_inactive))>>
                \o stack
    /\ UNCHANGED <<lists, flags, queue, told, killed>>

runqueue_kill ==
    /\ Call
    /\ stack' = <<Frame("kill", End, End)>> \o stack
    /\ UNCHANGED <<lists, flags, queue, told, killed>>

runqueue_stop ==
    /\ Call
    /\ stopped' = TRUE
    /\ UNCHANGED <<lists, flags, running_tasks, empty, qtimer, stack, told, killed>>

runqueue_resume ==
    /\ Call
    /\ stopped' = FALSE
    /\ runqueue_start_next(empty)
    /\ UNCHANGED <<lists, flags, running_tasks, empty, stack, told>>

\* A callback returns.
Return ==
    /\ stack # <<>> /\ User
    /\ stack' = Tail(stack)
    /\ IF Top("complete") THEN runqueue_start_next(empty) ELSE UNCHANGED <<qtimer, killed>>
    /\ UNCHANGED <<lists, flags, running_tasks, stopped, empty, ops, told>>

----------------------------------------------------------------------------
\* __runqueue_cancel for the entry at the iterator, which has moved on by then.
safe_list_for_each ==
    /\ Top("each")
    /\ LET t == Head(stack).next
           s == IF t \in Range(tasks_active) THEN tasks_active ELSE tasks_inactive
           on == <<[Head(stack) EXCEPT !.next = Successor(s, t)]>> \o Tail(stack)
       IN  IF t = End THEN stack' = Tail(stack) /\ UNCHANGED <<lists, flags, running_tasks>>
                      ELSE runqueue_task_cancel(t, on)
    /\ UNCHANGED <<stopped, empty, qtimer, ops, told, killed>>

\* runqueue_kill: runqueue_task_kill for every active task (the kill callback
\* sends a signal and calls nothing), then runqueue_cancel_pending, then the
\* timer, also if a complete callback has added a task meanwhile.
KillLoop ==
    /\ Top("kill")
    /\ IF tasks_active # <<>> THEN Complete(Head(tasks_active), stack)
       ELSE /\ stack' = <<Frame("each", End, First(tasks_inactive)), Frame("killed", End, End)>>
                        \o Tail(stack)
            /\ UNCHANGED <<lists, flags, running_tasks>>
    /\ UNCHANGED <<stopped, empty, qtimer, ops, told, killed>>

KillEnd ==
    /\ Top("killed")
    /\ stack' = Tail(stack)
    /\ qtimer' = "off" /\ killed' = TRUE
    /\ UNCHANGED <<lists, flags, running_tasks, stopped, empty, ops, told>>

StartTask ==
    LET t == Head(tasks_inactive)
    IN  /\ tasks_inactive' = Tail(tasks_inactive)
        /\ tasks_active' = Append(tasks_active, t)
        /\ running' = [running EXCEPT ![t] = TRUE]
        /\ running_tasks' = running_tasks + 1
        /\ timeout' = [timeout EXCEPT ![t] = TRUE]
        /\ stack' = <<Frame("run", t, End)>> \o Moved(stack, tasks_inactive, t)

MayStart == ~stopped /\ tasks_inactive # <<>> /\ running_tasks < MaxRunning

\* __runqueue_start_next: one task after the other.
StartLoop ==
    /\ Top("start")
    /\ IF MayStart THEN StartTask /\ UNCHANGED <<empty, qtimer>>
       ELSE /\ IF ~empty /\ tasks_active = <<>> /\ tasks_inactive = <<>>
               THEN empty' = TRUE /\ qtimer' = "empty"
               ELSE UNCHANGED <<empty, qtimer>>
            /\ stack' = Tail(stack)
            /\ UNCHANGED <<lists, running, timeout, running_tasks>>
    /\ UNCHANGED <<queued, cancelled, stopped, ops, told, killed>>

----------------------------------------------------------------------------
\* The event loop.
QueueTimer ==
    /\ stack = <<>> /\ qtimer # "off"
    /\ qtimer' = "off"
    /\ stack' = <<Frame(qtimer, End, End)>>
    /\ told' = (told \/ qtimer = "empty")
    /\ UNCHANGED <<lists, flags, running_tasks, stopped, empty, ops, killed>>

runqueue_task_timeout(t) ==
    /\ stack = <<>> /\ timeout[t]
    /\ IF cancelled[t] THEN Complete(t, <<>>)
       ELSE /\ cancelled' = [cancelled EXCEPT ![t] = TRUE]
            /\ UNCHANGED timeout
            /\ stack' = <<Frame("cancel", t, End)>>
            /\ UNCHANGED <<lists, queued, running, running_tasks>>
    /\ UNCHANGED <<stopped, empty, qtimer, ops, told, killed>>

\* A process has ended.
runqueue_proc_cb(t) ==
    /\ stack = <<>> /\ running[t]
    /\ Complete(t, <<>>)
    /\ UNCHANGED <<stopped, empty, qtimer, ops, told, killed>>

----------------------------------------------------------------------------
Library == safe_list_for_each \/ KillLoop \/ KillEnd \/ StartLoop
Timers == QueueTimer \/ \E t \in Task : runqueue_task_timeout(t)

Next ==
    \/ \E t \in Task : \/ \E run, first \in BOOLEAN : runqueue_task_add(t, run, first)
                       \/ runqueue_task_complete(t) \/ CancelTask(t) \/ runqueue_proc_cb(t)
    \/ \E active \in BOOLEAN : CancelAll(active)
    \/ runqueue_kill \/ runqueue_stop \/ runqueue_resume
    \/ Return \/ Library \/ Timers

\* Functions and callbacks return and timers expire; nothing else need happen.
Spec ==
    /\ Init /\ [][Next]_vars
    /\ WF_vars(Library) /\ WF_vars(Return)
    /\ WF_vars(QueueTimer) /\ \A t \in Task : WF_vars(runqueue_task_timeout(t))

----------------------------------------------------------------------------
(* The lists, the flags of the tasks and the count agree whenever user code  *)
(* runs, with operations called from callbacks in the middle of each other   *)
(* and of traversals; and every traversal goes on at a task that is in the   *)
(* queue.                                                                   *)
QueueConsistent ==
    /\ IsInjective(tasks_active) /\ IsInjective(tasks_inactive)
    /\ Range(tasks_active) = {t \in Task : running[t]}
    /\ Range(tasks_inactive) = {t \in Task : queued[t] /\ ~running[t]}
    /\ running_tasks = Len(tasks_active)
    /\ \A i \in 1..Len(stack) : stack[i].next # End => queued[stack[i].next]

\* A task that was added as running has no run_timeout.
Unlimited == \E t \in Task : running[t] /\ ~timeout[t]

(* No task waits or runs forever although nobody completes it: the timers    *)
(* cancel and kill what runs and start what waits.  Exceptions: the queue is *)
(* stopped; a task without limit runs; or runqueue_kill has cancelled        *)
(* q->timeout although a complete callback added a task meanwhile.           *)
TasksEnd ==
    \A t \in Task : queued[t] ~> ~queued[t] \/ stopped \/ Unlimited \/ killed

(* When the last task has ended, empty_cb is called, unless another one is   *)
(* added first, or runqueue_kill ended it.                                  *)
EmptyIsReported ==
    []<>(told \/ killed \/ \E t \in Task : queued[t])
=============================================================================
