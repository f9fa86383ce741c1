------------------------------- MODULE Uloop --------------------------------
(***************************************************************************)
(* The event loop of libubox (uloop.c, uloop-epoll.c): descriptors, loops    *)
(* run inside callbacks, child processes and signals.  Timers are in module  *)
(* UloopTimeout; here a loop that runs forever has none.                     *)
(*                                                                          *)
(* `stack' holds the loops and callbacks that are active, the innermost      *)
(* first.  Signals come between any two steps.  A callback reads all there   *)
(* is to read when it starts.                                               *)
(***************************************************************************)
EXTENDS Naturals, Sequences, SequencesExt, FiniteSets, FiniteSetsExt

CONSTANTS Fd, Edge,   \* descriptors; those with ULOOP_EDGE_TRIGGER
          Proc,       \* child processes
          MaxDepth,   \* bound: loops and callbacks that are active
          MaxArrive,  \* bound: arrivals of data
          MaxOps      \* bound: calls of the user code, and SIGTERM

VARIABLES status,     \* fd -> in the poll set, out, or hup: taken out by the loop
          unread,     \* fd -> there are data to read
          edge,       \* fd -> epoll has still to report it (edge-triggered)
          hang,       \* fd -> the other side has hung up
          cur,        \* what is left of cur_fds; cleared entries are None
          stack,      \* active loops and callbacks
          cancelled,  \* uloop_cancelled
          do_sigchld,
          pipe,       \* a byte is in the waker pipe
          child,      \* proc -> none, running, zombie or reaped
          procs,      \* the list processes
          told,       \* history: processes whose callback has been called
          arrived, ops

kernel == <<unread, edge, hang, pipe, child>>
vars == <<status, kernel, cur, stack, cancelled, do_sigchld, procs, told, arrived, ops>>

----------------------------------------------------------------------------
None == "none"
Waker == "waker"

ASSUME FdAssumption == Edge \subseteq Fd /\ IsFiniteSet(Fd) /\ None \notin Fd /\ Waker \notin Fd

\* again: events are buffered for the callback; wanted: its descriptor was not
\* deleted when it was called; buffered: it was called for buffered events.
Frame(f, at, fd, forever) ==
    [f |-> f, at |-> at, fd |-> fd, forever |-> forever,
     again |-> FALSE, wanted |-> TRUE, buffered |-> FALSE]
Callback(fd) == [Frame("cb", "user", fd, FALSE) EXCEPT !.wanted = status[fd] # "out"]

At(p) == stack # <<>> /\ Head(stack).at = p
Goto(p) == <<[Head(stack) EXCEPT !.at = p]>> \o Tail(stack)
User == At("user")
Active(f) == \E i \in 1..Len(stack) : stack[i].fd = f

Init ==
    /\ status \in [Fd -> {"in", "out"}]
    /\ unread = [f \in Fd |-> FALSE] /\ edge = [f \in Fd |-> FALSE]
    /\ hang = [f \in Fd |-> FALSE]
    /\ cur = <<>> /\ stack = <<Frame("run", "sigchld", None, TRUE)>>
    /\ cancelled = FALSE /\ do_sigchld = FALSE /\ pipe = FALSE
    /\ child = [p \in Proc |-> "running"] /\ procs = Proc /\ told = {}
    /\ arrived = 0 /\ ops = 0

----------------------------------------------------------------------------
\* What a callback may do, besides returning.
UserOp == User /\ ops < MaxOps /\ ops' = ops + 1

\* ADD or MOD: epoll reports what is there to read.
uloop_fd_add(f) ==
    /\ UserOp
    /\ status' = [status EXCEPT ![f] = "in"]
    /\ edge' = [edge EXCEPT ![f] = unread[f]]
    /\ UNCHANGED <<unread, hang, pipe, child, cur, stack, cancelled, do_sigchld, procs, told, arrived>>

\* Fault: the events fetched for the descriptor stay.
DeleteKeepsFetched(f) ==
    /\ UserOp
    /\ status' = [status EXCEPT ![f] = "out"]
    /\ edge' = [edge EXCEPT ![f] = FALSE]
    /\ UNCHANGED <<unread, hang, pipe, child, cur, stack, cancelled, do_sigchld, procs, told, arrived>>

\* The events fetched are cleared.  Those buffered for a callback that is
\* active are not: the flags are cleared before uloop_fd_stack_event looks at
\* them.
uloop_fd_delete(f) ==
    /\ UserOp
    /\ status' = [status EXCEPT ![f] = "out"]
    /\ edge' = [edge EXCEPT ![f] = FALSE]
    /\ cur' = [i \in DOMAIN cur |-> IF cur[i] = f THEN None ELSE cur[i]]
    /\ UNCHANGED <<unread, hang, pipe, child, stack, cancelled, do_sigchld, procs, told, arrived>>

\* uloop_run and uloop_run_timeout from inside a callback.
uloop_run_timeout(forever) ==
    /\ UserOp /\ Len(stack) < MaxDepth
    /\ cancelled' = FALSE
    /\ stack' = <<Frame("run", "sigchld", None, forever)>> \o stack
    /\ UNCHANGED <<status, kernel, cur, do_sigchld, procs, told, arrived>>

uloop_end ==
    /\ UserOp
    /\ cancelled' = TRUE
    /\ UNCHANGED <<status, kernel, cur, stack, do_sigchld, procs, told, arrived>>

uloop_process_delete(p) ==
    /\ UserOp /\ p \in procs
    /\ procs' = procs \ {p}
    /\ UNCHANGED <<status, kernel, cur, stack, cancelled, do_sigchld, told, arrived>>

\* A callback returns; for buffered events it is called once more.
Return ==
    /\ User
    /\ LET top == Head(stack)
       IN  IF top.again
           THEN /\ stack' = <<[top EXCEPT !.again = FALSE, !.buffered = TRUE,
                                          !.wanted = status[top.fd] # "out"]>> \o Tail(stack)
                /\ unread' = [unread EXCEPT ![top.fd] = FALSE]
           ELSE stack' = Tail(stack) /\ UNCHANGED unread
    /\ UNCHANGED <<status, edge, hang, pipe, child, cur, cancelled, do_sigchld, procs, told, arrived, ops>>

----------------------------------------------------------------------------
\* The loop: uloop_run_timeout.
CheckSigchld ==
    /\ At("sigchld")
    /\ do_sigchld' = FALSE
    /\ stack' = Goto(IF do_sigchld THEN "reap" ELSE "cancel")
    /\ UNCHANGED <<status, kernel, cur, cancelled, procs, told, arrived, ops>>

Zombies == {p \in Proc : child[p] = "zombie"}

\* uloop_handle_processes: waitpid gives a child that has ended, any of them.
uloop_handle_processes ==
    /\ At("reap")
    /\ \/ \E p \in Zombies :
            /\ child' = [child EXCEPT ![p] = "reaped"]
            /\ procs' = procs \ {p}
            /\ told' = told \cup ({p} \cap procs)
            /\ stack' = IF p \in procs THEN <<Frame("pcb", "user", None, FALSE)>> \o stack
                                       ELSE stack
       \/ /\ Zombies = {} /\ stack' = Goto("cancel")
          /\ UNCHANGED <<child, procs, told>>
    /\ UNCHANGED <<status, unread, edge, hang, pipe, cur, cancelled, do_sigchld, arrived, ops>>

CheckCancelled ==
    /\ At("cancel")
    /\ stack' = IF cancelled THEN Tail(stack) ELSE Goto("poll")
    /\ UNCHANGED <<status, kernel, cur, cancelled, do_sigchld, procs, told, arrived, ops>>

Hung == {f \in Fd : status[f] = "in" /\ hang[f]}
Reported == {f \in Fd : status[f] = "in" /\ IF f \in Edge THEN edge[f] ELSE unread[f]}
Ready == Hung \cup Reported \cup IF pipe THEN {Waker} ELSE {}

\* uloop_fetch_events takes a descriptor that has hung up out of the poll set,
\* and reports it.  Events that an outer loop has fetched come first.
uloop_fetch_events ==
    /\ At("poll")
    /\ IF cur # <<>> THEN UNCHANGED <<cur, status, edge>>
       ELSE /\ Ready # {} \/ ~Head(stack).forever
            /\ cur' \in SetToSeqs(Ready)
            /\ status' = [f \in Fd |-> IF f \in Hung THEN "hup" ELSE status[f]]
            /\ edge' = [f \in Fd |-> edge[f] /\ f \notin Ready]
    /\ stack' = Goto("dispatch")
    /\ UNCHANGED <<unread, hang, pipe, child, cancelled, do_sigchld, procs, told, arrived, ops>>

Innermost(f) == Min({i \in 1..Len(stack) : stack[i].fd = f})

\* Fault: the event is taken to be handled by the callback that is active.
DropStacked(f) ==
    /\ f \in Edge /\ status[f] = "in" /\ Active(f)
    /\ UNCHANGED stack

\* An edge-triggered descriptor whose callback is active: the event is buffered.
uloop_fd_stack_event(f) ==
    /\ f \in Edge /\ status[f] = "in" /\ Active(f)
    /\ stack' = [stack EXCEPT ![Innermost(f)].again = TRUE]

\* uloop_run_events handles one event; the others stay in cur_fds for the next
\* round, or for a loop inside the callback.
uloop_run_events ==
    /\ At("dispatch")
    /\ IF cur = <<>> THEN stack' = Goto("end") /\ UNCHANGED <<cur, unread, pipe>>
       ELSE LET f == Head(cur)
            IN  /\ cur' = Tail(cur)
                /\ \/ f = None /\ UNCHANGED <<stack, unread, pipe>>
                   \/ f = Waker /\ pipe' = FALSE /\ stack' = Goto("end") /\ UNCHANGED unread
                   \/ /\ f \in Fd
                      /\ \/ uloop_fd_stack_event(f) /\ UNCHANGED unread
                         \/ /\ ~(f \in Edge /\ status[f] = "in" /\ Active(f))
                            /\ stack' = <<Callback(f)>> \o Goto("end")
                            /\ unread' = [unread EXCEPT ![f] = FALSE]
                      /\ UNCHANGED pipe
    /\ UNCHANGED <<status, edge, hang, child, cancelled, do_sigchld, procs, told, arrived, ops>>

LoopEnd ==
    /\ At("end")
    /\ stack' = IF Head(stack).forever /\ ~cancelled THEN Goto("sigchld") ELSE Tail(stack)
    /\ UNCHANGED <<status, kernel, cur, cancelled, do_sigchld, procs, told, arrived, ops>>

----------------------------------------------------------------------------
\* The rest of the world.
Arrive(f) ==
    /\ arrived < MaxArrive /\ ~hang[f]
    /\ arrived' = arrived + 1
    /\ unread' = [unread EXCEPT ![f] = TRUE]
    /\ edge' = [edge EXCEPT ![f] = status[f] = "in"]
    /\ UNCHANGED <<status, hang, pipe, child, cur, stack, cancelled, do_sigchld, procs, told, ops>>

HangUp(f) ==
    /\ ~hang[f]
    /\ hang' = [hang EXCEPT ![f] = TRUE]
    /\ UNCHANGED <<status, unread, edge, pipe, child, cur, stack, cancelled, do_sigchld, procs,
                   told, arrived, ops>>

\* Fault: the handler leaves the loop to find the flag by itself.
SigchldNoWake(p) ==
    /\ child[p] = "running"
    /\ child' = [child EXCEPT ![p] = "zombie"]
    /\ do_sigchld' = TRUE
    /\ UNCHANGED <<status, unread, edge, hang, pipe, cur, stack, cancelled, procs, told, arrived, ops>>

\* A child ends; uloop_sigchld sets the flag and writes to the pipe.
uloop_sigchld(p) ==
    /\ child[p] = "running"
    /\ child' = [child EXCEPT ![p] = "zombie"]
    /\ do_sigchld' = TRUE /\ pipe' = TRUE
    /\ UNCHANGED <<status, unread, edge, hang, cur, stack, cancelled, procs, told, arrived, ops>>

uloop_handle_sigint ==
    /\ stack # <<>> /\ ops < MaxOps /\ ops' = ops + 1
    /\ cancelled' = TRUE /\ pipe' = TRUE
    /\ UNCHANGED <<status, unread, edge, hang, child, cur, stack, do_sigchld, procs, told, arrived>>

----------------------------------------------------------------------------
Loop == CheckSigchld \/ uloop_handle_processes \/ CheckCancelled
        \/ uloop_fetch_events \/ uloop_run_events \/ LoopEnd

Next ==
    \/ \E f \in Fd : uloop_fd_add(f) \/ uloop_fd_delete(f) \/ Arrive(f) \/ HangUp(f)
    \/ \E forever \in BOOLEAN : uloop_run_timeout(forever)
    \/ \E p \in Proc : uloop_process_delete(p) \/ uloop_sigchld(p)
    \/ uloop_end \/ uloop_handle_sigint
    \/ Return \/ Loop

\* One thread that never stops, and callbacks return.
Spec == Init /\ [][Next]_vars /\ WF_vars(Loop) /\ WF_vars(Return)

----------------------------------------------------------------------------
(* No callback is called for a descriptor after uloop_fd_delete: events that *)
(* were fetched with others are cleared, also when an outer loop fetched     *)
(* them.  (The memory may be freed by then.)  The one exception is the code's*)
(* own: a callback that deletes its descriptor although events were buffered *)
(* for it by a loop inside it is called once more.                          *)
DeletedIsSilent == \A i \in 1..Len(stack) : stack[i].wanted \/ stack[i].buffered

(* Data that arrive are read: at a descriptor in the poll set, whichever     *)
(* loop fetched the event and however callbacks and loops are nested, unless *)
(* its callback stays active or the loop is left.                           *)
DataAreRead ==
    \A f \in Fd : []<>(~unread[f] \/ status[f] # "in" \/ Active(f) \/ stack = <<>>)

(* The callback of a child that has ended is called, whenever the signal     *)
(* comes: before the loop looks at do_sigchld, between that and epoll_wait,  *)
(* during a callback or a loop inside one.                                  *)
ChildrenAreTold ==
    \A p \in Proc : child[p] = "zombie" ~> p \in told \/ p \notin procs \/ stack = <<>>
=============================================================================
