--------------------------- MODULE TransferFront ---------------------------
(***************************************************************************)
(* The user's side of a transfer (src/transfer.rs): threads in wait(),     *)
(* tasks polling a Completion, the callback slot, and complete() on the    *)
(* event thread, which publishes the result under the lock and tells the   *)
(* waiters, the tasks and the callback one after the other without it.     *)
(* The backend completes a submission once (TransferLife).  As its         *)
(* documentation asks, a callback does not wait for a transfer.            *)
(***************************************************************************)
EXTENDS Naturals, FiniteSets

CONSTANTS Waiters,   \* threads that wait()
          Tasks,     \* tasks that poll a Completion
          MaxSubmits, MaxChanges

VARIABLES inFlight,  \* State.in_flight
          status,    \* State.status: the submission it is the result of
          callback,  \* State.callback: a number, or 0
          wakers,    \* State.wakers
          evt,       \* the event thread in complete(): step, callback and wakers taken
          thread,    \* each waiter: "idle", "asleep" or "awake", and what it wants
          task,      \* each task: "idle", "pending" or "woken", and what it wants
          submits,   \* submissions so far
          asked,     \* the callback last asked for, and how often it was changed
          cleared    \* the last change removed a callback that was running

vars == <<inFlight, status, callback, wakers, evt, thread, task, submits, asked, cleared>>

NoEvt == [step |-> "none", callback |-> 0, wakers |-> {}, right |-> TRUE]
NotWaiting == [pc |-> "idle", want |-> 0, got |-> 0]

Init ==
    /\ inFlight = FALSE /\ status = 0 /\ callback = 0 /\ wakers = {}
    /\ evt = NoEvt
    /\ thread = [w \in Waiters |-> NotWaiting]
    /\ task = [t \in Tasks |-> NotWaiting]
    /\ submits = 0 /\ asked = [callback |-> 0, changes |-> 0] /\ cleared = FALSE

-----------------------------------------------------------------------------
(* Calls, made by any thread or by the running callback: all need the idle() state *)

\* submit() that the backend accepts; a refused one leaves things as they were.
Submit ==
    /\ ~inFlight /\ submits < MaxSubmits
    /\ inFlight' = TRUE /\ submits' = submits + 1
    /\ UNCHANGED <<status, callback, wakers, evt, thread, task, asked, cleared>>

SetCallback ==
    /\ ~inFlight /\ asked.changes < MaxChanges
    /\ asked' = [callback |-> asked.changes + 1, changes |-> asked.changes + 1]
    /\ callback' = asked.changes + 1 /\ cleared' = FALSE
    /\ UNCHANGED <<inFlight, status, wakers, evt, thread, task, submits>>

\* The slot of a running callback is empty already.
ClearCallback ==
    /\ ~inFlight /\ asked.changes < MaxChanges
    /\ asked' = [callback |-> 0, changes |-> asked.changes + 1]
    /\ callback' = 0 /\ cleared' = (evt.callback # 0)
    /\ UNCHANGED <<inFlight, status, wakers, evt, thread, task, submits>>

-----------------------------------------------------------------------------
(* complete() *)

Complete ==
    /\ inFlight /\ evt.step = "none"
    /\ inFlight' = FALSE /\ status' = submits
    /\ evt' = [step |-> "notify", callback |-> callback, wakers |-> wakers,
               right |-> callback = asked.callback \/ cleared]
    /\ callback' = 0 /\ wakers' = {}
    /\ UNCHANGED <<thread, task, submits, asked, cleared>>

NotifyAll ==
    /\ evt.step = "notify"
    /\ evt' = [evt EXCEPT !.step = "wake"]
    /\ thread' = [w \in Waiters |-> IF thread[w].pc = "asleep" THEN [thread[w] EXCEPT !.pc = "awake"]
                                    ELSE thread[w]]
    /\ UNCHANGED <<inFlight, status, callback, wakers, task, submits, asked, cleared>>

Wake(t) ==
    /\ evt.step = "wake" /\ t \in evt.wakers
    /\ evt' = [evt EXCEPT !.wakers = @ \ {t}]
    /\ task' = [task EXCEPT ![t].pc = IF @ = "pending" THEN "woken" ELSE @]
    /\ UNCHANGED <<inFlight, status, callback, wakers, thread, submits, asked, cleared>>

\* The callback runs until PutBack; its calls are those above.
RunCallback ==
    /\ evt.step = "wake" /\ evt.wakers = {}
    /\ evt' = IF evt.callback = 0 THEN NoEvt ELSE [evt EXCEPT !.step = "run"]
    /\ UNCHANGED <<inFlight, status, callback, wakers, thread, task, submits, asked, cleared>>

\* Mutant: the callback goes back whatever is in the slot now.
PutBackAlways ==
    /\ evt.step = "run"
    /\ callback' = evt.callback
    /\ evt' = NoEvt
    /\ UNCHANGED <<inFlight, status, wakers, thread, task, submits, asked, cleared>>

\* "Put the callback back unless the callback installed another one."
PutBack ==
    /\ evt.step = "run"
    /\ callback' = IF callback = 0 THEN evt.callback ELSE callback
    /\ evt' = NoEvt
    /\ UNCHANGED <<inFlight, status, wakers, thread, task, submits, asked, cleared>>

-----------------------------------------------------------------------------
(* wait() and Completion::poll() *)

Look(next, want) ==
    IF inFlight THEN [pc |-> next, want |-> want, got |-> 0]
    ELSE [pc |-> "idle", want |-> want, got |-> status]

Wait(w) ==
    /\ thread[w].pc = "idle"
    /\ thread' = [thread EXCEPT ![w] = Look("asleep", submits)]
    /\ UNCHANGED <<inFlight, status, callback, wakers, evt, task, submits, asked, cleared>>

\* After a notification, or for no reason, the waiter has the lock again.
WaitWakes(w) ==
    /\ thread[w].pc \in {"asleep", "awake"}
    /\ thread' = [thread EXCEPT ![w] = Look("asleep", @.want)]
    /\ UNCHANGED <<inFlight, status, callback, wakers, evt, task, submits, asked, cleared>>

\* The limit has passed and the transfer is still in flight.
WaitTimesOut(w) ==
    /\ thread[w].pc \in {"asleep", "awake"} /\ inFlight
    /\ thread' = [thread EXCEPT ![w] = NotWaiting]
    /\ UNCHANGED <<inFlight, status, callback, wakers, evt, task, submits, asked, cleared>>

\* A task may be polled at any time; its waker is stored once.
Poll(t) ==
    /\ task' = [task EXCEPT ![t] = Look("pending", IF @.pc = "idle" THEN submits ELSE @.want)]
    /\ wakers' = IF inFlight THEN wakers \cup {t} ELSE wakers
    /\ UNCHANGED <<inFlight, status, callback, evt, thread, submits, asked, cleared>>

Next ==
    \/ Submit \/ SetCallback \/ ClearCallback
    \/ Complete \/ NotifyAll \/ RunCallback \/ PutBack
    \/ \E t \in Tasks : Wake(t) \/ Poll(t)
    \/ \E w \in Waiters : Wait(w) \/ WaitWakes(w) \/ WaitTimesOut(w)

Spec == Init /\ [][Next]_vars

-----------------------------------------------------------------------------

\* However calls, completions and callbacks interleave: a thread that sleeps in
\* wait(), and a task whose Completion is pending, has a submission or the rest
\* of a complete() to be woken by; what it is given is the result of the
\* submission it came for or of a later one, never of an earlier one; and the
\* callback a completion takes is the one asked for last.  (A callback removed
\* while it runs comes back: clear_callback() finds the slot empty.)
ObserversAreTold ==
    /\ ~inFlight => \A w \in Waiters : thread[w].pc = "asleep" => evt.step = "notify"
    /\ \A t \in Tasks : task[t].pc = "pending" => t \in wakers \cup evt.wakers
    /\ wakers # {} => inFlight
    /\ \A w \in Waiters : thread[w].got # 0 => thread[w].got >= thread[w].want
    /\ \A t \in Tasks : task[t].got # 0 => task[t].got >= task[t].want
    /\ evt.right
=============================================================================
