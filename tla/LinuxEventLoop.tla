--------------------------- MODULE LinuxEventLoop ---------------------------
(***************************************************************************)
(* The session of the Linux backend: one context, its event thread         *)
(* (event_loop of src/sys/linux/mod.rs), the pipe that wakes the thread    *)
(* out of poll(), and the reference counts that decide when a device is    *)
(* closed and when the thread ends.                                        *)
(*                                                                         *)
(* Each handle carries one transfer, reduced to what the loop can see of   *)
(* it: LinuxTransfer models what reap, expire and disconnect do in detail. *)
(* Arc counts are modelled by who holds a reference (Refs, CtxAlive).      *)
(***************************************************************************)
EXTENDS Naturals, FiniteSets

CONSTANTS
    Handles,       \* the sys::Handles the session may open, each once
    PipeSize       \* how many bytes the wake pipe takes before it is full

ASSUME SessionAssumption == PipeSize \in Nat \ {0} /\ IsFiniteSet(Handles)

VARIABLES
    ctxHeld,    \* user code holds a Context or Device
    file,       \* Handle.file: "none" before open(), "open", "closed"
    shared,     \* user code holds a DeviceHandle (HandleShared is alive)
    holds,      \* user code holds the Transfer
    flight,     \* "idle", "kernel" (submitted) or "finished" (to be reaped)
    deadline,   \* of the submission: "none", "armed" or "passed"
    gone,       \* the kernel has lost the device
    disc,       \* Handle.disconnected
    waking,     \* handles whose open() or submit() is about to call wake()
    pipe,       \* bytes in the wake pipe
    evt         \* the event thread

vars == <<ctxHeld, file, shared, holds, flight, deadline, gone, disc, waking,
          pipe, evt>>

\* What the event thread has: its step, the Vec<Arc<Handle>> of this pass, the
\* handles whose deadline the timeout of poll() was computed from, and the
\* handles it has still to serve, with what poll() reported of them.
EventThread ==
    [step : {"top", "snapshot", "poll", "serve", "exited"},
     pass : SUBSET Handles, wait : SUBSET Handles, todo : SUBSET Handles,
     ready : SUBSET Handles]

AtTop == [step |-> "top", pass |-> {}, wait |-> {}, todo |-> {}, ready |-> {}]

Init ==
    /\ ctxHeld = TRUE
    /\ file = [h \in Handles |-> "none"]
    /\ shared = [h \in Handles |-> FALSE]
    /\ holds = [h \in Handles |-> FALSE]
    /\ flight = [h \in Handles |-> "idle"]
    /\ deadline = [h \in Handles |-> "none"]
    /\ gone = [h \in Handles |-> FALSE]
    /\ disc = [h \in Handles |-> FALSE]
    /\ waking = {}
    /\ pipe = 0
    /\ evt = AtTop

\* Context::wake: a full pipe takes no more.
Written(n) == IF pipe + n > PipeSize THEN PipeSize ELSE pipe + n

\* Somebody but the event thread holds an Arc<Handle>: the user's DeviceHandle,
\* the user's Transfer, a call in progress, or `pending` (through the transfer).
Held(h) == shared[h] \/ holds[h] \/ h \in waking \/ flight[h] # "idle"

\* The handles keep the context, and with it the pipe's write end, alive.
CtxAlive == ctxHeld \/ \E h \in Handles : file[h] = "open"

(***************************************************************************)
(* User threads.                                                           *)
(***************************************************************************)

\* Mutant of Open: the thread is not woken.
OpenSilent(h) ==
    /\ file[h] = "none"
    /\ ctxHeld \/ \E g \in Handles : shared[g]
    /\ file' = [file EXCEPT ![h] = "open"]
    /\ shared' = [shared EXCEPT ![h] = TRUE]
    /\ UNCHANGED <<ctxHeld, holds, flight, deadline, gone, disc, waking, pipe, evt>>

\* Context::open, up to the push onto `handles`.
Open(h) ==
    /\ file[h] = "none"
    /\ ctxHeld \/ \E g \in Handles : shared[g]
    /\ file' = [file EXCEPT ![h] = "open"]
    /\ shared' = [shared EXCEPT ![h] = TRUE]
    /\ waking' = waking \cup {h}
    /\ UNCHANGED <<ctxHeld, holds, flight, deadline, gone, disc, pipe, evt>>

\* The wake() that open() and submit() end with.
Wake(h) ==
    /\ h \in waking
    /\ waking' = waking \ {h}
    /\ pipe' = Written(1)
    /\ UNCHANGED <<ctxHeld, file, shared, holds, flight, deadline, gone, disc, evt>>

\* Transfer::new.
NewTransfer(h) ==
    /\ shared[h] /\ ~holds[h] /\ h \notin waking
    /\ holds' = [holds EXCEPT ![h] = TRUE]
    /\ UNCHANGED <<ctxHeld, file, shared, flight, deadline, gone, disc, waking,
                   pipe, evt>>

\* Handle::submit that succeeds, up to the unlock of `sub`.
Submit(h) ==
    /\ holds[h] /\ h \notin waking /\ flight[h] = "idle"
    /\ ~disc[h] /\ ~gone[h]
    /\ flight' = [flight EXCEPT ![h] = "kernel"]
    /\ \E d \in {"none", "armed"} : deadline' = [deadline EXCEPT ![h] = d]
    /\ waking' = waking \cup {h}
    /\ UNCHANGED <<ctxHeld, file, shared, holds, gone, disc, pipe, evt>>

\* Mutant of LastDropped: the event thread keeps descriptors, not Arcs.
LastUserDropped(h) == ~Held(h)'

\* Dropping what kept a handle open runs Handle::drop, which wakes the thread,
\* and closes the device, unless the event thread still holds its Arc.
LastDropped(h) == ~Held(h)' /\ h \notin evt.pass

CloseIfLast(h) ==
    IF LastDropped(h)
    THEN file' = [file EXCEPT ![h] = "closed"] /\ pipe' = Written(1)
    ELSE UNCHANGED <<file, pipe>>

DropTransfer(h) ==
    /\ holds[h] /\ h \notin waking
    /\ holds' = [holds EXCEPT ![h] = FALSE]
    /\ UNCHANGED <<ctxHeld, shared, flight, deadline, gone, disc, waking, evt>>
    /\ CloseIfLast(h)

\* The last DeviceHandle is dropped: HandleShared::drop cancels what is in
\* flight (the discarded URBs come back at once).
DropHandle(h) ==
    /\ shared[h] /\ h \notin waking
    /\ shared' = [shared EXCEPT ![h] = FALSE]
    /\ flight' = [flight EXCEPT ![h] = IF @ = "kernel" /\ ~gone[h]
                                       THEN "finished" ELSE @]
    /\ UNCHANGED <<ctxHeld, holds, deadline, gone, disc, waking, evt>>
    /\ CloseIfLast(h)

\* The last Context or Device of the user is dropped.
DropContext ==
    /\ ctxHeld
    /\ ctxHeld' = FALSE
    /\ UNCHANGED <<file, shared, holds, flight, deadline, gone, disc, waking,
                   pipe, evt>>

(***************************************************************************)
(* Kernel and clock (external).                                            *)
(***************************************************************************)

\* The submission ends by itself, or because the user cancelled it.
KernelFinishes(h) ==
    /\ flight[h] = "kernel"
    /\ flight' = [flight EXCEPT ![h] = "finished"]
    /\ UNCHANGED <<ctxHeld, file, shared, holds, deadline, gone, disc, waking,
                   pipe, evt>>

KernelLosesDevice(h) ==
    /\ file[h] = "open" /\ ~gone[h]
    /\ gone' = [gone EXCEPT ![h] = TRUE]
    /\ UNCHANGED <<ctxHeld, file, shared, holds, flight, deadline, disc, waking,
                   pipe, evt>>

DeadlinePasses(h) ==
    /\ deadline[h] = "armed"
    /\ deadline' = [deadline EXCEPT ![h] = "passed"]
    /\ UNCHANGED <<ctxHeld, file, shared, holds, flight, gone, disc, waking,
                   pipe, evt>>

(***************************************************************************)
(* The event thread.                                                       *)
(***************************************************************************)

\* The top of the loop: upgrade the context, or end; upgrade every handle that
\* is alive and not disconnected.
Snapshot ==
    /\ evt.step = "top"
    /\ evt' = IF CtxAlive
              THEN [evt EXCEPT !.step = "snapshot",
                      !.pass = {h \in Handles : file[h] = "open" /\ ~disc[h]}]
              ELSE [evt EXCEPT !.step = "exited"]
    /\ UNCHANGED <<ctxHeld, file, shared, holds, flight, deadline, gone, disc,
                   waking, pipe>>

\* next_deadline() of each handle of the pass gives poll() its timeout.
ComputeTimeout ==
    /\ evt.step = "snapshot"
    /\ evt' = [evt EXCEPT !.step = "poll",
                 !.wait = {h \in evt.pass : deadline[h] # "none"}]
    /\ UNCHANGED <<ctxHeld, file, shared, holds, flight, deadline, gone, disc,
                   waking, pipe>>

\* Mutants of Ready: a hang-up is not looked at; POLLOUT is not asked for.
ReadyToReap == {h \in evt.pass : flight[h] = "finished"}

ReadyToFail == {h \in evt.pass : gone[h]}

\* POLLOUT, POLLHUP or POLLERR is reported for these.
Ready == {h \in evt.pass : flight[h] = "finished" \/ gone[h]}

\* Mutant of PollSees: the hang-up of the pipe is not looked at.
PollSeesData == pipe > 0 \/ Ready # {} \/ \E h \in evt.wait : deadline[h] # "armed"

\* poll() returns what it found, or a signal interrupts it while there is nothing
\* to return: the wake pipe is readable or hung up, a device is ready, or a
\* deadline has passed.
PollSees ==
    \/ pipe > 0 \/ ~CtxAlive
    \/ Ready # {}
    \/ \E h \in evt.wait : deadline[h] # "armed"

\* The pipe is drained; the thread ends if the context is gone.
PollReturns ==
    /\ evt.step = "poll" /\ PollSees
    /\ pipe' = 0
    /\ evt' = IF CtxAlive
              THEN [evt EXCEPT !.step = "serve", !.todo = evt.pass, !.ready = Ready]
              ELSE [evt EXCEPT !.step = "exited"]
    /\ UNCHANGED <<ctxHeld, file, shared, holds, flight, deadline, gone, disc,
                   waking>>

\* One handle of the pass: reap() if poll() reported it, which completes the
\* submission (with NoDevice if the device is gone) and runs its callback, which
\* may submit again; then disconnect(); then expire(), which finds nothing.  The
\* completion needs the state lock, which submit() holds until it has woken us.
ServeReady(h) ==
    /\ evt.step = "serve" /\ h \in evt.todo /\ h \in evt.ready
    /\ flight[h] # "idle" => h \notin waking
    /\ disc' = [disc EXCEPT ![h] = gone[h]]
    /\ \/ /\ flight[h] = "finished" \/ gone[h]
          /\ flight' = [flight EXCEPT ![h] = "idle"]
          /\ deadline' = [deadline EXCEPT ![h] = "none"]
          /\ UNCHANGED pipe
       \/ /\ flight[h] = "finished" /\ ~gone[h]
          /\ flight' = [flight EXCEPT ![h] = "kernel"]
          /\ \E d \in {"none", "armed"} : deadline' = [deadline EXCEPT ![h] = d]
          /\ pipe' = Written(1)
    /\ evt' = [evt EXCEPT !.todo = @ \ {h}]
    /\ UNCHANGED <<ctxHeld, file, shared, holds, gone, waking>>

\* A handle poll() did not report: only expire(), which discards a submission
\* whose deadline has passed.
ServeOther(h) ==
    /\ evt.step = "serve" /\ h \in evt.todo /\ h \notin evt.ready
    /\ IF deadline[h] = "passed"
       THEN /\ flight' = [flight EXCEPT ![h] = IF @ = "kernel" /\ ~gone[h]
                                               THEN "finished" ELSE @]
            /\ deadline' = [deadline EXCEPT ![h] = "none"]
       ELSE UNCHANGED <<flight, deadline>>
    /\ evt' = [evt EXCEPT !.todo = @ \ {h}]
    /\ UNCHANGED <<ctxHeld, file, shared, holds, gone, disc, waking, pipe>>

\* The end of an iteration drops its Arcs, which may be the last ones.
DropPass ==
    LET last == {h \in evt.pass : ~Held(h)}
    IN  /\ file' = [h \in Handles |-> IF h \in last THEN "closed" ELSE file[h]]
        /\ pipe' = Written(Cardinality(last))
        /\ evt' = AtTop
        /\ UNCHANGED <<ctxHeld, shared, holds, flight, deadline, gone, disc,
                       waking>>

EndPass == evt.step = "serve" /\ evt.todo = {} /\ DropPass

\* poll() fails with EINTR: nothing is served and the loop starts over.
PollInterrupted == evt.step = "poll" /\ ~PollSees /\ DropPass

-----------------------------------------------------------------------------

EventStep ==
    \/ Snapshot \/ ComputeTimeout \/ PollReturns \/ EndPass
    \/ \E h \in Handles : ServeReady(h) \/ ServeOther(h)

Next ==
    \/ EventStep
    \/ \E h \in Handles :
          \/ Open(h) \/ Wake(h) \/ NewTransfer(h) \/ Submit(h)
          \/ DropTransfer(h) \/ DropHandle(h)
          \/ KernelFinishes(h) \/ KernelLosesDevice(h) \/ DeadlinePasses(h)
    \/ DropContext \/ PollInterrupted

Spec == Init /\ [][Next]_vars

(***************************************************************************)
(* Fairness: the event thread keeps running, a call that is about to wake  *)
(* it does so, the clock advances.  Users and devices owe nothing.         *)
(***************************************************************************)
Fairness ==
    /\ WF_vars(EventStep)
    /\ \A h \in Handles : WF_vars(Wake(h)) /\ WF_vars(DeadlinePasses(h))

FairSpec == Spec /\ Fairness

(***************************************************************************)
(* Properties.                                                             *)
(***************************************************************************)

TypeOK ==
    /\ ctxHeld \in BOOLEAN
    /\ file \in [Handles -> {"none", "open", "closed"}]
    /\ shared \in [Handles -> BOOLEAN]
    /\ holds \in [Handles -> BOOLEAN]
    /\ flight \in [Handles -> {"idle", "kernel", "finished"}]
    /\ deadline \in [Handles -> {"none", "armed", "passed"}]
    /\ gone \in [Handles -> BOOLEAN]
    /\ disc \in [Handles -> BOOLEAN]
    /\ waking \subseteq Handles
    /\ pipe \in 0..PipeSize
    /\ evt \in EventThread

\* The event thread never polls, reaps or expires a descriptor another thread
\* has closed, whoever drops the last user reference meanwhile ("polling a
\* descriptor that another thread has closed is a use-after-close").
PolledIsOpen == \A h \in evt.pass : file[h] = "open"

\* No wake-up is lost: while the thread is about to block or blocked and the
\* pipe is empty, every live handle is being polled and every deadline was
\* counted in the timeout, or the call that changed that is still to wake it,
\* also when the pipe was full.
NoLostWakeup ==
    evt.step \in {"snapshot", "poll"} /\ pipe = 0 =>
        \A h \in Handles : file[h] = "open" /\ ~disc[h] /\ h \notin waking =>
            /\ h \in evt.pass
            /\ evt.step = "poll" /\ deadline[h] # "none" => h \in evt.wait

\* What is finished is reaped, even on a handle opened while the thread slept.
FinishedIsReaped ==
    \A h \in Handles : flight[h] = "finished" ~> flight[h] # "finished"

\* A deadline that has passed is acted on, even one armed while the thread slept
\* without a timeout.
DeadlineIsServed ==
    \A h \in Handles : deadline[h] = "passed" ~> deadline[h] # "passed"

\* A lost device fails what is in flight on it.
LossIsNoticed ==
    \A h \in Handles : gone[h] ~> (flight[h] = "idle" /\ (disc[h] \/ file[h] = "closed"))

\* The two together: event_loop() acts on what makes no descriptor readable, a
\* deadline in expire() and the hang-up of a lost device in disconnect().
QuietEventsAreServed == DeadlineIsServed /\ LossIsNoticed

\* When nothing keeps the context alive the thread ends.
ThreadEnds == ~CtxAlive ~> evt.step = "exited"

\* A device nobody holds any more is closed: "When the last clone is dropped,
\* ... the device is closed" (DeviceHandle).
DeviceCloses ==
    \A h \in Handles : (file[h] = "open" /\ ~Held(h)) ~> file[h] = "closed"
=============================================================================
