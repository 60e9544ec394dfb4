---------------------------- MODULE LinuxTransfer ---------------------------
(***************************************************************************)
(* Transfers on one device handle of the Linux backend: Transfer::submit   *)
(* and Inner::complete of src/transfer.rs over Handle::submit, cancel,     *)
(* expire, reap, finish_urb and disconnect of src/sys/linux/mod.rs.        *)
(*                                                                         *)
(* Three kinds of actors interleave: user threads (submit, cancel), the    *)
(* context's event thread (reap, finish_urb, complete, expire, disconnect) *)
(* and the kernel, which is external and known through the usbfs ioctls.   *)
(* A submission is split into URBs 1..n (the code counts from 0).          *)
(*                                                                         *)
(* submit() holds the transfer's `state` and `sub` locks from its first to *)
(* its last step, so submitAt[t] # 0 stands for both locks.  Every other   *)
(* critical section is one step; the event thread's position between two   *)
(* critical sections is `evt`.                                             *)
(***************************************************************************)
EXTENDS Integers, FiniteSets

CONSTANTS
    Transfers,      \* transfers allocated on the handle
    Iso,            \* those of TransferType::Isochronous
    SingleUrb,      \* those of type Control and Interrupt; the rest are Bulk
    MaxUrbs,        \* bound on the URBs of one submission
    UrbLen,         \* buffer_length of a URB, in units of data
    KernelErrors,   \* errnos a URB may end with by itself
    NoSub,          \* TransferData.sub is None
    NoTransfer      \* the event thread holds no transfer

Idx == 1..MaxUrbs

Statuses == {"Completed", "Error", "TimedOut", "Cancelled", "Stall",
             "NoDevice", "Overflow"}

\* -ENOENT and -ECONNRESET are how the kernel reports an unlinked URB.
Unlinked == {"ENOENT", "ECONNRESET"}

UrbErrno == {"OK"} \cup Unlinked \cup KernelErrors

\* One UrbBox: who holds it, and the status and actual_length it came back with.
Urb == [at : {"user", "kernel", "done"}, status : UrbErrno, bytes : 0..UrbLen]

Submission ==
    [n             : Idx,                     \* urbs.len()
     reaped        : Nat,
     actual        : Nat,
     status        : Statuses \cup {"None"},
     deadline      : {"none", "armed", "passed"},
     timedOut      : BOOLEAN,
     cancelled     : BOOLEAN,
     discardedFrom : 1..(MaxUrbs + 1)]

\* The event thread: waiting or looking for work, about to run finish_urb for
\* URB i of t, about to run complete for t, or inside t's completion callback.
EventThread ==
    [step : {"idle", "finish", "complete", "callback"},
     t : Transfers \cup {NoTransfer}, i : 0..MaxUrbs,
     status : Statuses, actual : Nat]

ASSUME ConstantsAssumption ==
    /\ MaxUrbs \in Nat \ {0}
    /\ UrbLen \in Nat \ {0}
    /\ Iso \subseteq Transfers
    /\ SingleUrb \subseteq Transfers \ Iso
    /\ NoTransfer \notin Transfers
    /\ NoSub \notin Submission
    /\ KernelErrors \subseteq {"ENODEV", "ESHUTDOWN", "EPIPE", "EOVERFLOW",
                               "ETIME", "ETIMEDOUT", "EPROTO"}

VARIABLES
    inFlight,      \* State.in_flight
    result,        \* State.status and State.actual_length
    submitAt,      \* 0, or where a submit() in progress stands: Checked, or the
                   \* URB it is about to hand over
    sub,           \* TransferData.sub
    urb,           \* the URBs of each transfer
    pending,       \* Handle.pending: <<transfer, URB>>
    disconnected,  \* Handle.disconnected
    evt,           \* the event thread
    drained,       \* transfers disconnect() has drained and not yet failed
    gone,          \* the kernel has lost the device
    hup            \* this pass saw POLLHUP and will call disconnect() once more

vars == <<inFlight, result, submitAt, sub, urb, pending, disconnected, evt,
          drained, gone, hup>>

\* submit() has seen that the handle is not disconnected, and nothing more.
Checked == -1

Idle == [step |-> "idle", t |-> NoTransfer, i |-> 0,
         status |-> "Completed", actual |-> 0]

FreshUrb == [at |-> "user", status |-> "OK", bytes |-> 0]

Init ==
    /\ inFlight = [t \in Transfers |-> FALSE]
    /\ result = [t \in Transfers |-> [status |-> "Completed", actual |-> 0]]
    /\ submitAt = [t \in Transfers |-> 0]
    /\ sub = [t \in Transfers |-> NoSub]
    /\ urb = [t \in Transfers |-> [i \in Idx |-> FreshUrb]]
    /\ pending = {}
    /\ disconnected = FALSE
    /\ evt = Idle
    /\ drained = {}
    /\ gone = FALSE
    /\ hup = FALSE

Outstanding(t) == {i \in Idx : <<t, i>> \in pending}

(***************************************************************************)
(* Kernel (external).                                                      *)
(***************************************************************************)

Killed(b) == [at |-> "done", status |-> "ENOENT", bytes |-> b]

\* A URB that ran to its end: in full, short, or with an error.
Natural(t) ==
    {[at |-> "done", status |-> "OK", bytes |-> UrbLen]}
      \cup {[at |-> "done", status |-> e, bytes |-> b] :
               e \in {"OK"} \cup KernelErrors, b \in 0..(UrbLen - 1)}

\* What a loop of DISCARDURB over the URBs from `from` on can leave behind: each
\* URB the kernel still held is unlinked, unless it finished just before its
\* turn came.  A lost device refuses the ioctl.
Discarded(t, from) ==
    LET hit == {i \in Idx : i >= from /\ urb[t][i].at = "kernel" /\ ~gone}
        ends == {Killed(b) : b \in 0..(UrbLen - 1)} \cup Natural(t)
    IN  {[i \in Idx |-> IF i \in hit THEN f[i] ELSE urb[t][i]] :
            f \in [hit -> ends]}

\* Whether any of the ioctls of such a loop returned 0.
SomeKilled(t, after) ==
    \E i \in Idx : urb[t][i].at = "kernel" /\ after[i].status \in Unlinked

\* The URBs of t once URB i has come back as u; `cut` if the kernel unlinked
\* the URBs queued behind it.
UrbsAfter(t, i, u, cut) ==
    [j \in Idx |-> IF j = i THEN u
                   ELSE IF j > i /\ cut /\ urb[t][j].at = "kernel" THEN Killed(0)
                   ELSE urb[t][j]]

\* The controller finishes the first queued URB of a transfer.  When a bulk URB
\* fails the kernel unlinks the continuation URBs behind it; when it is merely
\* short the kernel may or may not have done so.
KernelFinishes(t) ==
    \E i \in Idx, u \in Natural(t), cut \in BOOLEAN :
        /\ urb[t][i].at = "kernel"
        /\ \A j \in 1..(i - 1) : urb[t][j].at # "kernel"
        /\ t \in Iso => ~cut
        /\ t \notin Iso /\ u.status # "OK" => cut
        /\ u.status = "OK" /\ u.bytes = UrbLen => ~cut
        /\ urb' = [urb EXCEPT ![t] = UrbsAfter(t, i, u, cut)]
        /\ UNCHANGED <<inFlight, result, submitAt, sub, pending, disconnected,
                       evt, drained, gone, hup>>

\* The device is unplugged: from here on the kernel accepts and unlinks nothing.
KernelLosesDevice ==
    /\ ~gone
    /\ gone' = TRUE
    /\ UNCHANGED <<inFlight, result, submitAt, sub, urb, pending, disconnected,
                   evt, drained, hup>>

\* SUBMITURB of a continuation URB is refused once an earlier one has failed.
KernelRefuses(t, k) ==
    \/ gone
    \/ t \notin Iso /\ \E i \in 1..(k - 1) :
          urb[t][i].at = "done" /\ urb[t][i].status \notin {"OK"} \cup Unlinked

(***************************************************************************)
(* Submission (a user thread, or the callback on the event thread).        *)
(***************************************************************************)

\* Submission::build: the number of URBs depends on the type and the buffer;
\* there is a deadline if the transfer has a timeout.
UrbCounts(t) == IF t \in SingleUrb THEN {1} ELSE Idx

Build(n, timed) ==
    [n |-> n, reaped |-> 0, actual |-> 0, status |-> "None",
     deadline |-> IF timed THEN "armed" ELSE "none",
     timedOut |-> FALSE, cancelled |-> FALSE, discardedFrom |-> MaxUrbs + 1]

\* submit() fails before it has registered anything: the handle is marked
\* disconnected, or build() refuses the buffer (too large, or too large for a
\* kernel without bulk continuation).  in_flight is set and reset, and only the
\* actual length stays changed.  That `sub` is still taken is a third reason in
\* the code; Custody shows that it never is.
SubmitRefused(t) ==
    /\ submitAt[t] = 0 /\ ~inFlight[t]
    /\ result' = [result EXCEPT ![t].actual = 0]
    /\ UNCHANGED <<inFlight, submitAt, sub, urb, pending, disconnected, evt,
                   drained, gone, hup>>

\* submit() finds the transfer idle and the handle not disconnected.
SubmitStart(t) ==
    /\ submitAt[t] = 0 /\ ~inFlight[t]
    /\ ~disconnected /\ sub[t] = NoSub
    /\ inFlight' = [inFlight EXCEPT ![t] = TRUE]
    /\ result' = [result EXCEPT ![t].actual = 0]
    /\ submitAt' = [submitAt EXCEPT ![t] = Checked]
    /\ UNCHANGED <<sub, urb, pending, disconnected, evt, drained, gone, hup>>

\* submit() builds the submission and registers all its URBs in `pending`
\* before the kernel sees the first.
SubmitRegister(t) ==
    /\ submitAt[t] = Checked
    /\ \E n \in UrbCounts(t), timed \in BOOLEAN :
          /\ sub' = [sub EXCEPT ![t] = Build(n, timed)]
          /\ pending' = pending \cup ({t} \X (1..n))
    /\ submitAt' = [submitAt EXCEPT ![t] = 1]
    /\ UNCHANGED <<inFlight, result, urb, disconnected, evt, drained, gone, hup>>

\* The ioctl loop hands over one URB; after the last the locks are released.
SubmitUrb(t) ==
    LET k == submitAt[t]
    IN  /\ k > 0
        /\ ~KernelRefuses(t, k)
        /\ urb' = [urb EXCEPT ![t][k].at = "kernel"]
        /\ submitAt' = [submitAt EXCEPT ![t] = IF k = sub[t].n THEN 0 ELSE k + 1]
        /\ UNCHANGED <<inFlight, result, sub, pending, disconnected, evt,
                       drained, gone, hup>>

\* The first SUBMITURB fails: nothing is with the kernel and submit() fails.
SubmitFails(t) ==
    /\ submitAt[t] = 1
    /\ pending' = pending \ ({t} \X (1..sub[t].n))
    /\ sub' = [sub EXCEPT ![t] = NoSub]
    /\ inFlight' = [inFlight EXCEPT ![t] = FALSE]
    /\ submitAt' = [submitAt EXCEPT ![t] = 0]
    /\ UNCHANGED <<result, urb, disconnected, evt, drained, gone, hup>>

\* Mutants of SubmitCutShort: `urbs` is not truncated; the entries of the URBs
\* never submitted stay in `pending`.
SubmitCutShortUntruncated(t) ==
    LET k == submitAt[t]
    IN  /\ k > 1
        /\ pending' = pending \ ({t} \X (k..sub[t].n))
        /\ sub' = [sub EXCEPT ![t].discardedFrom = k, ![t].status = "Error"]
        /\ \E after \in Discarded(t, 1) : urb' = [urb EXCEPT ![t] = after]
        /\ submitAt' = [submitAt EXCEPT ![t] = 0]
        /\ UNCHANGED <<inFlight, result, disconnected, evt, drained, gone, hup>>

SubmitCutShortStillPending(t) ==
    LET k == submitAt[t]
    IN  /\ k > 1
        /\ sub' = [sub EXCEPT ![t].discardedFrom = k, ![t].n = k - 1,
                              ![t].status = "Error"]
        /\ \E after \in Discarded(t, 1) : urb' = [urb EXCEPT ![t] = after]
        /\ submitAt' = [submitAt EXCEPT ![t] = 0]
        /\ UNCHANGED <<inFlight, result, pending, disconnected, evt, drained,
                       gone, hup>>

\* A later SUBMITURB fails: submit() forgets the URBs from k on, discards the
\* ones already handed over, and still returns Ok.
SubmitCutShort(t) ==
    LET k == submitAt[t]
    IN  /\ k > 1
        /\ pending' = pending \ ({t} \X (k..sub[t].n))
        /\ sub' = [sub EXCEPT ![t].discardedFrom = k, ![t].n = k - 1,
                              ![t].status = "Error"]
        /\ \E after \in Discarded(t, 1) : urb' = [urb EXCEPT ![t] = after]
        /\ submitAt' = [submitAt EXCEPT ![t] = 0]
        /\ UNCHANGED <<inFlight, result, disconnected, evt, drained, gone, hup>>

(***************************************************************************)
(* Cancellation and time.                                                  *)
(***************************************************************************)

\* Mutant of Cancel: the flag is not set.
CancelUnflagged(t) ==
    /\ submitAt[t] = 0 /\ sub[t] # NoSub
    /\ \E after \in Discarded(t, 1) : urb' = [urb EXCEPT ![t] = after]
    /\ UNCHANGED <<inFlight, result, submitAt, sub, pending, disconnected, evt,
                   drained, gone, hup>>

\* cancel() of a submitted transfer.
Cancel(t) ==
    /\ submitAt[t] = 0 /\ sub[t] # NoSub
    /\ \E after \in Discarded(t, 1) :
          /\ urb' = [urb EXCEPT ![t] = after]
          /\ sub' = [sub EXCEPT ![t].cancelled = @ \/ SomeKilled(t, after)]
    /\ UNCHANGED <<inFlight, result, submitAt, pending, disconnected, evt,
                   drained, gone, hup>>

\* The clock passes the submission's deadline.
DeadlinePasses(t) ==
    /\ submitAt[t] = 0 /\ sub[t] # NoSub /\ sub[t].deadline = "armed"
    /\ sub' = [sub EXCEPT ![t].deadline = "passed"]
    /\ UNCHANGED <<inFlight, result, submitAt, urb, pending, disconnected, evt,
                   drained, gone, hup>>

\* Mutant of Expire: the deadline is cleared and nothing discarded.
ExpireUndiscarded(t) ==
    /\ evt.step = "idle" /\ drained = {}
    /\ Outstanding(t) # {}
    /\ submitAt[t] = 0 /\ sub[t] # NoSub
    /\ sub[t].deadline = "passed" /\ ~sub[t].timedOut
    /\ sub' = [sub EXCEPT ![t].deadline = "none"]
    /\ UNCHANGED <<inFlight, result, submitAt, urb, pending, disconnected, evt,
                   drained, gone, hup>>

\* expire(), on the event thread.
Expire(t) ==
    /\ evt.step = "idle" /\ drained = {}
    /\ Outstanding(t) # {}
    /\ submitAt[t] = 0 /\ sub[t] # NoSub
    /\ sub[t].deadline = "passed" /\ ~sub[t].timedOut
    /\ \E after \in Discarded(t, 1) :
          /\ urb' = [urb EXCEPT ![t] = after]
          /\ sub' = [sub EXCEPT ![t].timedOut = SomeKilled(t, after),
                                ![t].deadline = "none"]
    /\ UNCHANGED <<inFlight, result, submitAt, pending, disconnected, evt,
                   drained, gone, hup>>

(***************************************************************************)
(* Reaping and completion (the event thread).                              *)
(***************************************************************************)

\* REAPURBNDELAY returns a URB, those of one endpoint in the order in which
\* they finished; its `pending` entry leads to the transfer.
Reap(t, i) ==
    /\ evt.step = "idle" /\ drained = {} /\ ~disconnected
    /\ urb[t][i].at = "done"
    /\ \A j \in 1..(i - 1) : urb[t][j].at # "done"
    /\ urb' = [urb EXCEPT ![t][i].at = "user"]
    /\ pending' = pending \ {<<t, i>>}
    /\ evt' = IF <<t, i>> \in pending
              THEN [evt EXCEPT !.step = "finish", !.t = t, !.i = i]
              ELSE evt
    /\ UNCHANGED <<inFlight, result, submitAt, sub, disconnected, drained, gone,
                   hup>>

\* urb_status: what a URB's errno says of the transfer; nothing if unlinked.
UrbStatus(e) ==
    CASE e = "OK" -> "Completed"
      [] e \in Unlinked -> "None"
      [] e \in {"ENODEV", "ESHUTDOWN"} -> "NoDevice"
      [] e = "EPIPE" -> "Stall"
      [] e = "EOVERFLOW" -> "Overflow"
      [] e \in {"ETIME", "ETIMEDOUT"} -> "TimedOut"
      [] OTHER -> "Error"

\* A URB whose failure was our own doing says nothing of the transfer.
Ours(s, i) == i >= s.discardedFrom \/ s.cancelled \/ s.timedOut

IsShort(t, u) == t \notin Iso /\ u.bytes < UrbLen

\* The submission once URB i, which came back as u, is accounted for.
Account(s, i, u) ==
    [s EXCEPT !.reaped = @ + 1,
              !.actual = @ + u.bytes,
              !.status = IF u.status # "OK" /\ ~Ours(s, i) /\ @ = "None"
                         THEN UrbStatus(u.status) ELSE @]

\* Whether URB i ends the submission early, so that the rest is discarded.
EndsEarly(t, s, i, u) ==
    (IsShort(t, u) \/ u.status # "OK") /\ i < s.n /\ s.discardedFrom > i + 1

FinalStatus(s) ==
    CASE s.timedOut -> "TimedOut"
      [] ~s.timedOut /\ s.cancelled -> "Cancelled"
      [] OTHER -> IF s.status = "None" THEN "Completed" ELSE s.status

LastReaped(s) == s.reaped = s.n

\* finish_urb, up to the unlock of `sub`.
FinishUrb ==
    LET t == evt.t
        i == evt.i
        s == Account(sub[t], i, urb[t][i])
        early == EndsEarly(t, sub[t], i, urb[t][i])
    IN  /\ evt.step = "finish"
        /\ submitAt[t] = 0 /\ sub[t] # NoSub
        /\ \E after \in IF early THEN Discarded(t, i + 1) ELSE {urb[t]} :
              urb' = [urb EXCEPT ![t] = after]
        /\ IF LastReaped(s)
           THEN /\ sub' = [sub EXCEPT ![t] = NoSub]
                /\ evt' = [evt EXCEPT !.step = "complete", !.i = 0,
                             !.status = FinalStatus(s), !.actual = s.actual]
           ELSE /\ sub' = [sub EXCEPT ![t] = IF early
                             THEN [s EXCEPT !.discardedFrom = i + 1] ELSE s]
                /\ evt' = Idle
        /\ UNCHANGED <<inFlight, result, submitAt, pending, disconnected,
                       drained, gone, hup>>

\* complete(): the result is published under the state lock, then a callback,
\* if one is installed, runs with no lock held.  The submission that was taken
\* goes out of scope, and its URBs with it.
Complete ==
    LET t == evt.t
    IN  /\ evt.step = "complete"
        /\ submitAt[t] = 0
        /\ inFlight' = [inFlight EXCEPT ![t] = FALSE]
        /\ result' = [result EXCEPT ![t] = [status |-> evt.status,
                                            actual |-> evt.actual]]
        /\ evt' \in {Idle, [Idle EXCEPT !.step = "callback", !.t = t]}
        /\ urb' = [urb EXCEPT ![t] = [i \in Idx |-> FreshUrb]]
        /\ UNCHANGED <<submitAt, sub, pending, disconnected, drained, gone, hup>>

CallbackReturns ==
    /\ evt.step = "callback"
    /\ evt' = Idle
    /\ UNCHANGED <<inFlight, result, submitAt, sub, urb, pending, disconnected,
                   drained, gone, hup>>

(***************************************************************************)
(* Disconnection (the event thread).                                       *)
(***************************************************************************)

\* disconnect() marks the handle and empties `pending`.
Drain ==
    /\ disconnected' = TRUE
    /\ drained' = {t \in Transfers : Outstanding(t) # {}}
    /\ pending' = {}
    /\ UNCHANGED <<inFlight, result, submitAt, sub, urb, evt, gone>>

\* REAPURBNDELAY fails with ENODEV once nothing finished is left to reap, and
\* reap() calls disconnect().  poll() may or may not have reported the hang-up.
Disconnect ==
    /\ evt.step = "idle" /\ drained = {} /\ ~disconnected
    /\ gone /\ \A t \in Transfers, i \in Idx : urb[t][i].at # "done"
    /\ Drain
    /\ hup' \in BOOLEAN

\* If it had, event_loop() calls disconnect() again after reap(), and may meet a
\* submit() that registered in the meantime.
DisconnectAgain ==
    /\ evt.step = "idle" /\ drained = {} /\ hup
    /\ Drain
    /\ hup' = FALSE

\* Mutant of FailDrained: completes without looking at what it took.
FailDrainedUnchecked(t) ==
    /\ evt.step = "idle" /\ t \in drained
    /\ submitAt[t] = 0
    /\ drained' = drained \ {t}
    /\ sub' = [sub EXCEPT ![t] = NoSub]
    /\ evt' = [evt EXCEPT !.step = "complete", !.t = t,
                 !.status = "NoDevice", !.actual = 0]
    /\ UNCHANGED <<inFlight, result, submitAt, urb, pending, disconnected, gone,
                   hup>>

\* disconnect() takes the submission of one drained transfer and, unless a
\* failing submit() has already withdrawn it, completes it with NoDevice.
FailDrained(t) ==
    /\ evt.step = "idle" /\ t \in drained
    /\ submitAt[t] = 0
    /\ drained' = drained \ {t}
    /\ sub' = [sub EXCEPT ![t] = NoSub]
    /\ evt' = IF sub[t] = NoSub THEN evt
              ELSE [evt EXCEPT !.step = "complete", !.t = t,
                      !.status = "NoDevice", !.actual = sub[t].actual]
    /\ UNCHANGED <<inFlight, result, submitAt, urb, pending, disconnected, gone,
                   hup>>

-----------------------------------------------------------------------------

EventStep ==
    \/ \E t \in Transfers : Expire(t) \/ FailDrained(t)
    \/ \E t \in Transfers, i \in Idx : Reap(t, i)
    \/ FinishUrb \/ Complete \/ CallbackReturns
    \/ Disconnect \/ DisconnectAgain

SubmitStep(t) ==
    SubmitRegister(t) \/ SubmitUrb(t) \/ SubmitFails(t) \/ SubmitCutShort(t)

Next ==
    \/ EventStep
    \/ \E t \in Transfers :
          \/ SubmitRefused(t) \/ SubmitStart(t) \/ SubmitStep(t)
          \/ Cancel(t) \/ DeadlinePasses(t) \/ KernelFinishes(t)
    \/ KernelLosesDevice

Spec == Init /\ [][Next]_vars
(***************************************************************************)
(* Fairness: the event thread keeps running, visits every finished URB     *)
(* (the kernel's list of them is first-in first-out) and ends each pass    *)
(* with expire; a submit() under way goes on; the clock advances.  Nothing *)
(* is asked of the device, the kernel's queues or the user.                *)
(***************************************************************************)
Fairness ==
    /\ WF_vars(EventStep)
    /\ \A t \in Transfers :
          /\ WF_vars(SubmitStep(t))
          /\ WF_vars(DeadlinePasses(t))
          /\ SF_vars(Expire(t))
          /\ SF_vars(\E i \in Idx : Reap(t, i))

FairSpec == Spec /\ Fairness

(***************************************************************************)
(* Properties.                                                             *)
(***************************************************************************)

TypeOK ==
    /\ inFlight \in [Transfers -> BOOLEAN]
    /\ result \in [Transfers -> [status : Statuses, actual : Nat]]
    /\ submitAt \in [Transfers -> {Checked, 0} \cup Idx]
    /\ sub \in [Transfers -> Submission \cup {NoSub}]
    /\ urb \in [Transfers -> [Idx -> Urb]]
    /\ pending \subseteq Transfers \X Idx
    /\ disconnected \in BOOLEAN
    /\ evt \in EventThread
    /\ evt.step # "idle" => evt.t \in Transfers
    /\ evt.step = "finish" => evt.i \in Idx
    /\ drained \subseteq Transfers
    /\ gone \in BOOLEAN
    /\ hup \in BOOLEAN

\* The event thread has taken URB i of t out of `pending` and is about to
\* account for it.
Finishing(t) == evt.step = "finish" /\ evt.t = t

Completing(t) == evt.step = "complete" /\ evt.t = t

\* Somebody will still call complete() for t.
Owed(t) ==
    \/ submitAt[t] # 0
    \/ sub[t] # NoSub /\ (Outstanding(t) # {} \/ Finishing(t) \/ t \in drained)
    \/ Completing(t)

\* The URBs of t that finish_urb has still to account for.
Unaccounted(t) ==
    Outstanding(t) \cup {i \in Idx : Finishing(t) /\ evt.i = i}

\* A transfer is in flight exactly while one actor still owes it a completion:
\* no interleaving of submit, reap, cancel, expire and disconnect strands a
\* transfer in flight, completes it twice, or completes a refused submission
\* ("exactly once per submission", Inner::complete).
CompletionOwed == \A t \in Transfers : inFlight[t] <=> Owed(t)

\* `pending` is what its comment says, "every URB currently owned by the
\* kernel": outside submit() and until the handle is disconnected, the two
\* agree, and each such URB is one that a live submission keeps allocated.
PendingIsKernel ==
    ~disconnected =>
        \A t \in Transfers, i \in Idx :
            /\ urb[t][i].at # "user" =>
                  /\ <<t, i>> \in pending
                  /\ sub[t] # NoSub /\ i <= sub[t].n
            /\ <<t, i>> \in pending /\ submitAt[t] = 0 => urb[t][i].at # "user"

\* The inductive strengthening of the two invariants above, one transfer's part:
\* who holds the transfer, and that the URBs reaped and the URBs still to be
\* accounted for always make up the submission.
Custody(t) ==
    /\ inFlight[t] <=> submitAt[t] # 0 \/ sub[t] # NoSub \/ Completing(t)
    /\ submitAt[t] = Checked => sub[t] = NoSub /\ t \notin drained
    /\ submitAt[t] > 0 => sub[t] # NoSub /\ submitAt[t] <= sub[t].n
    /\ submitAt[t] > 0 /\ t \notin drained =>
          sub[t].reaped = 0 /\ Unaccounted(t) = 1..sub[t].n
    /\ Completing(t) => sub[t] = NoSub /\ submitAt[t] = 0 /\ t \notin drained
    /\ sub[t] # NoSub /\ t \notin drained =>
          /\ Unaccounted(t) # {}
          /\ sub[t].reaped + Cardinality(Unaccounted(t)) = sub[t].n
    /\ sub[t] # NoSub => Unaccounted(t) \subseteq 1..sub[t].n
    /\ sub[t] = NoSub \/ t \in drained => Unaccounted(t) = {}

UrbCustody(t) ==
    /\ Finishing(t) =>
          /\ evt.i \notin Outstanding(t) /\ urb[t][evt.i].at = "user"
          /\ submitAt[t] > 0 => evt.i < submitAt[t]
    /\ submitAt[t] = Checked => \A i \in Idx : urb[t][i].at = "user"
    /\ \A i \in Idx :
          /\ ~disconnected /\ urb[t][i].at # "user" => <<t, i>> \in pending
          /\ <<t, i>> \in pending =>
                (urb[t][i].at # "user" <=> submitAt[t] <= 0 \/ i < submitAt[t])

Disconnecting ==
    /\ drained # {} => disconnected
    /\ disconnected => gone
    /\ hup => disconnected
    /\ evt.step = "finish" => ~disconnected

IInv ==
    /\ TypeOK
    /\ \A t \in Transfers : Custody(t) /\ UrbCustody(t)
    /\ Disconnecting

\* A transfer reported Completed had no URB fail, and had a URB unlinked only
\* behind one that came back short: an outcome of finish_urb's bookkeeping of
\* discarded_from, cancelled and timed_out, whatever races with the reaps.
CompletedIsHonest ==
    evt.step = "complete" /\ evt.status = "Completed" =>
        \A i \in Idx : urb[evt.t][i].status # "OK" =>
            \E j \in 1..(i - 1) :
                urb[evt.t][j].status = "OK" /\ IsShort(evt.t, urb[evt.t][j])

\* The data a transfer reported Completed offers is a prefix of its buffer:
\* behind a URB that is not full no later URB holds data, since Transfer::data
\* returns the first actual_length bytes as "the received data" and finish_urb
\* takes the kernel to have cancelled the URBs behind a short one.  (It does so
\* for a failed URB; a short one fails only if the user set short_not_ok.)
DataIsPrefix ==
    evt.step = "complete" /\ evt.status = "Completed" /\ evt.t \notin Iso =>
        \A i, j \in Idx : i < j /\ urb[evt.t][i].bytes < UrbLen =>
            urb[evt.t][j].bytes = 0

\* A submission with a timeout leaves flight even if the device never answers.
TimeoutCompletes ==
    \A t \in Transfers :
        (sub[t] # NoSub /\ sub[t].deadline # "none") ~> ~inFlight[t]

\* A cancelled submission leaves flight even if the device never answers.
CancelCompletes ==
    \A t \in Transfers : (sub[t] # NoSub /\ sub[t].cancelled) ~> ~inFlight[t]

\* When the device goes away every transfer leaves flight, also one whose
\* submit() races with disconnect(), and none takes off for good again.
DisconnectCompletes ==
    gone ~> [](\A t \in Transfers : submitAt[t] = 0 => ~inFlight[t])

\* The three together: expire(), cancel() and disconnect() each end a transfer
\* that would stay in flight for good without them.
EndsAreReported == TimeoutCompletes /\ CancelCompletes /\ DisconnectCompletes

\* What TransferLife calls the phase of each transfer.
Phase ==
    [t \in Transfers |->
        IF submitAt[t] # 0 THEN "submitting"
        ELSE IF inFlight[t] THEN "accepted" ELSE "idle"]

Life == INSTANCE TransferLife WITH phase <- Phase, result <- result

\* Every accepted submission is completed exactly once and no refused one is,
\* and the result changes at a completion only (refinement of TransferLife).
ImplementsLife == Life!Spec
=============================================================================
