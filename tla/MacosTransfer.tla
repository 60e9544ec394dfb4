---------------------------- MODULE MacosTransfer ----------------------------
(***************************************************************************)
(* Transfers of one handle of the macOS backend (src/sys/macos/mod.rs):    *)
(* submit() on user threads, IOKit with its asynchronous requests, and the *)
(* event thread, whose run loop calls completion() for each that ends.     *)
(*                                                                         *)
(* submit(t) holds `sub` of t (and its State) from SubmitStart to Insert   *)
(* and takes `pending` in Insert; next_deadline() holds `pending` (step    *)
(* "scan") while it takes `sub` of every entry.                            *)
(***************************************************************************)
EXTENDS Naturals, FiniteSets

CONSTANTS Transfers,   \* the transfers of one handle
          Interrupt,   \* those of one interrupt pipe; the others are control
                       \* transfers, whose timeout the kernel enforces
          Results,     \* IOReturn codes a request may end with
          MaxSubmits,  \* bound on the number of submissions
          NoSub        \* TransferData.sub is None

VARIABLES inFlight,     \* State.in_flight
          result,       \* State.status and State.actual_length
          user,         \* how far submit() is: "idle", "issue" or "insert"
          count,        \* submissions so far; stands for the address of the Entry
          left,         \* submissions left within the bound
          sub,          \* TransferData.sub
          req,          \* the request: where it is, its result, whether aborted
          pending,      \* Handle.pending
          evt,          \* the event thread
          disconnected, \* Handle.disconnected
          gone          \* the device was unplugged

vars == <<inFlight, result, user, count, left, sub, req, pending, evt, disconnected, gone>>

Statuses == {"Completed", "Cancelled", "TimedOut", "Stall", "NoDevice", "Overflow", "Error"}

NoReq == [at |-> "none", code |-> "Success", aborted |-> FALSE]
TopOfLoop == [step |-> "top", t |-> NoSub, final |-> "Completed"]

Init ==
    /\ inFlight = [t \in Transfers |-> FALSE]
    /\ result = [t \in Transfers |-> [status |-> "Completed", actual |-> 0]]
    /\ user = [t \in Transfers |-> "idle"]
    /\ count = [t \in Transfers |-> 0] /\ left = MaxSubmits
    /\ sub = [t \in Transfers |-> NoSub]
    /\ req = [t \in Transfers |-> NoReq]
    /\ pending = {} /\ evt = TopOfLoop /\ disconnected = FALSE /\ gone = FALSE

-----------------------------------------------------------------------------
(* submit() *)

\* Mutant: the check of in_flight is missing.
SubmitStartTwice(t) ==
    /\ user[t] = "idle" /\ left > 0 /\ ~disconnected
    /\ inFlight' = [inFlight EXCEPT ![t] = TRUE]
    /\ user' = [user EXCEPT ![t] = "issue"]
    /\ count' = [count EXCEPT ![t] = @ + 1] /\ left' = left - 1
    /\ result' = [result EXCEPT ![t].actual = 0]
    /\ UNCHANGED <<sub, req, pending, evt, disconnected, gone>>

SubmitStart(t) ==
    /\ ~inFlight[t] /\ left > 0 /\ ~disconnected
    /\ inFlight' = [inFlight EXCEPT ![t] = TRUE]
    /\ user' = [user EXCEPT ![t] = "issue"]
    /\ count' = [count EXCEPT ![t] = @ + 1] /\ left' = left - 1
    /\ result' = [result EXCEPT ![t].actual = 0]
    /\ UNCHANGED <<sub, req, pending, evt, disconnected, gone>>

SubmitDisconnected(t) ==
    /\ ~inFlight[t] /\ disconnected /\ result[t].actual # 0
    /\ result' = [result EXCEPT ![t].actual = 0]
    /\ UNCHANGED <<inFlight, user, count, left, sub, req, pending, evt, disconnected, gone>>

\* No claimed interface has the endpoint, or IOKit refuses: the Entry is freed.
IssueFails(t) ==
    /\ user[t] = "issue"
    /\ inFlight' = [inFlight EXCEPT ![t] = FALSE]
    /\ user' = [user EXCEPT ![t] = "idle"]
    /\ UNCHANGED <<result, count, left, sub, req, pending, evt, disconnected, gone>>

\* DeviceRequestAsyncTO, ReadPipeAsync and the like took the request.
Issue(t) ==
    /\ user[t] = "issue" /\ ~gone
    /\ req' = [req EXCEPT ![t] = [NoReq EXCEPT !.at = "kernel"]]
    /\ user' = [user EXCEPT ![t] = "insert"]
    /\ UNCHANGED <<inFlight, result, count, left, sub, pending, evt, disconnected, gone>>

\* Registers the request, publishes `sub` and lets go of the locks.  The wake()
\* at the end stops the run loop if it is running; LoopReturns is enabled anyway.
Insert(t, timeout) ==
    /\ user[t] = "insert" /\ evt.step # "scan"
    /\ pending' = pending \cup {<<t, count[t]>>}
    /\ sub' = [sub EXCEPT ![t] = [deadline |-> IF t \in Interrupt THEN timeout ELSE "none",
                                  cancelled |-> FALSE, timedOut |-> FALSE]]
    /\ user' = [user EXCEPT ![t] = "idle"]
    /\ UNCHANGED <<inFlight, result, count, left, req, evt, disconnected, gone>>

-----------------------------------------------------------------------------
(* abort(), cancel(), and the outside world *)

SamePipe(t) == IF t \in Interrupt THEN Interrupt ELSE Transfers \ Interrupt

\* abort(): AbortPipe and USBDeviceAbortPipeZero end every request of the pipe.
Aborted(ts) ==
    [u \in Transfers |-> IF req[u].at = "kernel" /\ \E t \in ts : u \in SamePipe(t)
                         THEN [req[u] EXCEPT !.aborted = TRUE] ELSE req[u]]

\* cancel(), also as a part of cancel_all().
Cancel(t) ==
    /\ user[t] = "idle" /\ sub[t] # NoSub /\ ~sub[t].cancelled
    /\ sub' = [sub EXCEPT ![t].cancelled = TRUE]
    /\ req' = Aborted({t})
    /\ UNCHANGED <<inFlight, result, user, count, left, pending, evt, disconnected, gone>>

\* The request ends and its completion is queued on the run loop's source.
KernelFinishes(t, code) ==
    /\ req[t].at = "kernel"
    /\ code = "Aborted" => req[t].aborted
    /\ code = "Timeout" => t \notin Interrupt
    /\ code = "NoDevice" <=> gone
    /\ req' = [req EXCEPT ![t].at = "source", ![t].code = code]
    /\ UNCHANGED <<inFlight, result, user, count, left, sub, pending, evt, disconnected, gone>>

DeviceGone ==
    /\ ~gone /\ gone' = TRUE
    /\ UNCHANGED <<inFlight, result, user, count, left, sub, req, pending, evt, disconnected>>

DeadlinePasses(t) ==
    /\ sub[t] # NoSub /\ sub[t].deadline = "set"
    /\ sub' = [sub EXCEPT ![t].deadline = "due"]
    /\ UNCHANGED <<inFlight, result, user, count, left, req, pending, evt, disconnected, gone>>

-----------------------------------------------------------------------------
(* event_loop() *)

\* next_deadline(): `pending` is locked ...
LockPending ==
    /\ evt.step = "top"
    /\ evt' = [evt EXCEPT !.step = "scan"]
    /\ UNCHANGED <<inFlight, result, user, count, left, sub, req, pending, disconnected, gone>>

Registered == {e[1] : e \in pending}

\* ... and then `sub` of every transfer in it; the run loop starts.
NextDeadline ==
    /\ evt.step = "scan" /\ \A t \in Registered : user[t] = "idle"
    /\ evt' = [evt EXCEPT !.step = "run"]
    /\ UNCHANGED <<inFlight, result, user, count, left, sub, req, pending, disconnected, gone>>

\* completion() on the run loop; finish() first takes the request out of `pending` ...
Completion(t) ==
    /\ evt.step = "run" /\ req[t].at = "source"
    /\ pending' = pending \ {<<t, count[t]>>}
    /\ evt' = [evt EXCEPT !.step = "take", !.t = t]
    /\ UNCHANGED <<inFlight, result, user, count, left, sub, req, disconnected, gone>>

Mapped(code) == CASE code \in {"Success", "Underrun"} -> "Completed"
                  [] code = "Aborted"                 -> "Cancelled"
                  [] code = "Timeout"                 -> "TimedOut"
                  [] code = "NoDevice"                -> "NoDevice"
                  [] code = "PipeStalled"             -> "Stall"
                  [] code = "Overrun"                 -> "Overflow"
                  [] OTHER                            -> "Error"

\* ... then takes `sub`, which submit(t) may still hold ...
Take ==
    LET t == evt.t mapped == Mapped(req[evt.t].code)
    IN  /\ evt.step = "take" /\ user[t] = "idle"
        /\ sub' = [sub EXCEPT ![t] = NoSub]
        /\ evt' = [evt EXCEPT !.step = "complete",
                              !.final = IF sub[t].timedOut /\ mapped = "Cancelled" THEN "TimedOut" ELSE mapped]
        /\ disconnected' = (disconnected \/ mapped = "NoDevice")
        /\ UNCHANGED <<inFlight, result, user, count, left, req, pending, gone>>

\* ... and reports; the Entry is freed and the run loop goes on.
Complete ==
    /\ evt.step = "complete"
    /\ inFlight' = [inFlight EXCEPT ![evt.t] = FALSE]
    /\ \E actual \in 0..1 : result' = [result EXCEPT ![evt.t] = [status |-> evt.final, actual |-> actual]]
    /\ req' = [req EXCEPT ![evt.t] = NoReq]
    /\ evt' = [TopOfLoop EXCEPT !.step = "run"]
    /\ UNCHANGED <<user, count, left, sub, pending, disconnected, gone>>

\* CFRunLoopRunInMode returns: it was stopped or its time is up, at the latest
\* after an hour.
LoopReturns ==
    /\ evt.step = "run" /\ evt' = [evt EXCEPT !.step = "expire"]
    /\ UNCHANGED <<inFlight, result, user, count, left, sub, req, pending, disconnected, gone>>

\* expire() of a copy of `pending`; each `sub` is locked in turn.
Expire ==
    /\ evt.step = "expire" /\ \A t \in Registered : user[t] = "idle"
    /\ LET due == {t \in Registered : sub[t] # NoSub /\ sub[t].deadline = "due" /\ ~sub[t].timedOut}
       IN  /\ sub' = [t \in Transfers |->
                        IF t \in due THEN [sub[t] EXCEPT !.deadline = "none", !.timedOut = TRUE] ELSE sub[t]]
           /\ req' = Aborted(due)
    /\ evt' = TopOfLoop
    /\ UNCHANGED <<inFlight, result, user, count, left, pending, disconnected, gone>>

Submit(t) == IssueFails(t) \/ Issue(t) \/ \E timeout \in {"none", "set"} : Insert(t, timeout)

EventThread ==
    \/ LockPending \/ NextDeadline \/ Take \/ Complete \/ LoopReturns \/ Expire
    \/ \E t \in Transfers : Completion(t)

Kernel(t) == \E code \in Results : KernelFinishes(t, code)

Next ==
    \/ \E t \in Transfers :
          SubmitStart(t) \/ SubmitDisconnected(t) \/ Submit(t) \/ Cancel(t) \/ Kernel(t) \/ DeadlinePasses(t)
    \/ DeviceGone \/ EventThread

Spec == Init /\ [][Next]_vars

Submitting == \E t \in Transfers : Submit(t)
Answering == \E t \in Transfers : (req[t].aborted \/ gone) /\ Kernel(t)
Completing == \E t \in Transfers : Completion(t)

\* Threads are scheduled, the run loop delivers what is queued, and IOKit ends
\* what was aborted or whose device is gone.
Fairness ==
    /\ WF_vars(EventThread) /\ WF_vars(Submitting) /\ WF_vars(Answering) /\ SF_vars(Completing)

FairSpec == Spec /\ Fairness

-----------------------------------------------------------------------------

PendingIsOutstanding == \A e \in pending : req[e[1]].at # "none" /\ e[2] = count[e[1]]

\* The macOS engine is another of the backends src/transfer.rs is written for:
\* a request completion() is handed is reported once and only after submit()
\* has let go of it, although AbortPipe ends its neighbours' requests too.
Phase(t) ==
    IF ~inFlight[t] THEN "idle" ELSE IF user[t] # "idle" THEN "submitting" ELSE "accepted"

Life == INSTANCE TransferLife WITH phase <- [t \in Transfers |-> Phase(t)]
ImplementsLife == Life!Spec

\* next_deadline(), expire() and abort(): a transfer on a pipe without a kernel
\* timeout is completed once its deadline has passed even if the device never
\* answers, as long as no completion ran before submit() had registered its
\* request.
DeadlineCompletes ==
    \A t \in Interrupt :
        (sub[t] # NoSub /\ sub[t].deadline = "due") ~> (~inFlight[t] \/ ~PendingIsOutstanding)
=============================================================================
