--------------------------- MODULE WindowsTransfer ---------------------------
(***************************************************************************)
(* Transfers of one handle of the Windows backend                          *)
(* (src/sys/windows/mod.rs): submit() on user threads, the loop that waits *)
(* on the completion port, and WinUSB with its overlapped requests.        *)
(*                                                                         *)
(* The locks matter.  submit(t) holds `sub` of t (and its State) from      *)
(* SubmitStart to Insert, and takes `pending` in Insert; next_deadline()   *)
(* holds `pending` (step "scan") while it takes `sub` of every entry;      *)
(* finish() takes `pending` and `sub` one after the other.  All other uses *)
(* of a lock are within one action.                                        *)
(***************************************************************************)
EXTENDS Naturals, FiniteSets

CONSTANTS Transfers,   \* the transfers of one handle
          Iso,         \* those of one isochronous endpoint
          Hub,         \* control transfers the parent hub serves
          Errors,      \* Win32 errors a request may end with
          MaxSubmits,  \* bound on the number of submissions
          NoSub        \* TransferData.sub is None

ASSUME WindowsAssumption ==
    /\ IsFiniteSet(Transfers) /\ Iso \subseteq Transfers /\ Hub \subseteq Transfers
    /\ Iso \cap Hub = {}
    /\ MaxSubmits \in Nat /\ Errors \subseteq STRING

VARIABLES inFlight,     \* State.in_flight
          result,       \* State.status and State.actual_length
          user,         \* how far submit() is: "idle", "issue" or "insert"
          count,        \* submissions so far; stands for the OVERLAPPED address
          left,         \* submissions left within the bound
          sub,          \* TransferData.sub
          req,          \* the OVERLAPPED request: where it is, and its outcome
          pending,      \* Handle.pending
          deferred,     \* Context.deferred
          isoInflight,  \* Handle.iso_inflight of the endpoint
          wakes,        \* a wake() packet is in the port
          evt,          \* the event thread
          disconnected, \* Handle.disconnected
          gone          \* the device was unplugged

addresses == <<count, left>>
vars == <<inFlight, result, user, count, left, sub, req, pending, deferred, isoInflight,
          wakes, evt, disconnected, gone>>

Statuses == {"Completed", "Cancelled", "TimedOut", "Stall", "NoDevice", "Overflow", "Error"}

NoReq == [at |-> "none", err |-> "SUCCESS", cancelling |-> FALSE]
TopOfLoop == [step |-> "top", t |-> NoSub, status |-> "Completed", sees |-> {}]

Init ==
    /\ inFlight = [t \in Transfers |-> FALSE]
    /\ result = [t \in Transfers |-> [status |-> "Completed", actual |-> 0]]
    /\ user = [t \in Transfers |-> "idle"]
    /\ count = [t \in Transfers |-> 0] /\ left = MaxSubmits
    /\ sub = [t \in Transfers |-> NoSub]
    /\ req = [t \in Transfers |-> NoReq]
    /\ pending = {} /\ deferred = {} /\ isoInflight = 0
    /\ wakes = FALSE /\ evt = TopOfLoop
    /\ disconnected = FALSE /\ gone = FALSE

-----------------------------------------------------------------------------
(* submit() *)

\* Transfer::submit marks the transfer, submit() takes `sub`.
SubmitStart(t) ==
    /\ ~inFlight[t] /\ left > 0 /\ ~disconnected
    /\ inFlight' = [inFlight EXCEPT ![t] = TRUE]
    /\ result' = [result EXCEPT ![t].actual = 0]
    /\ user' = [user EXCEPT ![t] = "issue"]
    /\ count' = [count EXCEPT ![t] = @ + 1] /\ left' = left - 1
    /\ UNCHANGED <<sub, req, pending, deferred, isoInflight, wakes, evt, disconnected, gone>>

SubmitDisconnected(t) ==
    /\ ~inFlight[t] /\ disconnected /\ result[t].actual # 0
    /\ result' = [result EXCEPT ![t].actual = 0]
    /\ UNCHANGED <<inFlight, user, addresses, sub, req, pending, deferred, isoInflight, wakes,
                   evt, disconnected, gone>>

\* No claimed interface has the endpoint, the packet table does not fit, or
\* WinUSB rejects the request: the OvEntry is freed again.
IssueFails(t) ==
    /\ user[t] = "issue"
    /\ inFlight' = [inFlight EXCEPT ![t] = FALSE]
    /\ user' = [user EXCEPT ![t] = "idle"]
    /\ UNCHANGED <<result, addresses, sub, req, pending, deferred, isoInflight, wakes, evt,
                   disconnected, gone>>

\* hub_control(): done at once, to be reported by the event thread.
HubControl(t) ==
    /\ user[t] = "issue" /\ t \in Hub
    /\ deferred' = deferred \cup {t}
    /\ user' = [user EXCEPT ![t] = "idle"]
    /\ wakes' = TRUE
    /\ UNCHANGED <<inFlight, result, addresses, sub, req, pending, isoInflight, evt,
                   disconnected, gone>>

\* An isochronous request whose packets fit joins the running stream or starts
\* one, and is counted under the lock of iso_inflight.
PrepareIsochronous(t) == IF t \in Iso THEN isoInflight + 1 ELSE isoInflight

\* WinUsb_ReadPipe and the like took the request.
Issue(t) ==
    /\ user[t] = "issue" /\ t \notin Hub /\ ~gone
    /\ req' = [req EXCEPT ![t] = [NoReq EXCEPT !.at = "kernel"]]
    /\ isoInflight' = PrepareIsochronous(t)
    /\ user' = [user EXCEPT ![t] = "insert"]
    /\ UNCHANGED <<inFlight, result, addresses, sub, pending, deferred, wakes, evt,
                   disconnected, gone>>

\* Registers the request, publishes `sub`, lets go of the locks and wakes.
Insert(t, deadline) ==
    /\ user[t] = "insert" /\ evt.step # "scan"
    /\ pending' = pending \cup {<<t, count[t]>>}
    /\ sub' = [sub EXCEPT ![t] = [deadline |-> deadline, cancelled |-> FALSE, timedOut |-> FALSE]]
    /\ user' = [user EXCEPT ![t] = "idle"]
    /\ wakes' = TRUE
    /\ UNCHANGED <<inFlight, result, addresses, req, deferred, isoInflight, evt, disconnected, gone>>

-----------------------------------------------------------------------------
(* cancel(), alternate settings, and the outside world *)

\* CancelIoEx finds the request unless its packet is already in the port.
CancelIoEx(t) == req[t].at = "kernel"

\* cancel_all() is cancel() of every transfer in `pending`.
Cancel(t) ==
    /\ user[t] = "idle" /\ sub[t] # NoSub /\ CancelIoEx(t) /\ ~sub[t].cancelled
    /\ sub' = [sub EXCEPT ![t].cancelled = TRUE]
    /\ req' = [req EXCEPT ![t].cancelling = TRUE]
    /\ UNCHANGED <<inFlight, result, user, addresses, pending, deferred, isoInflight, wakes,
                   evt, disconnected, gone>>

\* set_alt_setting(), clear_halt() and release_interface().
ForgetIsoStreams ==
    /\ isoInflight > 0
    /\ isoInflight' = 0
    /\ UNCHANGED <<inFlight, result, user, addresses, sub, req, pending, deferred, wakes, evt,
                   disconnected, gone>>

\* The driver finishes a request, inline or later, and queues its packet.
KernelFinishes(t, err) ==
    /\ req[t].at = "kernel"
    /\ err = "ABORTED" => req[t].cancelling
    /\ err = "NOT_CONNECTED" <=> gone
    /\ req' = [req EXCEPT ![t].at = "port", ![t].err = err]
    /\ UNCHANGED <<inFlight, result, user, addresses, sub, pending, deferred, isoInflight,
                   wakes, evt, disconnected, gone>>

DeviceGone ==
    /\ ~gone
    /\ gone' = TRUE
    /\ UNCHANGED <<inFlight, result, user, addresses, sub, req, pending, deferred,
                   isoInflight, wakes, evt, disconnected>>

DeadlinePasses(t) ==
    /\ sub[t] # NoSub /\ sub[t].deadline = "set"
    /\ sub' = [sub EXCEPT ![t].deadline = "due"]
    /\ UNCHANGED <<inFlight, result, user, addresses, req, pending, deferred, isoInflight,
                   wakes, evt, disconnected, gone>>

-----------------------------------------------------------------------------
(* event_loop() *)

Published(t, status, actual) ==
    /\ inFlight' = [inFlight EXCEPT ![t] = FALSE]
    /\ result' = [result EXCEPT ![t] = [status |-> status, actual |-> actual]]

\* The deferred completions come first; complete() waits for submit(t) to let
\* go of the State.
CompleteDeferred(t) ==
    /\ evt.step = "top" /\ t \in deferred /\ user[t] = "idle"
    /\ \/ Published(t, "Completed", 1) \/ Published(t, "NoDevice", 0) \/ Published(t, "Stall", 0)
    /\ deferred' = deferred \ {t}
    /\ UNCHANGED <<user, addresses, sub, req, pending, isoInflight, wakes, evt, disconnected, gone>>

\* next_deadline(): `pending` is locked ...
LockPending ==
    /\ evt.step = "top" /\ deferred = {}
    /\ evt' = [evt EXCEPT !.step = "scan"]
    /\ UNCHANGED <<inFlight, result, user, addresses, sub, req, pending, deferred, isoInflight,
                   wakes, disconnected, gone>>

Registered == {e[1] : e \in pending}

\* ... and then `sub` of every transfer in it.
NextDeadline ==
    /\ evt.step = "scan"
    /\ \A t \in Registered : user[t] = "idle"
    /\ evt' = [evt EXCEPT !.step = "wait",
                          !.sees = {t \in Registered :
                                      sub[t] # NoSub /\ sub[t].deadline # "none"}]
    /\ UNCHANGED <<inFlight, result, user, addresses, sub, req, pending, deferred, isoInflight,
                   wakes, disconnected, gone>>

\* GetQueuedCompletionStatus: a request's packet, a wake-up, or the timeout.
Dequeue(t) ==
    /\ evt.step = "wait" /\ req[t].at = "port"
    /\ evt' = [evt EXCEPT !.step = "remove", !.t = t]
    /\ UNCHANGED <<inFlight, result, user, addresses, sub, req, pending, deferred, isoInflight,
                   wakes, disconnected, gone>>

WakesOrTimesOut ==
    /\ evt.step = "wait"
    /\ wakes \/ \E t \in evt.sees : sub[t] # NoSub /\ sub[t].deadline = "due"
    /\ wakes' = FALSE
    /\ evt' = [evt EXCEPT !.step = "expire"]
    /\ UNCHANGED <<inFlight, result, user, addresses, sub, req, pending, deferred, isoInflight,
                   disconnected, gone>>

\* finish(): first out of `pending` ...
Remove ==
    /\ evt.step = "remove"
    /\ pending' = pending \ {<<evt.t, count[evt.t]>>}
    /\ evt' = [evt EXCEPT !.step = "take"]
    /\ UNCHANGED <<inFlight, result, user, addresses, sub, req, deferred, isoInflight, wakes,
                   disconnected, gone>>

ErrorStatus(err) ==
    CASE err = "SUCCESS"       -> "Completed"
      [] err = "ABORTED"       -> "Cancelled"
      [] err = "GEN_FAILURE"   -> "Stall"
      [] err = "NOT_CONNECTED" -> "NoDevice"
      [] err = "MORE_DATA"     -> "Overflow"
      [] err = "SEM_TIMEOUT"   -> "TimedOut"
      [] OTHER                 -> "Error"

FinalStatus(s, err) ==
    IF s.timedOut THEN "TimedOut"
    ELSE IF s.cancelled THEN "Cancelled" ELSE ErrorStatus(err)

\* ... then takes `sub`, which submit(t) may still hold ...
Take ==
    LET t == evt.t IN
    /\ evt.step = "take" /\ user[t] = "idle"
    /\ sub' = [sub EXCEPT ![t] = NoSub]
    /\ evt' = [evt EXCEPT !.step = "complete", !.status = FinalStatus(sub[t], req[t].err)]
    /\ disconnected' = (disconnected \/ (~sub[t].timedOut /\ ~sub[t].cancelled
                                            /\ req[t].err = "NOT_CONNECTED"))
    /\ UNCHANGED <<inFlight, result, user, addresses, req, pending, deferred, isoInflight,
                   wakes, gone>>

\* Mutant: only a failure touches the count.
IsoAfterUncounted(t, status) ==
    IF t \notin Iso \/ status = "Completed" THEN isoInflight ELSE 0

\* finish_isochronous(): one transfer less in the stream, which a failure ends.
IsoAfter(t, status) ==
    IF t \notin Iso THEN isoInflight
    ELSE IF status # "Completed" \/ isoInflight = 0 THEN 0 ELSE isoInflight - 1

\* ... and reports, with the bytes the driver counted whatever the status.
Complete ==
    LET t == evt.t IN
    /\ evt.step = "complete"
    /\ \E actual \in 0..1 : Published(t, evt.status, actual)
    /\ isoInflight' = IsoAfter(t, evt.status)
    /\ req' = [req EXCEPT ![t] = NoReq]
    /\ evt' = [evt EXCEPT !.step = "expire", !.t = NoSub]
    /\ UNCHANGED <<user, addresses, sub, pending, deferred, wakes, disconnected, gone>>

\* Mutant: the deadline is forgotten and the request left with the driver.
ExpireUncancelled ==
    /\ evt.step = "expire"
    /\ \A t \in Registered : user[t] = "idle"
    /\ LET due == {t \in Registered : sub[t] # NoSub /\ sub[t].deadline = "due" /\ ~sub[t].timedOut}
       IN  sub' = [t \in Transfers |->
                     IF t \in due THEN [sub[t] EXCEPT !.deadline = "none"] ELSE sub[t]]
    /\ evt' = TopOfLoop
    /\ UNCHANGED <<inFlight, result, user, addresses, req, pending, deferred, isoInflight, wakes,
                   disconnected, gone>>

\* expire() of a copy of `pending`; each `sub` is locked in turn.
Expire ==
    /\ evt.step = "expire"
    /\ \A t \in Registered : user[t] = "idle"
    /\ LET due == {t \in Registered : sub[t] # NoSub /\ sub[t].deadline = "due" /\ ~sub[t].timedOut}
       IN  /\ sub' = [t \in Transfers |->
                        IF t \in due THEN [sub[t] EXCEPT !.deadline = "none",
                                                         !.timedOut = CancelIoEx(t)]
                        ELSE sub[t]]
           /\ req' = [t \in Transfers |->
                        IF t \in due THEN [req[t] EXCEPT !.cancelling = @ \/ CancelIoEx(t)]
                        ELSE req[t]]
    /\ evt' = TopOfLoop
    /\ UNCHANGED <<inFlight, result, user, addresses, pending, deferred, isoInflight, wakes,
                   disconnected, gone>>

Submit(t) ==
    \/ IssueFails(t) \/ HubControl(t) \/ Issue(t)
    \/ \E deadline \in {"none", "set"} : Insert(t, deadline)

EventThread ==
    \/ \E t \in Transfers : CompleteDeferred(t) \/ Dequeue(t)
    \/ LockPending \/ NextDeadline \/ WakesOrTimesOut
    \/ Remove \/ Take \/ Complete \/ Expire

Kernel(t) == \E err \in Errors : KernelFinishes(t, err)

Next ==
    \/ \E t \in Transfers :
          \/ SubmitStart(t) \/ SubmitDisconnected(t) \/ Submit(t) \/ Cancel(t)
          \/ Kernel(t) \/ DeadlinePasses(t)
    \/ ForgetIsoStreams \/ DeviceGone
    \/ EventThread

Spec == Init /\ [][Next]_vars

Submitting == \E t \in Transfers : Submit(t)
Answering == \E t \in Transfers : (req[t].cancelling \/ gone) /\ Kernel(t)

\* Threads are scheduled; the driver finishes what was cancelled or whose
\* device is gone.
Fairness == WF_vars(EventThread) /\ WF_vars(Submitting) /\ WF_vars(Answering)

FairSpec == Spec /\ Fairness

-----------------------------------------------------------------------------

\* iso_inflight never claims a stream longer than what is in flight: a
\* submission that joins a running stream (ContinueStream) has one to join.
IsoStreamIsReal ==
    isoInflight <= Cardinality({t \in Iso : req[t].at # "none"})

\* "Outstanding overlapped requests keyed by OVERLAPPED address" (Handle.pending).
PendingIsOutstanding ==
    \A e \in pending : req[e[1]].at # "none" /\ e[2] = count[e[1]]

\* The Windows engine is one of the backends src/transfer.rs is written for.
Phase(t) ==
    IF ~inFlight[t] THEN "idle" ELSE IF user[t] # "idle" THEN "submitting" ELSE "accepted"

Life == INSTANCE TransferLife WITH phase <- [t \in Transfers |-> Phase(t)]
ImplementsLife == Life!Spec

\* next_deadline(), expire() and wake(): a transfer whose timeout has passed is
\* completed even if the device never answers, as long as no packet was handled
\* before submit() had registered its request.
DeadlineCompletes ==
    \A t \in Transfers \ Hub :
        (sub[t] # NoSub /\ sub[t].deadline = "due")
            ~> (~inFlight[t] \/ ~PendingIsOutstanding)
=============================================================================
