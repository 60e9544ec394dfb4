--------------------------- MODULE BackendProofs ----------------------------
(***************************************************************************)
(* Proofs about the Windows and the macOS backend, for any set of          *)
(* transfers and handles: both implement TransferLife, the count of        *)
(* isochronous requests is real, and a macOS device is given back.         *)
(***************************************************************************)
EXTENDS MCBackends, FiniteSetTheorems, TLAPS

USE WindowsAssumption

-----------------------------------------------------------------------------
(* Windows: who holds a transfer *)

Request == [at : {"none", "kernel", "port"}, err : Errors \cup {"SUCCESS"}, cancelling : BOOLEAN]

EventState ==
    [step : {"top", "scan", "wait", "remove", "take", "complete", "expire"},
     t : Transfers \cup {NoSub}, status : Statuses, sees : SUBSET Transfers]

WinShape ==
    /\ result \in [Transfers -> [status : Statuses, actual : Nat]]
    /\ user \in [Transfers -> {"idle", "issue", "insert"}]
    /\ count \in [Transfers -> Nat] /\ pending \subseteq Transfers \X Nat
    /\ req \in [Transfers -> Request]
    /\ deferred \subseteq Hub /\ isoInflight \in Nat
    /\ evt \in EventState

\* A transfer is in flight while submit() works on it, while WinUSB or the port
\* has its request, and while its completion is deferred; only one of them has it.
WinCustody(t) ==
    /\ user[t] # "idle" => inFlight[t]
    /\ user[t] = "issue" => req[t].at = "none" /\ t \notin deferred
    /\ user[t] = "insert" => t \notin Hub
    /\ req[t].at # "none" => inFlight[t] /\ t \notin Hub
    /\ t \in deferred => inFlight[t]

\* The packet the event thread works on is that of a request it alone has.
WinEvent ==
    /\ evt.step \in {"remove", "take", "complete"} => evt.t \in Transfers /\ req[evt.t].at = "port"
    /\ evt.step = "complete" => user[evt.t] = "idle"

WinInv ==
    /\ inFlight \in [Transfers -> BOOLEAN]
    /\ WinShape
    /\ \A t \in Transfers : WinCustody(t)
    /\ WinEvent
    /\ IsoStreamIsReal

\* An opened handle satisfies the invariant.
LEMMA WinInitInv == Init => WinInv
<1> SUFFICES ASSUME Init PROVE WinInv
    OBVIOUS
<1>1. inFlight \in [Transfers -> BOOLEAN]
    BY Zenon DEF Init
<1>2. NoReq \in Request /\ TopOfLoop \in EventState
    BY DEF NoReq, Request, TopOfLoop, EventState, Statuses
<1>3. result \in [Transfers -> [status : Statuses, actual : Nat]]
    BY DEF Init, Statuses
<1>4. WinShape
    BY <1>2, <1>3 DEF Init, WinShape
<1>5. ASSUME NEW t \in Transfers PROVE WinCustody(t)
    BY DEF Init, WinCustody, NoReq
<1>6. WinEvent
    BY DEF Init, WinEvent, TopOfLoop
<1>7. IsoStreamIsReal
    <2>1. {t \in Iso : req[t].at # "none"} = {}
        BY DEF Init, NoReq
    <2> QED  BY <2>1, FS_EmptySet DEF Init, IsoStreamIsReal
<1> QED  BY <1>1, <1>4, <1>5, <1>6, <1>7 DEF WinInv

IsoRequests == {t \in Iso : req[t].at # "none"}

\* The requests of the stream are finitely many.
LEMMA IsoIsFinite == IsFiniteSet(IsoRequests) /\ Cardinality(IsoRequests) \in Nat
<1>1. IsFiniteSet(IsoRequests)
    BY FS_Subset DEF IsoRequests
<1> QED  BY <1>1, FS_CardinalityType

\* A step that neither issues nor ends an isochronous request.
LEMMA IsoFrame ==
    ASSUME WinInv, \A t \in Transfers : req'[t].at = "none" <=> req[t].at = "none",
           isoInflight' \in {0, isoInflight}
    PROVE  IsoStreamIsReal'
<1>1. IsoRequests' = IsoRequests
    BY DEF IsoRequests
<1>2. isoInflight <= Cardinality(IsoRequests) /\ isoInflight \in Nat
    BY DEF WinInv, WinShape, IsoStreamIsReal, IsoRequests
<1>3. isoInflight' <= Cardinality(IsoRequests')
    BY <1>1, <1>2, IsoIsFinite
<1> QED  BY <1>3 DEF IsoStreamIsReal, IsoRequests

\* The steps that move no request, no transfer and no deferred completion.
LEMMA WinQuiet ==
    ASSUME WinInv, UNCHANGED <<inFlight, result, user, deferred>>,
           UNCHANGED <<count, isoInflight>>,
           req' \in [Transfers -> Request], pending' \subseteq Transfers \X Nat,
           evt' \in EventState,
           \A t \in Transfers : req'[t].at = "none" <=> req[t].at = "none",
           WinEvent'
    PROVE  WinInv'
<1>1. WinShape'
    BY DEF WinInv, WinShape
<1>2. ASSUME NEW t \in Transfers PROVE WinCustody(t)'
    BY DEF WinInv, WinCustody
<1>3. inFlight' \in [Transfers -> BOOLEAN]
    BY Zenon DEF WinInv
<1> QED  BY <1>1, <1>2, <1>3, IsoFrame DEF WinInv

\* submit() up to the request.
LEMMA WinSubmitKeeps ==
    ASSUME WinInv, NEW t \in Transfers,
           SubmitStart(t) \/ SubmitDisconnected(t) \/ IssueFails(t) \/ HubControl(t)
    PROVE  WinInv'
<1> USE DEF SubmitStart, SubmitDisconnected, IssueFails, HubControl, addresses
<1>1. inFlight' \in [Transfers -> BOOLEAN]
    BY Zenon DEF WinInv
<1>2. WinShape'
    <2>1. result' \in [Transfers -> [status : Statuses, actual : Nat]]
        BY DEF WinInv, WinShape
    <2>2. user' \in [Transfers -> {"idle", "issue", "insert"}] /\ count' \in [Transfers -> Nat]
        BY DEF WinInv, WinShape
    <2> QED  BY <2>1, <2>2 DEF WinInv, WinShape
<1>3. ASSUME NEW v \in Transfers PROVE WinCustody(v)'
    <2>1. WinCustody(v) /\ WinCustody(t)
        BY DEF WinInv
    <2>2. CASE v # t
        BY <2>1, <2>2 DEF WinCustody, WinInv, WinShape
    <2>3. CASE v = t
        BY <2>1, <2>3 DEF WinCustody, WinInv, WinShape
    <2> QED  BY <2>2, <2>3
<1>4. WinEvent'
    <2>1. WinCustody(t)
        BY DEF WinInv
    <2> QED  BY <2>1 DEF WinInv, WinEvent, WinShape, WinCustody
<1> QED  BY <1>1, <1>2, <1>3, <1>4, IsoFrame DEF WinInv

\* WinUSB takes a request: an isochronous one is counted as it starts.
LEMMA WinIssueKeeps ==
    ASSUME WinInv, NEW t \in Transfers, Issue(t)
    PROVE  WinInv'
<1> USE DEF Issue, addresses
<1>1. inFlight' \in [Transfers -> BOOLEAN]
    BY Zenon DEF WinInv
<1>2. [NoReq EXCEPT !.at = "kernel"] \in Request /\ [NoReq EXCEPT !.at = "kernel"].at = "kernel"
    BY DEF NoReq, Request
<1>3. /\ req' \in [Transfers -> Request] /\ req'[t].at = "kernel"
      /\ \A v \in Transfers \ {t} : req'[v] = req[v]
    BY <1>2 DEF WinInv, WinShape
<1>4. WinShape'
    BY <1>3 DEF WinInv, WinShape, PrepareIsochronous
<1>5. WinCustody(t)
    BY DEF WinInv
<1>6. ASSUME NEW v \in Transfers PROVE WinCustody(v)'
    <2>1. WinCustody(v)
        BY DEF WinInv
    <2>2. CASE v # t
        BY <1>3, <2>1, <2>2 DEF WinCustody, WinInv, WinShape
    <2>3. CASE v = t
        BY <1>3, <2>1, <2>3 DEF WinCustody, WinInv, WinShape
    <2> QED  BY <2>2, <2>3
<1>7. WinEvent'
    BY <1>3, <1>5 DEF WinInv, WinEvent, WinShape, WinCustody
<1>8. IsoStreamIsReal'
    <2>1. isoInflight <= Cardinality(IsoRequests) /\ isoInflight \in Nat
        BY DEF WinInv, WinShape, IsoStreamIsReal, IsoRequests
    <2>2. CASE t \in Iso
        <3>1. IsoRequests' = IsoRequests \cup {t} /\ t \notin IsoRequests
            BY <1>3, <1>5, <2>2 DEF IsoRequests, WinCustody
        <3>2. Cardinality(IsoRequests') = Cardinality(IsoRequests) + 1
            BY <3>1, IsoIsFinite, FS_AddElement
        <3>3. isoInflight' <= Cardinality(IsoRequests')
            BY <2>1, <2>2, <3>2, IsoIsFinite DEF PrepareIsochronous
        <3> QED  BY <3>3 DEF IsoStreamIsReal, IsoRequests
    <2>3. CASE t \notin Iso
        <3>1. IsoRequests' = IsoRequests /\ isoInflight' = isoInflight
            BY <1>3, <2>3 DEF IsoRequests, PrepareIsochronous
        <3> QED  BY <2>1, <3>1 DEF IsoStreamIsReal, IsoRequests
    <2> QED  BY <2>2, <2>3
<1> QED  BY <1>1, <1>4, <1>6, <1>7, <1>8 DEF WinInv

\* submit() registers its request and lets go of the transfer.
LEMMA WinInsertKeeps ==
    ASSUME WinInv, NEW t \in Transfers, NEW deadline, Insert(t, deadline)
    PROVE  WinInv'
<1> USE DEF Insert, addresses
<1>1. inFlight' \in [Transfers -> BOOLEAN]
    BY Zenon DEF WinInv
<1>2. WinShape'
    BY DEF WinInv, WinShape
<1>3. ASSUME NEW v \in Transfers PROVE WinCustody(v)'
    BY DEF WinInv, WinShape, WinCustody
<1>4. WinEvent'
    BY DEF WinInv, WinShape, WinEvent
<1> QED  BY <1>1, <1>2, <1>3, <1>4, IsoFrame DEF WinInv

\* cancel(), expire() and the driver move a request, but none away from where it is owed.
LEMMA WinRequestKeeps ==
    ASSUME WinInv, NEW t \in Transfers, Cancel(t) \/ Kernel(t)
    PROVE  WinInv'
<1>1. /\ UNCHANGED <<inFlight, result, user, deferred>> /\ UNCHANGED <<count, isoInflight>>
      /\ UNCHANGED <<pending, evt>> /\ req[t].at = "kernel"
    BY DEF Cancel, Kernel, KernelFinishes, addresses, CancelIoEx
<1>2. req \in [Transfers -> Request] /\ req[t] \in Request
    BY DEF WinInv, WinShape
<1>3. /\ req' \in [Transfers -> Request] /\ req'[t].at # "none"
      /\ \A v \in Transfers \ {t} : req'[v] = req[v]
    <2>1. CASE Cancel(t)
        <3> DEFINE r == [req[t] EXCEPT !.cancelling = TRUE]
        <3>1. r \in Request /\ r.at = req[t].at
            BY <1>2 DEF Request
        <3>2. req' = [req EXCEPT ![t] = r]
            BY <2>1 DEF Cancel
        <3> HIDE DEF r
        <3> QED  BY <1>1, <1>2, <3>1, <3>2
    <2>2. CASE Kernel(t)
        <3>1. PICK err \in Errors : req' = [req EXCEPT ![t].at = "port", ![t].err = err]
            BY <2>2 DEF Kernel, KernelFinishes
        <3> DEFINE r == [req[t] EXCEPT !.at = "port", !.err = err]
        <3>2. r \in Request /\ r.at = "port"
            BY <1>2 DEF Request
        <3>3. req' = [req EXCEPT ![t] = r]
            BY <3>1
        <3> HIDE DEF r
        <3> QED  BY <1>2, <3>2, <3>3
    <2> QED  BY <2>1, <2>2
<1>4. WinEvent'
    BY <1>1, <1>3 DEF WinInv, WinEvent
<1>5. /\ pending' \subseteq Transfers \X Nat /\ evt' \in EventState
      /\ \A v \in Transfers : req'[v].at = "none" <=> req[v].at = "none"
    BY <1>1, <1>3 DEF WinInv, WinShape
<1> QED  BY <1>1, <1>3, <1>4, <1>5, WinQuiet

\* Every transfer in `pending` is one of the handle's.
LEMMA RegisteredIs == ASSUME WinInv PROVE Registered \subseteq Transfers
BY DEF Registered, WinInv, WinShape

\* The steps of the event thread that only look, and those of the world outside.
LEMMA WinLoopKeeps ==
    ASSUME WinInv,
           \/ \E t \in Transfers : Dequeue(t) \/ DeadlinePasses(t)
           \/ LockPending \/ NextDeadline \/ WakesOrTimesOut \/ Remove \/ Take \/ DeviceGone
    PROVE  WinInv'
<1> USE DEF Dequeue, DeadlinePasses, LockPending, NextDeadline, WakesOrTimesOut, Remove, Take,
            DeviceGone, addresses
<1>1. /\ UNCHANGED <<inFlight, result, user, deferred>> /\ UNCHANGED <<count, isoInflight>>
      /\ UNCHANGED req /\ pending' \subseteq pending
    OBVIOUS
<1>2. evt \in EventState
    BY DEF WinInv, WinShape
<1>3. evt' \in EventState /\ WinEvent'
    <2>1. ASSUME NEW t \in Transfers, Dequeue(t) PROVE evt' \in EventState /\ WinEvent'
        BY <1>1, <1>2, <2>1 DEF EventState, WinEvent
    <2>2. ASSUME UNCHANGED evt PROVE evt' \in EventState /\ WinEvent'
        BY <1>1, <1>2, <2>2 DEF WinInv, WinEvent
    <2>3. CASE LockPending \/ WakesOrTimesOut
        BY <1>2, <2>3 DEF EventState, WinEvent
    <2>4. CASE NextDeadline
        <3> DEFINE S == {t \in Registered : sub[t] # NoSub /\ sub[t].deadline # "none"}
        <3>1. evt' = [evt EXCEPT !.step = "wait", !.sees = S]
            BY <2>4
        <3>2. S \subseteq Transfers
            BY RegisteredIs
        <3> HIDE DEF S
        <3> QED  BY <1>2, <3>1, <3>2 DEF EventState, WinEvent
    <2>5. CASE Remove
        <3>1. evt.t \in Transfers /\ req[evt.t].at = "port"
            BY <2>5 DEF WinInv, WinEvent
        <3> QED  BY <1>1, <1>2, <2>5, <3>1 DEF EventState, WinEvent
    <2>6. CASE Take
        <3> DEFINE final == FinalStatus(sub[evt.t], req[evt.t].err)
        <3>1. final \in Statuses
            BY DEF FinalStatus, ErrorStatus, Statuses
        <3>2. evt.t \in Transfers /\ req[evt.t].at = "port" /\ user[evt.t] = "idle"
            BY <2>6 DEF WinInv, WinEvent
        <3>3. evt' = [evt EXCEPT !.step = "complete", !.status = final]
            BY <2>6
        <3> HIDE DEF final
        <3>4. evt' \in EventState /\ evt'.t = evt.t /\ evt'.step = "complete"
            BY <1>2, <3>1, <3>3 DEF EventState
        <3> QED  BY <1>1, <3>2, <3>4 DEF WinEvent
    <2> QED  BY <2>1, <2>2, <2>3, <2>4, <2>5, <2>6
<1>4. req' \in [Transfers -> Request] /\ pending' \subseteq Transfers \X Nat
    BY <1>1 DEF WinInv, WinShape
<1> QED  BY <1>1, <1>3, <1>4, WinQuiet

\* expire() cancels requests, and the loop starts over.
LEMMA WinExpireKeeps ==
    ASSUME WinInv, Expire
    PROVE  WinInv'
<1>1. /\ UNCHANGED <<inFlight, result, user, deferred>> /\ UNCHANGED <<count, isoInflight>>
      /\ UNCHANGED pending /\ evt' = TopOfLoop
    BY DEF Expire, addresses
<1>2. PICK due :
         req' = [t \in Transfers |->
                   IF t \in due THEN [req[t] EXCEPT !.cancelling = @ \/ CancelIoEx(t)] ELSE req[t]]
    BY DEF Expire
<1>3. ASSUME NEW t \in Transfers
      PROVE  req'[t] \in Request /\ req'[t].at = req[t].at
    <2>1. req[t] \in Request
        BY DEF WinInv, WinShape
    <2> DEFINE c == CancelIoEx(t)
    <2>2. c \in BOOLEAN
        BY DEF CancelIoEx
    <2>3. req'[t] = IF t \in due THEN [req[t] EXCEPT !.cancelling = @ \/ c] ELSE req[t]
        BY <1>2
    <2> HIDE DEF c
    <2> QED  BY <2>1, <2>2, <2>3 DEF Request
<1>4. req' \in [Transfers -> Request]
    BY <1>2, <1>3
<1>5. evt' \in EventState /\ WinEvent'
    BY <1>1 DEF TopOfLoop, EventState, WinEvent, Statuses
<1>6. pending' \subseteq Transfers \X Nat
    BY <1>1 DEF WinInv, WinShape
<1> QED  BY <1>1, <1>3, <1>4, <1>5, <1>6, WinQuiet

\* set_alt_setting() and the like forget the stream.
LEMMA WinForgetKeeps ==
    ASSUME WinInv, ForgetIsoStreams
    PROVE  WinInv'
<1> USE DEF ForgetIsoStreams, addresses
<1>1. inFlight' \in [Transfers -> BOOLEAN]
    BY Zenon DEF WinInv
<1>2. WinShape' /\ WinEvent' /\ \A t \in Transfers : WinCustody(t)'
    BY DEF WinInv, WinShape, WinEvent, WinCustody
<1> QED  BY <1>1, <1>2, IsoFrame DEF WinInv

\* A completion takes the transfer out of flight and publishes a result.
LEMMA PublishedIs ==
    ASSUME WinInv, NEW t \in Transfers, NEW status \in Statuses, NEW actual \in Nat,
           Published(t, status, actual)
    PROVE  /\ inFlight' \in [Transfers -> BOOLEAN] /\ ~inFlight'[t]
           /\ \A v \in Transfers \ {t} : inFlight'[v] = inFlight[v]
           /\ result' \in [Transfers -> [status : Statuses, actual : Nat]]
           /\ result' = [result EXCEPT ![t] = result'[t]]
<1> USE DEF Published
<1>1. inFlight' \in [Transfers -> BOOLEAN]
    BY Zenon DEF WinInv
<1>2. ~inFlight'[t] /\ \A v \in Transfers \ {t} : inFlight'[v] = inFlight[v]
    BY DEF WinInv
<1>3. [status |-> status, actual |-> actual] \in [status : Statuses, actual : Nat]
    OBVIOUS
<1>4. /\ result' \in [Transfers -> [status : Statuses, actual : Nat]]
      /\ result' = [result EXCEPT ![t] = result'[t]]
    BY <1>3 DEF WinInv, WinShape
<1> QED  BY <1>1, <1>2, <1>4

\* A deferred completion is published as one of three.
LEMMA DeferredIs ==
    ASSUME NEW t, CompleteDeferred(t)
    PROVE  \E status \in Statuses, actual \in Nat : Published(t, status, actual)
<1>1. {"Completed", "NoDevice", "Stall"} \subseteq Statuses /\ {0, 1} \subseteq Nat
    BY DEF Statuses
<1> QED  BY <1>1 DEF CompleteDeferred

\* The event thread reports what hub_control() left behind.
LEMMA WinDeferredKeeps ==
    ASSUME WinInv, NEW t \in Transfers, CompleteDeferred(t)
    PROVE  WinInv'
<1> USE DEF CompleteDeferred, addresses
<1>1. PICK status \in Statuses, actual \in Nat : Published(t, status, actual)
    BY DeferredIs
<1>2. /\ inFlight' \in [Transfers -> BOOLEAN]
      /\ \A v \in Transfers \ {t} : inFlight'[v] = inFlight[v]
      /\ result' \in [Transfers -> [status : Statuses, actual : Nat]]
    BY <1>1, PublishedIs
<1>3. WinShape'
    BY <1>2 DEF WinInv, WinShape
<1>4. ASSUME NEW v \in Transfers PROVE WinCustody(v)'
    <2>1. WinCustody(v) /\ t \in Hub
        BY DEF WinInv, WinShape
    <2>2. CASE v # t
        BY <1>2, <2>1, <2>2 DEF WinCustody
    <2>3. CASE v = t
        BY <2>1, <2>3 DEF WinCustody
    <2> QED  BY <2>2, <2>3
<1>5. WinEvent'
    BY DEF WinInv, WinEvent
<1> QED  BY <1>2, <1>3, <1>4, <1>5, IsoFrame DEF WinInv

\* finish() reports a request, which leaves the stream.
LEMMA WinCompleteKeeps ==
    ASSUME WinInv, Complete
    PROVE  WinInv'
<1> USE DEF addresses
<1>1. PICK t \in Transfers : t = evt.t /\ req[t].at = "port" /\ user[t] = "idle"
    BY DEF WinInv, WinEvent, Complete
<1>2. evt \in EventState /\ evt.status \in Statuses
    BY DEF WinInv, WinShape, EventState
<1>3. PICK actual \in Nat : Published(t, evt.status, actual)
    BY <1>1 DEF Complete
<1>4. /\ inFlight' \in [Transfers -> BOOLEAN]
      /\ \A v \in Transfers \ {t} : inFlight'[v] = inFlight[v]
      /\ result' \in [Transfers -> [status : Statuses, actual : Nat]]
    BY <1>2, <1>3, PublishedIs
<1>5. /\ isoInflight' = IsoAfter(t, evt.status)
      /\ req' = [req EXCEPT ![t] = NoReq]
      /\ evt' = [evt EXCEPT !.step = "expire", !.t = NoSub]
      /\ UNCHANGED <<user, count, pending, deferred>>
    BY <1>1 DEF Complete
<1>6. /\ req' \in [Transfers -> Request] /\ req'[t].at = "none"
      /\ \A v \in Transfers \ {t} : req'[v] = req[v]
    <2>1. NoReq \in Request /\ NoReq.at = "none"
        BY DEF NoReq, Request
    <2> QED  BY <1>5, <2>1 DEF WinInv, WinShape
<1>7. evt' \in EventState /\ evt'.step = "expire"
    BY <1>2, <1>5 DEF EventState
<1>8. /\ isoInflight \in Nat /\ isoInflight' \in Nat
      /\ t \in Iso => isoInflight' = 0 \/ (isoInflight > 0 /\ isoInflight' = isoInflight - 1)
      /\ t \notin Iso => isoInflight' = isoInflight
    BY <1>5 DEF IsoAfter, WinInv, WinShape
<1>9. WinShape'
    BY <1>4, <1>5, <1>6, <1>7, <1>8 DEF WinInv, WinShape
<1>10. ASSUME NEW v \in Transfers PROVE WinCustody(v)'
    <2>1. WinCustody(v) /\ deferred \subseteq Hub
        BY DEF WinInv, WinShape
    <2>2. CASE v # t
        BY <1>4, <1>5, <1>6, <2>1, <2>2 DEF WinCustody
    <2>3. CASE v = t
        BY <1>1, <1>5, <1>6, <2>1, <2>3 DEF WinCustody
    <2> QED  BY <2>2, <2>3
<1>11. WinEvent'
    BY <1>7 DEF WinEvent
<1>12. IsoStreamIsReal'
    <2>1. isoInflight <= Cardinality(IsoRequests)
        BY DEF WinInv, IsoStreamIsReal, IsoRequests
    <2>2. CASE t \in Iso
        <3>1. IsoRequests' = IsoRequests \ {t} /\ t \in IsoRequests
            BY <1>1, <1>6, <2>2 DEF IsoRequests
        <3>2. Cardinality(IsoRequests') = Cardinality(IsoRequests) - 1
            BY <3>1, IsoIsFinite, FS_RemoveElement
        <3>4. Cardinality(IsoRequests') \in Nat
            BY <3>1, IsoIsFinite, FS_RemoveElement, FS_CardinalityType
        <3>3. isoInflight' <= Cardinality(IsoRequests')
            BY <1>8, <2>1, <2>2, <3>2, <3>4, IsoIsFinite
        <3> QED  BY <3>3 DEF IsoStreamIsReal, IsoRequests
    <2>3. CASE t \notin Iso
        <3>1. IsoRequests' = IsoRequests
            BY <1>6, <2>3 DEF IsoRequests
        <3> QED  BY <1>8, <2>1, <2>3, <3>1 DEF IsoStreamIsReal, IsoRequests
    <2> QED  BY <2>2, <2>3
<1> QED  BY <1>4, <1>9, <1>10, <1>11, <1>12 DEF WinInv

\* Every step keeps the invariant.
LEMMA WinNextInv ==
    ASSUME WinInv, [Next]_vars
    PROVE  WinInv'
<1>1. CASE UNCHANGED vars
    <2> USE <1>1 DEF vars
    <2>1. inFlight' \in [Transfers -> BOOLEAN]
        BY Zenon DEF WinInv
    <2>2. WinShape' /\ WinEvent' /\ \A t \in Transfers : WinCustody(t)'
        BY DEF WinInv, WinShape, WinEvent, WinCustody
    <2> QED  BY <2>1, <2>2, IsoFrame DEF WinInv
<1>2. ASSUME NEW t \in Transfers, Submit(t) PROVE WinInv'
    BY <1>2, WinSubmitKeeps, WinIssueKeeps, WinInsertKeeps DEF Submit
<1>3. ASSUME NEW t \in Transfers,
             SubmitStart(t) \/ SubmitDisconnected(t) \/ Cancel(t) \/ Kernel(t) \/ DeadlinePasses(t)
      PROVE  WinInv'
    BY <1>3, WinSubmitKeeps, WinRequestKeeps, WinLoopKeeps
<1>4. CASE EventThread
    <2>1. ASSUME NEW t \in Transfers, CompleteDeferred(t) \/ Dequeue(t) PROVE WinInv'
        BY <2>1, WinDeferredKeeps, WinLoopKeeps
    <2> QED  BY <1>4, <2>1, WinLoopKeeps, WinCompleteKeeps, WinExpireKeeps DEF EventThread
<1> QED  BY <1>1, <1>2, <1>3, <1>4, WinForgetKeeps, WinLoopKeeps DEF Next

\* iso_inflight never claims a stream longer than what is in flight, for any
\* number of transfers, although completions, failures and changes of the
\* alternate setting reset it while requests of the old stream are still out.
THEOREM IsoCountIsReal == Spec => []IsoStreamIsReal
<1>1. WinInv /\ [Next]_vars => WinInv'
    BY WinNextInv
<1>2. WinInv => IsoStreamIsReal
    BY DEF WinInv
<1> QED  BY <1>1, <1>2, WinInitInv, PTL DEF Spec

-----------------------------------------------------------------------------
(* Windows implements TransferLife *)

\* A step of transfer t changes no other transfer's phase.
LEMMA WinPhase ==
    ASSUME WinInv, NEW t \in Transfers,
           \A v \in Transfers \ {t} : inFlight'[v] = inFlight[v] /\ user'[v] = user[v],
           NEW p, Phase(t)' = p
    PROVE  [v \in Transfers |-> Phase(v)]' = [[v \in Transfers |-> Phase(v)] EXCEPT ![t] = p]
<1>1. \A v \in Transfers \ {t} : Phase(v)' = Phase(v)
    BY DEF Phase
<1>2. \A v \in Transfers : Phase(v)' = IF v = t THEN p ELSE Phase(v)
    BY <1>1
<1> HIDE DEF Phase
<1>3. [v \in Transfers |-> Phase(v)'] = [[v \in Transfers |-> Phase(v)] EXCEPT ![t] = p]
    BY <1>2
<1> QED  BY <1>3

\* A step that neither enters nor leaves submit() and publishes nothing.
LEMMA WinInvisible ==
    ASSUME WinInv, UNCHANGED <<inFlight, result>>,
           \A t \in Transfers : user'[t] = "idle" <=> user[t] = "idle"
    PROVE  UNCHANGED Life!lifeVars
<1>1. \A t \in Transfers : Phase(t)' = Phase(t)
    BY DEF Phase
<1>2. [t \in Transfers |-> Phase(t)]' = [t \in Transfers |-> Phase(t)]
    BY <1>1
<1> QED  BY <1>2 DEF Life!lifeVars

\* Every step of the Windows engine is one of TransferLife or invisible there.
LEMMA WinNextRefines ==
    ASSUME WinInv, [Next]_vars
    PROVE  [Life!Next]_(Life!lifeVars)
<1> USE DEF addresses
<1>1. CASE UNCHANGED <<inFlight, result, user>>
    BY <1>1, WinInvisible
<1>2. ASSUME NEW t \in Transfers, SubmitStart(t) PROVE Life!Begin(t)
    <2>1. /\ Phase(t) = "idle" /\ Phase(t)' = "submitting"
          /\ \A v \in Transfers \ {t} : inFlight'[v] = inFlight[v] /\ user'[v] = user[v]
        BY <1>2 DEF SubmitStart, Phase, WinInv, WinShape
    <2> QED  BY <1>2, <2>1, WinPhase DEF SubmitStart, Life!Begin
<1>3. ASSUME NEW t \in Transfers, SubmitDisconnected(t) PROVE Life!RefuseAtOnce(t)
    <2>1. Phase(t) = "idle" /\ \A v \in Transfers : Phase(v)' = Phase(v)
        BY <1>3 DEF SubmitDisconnected, Phase
    <2> QED  BY <1>3, <2>1 DEF SubmitDisconnected, Life!RefuseAtOnce
<1>4. ASSUME NEW t \in Transfers, IssueFails(t) PROVE Life!Refuse(t)
    <2>1. WinCustody(t)
        BY DEF WinInv
    <2>2. /\ Phase(t) = "submitting" /\ Phase(t)' = "idle"
          /\ \A v \in Transfers \ {t} : inFlight'[v] = inFlight[v] /\ user'[v] = user[v]
        BY <1>4, <2>1 DEF IssueFails, Phase, WinInv, WinShape, WinCustody
    <2> QED  BY <1>4, <2>2, WinPhase DEF IssueFails, Life!Refuse
<1>5. ASSUME NEW t \in Transfers, NEW deadline, HubControl(t) \/ Insert(t, deadline)
      PROVE  Life!Accept(t)
    <2>1. WinCustody(t)
        BY DEF WinInv
    <2>2. /\ Phase(t) = "submitting" /\ Phase(t)' = "accepted" /\ UNCHANGED result
          /\ \A v \in Transfers \ {t} : inFlight'[v] = inFlight[v] /\ user'[v] = user[v]
        BY <1>5, <2>1 DEF HubControl, Insert, Phase, WinInv, WinShape, WinCustody
    <2> QED  BY <2>2, WinPhase DEF Life!Accept
<1>6. ASSUME NEW t \in Transfers, Issue(t) PROVE UNCHANGED Life!lifeVars
    BY <1>6, WinInvisible DEF Issue, WinInv, WinShape
<1>7. ASSUME NEW t \in Transfers, NEW status \in Statuses, NEW actual \in Nat,
             Published(t, status, actual), inFlight[t], user[t] = "idle", UNCHANGED user
      PROVE  Life!Complete(t)
    <2>1. /\ ~inFlight'[t] /\ \A v \in Transfers \ {t} : inFlight'[v] = inFlight[v]
          /\ result' \in [Transfers -> [status : Statuses, actual : Nat]]
          /\ result' = [result EXCEPT ![t] = result'[t]]
        BY <1>7, PublishedIs
    <2>2. Phase(t) = "accepted" /\ Phase(t)' = "idle"
        BY <1>7, <2>1 DEF Phase
    <2>3. [v \in Transfers |-> Phase(v)]' = [[v \in Transfers |-> Phase(v)] EXCEPT ![t] = "idle"]
        BY <1>7, <2>1, <2>2, WinPhase
    <2>4. result'[t] \in [status : Statuses, actual : Nat]
        BY <2>1
    <2> QED  BY <2>1, <2>2, <2>3, <2>4 DEF Life!Complete
<1>8. ASSUME NEW t \in Transfers, CompleteDeferred(t) PROVE Life!Complete(t)
    <2>1. WinCustody(t)
        BY DEF WinInv
    <2> QED  BY <1>7, <1>8, <2>1, DeferredIs DEF CompleteDeferred, WinCustody
<1>9. ASSUME Complete PROVE \E t \in Transfers : Life!Complete(t)
    <2>1. PICK t \in Transfers : t = evt.t /\ req[t].at = "port" /\ user[t] = "idle"
        BY <1>9 DEF WinInv, WinEvent, Complete
    <2>2. evt.status \in Statuses
        BY DEF WinInv, WinShape, EventState
    <2>3. PICK actual \in Nat : Published(t, evt.status, actual)
        BY <1>9, <2>1 DEF Complete
    <2>4. inFlight[t]
        BY <2>1 DEF WinInv, WinCustody
    <2> QED  BY <1>7, <1>9, <2>1, <2>2, <2>3, <2>4 DEF Complete
<1>10. ASSUME NEW t \in Transfers, Submit(t) PROVE [Life!Next]_(Life!lifeVars)
    BY <1>4, <1>5, <1>6, <1>10 DEF Submit, Life!Next
<1>11. ASSUME NEW t \in Transfers, Cancel(t) \/ Kernel(t) \/ DeadlinePasses(t) \/ Dequeue(t)
       PROVE  UNCHANGED <<inFlight, result, user>>
    BY <1>11 DEF Cancel, Kernel, KernelFinishes, DeadlinePasses, Dequeue
<1>12. ASSUME \/ UNCHANGED vars \/ ForgetIsoStreams \/ DeviceGone \/ LockPending \/ NextDeadline
              \/ WakesOrTimesOut \/ Remove \/ Take \/ Expire
       PROVE  UNCHANGED <<inFlight, result, user>>
    BY <1>12 DEF vars, ForgetIsoStreams, DeviceGone, LockPending, NextDeadline, WakesOrTimesOut,
           Remove, Take, Expire
<1>13. CASE EventThread
    BY <1>1, <1>8, <1>9, <1>11, <1>12, <1>13 DEF EventThread, Life!Next
<1>14. ASSUME NEW t \in Transfers,
              SubmitStart(t) \/ SubmitDisconnected(t) \/ Cancel(t) \/ Kernel(t) \/ DeadlinePasses(t)
       PROVE  [Life!Next]_(Life!lifeVars)
    BY <1>1, <1>2, <1>3, <1>11, <1>14 DEF Life!Next
<1> QED  BY <1>1, <1>10, <1>12, <1>13, <1>14 DEF Next

\* The Windows engine implements the life of a transfer: whatever races between
\* submit(), cancel(), the completion port and expire(), every accepted
\* submission is completed exactly once and no refused one is.
THEOREM WindowsImplementsLife == Spec => ImplementsLife
<1>1. Init => Life!Init
    <2>1. ASSUME Init PROVE \A t \in Transfers : Phase(t) = "idle"
        BY <2>1 DEF Init, Phase
    <2> QED  BY <2>1 DEF Init, Life!Init
<1>2. WinInv /\ [Next]_vars => WinInv'
    BY WinNextInv
<1>3. WinInv /\ [Next]_vars => [Life!Next]_(Life!lifeVars)
    BY WinNextRefines
<1> QED  BY <1>1, <1>2, <1>3, WinInitInv, PTL DEF Spec, ImplementsLife, Life!Spec

-----------------------------------------------------------------------------
(* macOS: who holds a transfer *)

MacRequest == [at : {"none", "kernel", "source"}, code : Results \cup {"Success"}, aborted : BOOLEAN]

MacEventState ==
    [step : {"top", "scan", "run", "take", "complete", "expire"},
     t : MacTransfers \cup {NoSub}, final : Mac!Statuses]

MacShape ==
    /\ mResult \in [MacTransfers -> [status : Mac!Statuses, actual : Nat]]
    /\ mUser \in [MacTransfers -> {"idle", "issue", "insert"}]
    /\ mReq \in [MacTransfers -> MacRequest]
    /\ mEvt \in MacEventState

\* A transfer is in flight while submit() works on it and while IOKit or the run
\* loop has its request.
MacCustody(t) ==
    /\ mUser[t] # "idle" => mInFlight[t]
    /\ mUser[t] = "issue" => mReq[t].at = "none"
    /\ mReq[t].at # "none" => mInFlight[t]

\* The completion the event thread works on is that of a request it alone has.
MacEvent ==
    /\ mEvt.step \in {"take", "complete"} => mEvt.t \in MacTransfers /\ mReq[mEvt.t].at = "source"
    /\ mEvt.step = "complete" => mUser[mEvt.t] = "idle"

MacInv ==
    /\ mInFlight \in [MacTransfers -> BOOLEAN]
    /\ MacShape
    /\ \A t \in MacTransfers : MacCustody(t)
    /\ MacEvent

\* An opened handle satisfies the invariant.
LEMMA MacInitInv == Mac!Init => MacInv
<1> SUFFICES ASSUME Mac!Init PROVE MacInv
    OBVIOUS
<1>1. mInFlight \in [MacTransfers -> BOOLEAN]
    BY Zenon DEF Mac!Init
<1>2. Mac!NoReq \in MacRequest /\ Mac!TopOfLoop \in MacEventState
    BY DEF Mac!NoReq, MacRequest, Mac!TopOfLoop, MacEventState, Mac!Statuses
<1>3. mResult \in [MacTransfers -> [status : Mac!Statuses, actual : Nat]]
    BY DEF Mac!Init, Mac!Statuses
<1>4. MacShape
    BY <1>2, <1>3 DEF Mac!Init, MacShape
<1>5. ASSUME NEW t \in MacTransfers PROVE MacCustody(t)
    BY DEF Mac!Init, MacCustody, Mac!NoReq
<1>6. MacEvent
    BY DEF Mac!Init, MacEvent, Mac!TopOfLoop
<1> QED  BY <1>1, <1>4, <1>5, <1>6 DEF MacInv

\* The steps that move no request and no transfer.
LEMMA MacQuiet ==
    ASSUME MacInv, UNCHANGED <<mInFlight, mResult, mUser>>,
           mReq' \in [MacTransfers -> MacRequest], mEvt' \in MacEventState,
           \A t \in MacTransfers : mReq'[t].at = "none" <=> mReq[t].at = "none",
           MacEvent'
    PROVE  MacInv'
<1>1. MacShape'
    BY DEF MacInv, MacShape
<1>2. ASSUME NEW t \in MacTransfers PROVE MacCustody(t)'
    BY DEF MacInv, MacCustody
<1>3. mInFlight' \in [MacTransfers -> BOOLEAN]
    BY Zenon DEF MacInv
<1> QED  BY <1>1, <1>2, <1>3 DEF MacInv

\* submit() from its first check to the registration of its request.
LEMMA MacSubmitKeeps ==
    ASSUME MacInv, NEW t \in MacTransfers, NEW timeout,
           \/ Mac!SubmitStart(t) \/ Mac!SubmitDisconnected(t) \/ Mac!IssueFails(t)
           \/ Mac!Issue(t) \/ Mac!Insert(t, timeout)
    PROVE  MacInv'
<1> USE DEF Mac!SubmitStart, Mac!SubmitDisconnected, Mac!IssueFails, Mac!Issue, Mac!Insert
<1>1. mInFlight' \in [MacTransfers -> BOOLEAN]
    BY Zenon DEF MacInv
<1>2. /\ mReq' \in [MacTransfers -> MacRequest]
      /\ \A v \in MacTransfers \ {t} : mReq'[v] = mReq[v]
      /\ mReq'[t] = mReq[t] \/ (Mac!Issue(t) /\ mReq'[t].at = "kernel")
    <2>1. [Mac!NoReq EXCEPT !.at = "kernel"] \in MacRequest
          /\ [Mac!NoReq EXCEPT !.at = "kernel"].at = "kernel"
        BY DEF Mac!NoReq, MacRequest
    <2>2. CASE Mac!Issue(t)
        BY <2>1, <2>2 DEF MacInv, MacShape
    <2>3. CASE UNCHANGED mReq
        BY <2>3 DEF MacInv, MacShape
    <2> QED  BY <2>2, <2>3
<1>3. MacShape'
    <2>1. mResult' \in [MacTransfers -> [status : Mac!Statuses, actual : Nat]]
        BY DEF MacInv, MacShape
    <2>2. mUser' \in [MacTransfers -> {"idle", "issue", "insert"}]
        BY DEF MacInv, MacShape
    <2> QED  BY <1>2, <2>1, <2>2 DEF MacInv, MacShape
<1>4. ASSUME NEW v \in MacTransfers PROVE MacCustody(v)'
    <2>1. MacCustody(v) /\ MacCustody(t)
        BY DEF MacInv
    <2>2. CASE v # t
        BY <1>2, <2>1, <2>2 DEF MacCustody, MacInv, MacShape
    <2>3. CASE v = t
        BY <1>2, <2>1, <2>3 DEF MacCustody, MacInv, MacShape
    <2> QED  BY <2>2, <2>3
<1>5. MacEvent'
    <2>1. MacCustody(t)
        BY DEF MacInv
    <2> QED  BY <1>2, <2>1 DEF MacInv, MacEvent, MacShape, MacCustody
<1> QED  BY <1>1, <1>3, <1>4, <1>5 DEF MacInv

\* abort() leaves every request where it is.
LEMMA AbortedIs ==
    ASSUME MacInv, NEW ts
    PROVE  /\ Mac!Aborted(ts) \in [MacTransfers -> MacRequest]
           /\ \A t \in MacTransfers : Mac!Aborted(ts)[t].at = mReq[t].at
<1>1. ASSUME NEW t \in MacTransfers
      PROVE  Mac!Aborted(ts)[t] \in MacRequest /\ Mac!Aborted(ts)[t].at = mReq[t].at
    <2>1. mReq[t] \in MacRequest
        BY DEF MacInv, MacShape
    <2>2. Mac!Aborted(ts)[t] \in {mReq[t], [mReq[t] EXCEPT !.aborted = TRUE]}
        BY DEF Mac!Aborted
    <2>3. [mReq[t] EXCEPT !.aborted = TRUE] \in MacRequest
          /\ [mReq[t] EXCEPT !.aborted = TRUE].at = mReq[t].at
        BY <2>1 DEF MacRequest
    <2> QED  BY <2>1, <2>2, <2>3
<1>2. Mac!Aborted(ts) = [t \in MacTransfers |-> Mac!Aborted(ts)[t]]
    BY DEF Mac!Aborted
<1> HIDE DEF Mac!Aborted
<1> QED  BY <1>1, <1>2

\* cancel(), expire(), IOKit and the steps of the run loop that only look.
LEMMA MacLoopKeeps ==
    ASSUME MacInv,
           \/ \E t \in MacTransfers : \/ Mac!Cancel(t) \/ Mac!Kernel(t) \/ Mac!DeadlinePasses(t)
                                      \/ Mac!Completion(t)
           \/ Mac!LockPending \/ Mac!NextDeadline \/ Mac!Take \/ Mac!LoopReturns \/ Mac!Expire
           \/ Mac!DeviceGone
    PROVE  MacInv'
<1>1. UNCHANGED <<mInFlight, mResult, mUser>>
    BY DEF Mac!Cancel, Mac!Kernel, Mac!KernelFinishes, Mac!DeadlinePasses, Mac!Completion,
           Mac!LockPending, Mac!NextDeadline, Mac!Take, Mac!LoopReturns, Mac!Expire, Mac!DeviceGone
<1>2. mEvt \in MacEventState /\ mReq \in [MacTransfers -> MacRequest] /\ MacEvent
    BY DEF MacInv, MacShape
<1> DEFINE Fine == /\ mReq' \in [MacTransfers -> MacRequest] /\ mEvt' \in MacEventState
                   /\ \A t \in MacTransfers : mReq'[t].at = "none" <=> mReq[t].at = "none"
                   /\ MacEvent'
<1>3. ASSUME NEW t \in MacTransfers, Mac!Cancel(t) PROVE Fine
    <2>1. mReq' = Mac!Aborted({t}) /\ UNCHANGED mEvt
        BY <1>3 DEF Mac!Cancel
    <2> QED  BY <1>1, <1>2, <2>1, AbortedIs DEF MacEvent
<1>4. ASSUME NEW t \in MacTransfers, Mac!Kernel(t) PROVE Fine
    <2>1. PICK code \in Results : /\ mReq' = [mReq EXCEPT ![t].at = "source", ![t].code = code]
                                  /\ mReq[t].at = "kernel" /\ UNCHANGED mEvt
        BY <1>4 DEF Mac!Kernel, Mac!KernelFinishes
    <2> DEFINE r == [mReq[t] EXCEPT !.at = "source", !.code = code]
    <2>2. r \in MacRequest /\ r.at = "source"
        BY <1>2 DEF MacRequest
    <2>3. mReq' = [mReq EXCEPT ![t] = r]
        BY <2>1
    <2> HIDE DEF r
    <2>4. /\ mReq' \in [MacTransfers -> MacRequest] /\ mReq'[t].at = "source"
          /\ \A v \in MacTransfers \ {t} : mReq'[v] = mReq[v]
        BY <1>2, <2>2, <2>3
    <2> QED  BY <1>1, <1>2, <2>1, <2>4 DEF MacEvent
<1>5. ASSUME NEW t \in MacTransfers, Mac!Completion(t) PROVE Fine
    <2>1. mReq' = mReq /\ mEvt' = [mEvt EXCEPT !.step = "take", !.t = t] /\ mReq[t].at = "source"
        BY <1>5 DEF Mac!Completion
    <2>2. mEvt' \in MacEventState
        BY <1>2, <2>1 DEF MacEventState
    <2>3. mEvt'.step = "take" /\ mEvt'.t = t
        BY <1>2, <2>1 DEF MacEventState
    <2>4. MacEvent'
        BY <2>1, <2>3 DEF MacEvent
    <2>5. mReq' = mReq
        BY <2>1
    <2> QED  BY <1>2, <2>2, <2>4, <2>5
<1>6. ASSUME Mac!LockPending \/ Mac!NextDeadline \/ Mac!LoopReturns PROVE Fine
    BY <1>2, <1>6 DEF Mac!LockPending, Mac!NextDeadline, Mac!LoopReturns, MacEventState, MacEvent
<1>7. ASSUME Mac!Take PROVE Fine
    <2>1. /\ mEvt.t \in MacTransfers /\ mReq[mEvt.t].at = "source" /\ mUser[mEvt.t] = "idle"
          /\ UNCHANGED mReq
        BY <1>2, <1>7 DEF Mac!Take, MacEvent
    <2>2. PICK s : s = (IF mSub[mEvt.t].timedOut /\ Mac!Mapped(mReq[mEvt.t].code) = "Cancelled"
                        THEN "TimedOut" ELSE Mac!Mapped(mReq[mEvt.t].code))
        OBVIOUS
    <2>3. s \in Mac!Statuses
        BY <2>2 DEF Mac!Mapped, Mac!Statuses
    <2>4. mEvt' = [mEvt EXCEPT !.step = "complete", !.final = s]
        BY <1>7, <2>2 DEF Mac!Take
    <2>5. mEvt' \in MacEventState /\ mEvt'.t = mEvt.t
        BY <1>2, <2>3, <2>4 DEF MacEventState
    <2>6. MacEvent'
        BY <1>1, <2>1, <2>5 DEF MacEvent
    <2>7. mReq' = mReq /\ mEvt' \in MacEventState
        BY <2>1, <2>5
    <2> QED  BY <1>2, <2>6, <2>7
<1>8. ASSUME Mac!Expire PROVE Fine
    <2>1. PICK ts : mReq' = Mac!Aborted(ts)
        BY <1>8 DEF Mac!Expire
    <2>2. mEvt' = Mac!TopOfLoop
        BY <1>8 DEF Mac!Expire
    <2>3. mEvt' \in MacEventState /\ mEvt'.step = "top"
        BY <2>2 DEF Mac!TopOfLoop, MacEventState, Mac!Statuses
    <2>4. MacEvent'
        BY <2>3 DEF MacEvent
    <2>5. mReq' \in [MacTransfers -> MacRequest] /\ \A t \in MacTransfers : mReq'[t].at = mReq[t].at
        BY <2>1, AbortedIs
    <2>6. mEvt' \in MacEventState
        BY <2>3
    <2>7. \A t \in MacTransfers : mReq'[t].at = "none" <=> mReq[t].at = "none"
        BY <2>5
    <2> QED  BY <2>4, <2>5, <2>6, <2>7
<1>9. ASSUME Mac!DeviceGone \/ \E t \in MacTransfers : Mac!DeadlinePasses(t) PROVE Fine
    <2>1. mReq' = mReq /\ mEvt' = mEvt
        BY <1>9 DEF Mac!DeviceGone, Mac!DeadlinePasses
    <2>2. MacEvent'
        BY <1>1, <1>2, <2>1 DEF MacEvent
    <2> QED  BY <1>2, <2>1, <2>2 DEF MacEvent
<1>10. Fine
    BY <1>3, <1>4, <1>5, <1>6, <1>7, <1>8, <1>9
<1> QED  BY <1>1, <1>10, MacQuiet

\* completion() reports a request.
LEMMA MacPublishes ==
    ASSUME MacInv, Mac!Complete
    PROVE  \E t \in MacTransfers :
              /\ mInFlight[t] /\ mUser[t] = "idle" /\ mReq[t].at = "source"
              /\ mInFlight' \in [MacTransfers -> BOOLEAN] /\ ~mInFlight'[t]
              /\ \A v \in MacTransfers \ {t} : mInFlight'[v] = mInFlight[v] /\ mReq'[v] = mReq[v]
              /\ mResult' \in [MacTransfers -> [status : Mac!Statuses, actual : Nat]]
              /\ mResult' = [mResult EXCEPT ![t] = mResult'[t]]
              /\ mReq' \in [MacTransfers -> MacRequest] /\ mReq'[t].at = "none"
<1> USE DEF Mac!Complete
<1>1. PICK t \in MacTransfers : t = mEvt.t /\ mReq[t].at = "source" /\ mUser[t] = "idle"
    BY DEF MacInv, MacEvent
<1>2. mInFlight' \in [MacTransfers -> BOOLEAN]
    BY Zenon DEF MacInv
<1>3. /\ mInFlight[t] /\ ~mInFlight'[t]
      /\ \A v \in MacTransfers \ {t} : mInFlight'[v] = mInFlight[v]
    BY <1>1 DEF MacInv, MacCustody
<1>4. PICK actual \in 0..1 :
         mResult' = [mResult EXCEPT ![t] = [status |-> mEvt.final, actual |-> actual]]
    BY <1>1
<1>5. /\ mResult' \in [MacTransfers -> [status : Mac!Statuses, actual : Nat]]
      /\ mResult' = [mResult EXCEPT ![t] = mResult'[t]]
    <2>1. mEvt.final \in Mac!Statuses
        BY DEF MacInv, MacShape, MacEventState
    <2>2. [status |-> mEvt.final, actual |-> actual] \in [status : Mac!Statuses, actual : Nat]
        BY <2>1
    <2> QED  BY <1>4, <2>2 DEF MacInv, MacShape
<1>6. /\ mReq' \in [MacTransfers -> MacRequest] /\ mReq'[t].at = "none"
      /\ \A v \in MacTransfers \ {t} : mReq'[v] = mReq[v]
    <2>1. Mac!NoReq \in MacRequest /\ Mac!NoReq.at = "none"
        BY DEF Mac!NoReq, MacRequest
    <2> QED  BY <1>1, <2>1 DEF MacInv, MacShape
<1> QED  BY <1>1, <1>2, <1>3, <1>5, <1>6

\* Every step keeps the invariant.
LEMMA MacNextInv ==
    ASSUME MacInv, [Mac!Next]_(Mac!vars)
    PROVE  MacInv'
<1>1. CASE UNCHANGED Mac!vars
    <2> USE <1>1 DEF Mac!vars
    <2>1. mInFlight' \in [MacTransfers -> BOOLEAN]
        BY Zenon DEF MacInv
    <2>2. MacShape' /\ MacEvent' /\ \A t \in MacTransfers : MacCustody(t)'
        BY DEF MacInv, MacShape, MacEvent, MacCustody
    <2> QED  BY <2>1, <2>2 DEF MacInv
<1>2. CASE Mac!Complete
    <2>1. PICK t \in MacTransfers :
              /\ mUser[t] = "idle"
              /\ mInFlight' \in [MacTransfers -> BOOLEAN]
              /\ \A v \in MacTransfers \ {t} : mInFlight'[v] = mInFlight[v] /\ mReq'[v] = mReq[v]
              /\ mResult' \in [MacTransfers -> [status : Mac!Statuses, actual : Nat]]
              /\ mReq' \in [MacTransfers -> MacRequest] /\ mReq'[t].at = "none"
        BY <1>2, MacPublishes
    <2>2. mEvt' \in MacEventState /\ mEvt'.step = "run" /\ UNCHANGED mUser
        BY <1>2 DEF Mac!Complete, Mac!TopOfLoop, MacEventState, Mac!Statuses
    <2>3. MacShape' /\ MacEvent'
        BY <2>1, <2>2 DEF MacInv, MacShape, MacEvent
    <2>4. ASSUME NEW v \in MacTransfers PROVE MacCustody(v)'
        BY <2>1, <2>2 DEF MacInv, MacCustody
    <2> QED  BY <2>1, <2>3, <2>4 DEF MacInv
<1>3. ASSUME NEW t \in MacTransfers, Mac!Submit(t) PROVE MacInv'
    BY <1>3, MacSubmitKeeps DEF Mac!Submit
<1> QED  BY <1>1, <1>2, <1>3, MacSubmitKeeps, MacLoopKeeps DEF Mac!Next, Mac!EventThread

-----------------------------------------------------------------------------
(* macOS: the life of a transfer *)

\* A step that moves one transfer moves one entry of the abstract phase.
LEMMA MacPhase ==
    ASSUME MacInv, NEW t \in MacTransfers,
           \A v \in MacTransfers \ {t} : mInFlight'[v] = mInFlight[v] /\ mUser'[v] = mUser[v],
           NEW p, Mac!Phase(t)' = p
    PROVE  [v \in MacTransfers |-> Mac!Phase(v)]'
              = [[v \in MacTransfers |-> Mac!Phase(v)] EXCEPT ![t] = p]
<1>1. \A v \in MacTransfers \ {t} : Mac!Phase(v)' = Mac!Phase(v)
    BY DEF Mac!Phase
<1>2. \A v \in MacTransfers : Mac!Phase(v)' = IF v = t THEN p ELSE Mac!Phase(v)
    BY <1>1
<1> HIDE DEF Mac!Phase
<1>3. [v \in MacTransfers |-> Mac!Phase(v)'] = [[v \in MacTransfers |-> Mac!Phase(v)] EXCEPT ![t] = p]
    BY <1>2
<1> QED  BY <1>3

\* A step that neither enters nor leaves submit() and publishes nothing.
LEMMA MacInvisible ==
    ASSUME MacInv, UNCHANGED <<mInFlight, mResult>>,
           \A t \in MacTransfers : mUser'[t] = "idle" <=> mUser[t] = "idle"
    PROVE  UNCHANGED Mac!Life!lifeVars
<1>1. \A t \in MacTransfers : Mac!Phase(t)' = Mac!Phase(t)
    BY DEF Mac!Phase
<1>2. [t \in MacTransfers |-> Mac!Phase(t)]' = [t \in MacTransfers |-> Mac!Phase(t)]
    BY <1>1
<1> QED  BY <1>2 DEF Mac!Life!lifeVars

\* Every step of the macOS engine is one of TransferLife or invisible there.
LEMMA MacNextRefines ==
    ASSUME MacInv, [Mac!Next]_(Mac!vars)
    PROVE  [Mac!Life!Next]_(Mac!Life!lifeVars)
<1>1. CASE UNCHANGED <<mInFlight, mResult, mUser>>
    BY <1>1, MacInvisible
<1>2. ASSUME NEW t \in MacTransfers, Mac!SubmitStart(t) PROVE Mac!Life!Begin(t)
    <2>1. /\ Mac!Phase(t) = "idle" /\ Mac!Phase(t)' = "submitting"
          /\ \A v \in MacTransfers \ {t} : mInFlight'[v] = mInFlight[v] /\ mUser'[v] = mUser[v]
        BY <1>2 DEF Mac!SubmitStart, Mac!Phase, MacInv, MacShape
    <2> QED  BY <1>2, <2>1, MacPhase DEF Mac!SubmitStart, Mac!Life!Begin
<1>3. ASSUME NEW t \in MacTransfers, Mac!SubmitDisconnected(t) PROVE Mac!Life!RefuseAtOnce(t)
    <2>1. Mac!Phase(t) = "idle" /\ \A v \in MacTransfers : Mac!Phase(v)' = Mac!Phase(v)
        BY <1>3 DEF Mac!SubmitDisconnected, Mac!Phase
    <2> QED  BY <1>3, <2>1 DEF Mac!SubmitDisconnected, Mac!Life!RefuseAtOnce
<1>4. ASSUME NEW t \in MacTransfers, Mac!IssueFails(t) PROVE Mac!Life!Refuse(t)
    <2>1. MacCustody(t)
        BY DEF MacInv
    <2>2. /\ Mac!Phase(t) = "submitting" /\ Mac!Phase(t)' = "idle"
          /\ \A v \in MacTransfers \ {t} : mInFlight'[v] = mInFlight[v] /\ mUser'[v] = mUser[v]
        BY <1>4, <2>1 DEF Mac!IssueFails, Mac!Phase, MacInv, MacShape, MacCustody
    <2> QED  BY <1>4, <2>2, MacPhase DEF Mac!IssueFails, Mac!Life!Refuse
<1>5. ASSUME NEW t \in MacTransfers, NEW timeout, Mac!Insert(t, timeout) PROVE Mac!Life!Accept(t)
    <2>1. MacCustody(t)
        BY DEF MacInv
    <2>2. /\ Mac!Phase(t) = "submitting" /\ Mac!Phase(t)' = "accepted" /\ UNCHANGED mResult
          /\ \A v \in MacTransfers \ {t} : mInFlight'[v] = mInFlight[v] /\ mUser'[v] = mUser[v]
        BY <1>5, <2>1 DEF Mac!Insert, Mac!Phase, MacInv, MacShape, MacCustody
    <2> QED  BY <2>2, MacPhase DEF Mac!Life!Accept
<1>6. ASSUME NEW t \in MacTransfers, Mac!Issue(t) PROVE UNCHANGED Mac!Life!lifeVars
    BY <1>6, MacInvisible DEF Mac!Issue, MacInv, MacShape
<1>7. ASSUME Mac!Complete PROVE \E t \in MacTransfers : Mac!Life!Complete(t)
    <2>1. PICK t \in MacTransfers :
              /\ mInFlight[t] /\ mUser[t] = "idle" /\ ~mInFlight'[t]
              /\ \A v \in MacTransfers \ {t} : mInFlight'[v] = mInFlight[v]
              /\ mResult' \in [MacTransfers -> [status : Mac!Statuses, actual : Nat]]
              /\ mResult' = [mResult EXCEPT ![t] = mResult'[t]]
        BY <1>7, MacPublishes
    <2>2. UNCHANGED mUser
        BY <1>7 DEF Mac!Complete
    <2>3. Mac!Phase(t) = "accepted" /\ Mac!Phase(t)' = "idle"
        BY <2>1, <2>2 DEF Mac!Phase
    <2>4. [v \in MacTransfers |-> Mac!Phase(v)]'
             = [[v \in MacTransfers |-> Mac!Phase(v)] EXCEPT ![t] = "idle"]
        BY <2>1, <2>2, <2>3, MacPhase
    <2>5. mResult'[t] \in [status : Mac!Statuses, actual : Nat]
        BY <2>1
    <2> QED  BY <2>1, <2>3, <2>4, <2>5 DEF Mac!Life!Complete
<1>8. ASSUME NEW t \in MacTransfers, Mac!Submit(t) PROVE [Mac!Life!Next]_(Mac!Life!lifeVars)
    BY <1>4, <1>5, <1>6, <1>8 DEF Mac!Submit, Mac!Life!Next
<1>9. ASSUME NEW t \in MacTransfers,
             Mac!Cancel(t) \/ Mac!Kernel(t) \/ Mac!DeadlinePasses(t) \/ Mac!Completion(t)
      PROVE  UNCHANGED <<mInFlight, mResult, mUser>>
    BY <1>9 DEF Mac!Cancel, Mac!Kernel, Mac!KernelFinishes, Mac!DeadlinePasses, Mac!Completion
<1>10. ASSUME \/ UNCHANGED Mac!vars \/ Mac!DeviceGone \/ Mac!LockPending \/ Mac!NextDeadline
              \/ Mac!Take \/ Mac!LoopReturns \/ Mac!Expire
       PROVE  UNCHANGED <<mInFlight, mResult, mUser>>
    BY <1>10 DEF Mac!vars, Mac!DeviceGone, Mac!LockPending, Mac!NextDeadline, Mac!Take,
           Mac!LoopReturns, Mac!Expire
<1>11. CASE Mac!EventThread
    BY <1>1, <1>7, <1>9, <1>10, <1>11 DEF Mac!EventThread, Mac!Life!Next
<1>12. ASSUME NEW t \in MacTransfers,
              \/ Mac!SubmitStart(t) \/ Mac!SubmitDisconnected(t)
              \/ Mac!Cancel(t) \/ Mac!Kernel(t) \/ Mac!DeadlinePasses(t)
       PROVE  [Mac!Life!Next]_(Mac!Life!lifeVars)
    BY <1>1, <1>2, <1>3, <1>9, <1>12 DEF Mac!Life!Next
<1> QED  BY <1>1, <1>8, <1>10, <1>11, <1>12 DEF Mac!Next

\* The macOS engine implements the life of a transfer: although AbortPipe ends
\* the requests of other transfers too, each accepted submission is completed
\* exactly once, and only after submit() has let go of it.
THEOREM MacosImplementsLife == Mac!Spec => Mac!ImplementsLife
<1>1. Mac!Init => Mac!Life!Init
    <2>1. ASSUME Mac!Init PROVE \A t \in MacTransfers : Mac!Phase(t) = "idle"
        BY <2>1 DEF Mac!Init, Mac!Phase
    <2> QED  BY <2>1 DEF Mac!Init, Mac!Life!Init
<1>2. MacInv /\ [Mac!Next]_(Mac!vars) => MacInv'
    BY MacNextInv
<1>3. MacInv /\ [Mac!Next]_(Mac!vars) => [Mac!Life!Next]_(Mac!Life!lifeVars)
    BY MacNextRefines
<1> QED  BY <1>1, <1>2, <1>3, MacInitInv, PTL DEF Mac!Spec, Mac!ImplementsLife, Mac!Life!Spec

-----------------------------------------------------------------------------
(* Both backends, as the model MCBackends puts them side by side *)

\* A behaviour of the composition is one of the Windows engine, of the macOS
\* engine and of the macOS handles, each stuttering while another moves.
LEMMA PartsBehave == MCSpec => Spec /\ Mac!Spec /\ MacHandle!Spec
<1>1. MCInit => Init /\ Mac!Init /\ MacHandle!Init
    BY DEF MCInit
<1>2. [MCNext]_allVars => [Next]_vars
    BY DEF MCNext, allVars, Windows, Macos
<1>3. [MCNext]_allVars => [Mac!Next]_(Mac!vars)
    BY DEF MCNext, allVars, macVars, Mac!vars, Windows, Macos
<1>4. [MCNext]_allVars => [MacHandle!Next]_(MacHandle!vars)
    BY DEF MCNext, allVars, handleVars, MacHandle!vars, Windows, Macos
<1> QED  BY <1>1, <1>2, <1>3, <1>4, PTL DEF MCSpec, Spec, Mac!Spec, MacHandle!Spec

\* Both backends implement the life of a transfer src/transfer.rs relies on.
THEOREM BackendsBothImplementLife == MCSpec => BackendsImplementLife
BY PartsBehave, WindowsImplementsLife, MacosImplementsLife, PTL DEF BackendsImplementLife

-----------------------------------------------------------------------------
(* macOS: what handles take of a device they give back *)

Captures == {"None", "Held", "ReleasePending"}
CallState ==
    [op : {"idle", "reopen", "reclaim", "handback", "handbackAndDrop", "drop"}, todo : SUBSET Ifaces]
KernelState == [open : BOOLEAN, captured : BOOLEAN, owner : [Ifaces -> Handles \cup {Free, Driver}]]

GivenShape ==
    /\ live \subseteq Handles
    /\ capture \in [Handles -> Captures]
    /\ claimed \in [Handles -> SUBSET Ifaces]
    /\ call \in [Handles -> CallState]
    /\ openCount \in Nat /\ faults \in Nat

Returning(h) == capture[h] # "None" \/ call[h].op \in {"handback", "handbackAndDrop"}

\* A handle that is gone has no share of the open and no call under way, and a
\* handle that hands back or drops has let go of its capture.
GivenHandle(h) ==
    /\ isOpen[h] => h \in live
    /\ call[h].op # "idle" => h \in live
    /\ call[h].op \in {"handback", "handbackAndDrop", "drop"} => capture[h] = "None"

Shares == {h \in live : isOpen[h]}

GivenInv ==
    /\ isOpen \in [Handles -> BOOLEAN]
    /\ kernel \in KernelState
    /\ GivenShape
    /\ \A h \in Handles : GivenHandle(h)
    /\ openCount = Cardinality(Shares)
    /\ kernel.open => openCount > 0
    /\ (kernel.captured /\ faults = 0) => \E h \in live : Returning(h)

\* Before the first open nothing is taken.
LEMMA GivenInit == MacHandle!Init => GivenInv
<1> SUFFICES ASSUME MacHandle!Init PROVE GivenInv
    OBVIOUS
<1> USE DEF MacHandle!Init
<1>1. isOpen \in [Handles -> BOOLEAN]
    BY Zenon
<1>2. kernel \in KernelState /\ ~kernel.open /\ ~kernel.captured
    BY DEF KernelState
<1>3. MacHandle!Idle \in CallState /\ MacHandle!Idle.op = "idle"
    BY DEF MacHandle!Idle, CallState
<1>4. GivenShape
    BY <1>3 DEF GivenShape, Captures
<1>5. ASSUME NEW h \in Handles PROVE GivenHandle(h)
    BY <1>3 DEF GivenHandle
<1>6. Shares = {} /\ openCount = Cardinality(Shares)
    BY FS_EmptySet DEF Shares
<1> QED  BY <1>1, <1>2, <1>4, <1>5, <1>6 DEF GivenInv

\* An interface changes hands: the device stays as open and as captured.
LEMMA OwnerMoves ==
    ASSUME kernel \in KernelState
    PROVE  /\ \A h \in Handles, i \in Ifaces :
                 /\ [kernel EXCEPT !.owner[i] = h] \in KernelState
                 /\ [kernel EXCEPT !.owner[i] = h].open = kernel.open
                 /\ [kernel EXCEPT !.owner[i] = h].captured = kernel.captured
           /\ \A h \in Handles : \A is :
                 /\ MacHandle!Closed(h, is) \in KernelState
                 /\ MacHandle!Closed(h, is).open = kernel.open
                 /\ MacHandle!Closed(h, is).captured = kernel.captured
<1>1. ASSUME NEW o \in [Ifaces -> Handles \cup {Free, Driver}], NEW k, k = [kernel EXCEPT !.owner = o]
      PROVE  k \in KernelState /\ k.open = kernel.open /\ k.captured = kernel.captured
    BY <1>1 DEF KernelState
<1>2. ASSUME NEW h \in Handles, NEW i \in Ifaces
      PROVE  [kernel.owner EXCEPT ![i] = h] \in [Ifaces -> Handles \cup {Free, Driver}]
    BY DEF KernelState
<1>3. ASSUME NEW h \in Handles, NEW i \in Ifaces
      PROVE  [kernel EXCEPT !.owner[i] = h] = [kernel EXCEPT !.owner = [kernel.owner EXCEPT ![i] = h]]
    BY DEF KernelState
<1>4. ASSUME NEW h \in Handles, NEW is
      PROVE  [i \in Ifaces |-> IF i \in is /\ kernel.owner[i] = h THEN Free ELSE kernel.owner[i]]
                \in [Ifaces -> Handles \cup {Free, Driver}]
    BY DEF KernelState
<1>5. ASSUME NEW h \in Handles, NEW is
      PROVE  MacHandle!Closed(h, is) = [kernel EXCEPT !.owner =
                [i \in Ifaces |-> IF i \in is /\ kernel.owner[i] = h THEN Free ELSE kernel.owner[i]]]
    BY DEF MacHandle!Closed, KernelState
<1>6. ASSUME NEW h \in Handles, NEW i \in Ifaces
      PROVE  /\ [kernel EXCEPT !.owner[i] = h] \in KernelState
             /\ [kernel EXCEPT !.owner[i] = h].open = kernel.open
             /\ [kernel EXCEPT !.owner[i] = h].captured = kernel.captured
    <2>1. PICK o : o = [kernel.owner EXCEPT ![i] = h]
        OBVIOUS
    <2>2. PICK k : k = [kernel EXCEPT !.owner = o]
        OBVIOUS
    <2>3. k = [kernel EXCEPT !.owner[i] = h]
        BY <1>3, <2>1, <2>2
    <2>4. o \in [Ifaces -> Handles \cup {Free, Driver}]
        BY <1>2, <2>1
    <2>5. k \in KernelState /\ k.open = kernel.open /\ k.captured = kernel.captured
        BY <1>1, <2>2, <2>4
    <2> QED  BY <2>3, <2>5, Zenon
<1>7. ASSUME NEW h \in Handles, NEW is
      PROVE  /\ MacHandle!Closed(h, is) \in KernelState
             /\ MacHandle!Closed(h, is).open = kernel.open
             /\ MacHandle!Closed(h, is).captured = kernel.captured
    <2>1. PICK o : o = [i \in Ifaces |-> IF i \in is /\ kernel.owner[i] = h THEN Free ELSE kernel.owner[i]]
        OBVIOUS
    <2>2. PICK k : k = MacHandle!Closed(h, is)
        OBVIOUS
    <2>3. k = [kernel EXCEPT !.owner = o]
        BY <1>5, <2>1, <2>2
    <2>4. o \in [Ifaces -> Handles \cup {Free, Driver}]
        BY <1>4, <2>1
    <2>5. k \in KernelState /\ k.open = kernel.open /\ k.captured = kernel.captured
        BY <1>1, <2>3, <2>4
    <2> QED  BY <2>2, <2>5
<1> QED  BY <1>6, <1>7

\* A re-enumeration closes the device.
LEMMA ReenumeratedIs ==
    ASSUME NEW captured \in BOOLEAN
    PROVE  /\ MacHandle!Reenumerated(captured) \in KernelState
           /\ ~MacHandle!Reenumerated(captured).open
           /\ MacHandle!Reenumerated(captured).captured = captured
BY DEF MacHandle!Reenumerated, KernelState

\* The steps of one handle that leave the shares of the open alone: they do not
\* open the device, and a device that stays captured keeps a handle that will
\* hand it back.
LEMMA HandleMoves ==
    ASSUME GivenInv, NEW h \in Handles, NEW c \in Captures, NEW k \in CallState,
           UNCHANGED <<live, isOpen, openCount>>,
           capture' = [capture EXCEPT ![h] = c], call' = [call EXCEPT ![h] = k],
           claimed' \in [Handles -> SUBSET Ifaces], kernel' \in KernelState, faults' \in Nat,
           k.op # "idle" => h \in live,
           k.op \in {"handback", "handbackAndDrop", "drop"} => c = "None",
           kernel'.open => kernel.open,
           (kernel'.captured /\ faults' = 0) =>
              \/ h \in live /\ (c # "None" \/ k.op \in {"handback", "handbackAndDrop"})
              \/ /\ kernel.captured /\ faults = 0
                 /\ Returning(h) => (c # "None" \/ k.op \in {"handback", "handbackAndDrop"})
    PROVE  GivenInv'
<1>1. isOpen' \in [Handles -> BOOLEAN]
    BY Zenon DEF GivenInv
<1>2. /\ capture' \in [Handles -> Captures] /\ capture'[h] = c
      /\ call' \in [Handles -> CallState] /\ call'[h] = k
      /\ \A v \in Handles \ {h} : capture'[v] = capture[v] /\ call'[v] = call[v]
    BY DEF GivenInv, GivenShape
<1>3. GivenShape'
    BY <1>2 DEF GivenInv, GivenShape
<1>4. ASSUME NEW v \in Handles PROVE GivenHandle(v)'
    <2>1. GivenHandle(v)
        BY DEF GivenInv
    <2> QED  BY <1>2, <2>1 DEF GivenHandle
<1>5. Shares' = Shares
    BY DEF Shares
<1>6. openCount' = Cardinality(Shares')
    BY <1>5 DEF GivenInv
<1>7. kernel'.open => openCount' > 0
    BY DEF GivenInv
<1>8. ASSUME kernel'.captured, faults' = 0 PROVE \E v \in live' : Returning(v)'
    <2>1. live \subseteq Handles
        BY DEF GivenInv, GivenShape
    <2>2. CASE h \in live /\ (c # "None" \/ k.op \in {"handback", "handbackAndDrop"})
        BY <1>2, <2>2 DEF Returning
    <2>3. CASE /\ kernel.captured /\ faults = 0
               /\ Returning(h) => (c # "None" \/ k.op \in {"handback", "handbackAndDrop"})
        <3>1. PICK v \in live : Returning(v)
            BY <2>3 DEF GivenInv
        <3>2. Returning(v)'
            BY <1>2, <2>1, <2>3, <3>1 DEF Returning
        <3> QED  BY <3>1, <3>2
    <2> QED  BY <1>8, <2>2, <2>3
<1> QED  BY <1>1, <1>3, <1>4, <1>6, <1>7, <1>8 DEF GivenInv

\* How many shares there are once one handle has taken or dropped its own.
LEMMA ShareCount ==
    ASSUME GivenInv, NEW h \in Handles
    PROVE  /\ h \notin Shares => Cardinality(Shares \cup {h}) = openCount + 1
           /\ h \in Shares => Cardinality(Shares \ {h}) = openCount - 1 /\ openCount > 0
<1>1. IsFiniteSet(Shares)
    BY HandlesAssumption, FS_Subset DEF GivenInv, GivenShape, Shares
<1>2. openCount \in Nat /\ openCount = Cardinality(Shares)
    BY DEF GivenInv, GivenShape
<1>3. h \in Shares => openCount > 0
    BY <1>1, <1>2, FS_EmptySet
<1> QED  BY <1>1, <1>2, <1>3, FS_AddElement, FS_RemoveElement

\* claim_interface(), release_interface(), detach_kernel_driver(),
\* attach_kernel_driver() and the first part of close().
LEMMA CallsKeepGiven ==
    ASSUME GivenInv, NEW h \in Handles,
           \/ \E i \in Ifaces : MacHandle!Claim(h, i) \/ MacHandle!Release(h, i) \/ MacHandle!Detach(h, i)
           \/ MacHandle!Attach(h) \/ MacHandle!Close(h)
    PROVE  GivenInv'
<1> USE DEF MacHandle!Calls, MacHandle!Fails
<1>1. /\ capture \in [Handles -> Captures] /\ capture[h] \in Captures
      /\ call \in [Handles -> CallState] /\ call[h] \in CallState
      /\ claimed \in [Handles -> SUBSET Ifaces] /\ claimed[h] \subseteq Ifaces
      /\ faults \in Nat
    BY DEF GivenInv, GivenShape
<1>2. capture = [capture EXCEPT ![h] = capture[h]] /\ call = [call EXCEPT ![h] = call[h]]
    BY <1>1
<1>3. kernel \in KernelState /\ GivenHandle(h) /\ h \in live
    BY DEF GivenInv, MacHandle!Claim, MacHandle!Release, MacHandle!Detach, MacHandle!Attach,
           MacHandle!Close
<1>4. ASSUME NEW op \in {"reopen", "handback", "handbackAndDrop", "drop"}, call' = [call EXCEPT ![h].op = op]
      PROVE  \E k \in CallState : call' = [call EXCEPT ![h] = k] /\ k.op = op
    <2>1. [call[h] EXCEPT !.op = op] \in CallState /\ [call[h] EXCEPT !.op = op].op = op
        BY <1>1 DEF CallState
    <2> QED  BY <1>1, <1>4, <2>1
<1>5. ASSUME NEW i \in Ifaces, MacHandle!Claim(h, i) PROVE GivenInv'
    <2>1. claimed' \in [Handles -> SUBSET Ifaces]
        BY <1>1, <1>5 DEF MacHandle!Claim
    <2>2. kernel' \in KernelState /\ kernel'.open = kernel.open /\ kernel'.captured = kernel.captured
        BY <1>3, <1>5, OwnerMoves DEF MacHandle!Claim
    <2>3. UNCHANGED <<live, isOpen, openCount, capture, call, faults>>
        BY <1>5 DEF MacHandle!Claim
    <2> QED  BY <1>1, <1>2, <1>3, <2>1, <2>2, <2>3, HandleMoves DEF GivenHandle, Returning
<1>6. ASSUME NEW i \in Ifaces, MacHandle!Release(h, i) PROVE GivenInv'
    <2>1. claimed' \in [Handles -> SUBSET Ifaces]
        BY <1>1, <1>6 DEF MacHandle!Release
    <2>2. kernel' \in KernelState /\ kernel'.open = kernel.open /\ kernel'.captured = kernel.captured
        BY <1>3, <1>6, OwnerMoves DEF MacHandle!Release
    <2>3. UNCHANGED <<live, isOpen, openCount, faults>>
        BY <1>6 DEF MacHandle!Release
    <2>4. CASE capture' = [capture EXCEPT ![h] = "None"] /\ call' = [call EXCEPT ![h].op = "handback"]
        <3>1. PICK k \in CallState : call' = [call EXCEPT ![h] = k] /\ k.op = "handback"
            BY <1>4, <2>4
        <3>2. "None" \in Captures
            BY DEF Captures
        <3> QED  BY <1>1, <1>3, <2>1, <2>2, <2>3, <2>4, <3>1, <3>2, HandleMoves
    <2>5. CASE UNCHANGED <<capture, call>>
        BY <1>1, <1>2, <1>3, <2>1, <2>2, <2>3, <2>5, HandleMoves DEF GivenHandle, Returning
    <2> QED  BY <1>6, <2>4, <2>5 DEF MacHandle!Release
<1>7. ASSUME NEW i \in Ifaces, MacHandle!Detach(h, i) PROVE GivenInv'
    <2>1. UNCHANGED <<live, isOpen, openCount, claimed>>
        BY <1>7 DEF MacHandle!Detach
    <2>2. CASE /\ kernel' = MacHandle!Reenumerated(TRUE) /\ UNCHANGED faults
               /\ capture' = [capture EXCEPT ![h] = "Held"] /\ call' = [call EXCEPT ![h].op = "reopen"]
        <3>1. PICK k \in CallState : call' = [call EXCEPT ![h] = k] /\ k.op = "reopen"
            BY <1>4, <2>2
        <3>2. "Held" \in Captures
            BY DEF Captures
        <3>3. kernel' \in KernelState /\ ~kernel'.open
            BY <2>2, ReenumeratedIs
        <3> QED  BY <1>1, <1>3, <2>1, <2>2, <3>1, <3>2, <3>3, HandleMoves
    <2>3. CASE faults' = faults + 1 /\ UNCHANGED <<kernel, capture, call>>
        BY <1>1, <1>2, <1>3, <2>1, <2>3, HandleMoves DEF GivenHandle, Returning
    <2> QED  BY <1>7, <2>2, <2>3 DEF MacHandle!Detach
<1>8. CASE MacHandle!Attach(h)
    <2>1. UNCHANGED <<live, isOpen, openCount, claimed, kernel, faults>>
        BY <1>8 DEF MacHandle!Attach
    <2>2. CASE capture' = [capture EXCEPT ![h] = "ReleasePending"] /\ UNCHANGED call
        <3>1. "ReleasePending" \in Captures /\ call[h].op = "idle"
            BY <1>8 DEF Captures, MacHandle!Attach, MacHandle!Idle
        <3> QED  BY <1>1, <1>2, <1>3, <2>1, <2>2, <3>1, HandleMoves
    <2>3. CASE capture' = [capture EXCEPT ![h] = "None"] /\ call' = [call EXCEPT ![h].op = "handback"]
        <3>1. PICK k \in CallState : call' = [call EXCEPT ![h] = k] /\ k.op = "handback"
            BY <1>4, <2>3
        <3>2. "None" \in Captures
            BY DEF Captures
        <3> QED  BY <1>1, <1>3, <2>1, <2>3, <3>1, <3>2, HandleMoves
    <2> QED  BY <1>8, <2>2, <2>3 DEF MacHandle!Attach
<1>9. CASE MacHandle!Close(h)
    <2>1. UNCHANGED <<live, isOpen, openCount, claimed, kernel, faults>>
        BY <1>9 DEF MacHandle!Close
    <2>2. PICK op : op = (IF capture[h] = "None" THEN "drop" ELSE "handbackAndDrop")
        OBVIOUS
    <2>3. PICK k \in CallState : call' = [call EXCEPT ![h] = k] /\ k.op = op
        BY <1>4, <1>9, <2>2 DEF MacHandle!Close
    <2>4. "None" \in Captures /\ call[h].op = "idle"
        BY <1>9 DEF Captures, MacHandle!Close, MacHandle!Idle
    <2>5. capture' = [capture EXCEPT ![h] = "None"]
        BY <1>9 DEF MacHandle!Close
    <2>6. Returning(h) => op = "handbackAndDrop"
        BY <2>2, <2>4 DEF Returning
    <2> QED  BY <1>1, <1>3, <2>1, <2>3, <2>4, <2>5, <2>6, HandleMoves
<1> QED  BY <1>5, <1>6, <1>7, <1>8, <1>9

\* The reclaiming at the end of detach_kernel_driver(), and hand_back().
LEMMA CallsGoOn ==
    ASSUME GivenInv, NEW h \in Handles, MacHandle!Reclaim(h) \/ MacHandle!HandBack(h)
    PROVE  GivenInv'
<1> USE DEF MacHandle!Fails
<1>1. /\ capture \in [Handles -> Captures] /\ capture[h] \in Captures
      /\ call \in [Handles -> CallState] /\ call[h] \in CallState
      /\ claimed \in [Handles -> SUBSET Ifaces] /\ claimed[h] \subseteq Ifaces
      /\ faults \in Nat /\ call[h].todo \subseteq Ifaces
    BY DEF GivenInv, GivenShape, CallState
<1>2. capture = [capture EXCEPT ![h] = capture[h]] /\ UNCHANGED <<live, isOpen, openCount, capture>>
    BY <1>1 DEF MacHandle!Reclaim, MacHandle!HandBack
<1>3. kernel \in KernelState /\ GivenHandle(h) /\ h \in live
    <2>1. call[h].op # "idle"
        BY DEF MacHandle!Reclaim, MacHandle!HandBack
    <2> QED  BY <2>1 DEF GivenInv, GivenHandle
<1>4. CASE MacHandle!Reclaim(h)
    <2>1. PICK k \in CallState : /\ call' = [call EXCEPT ![h] = k]
                                 /\ k.op \in {"idle", "reclaim"}
        <3>1. MacHandle!Idle \in CallState /\ MacHandle!Idle.op = "idle"
            BY DEF MacHandle!Idle, CallState
        <3>2. ASSUME NEW i, call' = [call EXCEPT ![h].todo = @ \ {i}]
              PROVE  \E k \in CallState : call' = [call EXCEPT ![h] = k] /\ k.op \in {"idle", "reclaim"}
            <4>1. [call[h] EXCEPT !.todo = @ \ {i}] \in CallState
                  /\ [call[h] EXCEPT !.todo = @ \ {i}].op = "reclaim"
                BY <1>1, <1>4 DEF CallState, MacHandle!Reclaim
            <4> QED  BY <1>1, <3>2, <4>1
        <3> QED  BY <1>4, <3>1, <3>2 DEF MacHandle!Reclaim
    <2>2. claimed' \in [Handles -> SUBSET Ifaces]
        BY <1>1, <1>4 DEF MacHandle!Reclaim
    <2>3. /\ kernel' \in KernelState /\ kernel'.open = kernel.open /\ kernel'.captured = kernel.captured
        <3>1. CASE UNCHANGED kernel
            BY <1>3, <3>1
        <3>2. ASSUME NEW i \in call[h].todo, kernel' = [kernel EXCEPT !.owner[i] = h]
              PROVE  /\ kernel' \in KernelState
                     /\ kernel'.open = kernel.open /\ kernel'.captured = kernel.captured
            BY <1>1, <1>3, <3>2, OwnerMoves
        <3>3. UNCHANGED kernel \/ \E i \in call[h].todo : kernel' = [kernel EXCEPT !.owner[i] = h]
            BY <1>4 DEF MacHandle!Reclaim
        <3> QED  BY <3>1, <3>2, <3>3
    <2>4. faults' \in Nat /\ (faults' = 0 => faults = 0)
        BY <1>1, <1>4 DEF MacHandle!Reclaim
    <2>5. Returning(h) => capture[h] # "None"
        BY <1>4 DEF Returning, MacHandle!Reclaim
    <2> QED  BY <1>1, <1>2, <1>3, <2>1, <2>2, <2>3, <2>4, <2>5, HandleMoves
<1>5. CASE MacHandle!HandBack(h)
    <2>1. PICK op : op = (IF call[h].op = "handback" THEN "idle" ELSE "drop")
        OBVIOUS
    <2>2. PICK k : k = [call[h] EXCEPT !.op = op]
        OBVIOUS
    <2>3. k \in CallState /\ k.op \in {"idle", "drop"}
        BY <1>1, <2>1, <2>2 DEF CallState
    <2>4. call' = [call EXCEPT ![h] = k]
        BY <1>1, <1>5, <2>1, <2>2 DEF MacHandle!HandBack
    <2>5. capture[h] = "None"
        BY <1>3, <1>5 DEF GivenHandle, MacHandle!HandBack
    <2>6. claimed' \in [Handles -> SUBSET Ifaces] /\ faults' \in Nat
        <3>1. claimed' = claimed /\ faults' \in {faults, faults + 1}
            BY <1>5 DEF MacHandle!HandBack
        <3> QED  BY <1>1, <3>1
    <2>7. kernel' \in KernelState /\ (kernel'.open => kernel.open) /\ ~(kernel'.captured /\ faults' = 0)
        <3>1. CASE kernel' = MacHandle!Reenumerated(FALSE)
            BY <3>1, ReenumeratedIs
        <3>2. CASE faults' = faults + 1 /\ UNCHANGED kernel
            BY <1>1, <1>3, <3>2
        <3> QED  BY <1>5, <3>1, <3>2 DEF MacHandle!HandBack
    <2> QED  BY <1>1, <1>2, <1>3, <2>3, <2>4, <2>5, <2>6, <2>7, HandleMoves
<1> QED  BY <1>4, <1>5

\* What is left of the invariant once the shares of the open have been counted.
LEMMA SharesMove ==
    ASSUME GivenInv, NEW h \in Handles, isOpen' \in [Handles -> BOOLEAN], kernel' \in KernelState,
           UNCHANGED capture, claimed' \in [Handles -> SUBSET Ifaces],
           call' \in [Handles -> CallState], faults' \in Nat, openCount' \in Nat,
           live' \subseteq Handles, live \ {h} \subseteq live',
           \A v \in Handles \ {h} : isOpen'[v] = isOpen[v] /\ call'[v] = call[v],
           \A v \in Handles \ {h} : v \in live' <=> v \in live,
           GivenHandle(h)', openCount' = Cardinality(Shares'), kernel'.open => openCount' > 0,
           kernel'.captured => kernel.captured, faults' = 0 => faults = 0,
           Returning(h) => h \in live' /\ Returning(h)'
    PROVE  GivenInv'
<1>1. GivenShape'
    BY DEF GivenInv, GivenShape
<1>2. ASSUME NEW v \in Handles PROVE GivenHandle(v)'
    <2>1. CASE v # h
        BY <2>1 DEF GivenInv, GivenHandle
    <2> QED  BY <2>1
<1>3. ASSUME kernel'.captured, faults' = 0 PROVE \E v \in live' : Returning(v)'
    <2>1. PICK v \in live : Returning(v)
        BY <1>3 DEF GivenInv
    <2>2. v \in Handles
        BY DEF GivenInv, GivenShape
    <2>3. CASE v = h
        BY <2>1, <2>3
    <2>4. CASE v # h
        BY <2>1, <2>2, <2>4 DEF Returning
    <2> QED  BY <2>3, <2>4
<1> QED  BY <1>1, <1>2, <1>3 DEF GivenInv

\* Context::open() and DeviceRef::open().
LEMMA OpenKeepsGiven ==
    ASSUME GivenInv, NEW h \in Handles, MacHandle!Open(h)
    PROVE  GivenInv'
<1> USE DEF MacHandle!Open
<1>1. /\ isOpen' \in [Handles -> BOOLEAN]
      /\ \A v \in Handles \ {h} : isOpen'[v] = isOpen[v] /\ call'[v] = call[v]
    BY Zenon DEF GivenInv, GivenShape
<1>2. /\ h \notin live /\ live' = live \cup {h} /\ UNCHANGED <<capture, claimed, call>>
      /\ GivenHandle(h) /\ kernel \in KernelState
    BY DEF GivenInv
<1>3. live' \subseteq Handles /\ faults' \in Nat /\ openCount' \in Nat /\ (faults' = 0 => faults = 0)
    BY DEF GivenInv, GivenShape, MacHandle!Fails
<1>4. kernel' \in KernelState /\ kernel'.captured = kernel.captured
    <2>1. [kernel EXCEPT !.open = TRUE] \in KernelState
          /\ [kernel EXCEPT !.open = TRUE].captured = kernel.captured
        BY <1>2 DEF KernelState
    <2> QED  BY <1>2, <2>1
<1>5. GivenHandle(h)' /\ (Returning(h) => Returning(h)')
    BY <1>2 DEF GivenHandle, Returning
<1>6. openCount' = Cardinality(Shares') /\ (kernel'.open => openCount' > 0)
    <2>1. h \notin Shares
        BY <1>2 DEF Shares
    <2>2. CASE isOpen' = [isOpen EXCEPT ![h] = TRUE] /\ openCount' = openCount + 1
        <3>1. Shares' = Shares \cup {h}
            BY <1>2, <2>2 DEF Shares, GivenInv, GivenShape
        <3>2. openCount \in Nat
            BY DEF GivenInv, GivenShape
        <3> QED  BY <2>1, <2>2, <3>1, <3>2, ShareCount
    <2>3. CASE UNCHANGED <<isOpen, openCount, kernel>>
        <3>1. Shares' = Shares
            BY <1>2, <2>3 DEF Shares, GivenHandle
        <3> QED  BY <2>3, <3>1 DEF GivenInv
    <2> QED  BY <2>2, <2>3
<1>7. claimed' \in [Handles -> SUBSET Ifaces] /\ call' \in [Handles -> CallState]
    BY <1>2 DEF GivenInv, GivenShape
<1> HIDE DEF MacHandle!Open
<1> QED  BY <1>1, <1>2, <1>3, <1>4, <1>5, <1>6, <1>7, SharesMove

\* The reopen at the end of a capture: a handle that went without a share of the
\* open gets it now.
LEMMA ReopenKeepsGiven ==
    ASSUME GivenInv, NEW h \in Handles, MacHandle!Reopen(h)
    PROVE  GivenInv'
<1> USE DEF MacHandle!Reopen
<1>1. isOpen' \in [Handles -> BOOLEAN] /\ \A v \in Handles \ {h} : isOpen'[v] = isOpen[v]
    BY Zenon DEF GivenInv
<1>2. /\ GivenHandle(h) /\ kernel \in KernelState /\ h \in live
      /\ UNCHANGED <<live, capture>> /\ live \subseteq Handles
    BY DEF GivenInv, GivenShape, GivenHandle
<1>3. faults' \in Nat /\ openCount' \in Nat /\ (faults' = 0 => faults = 0)
    BY DEF GivenInv, GivenShape, MacHandle!Fails
<1>4. kernel' \in KernelState /\ kernel'.captured = kernel.captured
    <2>1. [kernel EXCEPT !.open = TRUE] \in KernelState
          /\ [kernel EXCEPT !.open = TRUE].captured = kernel.captured
        BY <1>2 DEF KernelState
    <2> QED  BY <1>2, <2>1
<1>5. PICK k \in CallState : call' = [call EXCEPT ![h] = k] /\ k.op \in {"idle", "reclaim"}
    <2>1. MacHandle!Idle \in CallState /\ MacHandle!Idle.op = "idle"
        BY DEF MacHandle!Idle, CallState
    <2>2. PICK k : k = [op |-> "reclaim", todo |-> claimed[h]]
        OBVIOUS
    <2>3. k \in CallState /\ k.op = "reclaim"
        BY <2>2 DEF CallState, GivenInv, GivenShape
    <2> QED  BY <2>1, <2>2, <2>3
<1>6. /\ call' \in [Handles -> CallState] /\ call'[h].op \in {"idle", "reclaim"}
      /\ \A v \in Handles \ {h} : call'[v] = call[v]
    BY <1>5 DEF GivenInv, GivenShape
<1>7. claimed' \in [Handles -> SUBSET Ifaces]
    BY DEF GivenInv, GivenShape
<1>8. GivenHandle(h)' /\ (Returning(h) => Returning(h)')
    BY <1>2, <1>6 DEF GivenHandle, Returning
<1>9. openCount' = Cardinality(Shares') /\ (kernel'.open => openCount' > 0)
    <2>1. CASE UNCHANGED <<kernel, openCount, isOpen>>
        <3>1. Shares' = Shares
            BY <1>2, <2>1 DEF Shares
        <3> QED  BY <2>1, <3>1 DEF GivenInv
    <2>2. CASE isOpen' = [isOpen EXCEPT ![h] = TRUE] /\ isOpen[h] /\ openCount' = openCount
        <3>1. Shares' = Shares /\ h \in Shares
            BY <1>2, <2>2 DEF Shares, GivenInv
        <3>2. openCount > 0
            BY <3>1, ShareCount
        <3> QED  BY <2>2, <3>1, <3>2 DEF GivenInv
    <2>3. CASE isOpen' = [isOpen EXCEPT ![h] = TRUE] /\ ~isOpen[h] /\ openCount' = openCount + 1
        <3>1. Shares' = Shares \cup {h} /\ h \notin Shares
            BY <1>2, <2>3 DEF Shares, GivenInv
        <3>2. openCount \in Nat
            BY DEF GivenInv, GivenShape
        <3>3. Cardinality(Shares') = openCount + 1
            <4> HIDE DEF MacHandle!Reopen
            <4> QED  BY <3>1, ShareCount
        <3> HIDE DEF MacHandle!Reopen
        <3> QED  BY <2>3, <3>2, <3>3
    <2> QED  BY <2>1, <2>2, <2>3
<1> HIDE DEF MacHandle!Reopen
<1> QED  BY <1>1, <1>2, <1>3, <1>4, <1>6, <1>7, <1>8, <1>9, SharesMove

\* Handle::drop().
LEMMA DropKeepsGiven ==
    ASSUME GivenInv, NEW h \in Handles, MacHandle!DropHandle(h)
    PROVE  GivenInv'
<1> USE DEF MacHandle!DropHandle
<1>1. isOpen' \in [Handles -> BOOLEAN] /\ \A v \in Handles \ {h} : isOpen'[v] = isOpen[v]
    BY Zenon DEF GivenInv
<1>2. /\ GivenHandle(h) /\ kernel \in KernelState /\ h \in live /\ live \subseteq Handles
      /\ live' = live \ {h} /\ UNCHANGED <<capture, faults>> /\ capture[h] = "None" /\ ~Returning(h)
    BY DEF GivenInv, GivenShape, GivenHandle, Returning
<1>3. ~isOpen'[h] /\ Shares' = Shares \ {h} /\ (h \in Shares <=> isOpen[h])
    BY <1>2 DEF GivenInv, Shares
<1>4. openCount' \in Nat /\ openCount' = Cardinality(Shares') /\ faults' \in Nat
    <2>1. openCount \in Nat /\ openCount = Cardinality(Shares) /\ faults \in Nat
        BY DEF GivenInv, GivenShape
    <2>2. CASE isOpen[h]
        BY <1>2, <1>3, <2>1, <2>2, ShareCount
    <2>3. CASE ~isOpen[h]
        <3>1. Shares' = Shares
            BY <1>3, <2>3
        <3> QED  BY <1>2, <2>1, <2>3, <3>1
    <2> QED  BY <2>2, <2>3
<1>5. /\ kernel' \in KernelState /\ kernel'.captured = kernel.captured
      /\ kernel'.open => kernel.open /\ ~(isOpen[h] /\ openCount = 1)
    <2>1. PICK c : c = MacHandle!Closed(h, claimed[h])
        OBVIOUS
    <2>2. c \in KernelState /\ c.open = kernel.open /\ c.captured = kernel.captured
        BY <1>2, <2>1, OwnerMoves
    <2>3. PICK o \in BOOLEAN : o <=> c.open /\ ~(isOpen[h] /\ openCount = 1)
        OBVIOUS
    <2>4. kernel' = [c EXCEPT !.open = o]
        BY <2>1, <2>3 DEF KernelState
    <2>5. kernel' \in KernelState /\ kernel'.captured = c.captured /\ kernel'.open = o
        BY <2>2, <2>4 DEF KernelState
    <2> QED  BY <2>2, <2>3, <2>5
<1>6. kernel'.open => openCount' > 0
    <2>1. openCount \in Nat /\ (kernel.open => openCount > 0)
        BY DEF GivenInv, GivenShape
    <2> QED  BY <1>5, <2>1
<1>7. /\ call' \in [Handles -> CallState] /\ call'[h].op = "idle"
      /\ \A v \in Handles \ {h} : call'[v] = call[v]
    <2>1. MacHandle!Idle \in CallState /\ MacHandle!Idle.op = "idle"
        BY DEF MacHandle!Idle, CallState
    <2> QED  BY <2>1 DEF GivenInv, GivenShape
<1>8. claimed' \in [Handles -> SUBSET Ifaces]
    BY DEF GivenInv, GivenShape
<1>9. GivenHandle(h)'
    BY <1>2, <1>3, <1>7 DEF GivenHandle
<1> HIDE DEF MacHandle!DropHandle
<1> QED  BY <1>1, <1>2, <1>4, <1>5, <1>6, <1>7, <1>8, <1>9, SharesMove

\* Every step keeps the invariant.
LEMMA GivenNext ==
    ASSUME GivenInv, [MacHandle!Next]_(MacHandle!vars)
    PROVE  GivenInv'
<1>1. CASE UNCHANGED MacHandle!vars
    <2> USE <1>1 DEF MacHandle!vars
    <2>1. isOpen' \in [Handles -> BOOLEAN]
        BY Zenon DEF GivenInv
    <2>2. Shares' = Shares /\ \A h : Returning(h)' <=> Returning(h)
        BY DEF Shares, Returning
    <2>3. GivenShape' /\ \A h \in Handles : GivenHandle(h)'
        BY DEF GivenInv, GivenShape, GivenHandle
    <2> QED  BY <2>1, <2>2, <2>3 DEF GivenInv
<1> QED  BY <1>1, CallsKeepGiven, CallsGoOn, OpenKeepsGiven, ReopenKeepsGiven, DropKeepsGiven
         DEF MacHandle!Next

\* Every share of the open and every capture a handle takes of a device is given
\* back, for any number of handles and interfaces and any calls they make.
THEOREM DeviceAlwaysGivenBack == MCSpec => []DeviceIsGivenBack
<1>1. GivenInv => DeviceIsGivenBack
    <2> SUFFICES ASSUME GivenInv PROVE DeviceIsGivenBack
        OBVIOUS
    <2>1. openCount = Cardinality({h \in live : isOpen[h]}) /\ (kernel.open => openCount > 0)
        BY DEF GivenInv, Shares
    <2>2. (kernel.captured /\ faults = 0) =>
             \E h \in live : capture[h] # "None" \/ call[h].op \in {"handback", "handbackAndDrop"}
        BY DEF GivenInv, Returning
    <2>3. MacHandle!Cardinality({h \in live : isOpen[h]}) = Cardinality({h \in live : isOpen[h]})
        BY DEF MacHandle!Cardinality, Cardinality
    <2> QED  BY <2>1, <2>2, <2>3 DEF DeviceIsGivenBack, MacHandle!DeviceIsGivenBack
<1>2. GivenInv /\ [MacHandle!Next]_(MacHandle!vars) => GivenInv'
    BY GivenNext
<1> QED  BY <1>1, <1>2, GivenInit, PartsBehave, PTL DEF MacHandle!Spec

=============================================================================
