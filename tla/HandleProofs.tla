----------------------------- MODULE HandleProofs ----------------------------
(***************************************************************************)
(* Proofs about what the user of a transfer (TransferFront) and of a       *)
(* Windows handle (WindowsHandle) relies on, about the baud rates of FTDI  *)
(* chips (Ftdi) and about the bytes of a logical unit (BlockIo), as        *)
(* MCClasses puts them beside one another.                                 *)
(***************************************************************************)
EXTENDS MCClasses, SequenceTheorems, WellFoundedInduction, TLAPS

(* The front of a transfer *)

Watch == [pc : {"idle", "asleep", "awake", "pending", "woken"}, want : Nat, got : Nat]

Completing == [step : {"none", "notify", "wake", "run"}, callback : Nat, wakers : SUBSET Tasks, right : BOOLEAN]

FrontShape ==
    /\ thread \in [Callers -> Watch] /\ task \in [Tasks -> Watch]
    /\ tStatus \in Nat /\ submits \in Nat /\ callback \in Nat
    /\ wakers \subseteq Tasks /\ tEvt \in Completing
    /\ tAsked \in [callback : Nat, changes : Nat]

\* Nobody asks for more than was submitted, and once a submission has completed
\* the result is that of the last one.
ResultIsLast ==
    /\ ~inFlight => tStatus = submits
    /\ \A w \in Callers : thread[w].want <= submits /\ (thread[w].got # 0 => thread[w].got >= thread[w].want)
    /\ \A k \in Tasks : task[k].want <= submits /\ (task[k].got # 0 => task[k].got >= task[k].want)

\* Who sleeps will be woken; complete() has its wakers until it has called them.
SleepersHaveWakers ==
    /\ ~inFlight => \A w \in Callers : thread[w].pc = "asleep" => tEvt.step = "notify"
    /\ \A k \in Tasks : task[k].pc = "pending" => k \in wakers \cup tEvt.wakers
    /\ wakers # {} => inFlight
    /\ tEvt.step \in {"none", "run"} => tEvt.wakers = {}

\* The callback asked for last is in the slot, or with complete() while the slot
\* is empty, or was removed while it ran.
CallbackIsKept ==
    /\ cleared \/ tAsked.callback = IF tEvt.step # "none" /\ callback = 0 THEN tEvt.callback ELSE callback
    /\ tEvt.right

FrontInv == FrontShape /\ ResultIsLast /\ SleepersHaveWakers /\ CallbackIsKept

\* The parts that are not at hand do not move, the one at hand as it does alone.
LEMMA FrontMoves ==
    ASSUME part = "front", [Next]_vars
    PROVE  part' = "front" /\ [Observed!Next]_(Observed!vars)
<1> USE DEF vars, otherVars, frontVars, Observed!vars
<1>1. CASE UNCHANGED vars
    BY <1>1
<1>2. CASE Next
    BY <1>2 DEF Next, DataNext, NetworkNext, StorageNext, OtherNext
<1> QED  BY <1>1, <1>2

\* A transfer that was never submitted satisfies the invariant.
LEMMA FrontInitInv == Observed!Init => FrontInv
<1> SUFFICES ASSUME Observed!Init PROVE FrontInv
    OBVIOUS
<1> USE DEF Observed!Init
<1>1. /\ Observed!NotWaiting \in Watch /\ Observed!NotWaiting.pc = "idle"
      /\ Observed!NotWaiting.want = 0 /\ Observed!NotWaiting.got = 0
    BY DEF Observed!NotWaiting, Watch
<1>2. /\ tEvt \in Completing /\ tEvt.step = "none" /\ tEvt.wakers = {} /\ tEvt.right
    BY DEF Observed!NoEvt, Completing
<1>3. FrontShape
    BY <1>1, <1>2 DEF FrontShape
<1>4. ResultIsLast /\ SleepersHaveWakers
    BY <1>1, <1>2 DEF ResultIsLast, SleepersHaveWakers
<1>5. CallbackIsKept
    BY <1>2 DEF CallbackIsKept
<1> QED  BY <1>3, <1>4, <1>5 DEF FrontInv

\* submit(), set_callback() and clear_callback().
LEMMA CallsKeepFront ==
    ASSUME FrontInv, Observed!Submit \/ Observed!SetCallback \/ Observed!ClearCallback
    PROVE  FrontInv'
<1>1. UNCHANGED <<tStatus, wakers, tEvt, thread, task>>
    BY DEF Observed!Submit, Observed!SetCallback, Observed!ClearCallback
<1>2. CASE Observed!Submit
    <2>1. FrontShape'
        BY <1>1, <1>2 DEF Observed!Submit, FrontInv, FrontShape
    <2>2. ResultIsLast'
        <3>1. submits \in Nat /\ submits' = submits + 1 /\ inFlight'
            BY <1>2 DEF Observed!Submit, FrontInv, FrontShape
        <3>2. \A w \in Callers : thread[w].want \in Nat
            BY DEF FrontInv, FrontShape, Watch
        <3>3. \A k \in Tasks : task[k].want \in Nat
            BY DEF FrontInv, FrontShape, Watch
        <3> QED  BY <1>1, <3>1, <3>2, <3>3 DEF FrontInv, ResultIsLast
    <2>3. SleepersHaveWakers' /\ CallbackIsKept'
        BY <1>1, <1>2 DEF Observed!Submit, FrontInv, SleepersHaveWakers, CallbackIsKept
    <2> QED  BY <2>1, <2>2, <2>3 DEF FrontInv
<1>3. CASE Observed!SetCallback
    <2>1. /\ ~inFlight /\ UNCHANGED <<inFlight, submits>> /\ tAsked.changes \in Nat
          /\ callback' = tAsked.changes + 1 /\ tAsked' = [callback |-> callback', changes |-> callback']
        BY <1>3 DEF Observed!SetCallback, FrontInv, FrontShape
    <2>2. callback' \in Nat /\ callback' # 0 /\ tAsked'.callback = callback'
          /\ tAsked' \in [callback : Nat, changes : Nat]
        BY <2>1
    <2>3. FrontShape'
        BY <1>1, <2>1, <2>2 DEF FrontInv, FrontShape
    <2>4. ResultIsLast' /\ SleepersHaveWakers'
        BY <1>1, <2>1 DEF FrontInv, ResultIsLast, SleepersHaveWakers
    <2>5. CallbackIsKept'
        BY <1>1, <2>2 DEF FrontInv, CallbackIsKept
    <2> QED  BY <2>3, <2>4, <2>5 DEF FrontInv
<1>4. CASE Observed!ClearCallback
    <2>1. /\ UNCHANGED <<inFlight, submits>> /\ tAsked.changes + 1 \in Nat /\ callback' = 0
          /\ tAsked' = [callback |-> 0, changes |-> tAsked.changes + 1]
          /\ tEvt.callback = 0 \/ cleared'
        <3>1. tAsked.changes + 1 \in Nat
            BY DEF FrontInv, FrontShape
        <3>2. cleared' = (tEvt.callback # 0)
            BY <1>4 DEF Observed!ClearCallback
        <3>3. tEvt.callback = 0 \/ cleared'
            BY <3>2
        <3> QED  BY <1>4, <3>1, <3>3 DEF Observed!ClearCallback
    <2>2. tAsked'.callback = 0 /\ tAsked' \in [callback : Nat, changes : Nat]
        BY <2>1
    <2>3. FrontShape'
        BY <1>1, <2>1, <2>2 DEF FrontInv, FrontShape
    <2>4. ResultIsLast' /\ SleepersHaveWakers'
        BY <1>1, <2>1 DEF FrontInv, ResultIsLast, SleepersHaveWakers
    <2>5. CallbackIsKept'
        BY <1>1, <2>1, <2>2 DEF FrontInv, CallbackIsKept
    <2> QED  BY <2>3, <2>4, <2>5 DEF FrontInv
<1> QED  BY <1>2, <1>3, <1>4

\* complete(): the result is published and the rest taken along ...
LEMMA CompleteKeepsFront ==
    ASSUME FrontInv, Observed!Complete
    PROVE  FrontInv'
<1> USE DEF Observed!Complete
<1>1. /\ ~inFlight' /\ tStatus' = submits /\ callback' = 0 /\ wakers' = {} /\ tEvt.step = "none"
      /\ UNCHANGED <<thread, task, submits, tAsked, cleared>>
    OBVIOUS
<1>2. tEvt.wakers = {} /\ (cleared \/ callback = tAsked.callback)
    BY <1>1 DEF FrontInv, SleepersHaveWakers, CallbackIsKept
<1>3. /\ tEvt'.step = "notify" /\ tEvt'.callback = callback /\ tEvt'.wakers = wakers
      /\ tEvt'.right <=> callback = tAsked.callback \/ cleared
    OBVIOUS
<1>4. tEvt' \in Completing
    BY DEF FrontInv, FrontShape, Completing
<1> HIDE DEF Observed!Complete
<1>5. FrontShape'
    BY <1>1, <1>4 DEF FrontInv, FrontShape
<1>6. ResultIsLast'
    BY <1>1 DEF FrontInv, ResultIsLast
<1>7. SleepersHaveWakers'
    BY <1>1, <1>2, <1>3 DEF FrontInv, SleepersHaveWakers
<1>8. CallbackIsKept'
    BY <1>1, <1>2, <1>3 DEF CallbackIsKept
<1> QED  BY <1>5, <1>6, <1>7, <1>8 DEF FrontInv

\* ... the waiters are notified ...
LEMMA NotifyKeepsFront ==
    ASSUME FrontInv, Observed!NotifyAll
    PROVE  FrontInv'
<1>1. UNCHANGED <<inFlight, tStatus, callback, wakers, task, submits, tAsked, cleared>>
    BY DEF Observed!NotifyAll
<1>2. /\ tEvt' \in Completing /\ tEvt.step = "notify" /\ tEvt'.step = "wake"
      /\ tEvt'.callback = tEvt.callback /\ tEvt'.wakers = tEvt.wakers /\ tEvt'.right = tEvt.right
    BY DEF Observed!NotifyAll, FrontInv, FrontShape, Completing
<1>3. ASSUME NEW w \in Callers
      PROVE  /\ thread'[w] \in Watch /\ thread'[w].pc # "asleep"
             /\ thread'[w].want = thread[w].want /\ thread'[w].got = thread[w].got
    <2>1. thread[w] \in Watch
        BY DEF FrontInv, FrontShape
    <2>2. thread'[w] = IF thread[w].pc = "asleep" THEN [thread[w] EXCEPT !.pc = "awake"] ELSE thread[w]
        BY DEF Observed!NotifyAll
    <2> QED  BY <2>1, <2>2 DEF Watch
<1>4. thread' = [w \in Callers |-> thread'[w]]
    BY DEF Observed!NotifyAll
<1>5. FrontShape'
    BY <1>1, <1>2, <1>3, <1>4 DEF FrontInv, FrontShape
<1>6. ResultIsLast' /\ SleepersHaveWakers'
    BY <1>1, <1>2, <1>3 DEF FrontInv, ResultIsLast, SleepersHaveWakers
<1>7. CallbackIsKept'
    BY <1>1, <1>2 DEF FrontInv, CallbackIsKept
<1> QED  BY <1>5, <1>6, <1>7 DEF FrontInv

\* ... the tasks are woken ...
LEMMA WakeKeepsFront ==
    ASSUME FrontInv, NEW k \in Tasks, Observed!Wake(k)
    PROVE  FrontInv'
<1>1. UNCHANGED <<inFlight, tStatus, callback, wakers, thread, submits, tAsked, cleared>>
    BY DEF Observed!Wake
<1>2. /\ tEvt' \in Completing /\ tEvt.step = "wake" /\ tEvt'.step = "wake"
      /\ tEvt'.callback = tEvt.callback /\ tEvt'.wakers = tEvt.wakers \ {k} /\ tEvt'.right = tEvt.right
    BY DEF Observed!Wake, FrontInv, FrontShape, Completing
<1>3. /\ task' \in [Tasks -> Watch] /\ task'[k].pc # "pending"
      /\ task'[k].want = task[k].want /\ task'[k].got = task[k].got
      /\ \A l \in Tasks \ {k} : task'[l] = task[l]
    <2>1. task[k] \in Watch /\ task \in [Tasks -> Watch]
        BY DEF FrontInv, FrontShape
    <2>2. PICK pc : pc = IF task[k].pc = "pending" THEN "woken" ELSE task[k].pc
        OBVIOUS
    <2>3. PICK x : x = [task[k] EXCEPT !.pc = pc]
        OBVIOUS
    <2>4. x \in Watch /\ x.pc # "pending" /\ x.want = task[k].want /\ x.got = task[k].got
        BY <2>1, <2>2, <2>3 DEF Watch
    <2>5. task' = [task EXCEPT ![k] = x]
        BY <2>1, <2>2, <2>3 DEF Observed!Wake
    <2> QED  BY <2>1, <2>4, <2>5
<1>4. FrontShape'
    BY <1>1, <1>2, <1>3 DEF FrontInv, FrontShape
<1>5. ResultIsLast' /\ SleepersHaveWakers'
    BY <1>1, <1>2, <1>3 DEF FrontInv, ResultIsLast, SleepersHaveWakers
<1>6. CallbackIsKept'
    BY <1>1, <1>2 DEF FrontInv, CallbackIsKept
<1> QED  BY <1>4, <1>5, <1>6 DEF FrontInv

\* ... and the callback runs and is put back.
LEMMA CallbackKeepsFront ==
    ASSUME FrontInv, Observed!RunCallback \/ Observed!PutBack
    PROVE  FrontInv'
<1>1. UNCHANGED <<inFlight, tStatus, wakers, thread, task, submits, tAsked, cleared>>
    BY DEF Observed!RunCallback, Observed!PutBack
<1>2. /\ Observed!NoEvt \in Completing /\ Observed!NoEvt.step = "none" /\ Observed!NoEvt.wakers = {}
      /\ Observed!NoEvt.right
    BY DEF Observed!NoEvt, Completing
<1>3. tEvt.step \in {"wake", "run"} /\ tEvt.wakers = {} /\ callback \in Nat /\ tEvt.callback \in Nat
    BY DEF Observed!RunCallback, Observed!PutBack, FrontInv, FrontShape, SleepersHaveWakers, Completing
<1>4. /\ tEvt' \in Completing /\ tEvt'.step \in {"none", "run"} /\ tEvt'.wakers = {} /\ tEvt'.right
      /\ callback' \in Nat
      /\ \/ tEvt'.step = "run" /\ tEvt'.callback = tEvt.callback /\ callback' = callback
         \/ tEvt'.step = "none" /\ callback' = IF callback = 0 THEN tEvt.callback ELSE callback
    <2>1. CASE tEvt' = [tEvt EXCEPT !.step = "run"] /\ UNCHANGED callback
        <3>1. tEvt \in Completing /\ tEvt.right
            BY DEF FrontInv, FrontShape, CallbackIsKept
        <3>2. /\ tEvt' \in Completing /\ tEvt'.step = "run" /\ tEvt'.wakers = tEvt.wakers
              /\ tEvt'.right = tEvt.right /\ tEvt'.callback = tEvt.callback
            BY <2>1, <3>1 DEF Completing
        <3> QED  BY <1>3, <2>1, <3>1, <3>2
    <2>2. CASE tEvt' = Observed!NoEvt /\ tEvt.callback = 0 /\ UNCHANGED callback
        BY <1>2, <1>3, <2>2
    <2>3. CASE tEvt' = Observed!NoEvt /\ callback' = IF callback = 0 THEN tEvt.callback ELSE callback
        BY <1>2, <1>3, <2>3
    <2> QED  BY <2>1, <2>2, <2>3 DEF Observed!RunCallback, Observed!PutBack
<1>5. FrontShape'
    BY <1>1, <1>4 DEF FrontInv, FrontShape
<1>6. ResultIsLast' /\ SleepersHaveWakers'
    BY <1>1, <1>3, <1>4 DEF FrontInv, ResultIsLast, SleepersHaveWakers
<1>7. CallbackIsKept'
    BY <1>1, <1>3, <1>4 DEF FrontInv, CallbackIsKept
<1> QED  BY <1>5, <1>6, <1>7 DEF FrontInv

\* What a look at the transfer gives: sleep while it is in flight, else the
\* result of the last submission.
LEMMA LookIs ==
    ASSUME FrontInv, NEW pc \in {"asleep", "pending"}, NEW want \in Nat, want <= submits,
           NEW x, x = Observed!Look(pc, want)
    PROVE  /\ x \in Watch /\ x.want = want /\ (x.got # 0 => x.got >= want)
           /\ IF inFlight THEN x.pc = pc ELSE x.pc = "idle"
<1>1. tStatus \in Nat /\ (~inFlight => tStatus = submits)
    BY DEF FrontInv, FrontShape, ResultIsLast
<1>2. CASE inFlight
    <2>1. x = [pc |-> pc, want |-> want, got |-> 0]
        BY <1>2 DEF Observed!Look
    <2> QED  BY <1>2, <2>1 DEF Watch
<1>3. CASE ~inFlight
    <2>1. x = [pc |-> "idle", want |-> want, got |-> tStatus]
        BY <1>3 DEF Observed!Look
    <2> QED  BY <1>1, <1>3, <2>1 DEF Watch
<1> QED  BY <1>2, <1>3

\* wait(), its wake-ups and its timeout.
LEMMA WaitKeepsFront ==
    ASSUME FrontInv, NEW w \in Callers, Observed!Wait(w) \/ Observed!WaitWakes(w) \/ Observed!WaitTimesOut(w)
    PROVE  FrontInv'
<1>1. UNCHANGED <<inFlight, tStatus, callback, wakers, tEvt, task, submits, tAsked, cleared>>
    BY DEF Observed!Wait, Observed!WaitWakes, Observed!WaitTimesOut
<1>2. /\ thread \in [Callers -> Watch] /\ thread[w].want \in Nat /\ thread[w].want <= submits /\ submits \in Nat
    BY DEF FrontInv, FrontShape, ResultIsLast, Watch
<1>3. PICK x \in Watch : /\ thread' = [thread EXCEPT ![w] = x]
                         /\ x.want <= submits /\ (x.got # 0 => x.got >= x.want)
                         /\ x.pc = "asleep" => inFlight
    <2>1. ASSUME NEW want \in Nat, want <= submits, thread' = [thread EXCEPT ![w] = Observed!Look("asleep", want)]
          PROVE  \E x \in Watch : /\ thread' = [thread EXCEPT ![w] = x]
                                  /\ x.want <= submits /\ (x.got # 0 => x.got >= x.want)
                                  /\ x.pc = "asleep" => inFlight
        <3>1. PICK x : x = Observed!Look("asleep", want)
            OBVIOUS
        <3>2. /\ x \in Watch /\ x.want = want /\ (x.got # 0 => x.got >= want)
              /\ IF inFlight THEN x.pc = "asleep" ELSE x.pc = "idle"
            BY <2>1, <3>1, LookIs
        <3> QED  BY <2>1, <3>1, <3>2
    <2>2. CASE Observed!Wait(w)
        <3>1. thread' = [thread EXCEPT ![w] = Observed!Look("asleep", submits)]
            BY <2>2 DEF Observed!Wait
        <3>2. submits <= submits
            BY <1>2
        <3> QED  BY <1>2, <2>1, <3>1, <3>2
    <2>3. CASE Observed!WaitWakes(w)
        <3>1. thread' = [thread EXCEPT ![w] = Observed!Look("asleep", thread[w].want)]
            BY <1>2, <2>3 DEF Observed!WaitWakes
        <3> QED  BY <1>2, <2>1, <3>1
    <2>4. CASE Observed!WaitTimesOut(w)
        <3>1. /\ Observed!NotWaiting \in Watch /\ Observed!NotWaiting.pc = "idle"
              /\ Observed!NotWaiting.want = 0 /\ Observed!NotWaiting.got = 0
            BY DEF Observed!NotWaiting, Watch
        <3>2. PICK x : x = Observed!NotWaiting
            OBVIOUS
        <3>3. thread' = [thread EXCEPT ![w] = x]
            BY <2>4, <3>2 DEF Observed!WaitTimesOut
        <3>4. x \in Watch /\ x.want <= submits /\ x.got = 0 /\ x.pc = "idle"
            BY <1>2, <3>1, <3>2
        <3> QED  BY <3>3, <3>4
    <2> QED  BY <2>2, <2>3, <2>4
<1>4. /\ thread' \in [Callers -> Watch] /\ thread'[w] = x
      /\ \A v \in Callers \ {w} : thread'[v] = thread[v]
    BY <1>2, <1>3
<1>5. FrontShape'
    BY <1>1, <1>4 DEF FrontInv, FrontShape
<1>6. ResultIsLast' /\ SleepersHaveWakers'
    BY <1>1, <1>3, <1>4 DEF FrontInv, ResultIsLast, SleepersHaveWakers
<1>7. CallbackIsKept'
    BY <1>1 DEF FrontInv, CallbackIsKept
<1> QED  BY <1>5, <1>6, <1>7 DEF FrontInv

\* Completion::poll().
LEMMA PollKeepsFront ==
    ASSUME FrontInv, NEW k \in Tasks, Observed!Poll(k)
    PROVE  FrontInv'
<1>1. UNCHANGED <<inFlight, tStatus, callback, tEvt, thread, submits, tAsked, cleared>>
    BY DEF Observed!Poll
<1>2. task \in [Tasks -> Watch] /\ task[k].want \in Nat /\ task[k].want <= submits /\ submits \in Nat
    BY DEF FrontInv, FrontShape, ResultIsLast, Watch
<1>3. PICK want : want = IF task[k].pc = "idle" THEN submits ELSE task[k].want
    OBVIOUS
<1>4. PICK x : x = Observed!Look("pending", want)
    OBVIOUS
<1>5. /\ x \in Watch /\ x.want = want /\ (x.got # 0 => x.got >= want) /\ want <= submits
      /\ IF inFlight THEN x.pc = "pending" ELSE x.pc = "idle"
    <2>1. want \in Nat /\ want <= submits
        BY <1>2, <1>3
    <2> QED  BY <1>4, <2>1, LookIs
<1>6. task' = [task EXCEPT ![k] = x] /\ wakers' = IF inFlight THEN wakers \cup {k} ELSE wakers
    BY <1>2, <1>3, <1>4 DEF Observed!Poll
<1>7. task' \in [Tasks -> Watch] /\ task'[k] = x /\ \A l \in Tasks \ {k} : task'[l] = task[l]
    BY <1>2, <1>5, <1>6
<1>8. FrontShape'
    BY <1>1, <1>6, <1>7 DEF FrontInv, FrontShape
<1>9. ResultIsLast' /\ SleepersHaveWakers'
    BY <1>1, <1>5, <1>6, <1>7 DEF FrontInv, ResultIsLast, SleepersHaveWakers
<1>10. CallbackIsKept'
    BY <1>1 DEF FrontInv, CallbackIsKept
<1> QED  BY <1>8, <1>9, <1>10 DEF FrontInv

\* The invariant holds throughout, whenever the part at hand is the front.
LEMMA FrontInvariant == Spec => [](part = "front" => FrontInv)
<1>1. Init => (part = "front" => FrontInv)
    BY FrontInitInv DEF Init
<1>2. (part = "front" => FrontInv) /\ [Next]_vars => (part = "front" => FrontInv)'
    <2>1. ASSUME part = "front", FrontInv, [Next]_vars PROVE FrontInv'
        <3>1. [Observed!Next]_(Observed!vars)
            BY <2>1, FrontMoves
        <3>2. CASE UNCHANGED Observed!vars
            BY <2>1, <3>2 DEF Observed!vars, FrontInv, FrontShape, ResultIsLast, SleepersHaveWakers,
                   CallbackIsKept
        <3> QED  BY <2>1, <3>1, <3>2, CallsKeepFront, CompleteKeepsFront, NotifyKeepsFront,
                    WakeKeepsFront, CallbackKeepsFront, WaitKeepsFront, PollKeepsFront
                 DEF Observed!Next
    <2>2. ASSUME part # "front", [Next]_vars PROVE part' # "front"
        BY <2>2 DEF Next, vars
    <2> QED  BY <2>1, <2>2
<1> QED  BY <1>1, <1>2, PTL DEF Spec

\* complete(), wait(), Completion::poll() and the callback slot: for any number
\* of waiting threads, submissions and changes of the callback, nobody sleeps
\* through a completion, nobody is given the result of an earlier submission than
\* the one it came for, and the callback asked for last is the one that runs.
THEOREM ObserversAlwaysTold == Spec => []ObserversAreTold
<1>1. (part = "front" => FrontInv) => ObserversAreTold
    BY DEF FrontInv, ResultIsLast, SleepersHaveWakers, CallbackIsKept, ObserversAreTold,
           Observed!ObserversAreTold
<1> QED  BY <1>1, FrontInvariant, PTL

-----------------------------------------------------------------------------
(* The WinUSB handles of a device *)

WinHandle ==
    {<<>>} \cup {<<f>> : f \in Nat} \cup {<<f, i, t>> : f \in Nat, i \in WinIfaces, t \in Callers}

WinAlt == WinSettings \cup {0}

WinClaim == [fn : Nat, handle : WinHandle, owned : BOOLEAN, alt : WinAlt, here : BOOLEAN]

WinCall ==
    [op : {"idle", "claim", "active", "pipe", "control"},
     step : {"none", "function", "functions", "associate", "insert", "use", "file"},
     iface : WinIfaces \cup {0, Win!FirstIn(WinBound)},
     addr : {0} \cup {e.addr : e \in WinEndpoints},
     got : WinClaim, crossed : BOOLEAN]

WinFlags == winusb \in BOOLEAN /\ wClosing \in BOOLEAN

WinShape ==
    /\ functions \subseteq WinBound
    /\ claimed \in [WinIfaces -> WinClaim]
    /\ setting \in [WinIfaces -> WinAlt]
    /\ wCall \in [Callers -> WinCall]

\* A claim has the handle of its function, or one of its own that is to be freed.
HandleFits(c, i, x) == c.handle = IF c.owned THEN <<c.fn, i, x>> ELSE <<c.fn>>

ClaimsFit ==
    \A i \in WinIfaces :
        /\ claimed[i].here => \E x \in Callers : HandleFits(claimed[i], i, x)
        /\ claimed[i].owned => claimed[i].here

\* What holds of a call c of thread t whatever the others do: the Handle is not
\* dropped under it, its function stays open, and the handle it associated is
\* not that of a claim.
CallFits(c, t) ==
    /\ c.op = "idle" => c = Win!Idle
    /\ c.op # "idle" => ~wClosing
    /\ c.op = "claim" =>
          /\ c.step \in {"function", "associate", "insert"} /\ c.iface \in WinIfaces
          /\ claimed[c.iface].owned => claimed[c.iface].handle # <<claimed[c.iface].fn, c.iface, t>>
    /\ c.step \in {"associate", "insert"} =>
          c.op = "claim" /\ (c.got.fn \in functions \/ (winusb /\ c.got.fn = 0))
    /\ c.step = "insert" => c.got.here /\ HandleFits(c.got, c.iface, t)
    /\ c.step = "use" => c.op \in {"pipe", "control"}
    /\ c.step \in {"functions", "file"} => c.op = "control"

\* The handle and the function that control_handle() finds.
ControlGot(c) ==
    IF winusb THEN c.fn = 0 /\ c.handle = <<0>>
    ELSE IF Win!Claims # {} THEN c = claimed[Win!FirstIn(Win!Claims)]
    ELSE functions # {} /\ c.fn = Win!FirstIn(functions) /\ c.handle = <<c.fn>>

\* What a call has looked up is true as long as no claim or function changed.
CallSure(c) ==
    ~c.crossed =>
        /\ c.step = "insert" => c.got.alt = setting[c.iface] \/ c.iface \in unsure
        /\ c.op = "pipe" =>
              /\ c.iface \in WinIfaces /\ claimed[c.iface].here /\ c.got = claimed[c.iface]
              /\ [addr |-> c.addr, iface |-> c.iface, alt |-> claimed[c.iface].alt] \in WinEndpoints
        /\ c.op = "control" /\ c.step \in {"function", "functions"} =>
              /\ ~winusb /\ Win!Claims = {}
              /\ c.step = "function" => functions = {}
        /\ c.op = "control" /\ c.step \in {"use", "file"} => ControlGot(c.got)

\* An associated handle is live as long as a claim or a claim under way has it.
LiveExact ==
    \A h : h \in live <=>
        \/ \E i \in WinIfaces : claimed[i].owned /\ claimed[i].handle = h
        \/ \E t \in Callers : wCall[t].step = "insert" /\ wCall[t].got.owned /\ wCall[t].got.handle = h

AltsExact == \A i \in WinIfaces : claimed[i].here /\ i \notin unsure => claimed[i].alt = setting[i]

WinInv ==
    /\ WinFlags /\ WinShape /\ ClaimsFit
    /\ \A t \in Callers : CallFits(wCall[t], t) /\ CallSure(wCall[t])
    /\ LiveExact /\ AltsExact /\ wSent.right

\* The least of a set of numbers, as BTreeMap iteration finds it.
LEMMA FirstInIs ==
    ASSUME NEW s \in SUBSET Nat, s # {}
    PROVE  Win!FirstIn(s) \in s
<1>1. PICK x \in s : \A y \in s : ~(<<y, x>> \in OpToRel(<, Nat))
    BY NatLessThanWellFounded, WFMin
<1>2. \A y \in s : x <= y
    <2> TAKE y \in s
    <2>1. <<y, x>> \in Nat \X Nat /\ <<y, x>>[1] = y /\ <<y, x>>[2] = x
        OBVIOUS
    <2>2. ~(y < x)
        BY <1>1, <2>1, Zenon DEF OpToRel
    <2> QED  BY <2>2
<1> QED  BY <1>2 DEF Win!FirstIn

LEMMA FirstOfOne ==
    ASSUME NEW f \in Nat
    PROVE  Win!FirstIn({f}) = f
BY FirstInIs

\* Associated handles tell function, interface and thread, and are no primary ones.
LEMMA HandlesDiffer ==
    ASSUME NEW f, NEW i, NEW t, NEW d, NEW j, NEW u
    PROVE  /\ <<f, i, t>> = <<d, j, u>> => i = j /\ t = u
           /\ Len(<<f, i, t>>) = 3 /\ Len(<<f>>) = 1
           /\ <<f, i, t>>[1] = f /\ <<f>>[1] = f
OBVIOUS

\* The parts that are not at hand do not move.
LEMMA WinMoves ==
    ASSUME part = "winusb", [Next]_vars
    PROVE  part' = "winusb" /\ [Win!Next]_(Win!vars)
<1> USE DEF vars, otherVars, winVars, Win!vars
<1>1. CASE UNCHANGED vars
    BY <1>1
<1>2. CASE Next
    BY <1>2 DEF Next, DataNext, NetworkNext, StorageNext, OtherNext
<1> QED  BY <1>1, <1>2

\* Records the proofs start from.
LEMMA WinConstants ==
    /\ Win!NoClaim \in WinClaim /\ ~Win!NoClaim.owned /\ ~Win!NoClaim.here
    /\ Win!Idle \in WinCall /\ Win!Idle.op = "idle" /\ Win!Idle.step = "none" /\ ~Win!Idle.crossed
    /\ Win!Idle.got = Win!NoClaim
<1>1. <<>> \in WinHandle
    BY DEF WinHandle
<1>2. 0 \in WinAlt
    BY DEF WinAlt
<1>3. Win!NoClaim \in WinClaim /\ ~Win!NoClaim.owned /\ ~Win!NoClaim.here
    BY <1>1, <1>2 DEF Win!NoClaim, WinClaim
<1> QED  BY <1>3 DEF Win!Idle, WinCall

\* An opened device with no claims satisfies the invariant.
LEMMA WinInitInv == Win!Init => WinInv
<1> SUFFICES ASSUME Win!Init PROVE WinInv
    OBVIOUS
<1> USE WinConstants DEF Win!Init
<1>1. WinFlags
    BY Zenon DEF WinFlags
<1>2. WinShape
    BY DEF WinShape, WinAlt
<1>3. ClaimsFit /\ AltsExact /\ LiveExact
    BY DEF ClaimsFit, AltsExact, LiveExact
<1>4. \A t \in Callers : CallFits(wCall[t], t) /\ CallSure(wCall[t])
    BY DEF CallFits, CallSure
<1>5. wSent.right
    BY DEF Win!Nothing
<1> QED  BY <1>1, <1>2, <1>3, <1>4, <1>5 DEF WinInv

\* What one call looks up or opens for itself leaves the others as they are.
LEMMA LocalKeeps ==
    ASSUME WinInv, NEW t \in Callers, NEW c \in WinCall, wCall' = [wCall EXCEPT ![t] = c],
           UNCHANGED <<winusb, functions, claimed, setting, wClosing>>, unsure \subseteq unsure',
           CallFits(c, t), CallSure(c) \/ CallSure(c)'
    PROVE  /\ WinFlags' /\ WinShape' /\ ClaimsFit' /\ AltsExact'
           /\ \A o \in Callers : (CallFits(wCall[o], o) /\ CallSure(wCall[o]))'
           /\ (UNCHANGED live /\ wCall[t].step # "insert" /\ c.step # "insert") => LiveExact'
<1>1. wCall \in [Callers -> WinCall]
    BY DEF WinInv, WinShape
<1>2. wCall'[t] = c /\ \A o \in Callers \ {t} : wCall'[o] = wCall[o]
    BY <1>1
<1>3. WinFlags' /\ WinShape' /\ ClaimsFit' /\ AltsExact'
    <2>1. WinFlags'
        BY DEF WinInv, WinFlags
    <2>2. WinShape'
        BY <1>1 DEF WinInv, WinShape
    <2>3. ClaimsFit'
        BY DEF WinInv, ClaimsFit, HandleFits
    <2>4. AltsExact'
        BY DEF WinInv, AltsExact
    <2> QED  BY <2>1, <2>2, <2>3, <2>4
<1>4. ASSUME NEW d, NEW o, CallFits(d, o) PROVE CallFits(d, o)'
    BY <1>4 DEF CallFits, HandleFits
<1>5. ASSUME NEW d, CallSure(d) PROVE CallSure(d)'
    <2>1. UNCHANGED Win!Claims
        BY DEF Win!Claims
    <2> QED  BY <1>5, <2>1 DEF CallSure, ControlGot
<1>6. ASSUME NEW o \in Callers PROVE (CallFits(wCall[o], o) /\ CallSure(wCall[o]))'
    <2>1. PICK d : d = wCall'[o]
        OBVIOUS
    <2>2. CallFits(d, o) /\ (CallSure(d) \/ CallSure(d)')
        BY <1>2, <2>1 DEF WinInv
    <2>3. CallFits(d, o)' /\ CallSure(d)'
        BY <1>4, <1>5, <2>2
    <2> QED  BY <2>1, <2>3 DEF CallFits, CallSure
<1>7. ASSUME UNCHANGED live, wCall[t].step # "insert", c.step # "insert" PROVE LiveExact'
    <2>1. \A o \in Callers : \/ wCall'[o] = wCall[o]
                             \/ wCall[o].step # "insert" /\ wCall'[o].step # "insert"
        BY <1>2, <1>7
    <2> QED  BY <1>7, <2>1 DEF WinInv, LiveExact
<1> QED  BY <1>3, <1>6, <1>7

\* A step of t that changes claims or functions crosses the other calls, which
\* then rely on nothing they looked up before.
LEMMA CrossKeeps ==
    ASSUME WinInv, NEW t \in Callers, NEW c \in WinCall, Win!Cross(t, c),
           UNCHANGED <<winusb, wClosing>>, functions \subseteq functions',
           \A i \in WinIfaces : claimed'[i].owned =>
               \/ claimed'[i].handle = <<claimed'[i].fn, i, t>>
               \/ /\ claimed[i].owned
                  /\ claimed'[i].handle = claimed[i].handle /\ claimed'[i].fn = claimed[i].fn,
           CallFits(c, t)', CallSure(c)'
    PROVE  /\ wCall' \in [Callers -> WinCall] /\ wCall'[t] = c
           /\ \A o \in Callers \ {t} :
                 wCall'[o].step = wCall[o].step /\ wCall'[o].iface = wCall[o].iface /\ wCall'[o].got = wCall[o].got
           /\ \A o \in Callers : (CallFits(wCall[o], o) /\ CallSure(wCall[o]))'
<1>1. wCall \in [Callers -> WinCall]
    BY DEF WinInv, WinShape
<1>2. wCall' = [o \in Callers |-> IF o = t THEN c ELSE IF wCall[o].op = "idle" THEN Win!Idle
                                  ELSE [wCall[o] EXCEPT !.crossed = TRUE]]
    BY DEF Win!Cross
<1>3. ASSUME NEW o \in Callers, o # t
      PROVE  /\ wCall'[o] \in WinCall /\ wCall'[o].step = wCall[o].step
             /\ wCall'[o].iface = wCall[o].iface /\ wCall'[o].got = wCall[o].got
             /\ (CallFits(wCall[o], o) /\ CallSure(wCall[o]))'
    <2>1. wCall[o] \in WinCall /\ CallFits(wCall[o], o)
        BY <1>1 DEF WinInv
    <2>2. CASE wCall[o].op = "idle"
        <3>1. wCall[o] = Win!Idle /\ wCall'[o] = Win!Idle
            BY <1>2, <1>3, <2>1, <2>2 DEF CallFits
        <3>2. CallFits(Win!Idle, o)' /\ CallSure(Win!Idle)'
            BY WinConstants DEF CallFits, CallSure
        <3> QED  BY <3>1, <3>2, WinConstants DEF CallFits, CallSure
    <2>3. CASE wCall[o].op # "idle"
        <3>1. PICK d : d = [wCall[o] EXCEPT !.crossed = TRUE]
            OBVIOUS
        <3>2. /\ d \in WinCall /\ d.op = wCall[o].op /\ d.step = wCall[o].step /\ d.iface = wCall[o].iface
              /\ d.got = wCall[o].got /\ d.crossed
            BY <2>1, <3>1 DEF WinCall
        <3>3. wCall'[o] = d
            BY <1>2, <1>3, <2>3, <3>1
        <3>4. CallSure(d)'
            BY <3>2 DEF CallSure
        <3>5. CallFits(d, o)'
            <4>1. ASSUME d.op = "claim", claimed'[d.iface].owned
                  PROVE  claimed'[d.iface].handle # <<claimed'[d.iface].fn, d.iface, o>>
                <5>1. d.iface \in WinIfaces
                    BY <2>1, <3>2, <4>1 DEF CallFits
                <5>2. CASE claimed'[d.iface].handle = <<claimed'[d.iface].fn, d.iface, t>>
                    BY <1>3, <5>2, HandlesDiffer
                <5>3. CASE /\ claimed[d.iface].owned
                           /\ claimed'[d.iface].handle = claimed[d.iface].handle
                           /\ claimed'[d.iface].fn = claimed[d.iface].fn
                    BY <2>1, <3>2, <4>1, <5>3 DEF CallFits
                <5> QED  BY <4>1, <5>1, <5>2, <5>3
            <4> QED  BY <2>1, <2>3, <3>2, <4>1 DEF CallFits, HandleFits
        <3> QED  BY <3>2, <3>3, <3>4, <3>5 DEF CallFits, CallSure
    <2> QED  BY <2>2, <2>3
<1>4. wCall'[t] = c
    BY <1>2
<1>5. \A o \in Callers : wCall'[o] \in WinCall
    BY <1>3, <1>4
<1>6. wCall' \in [Callers -> WinCall]
    BY <1>2, <1>5
<1>7. (CallFits(wCall[t], t) /\ CallSure(wCall[t]))'
    BY <1>4 DEF CallFits, CallSure
<1> QED  BY <1>3, <1>4, <1>6, <1>7

\* claim_interface() and kernel_driver_active() begin.
LEMMA BeginKeepsWin ==
    ASSUME WinInv, NEW t \in Callers, NEW i \in WinIfaces,
           Win!ClaimInterface(t, i) \/ Win!KernelDriverActive(t, i)
    PROVE  WinInv'
<1>1. UNCHANGED <<winusb, functions, claimed, setting, live, wSent, unsure, wClosing>>
    BY DEF Win!ClaimInterface, Win!KernelDriverActive
<1>2. PICK op \in {"claim", "active"} : Win!Call(t, op, "function", i) /\ (op = "claim" => ~claimed[i].here)
    BY DEF Win!ClaimInterface, Win!KernelDriverActive
<1>3. PICK c : c = [Win!Idle EXCEPT !.op = op, !.step = "function", !.iface = i]
    OBVIOUS
<1>4. /\ c \in WinCall /\ c.op = op /\ c.step = "function" /\ c.iface = i /\ ~c.crossed
    BY <1>3, WinConstants DEF WinCall
<1>5. wCall' = [wCall EXCEPT ![t] = c] /\ wCall[t].op = "idle" /\ ~wClosing
    BY <1>2, <1>3 DEF Win!Call, Win!Free
<1>6. wCall[t].step # "insert"
    BY <1>5, WinConstants DEF WinInv, CallFits
<1>7. CallFits(c, t)
    <2>1. claimed[i].owned => claimed[i].here
        BY DEF WinInv, ClaimsFit
    <2> QED  BY <1>2, <1>4, <1>5, <2>1 DEF CallFits
<1>8. CallSure(c)
    BY <1>2, <1>4 DEF CallSure
<1> QED  BY <1>1, <1>4, <1>5, <1>6, <1>7, <1>8, LocalKeeps DEF WinInv

\* pipe_owner().
LEMMA PipeKeepsWin ==
    ASSUME WinInv, NEW t \in Callers, NEW e \in WinEndpoints, Win!PipeOwner(t, e.addr)
    PROVE  WinInv'
<1>1. UNCHANGED <<winusb, functions, claimed, setting, live, wSent, unsure, wClosing>>
    BY DEF Win!PipeOwner
<1>2. PICK s : s = {i \in Win!Claims : [addr |-> e.addr, iface |-> i, alt |-> claimed[i].alt] \in WinEndpoints}
    OBVIOUS
<1>3. PICK i : i = Win!FirstIn(s)
    OBVIOUS
<1>4. s # {} /\ s \in SUBSET Nat /\ s \subseteq Win!Claims
    BY <1>2, WinAssumption DEF Win!PipeOwner, Win!Claims
<1>5. /\ i \in WinIfaces /\ claimed[i].here
      /\ [addr |-> e.addr, iface |-> i, alt |-> claimed[i].alt] \in WinEndpoints
    BY <1>2, <1>3, <1>4, FirstInIs DEF Win!Claims
<1>6. PICK c : c = [Win!Idle EXCEPT !.op = "pipe", !.step = "use", !.iface = i, !.addr = e.addr,
                                    !.got = claimed[i]]
    OBVIOUS
<1>7. /\ c \in WinCall /\ c.op = "pipe" /\ c.step = "use" /\ c.iface = i /\ c.addr = e.addr
      /\ c.got = claimed[i] /\ ~c.crossed
    <2>1. claimed[i] \in WinClaim
        BY <1>5 DEF WinInv, WinShape
    <2> QED  BY <1>5, <1>6, <2>1, WinConstants DEF WinCall
<1>8. wCall' = [wCall EXCEPT ![t] = c] /\ wCall[t].op = "idle" /\ ~wClosing
    BY <1>2, <1>3, <1>6 DEF Win!PipeOwner, Win!Free
<1>9. wCall[t].step # "insert"
    BY <1>8, WinConstants DEF WinInv, CallFits
<1>10. CallFits(c, t) /\ CallSure(c)
    BY <1>5, <1>7, <1>8 DEF CallFits, CallSure
<1> QED  BY <1>1, <1>7, <1>8, <1>9, <1>10, LocalKeeps DEF WinInv

\* control_handle().
LEMMA ControlKeepsWin ==
    ASSUME WinInv, NEW t \in Callers, Win!ControlHandle(t)
    PROVE  WinInv'
<1>1. UNCHANGED <<winusb, functions, claimed, setting, live, wSent, unsure, wClosing>>
    BY DEF Win!ControlHandle
<1>2. wCall[t].op = "idle" /\ ~wClosing
    BY DEF Win!ControlHandle, Win!Call, Win!Free
<1>3. PICK c \in WinCall : wCall' = [wCall EXCEPT ![t] = c] /\ CallFits(c, t) /\ CallSure(c) /\ c.step # "insert"
    <2>1. CASE winusb \/ Win!Claims # {}
        <3>1. PICK d : d = IF winusb THEN [Win!NoClaim EXCEPT !.handle = Win!Primary(0)]
                           ELSE claimed[Win!FirstIn(Win!Claims)]
            OBVIOUS
        <3>2. d \in WinClaim /\ ControlGot(d)
            <4>1. CASE winusb
                <5>1. <<0>> \in WinHandle
                    BY DEF WinHandle
                <5> QED  BY <3>1, <4>1, <5>1 DEF Win!NoClaim, Win!Primary, WinClaim, ControlGot, WinAlt
            <4>2. CASE ~winusb
                <5>1. Win!Claims \in SUBSET Nat /\ Win!Claims \subseteq WinIfaces /\ Win!Claims # {}
                    BY <2>1, <4>2, WinAssumption DEF Win!Claims
                <5>2. Win!FirstIn(Win!Claims) \in WinIfaces
                    BY <5>1, FirstInIs
                <5> QED  BY <3>1, <4>2, <5>1, <5>2 DEF WinInv, WinShape, ControlGot
            <4> QED  BY <4>1, <4>2
        <3>3. PICK c : c = [Win!Idle EXCEPT !.op = "control", !.step = "use", !.got = d]
            OBVIOUS
        <3>4. c \in WinCall /\ c.op = "control" /\ c.step = "use" /\ c.got = d
            BY <3>2, <3>3, WinConstants DEF WinCall
        <3>5. wCall' = [wCall EXCEPT ![t] = c]
            BY <2>1, <3>1, <3>3 DEF Win!ControlHandle
        <3>6. CallFits(c, t) /\ CallSure(c)
            BY <1>2, <3>2, <3>4 DEF CallFits, CallSure
        <3> QED  BY <3>4, <3>5, <3>6
    <2>2. CASE ~winusb /\ Win!Claims = {}
        <3>1. PICK c : c = [Win!Idle EXCEPT !.op = "control", !.step = "functions", !.iface = Win!FirstIn(WinBound)]
            OBVIOUS
        <3>2. c \in WinCall /\ c.op = "control" /\ c.step = "functions"
            BY <3>1, WinConstants DEF WinCall
        <3>3. wCall' = [wCall EXCEPT ![t] = c]
            BY <2>2, <3>1 DEF Win!ControlHandle, Win!Call
        <3>4. CallFits(c, t) /\ CallSure(c)
            BY <1>2, <2>2, <3>2 DEF CallFits, CallSure
        <3> QED  BY <3>2, <3>3, <3>4
    <2> QED  BY <2>1, <2>2
<1>4. wCall[t].step # "insert"
    BY <1>2, WinConstants DEF WinInv, CallFits
<1> QED  BY <1>1, <1>3, <1>4, LocalKeeps DEF WinInv

\* A call ends: nothing is left of it.
LEMMA IdleFits ==
    ASSUME NEW t
    PROVE  CallFits(Win!Idle, t) /\ CallSure(Win!Idle)
BY WinConstants DEF CallFits, CallSure

\* control_handle() goes on to the functions that are open.
LEMMA FunctionsKeepWin ==
    ASSUME WinInv, NEW t \in Callers, Win!ControlFunction(t)
    PROVE  WinInv'
<1>1. UNCHANGED <<winusb, functions, claimed, setting, live, wSent, unsure, wClosing>>
    BY DEF Win!ControlFunction
<1>2. PICK c : c = wCall[t]
    OBVIOUS
<1>3. c \in WinCall /\ CallFits(c, t) /\ CallSure(c) /\ c.step = "functions" /\ c.op = "control"
    BY <1>2 DEF WinInv, WinShape, CallFits, Win!ControlFunction
<1>4. PICK d \in WinCall : wCall' = [wCall EXCEPT ![t] = d] /\ CallFits(d, t) /\ CallSure(d) /\ d.step # "insert"
    <2>1. CASE functions = {}
        <3>1. PICK d : d = [c EXCEPT !.step = "function"]
            OBVIOUS
        <3>2. /\ d \in WinCall /\ d.op = c.op /\ d.step = "function" /\ d.got = c.got /\ d.crossed = c.crossed
            BY <1>3, <3>1 DEF WinCall
        <3>3. wCall' = [wCall EXCEPT ![t] = d]
            BY <1>2, <2>1, <3>1 DEF Win!ControlFunction, Win!Goto
        <3>4. CallFits(d, t) /\ CallSure(d)
            BY <1>3, <2>1, <3>2 DEF CallFits, CallSure
        <3> QED  BY <3>2, <3>3, <3>4
    <2>2. CASE functions # {}
        <3>1. PICK f : f = Win!FirstIn(functions)
            OBVIOUS
        <3>2. functions \in SUBSET Nat
            BY WinAssumption DEF WinInv, WinShape
        <3>3. f \in Nat
            BY <2>2, <3>1, <3>2, FirstInIs
        <3>4. PICK b : b = [c.got EXCEPT !.fn = f, !.handle = Win!Primary(f)]
            OBVIOUS
        <3>5. b \in WinClaim /\ b.fn = f /\ b.handle = <<f>>
            <4>1. <<f>> \in WinHandle
                BY <3>3 DEF WinHandle
            <4>2. c.got \in WinClaim
                BY <1>3 DEF WinCall
            <4> QED  BY <3>3, <3>4, <4>1, <4>2 DEF WinClaim, Win!Primary
        <3>6. PICK d : d = [c EXCEPT !.step = "use", !.got = b]
            OBVIOUS
        <3>7. d \in WinCall /\ d.op = c.op /\ d.step = "use" /\ d.got = b /\ d.crossed = c.crossed
            BY <1>3, <3>5, <3>6 DEF WinCall
        <3>8. wCall' = [wCall EXCEPT ![t] = d]
            <4>1. d = [[[c EXCEPT !.step = "use"] EXCEPT !.got.fn = f] EXCEPT !.got.handle = Win!Primary(f)]
                BY <1>3, <3>4, <3>6 DEF WinCall, WinClaim
            <4>2. wCall' = [wCall EXCEPT ![t].step = "use", ![t].got.fn = f, ![t].got.handle = Win!Primary(f)]
                BY <2>2, <3>1 DEF Win!ControlFunction
            <4>3. wCall \in [Callers -> WinCall]
                BY DEF WinInv, WinShape
            <4> QED  BY <1>2, <4>1, <4>2, <4>3
        <3>9. CallFits(d, t) /\ CallSure(d)
            BY <1>3, <2>2, <3>1, <3>5, <3>7 DEF CallFits, CallSure, ControlGot
        <3> QED  BY <3>7, <3>8, <3>9
    <2> QED  BY <2>1, <2>2
<1> QED  BY <1>1, <1>2, <1>3, <1>4, LocalKeeps DEF WinInv

\* A claim's handle can be used: it is live, or its function is open.
LEMMA ClaimIsLive ==
    ASSUME WinInv, NEW i \in WinIfaces, claimed[i].here
    PROVE  Win!IsLive(claimed[i].handle)
<1>1. PICK x \in Callers : HandleFits(claimed[i], i, x)
    BY DEF WinInv, ClaimsFit
<1>2. CASE claimed[i].owned
    <2>1. claimed[i].handle \in live
        BY <1>2 DEF WinInv, LiveExact
    <2>2. Len(claimed[i].handle) = 3
        BY <1>1, <1>2, HandlesDiffer DEF HandleFits
    <2> QED  BY <2>1, <2>2 DEF Win!IsLive
<1>3. CASE ~claimed[i].owned
    <2>1. Len(claimed[i].handle) = 1 /\ claimed[i].handle[1] = claimed[i].fn
        BY <1>1, <1>3, HandlesDiffer DEF HandleFits
    <2> QED  BY <2>1 DEF Win!IsLive, Win!IsOpen, Win!Claims
<1> QED  BY <1>2, <1>3

\* What control_handle() found can be used.
LEMMA ControlIsLive ==
    ASSUME WinInv, ~wClosing, NEW c, ControlGot(c)
    PROVE  Win!IsLive(c.handle)
<1>1. CASE winusb
    BY <1>1, HandlesDiffer DEF ControlGot, Win!IsLive, Win!IsOpen
<1>2. CASE ~winusb /\ Win!Claims # {}
    <2>1. Win!Claims \in SUBSET Nat
        BY WinAssumption DEF Win!Claims
    <2>2. Win!FirstIn(Win!Claims) \in Win!Claims
        BY <1>2, <2>1, FirstInIs
    <2> QED  BY <1>2, <2>2, ClaimIsLive DEF ControlGot, Win!Claims
<1>3. CASE ~winusb /\ Win!Claims = {}
    <2>1. functions \in SUBSET Nat
        BY WinAssumption DEF WinInv, WinShape
    <2>2. c.handle = <<c.fn>> /\ c.fn \in functions
        BY <1>3, <2>1, FirstInIs DEF ControlGot
    <2> QED  BY <2>2, HandlesDiffer DEF Win!IsLive, Win!IsOpen
<1> QED  BY <1>1, <1>2, <1>3

\* The request itself: unless it was crossed its handle is live and its pipe exists.
LEMMA UseKeepsWin ==
    ASSUME WinInv, NEW t \in Callers, Win!UseHandle(t)
    PROVE  WinInv'
<1>1. UNCHANGED <<winusb, functions, claimed, setting, live, unsure, wClosing>>
    BY DEF Win!UseHandle
<1>2. PICK c : c = wCall[t]
    OBVIOUS
<1>3. /\ c \in WinCall /\ CallFits(c, t) /\ CallSure(c) /\ c.step = "use" /\ c.op \in {"pipe", "control"}
      /\ ~wClosing
    BY <1>2 DEF WinInv, WinShape, CallFits, Win!UseHandle
<1>4. wSent'.right
    <2>1. ASSUME ~c.crossed
          PROVE  Win!IsLive(c.got.handle) /\ (c.op = "pipe" /\ c.iface \notin unsure => Win!PipeExists(c))
        <3>1. CASE c.op = "pipe"
            <4>1. /\ c.iface \in WinIfaces /\ claimed[c.iface].here /\ c.got = claimed[c.iface]
                  /\ [addr |-> c.addr, iface |-> c.iface, alt |-> claimed[c.iface].alt] \in WinEndpoints
                BY <1>3, <2>1, <3>1 DEF CallSure
            <4>2. Win!IsLive(c.got.handle)
                BY <4>1, ClaimIsLive
            <4>3. c.iface \notin unsure => claimed[c.iface].alt = setting[c.iface]
                BY <4>1 DEF WinInv, AltsExact
            <4> QED  BY <4>1, <4>2, <4>3 DEF Win!PipeExists
        <3>2. CASE c.op = "control"
            BY <1>3, <2>1, <3>2, ControlIsLive DEF CallSure
        <3> QED  BY <1>3, <3>1, <3>2
    <2>2. wSent'.right = (c.crossed \/ (Win!IsLive(c.got.handle)
                                        /\ (c.op = "pipe" /\ c.iface \notin unsure => Win!PipeExists(c))))
        BY <1>2 DEF Win!UseHandle
    <2> QED  BY <2>1, <2>2
<1>5. PICK d \in WinCall : wCall' = [wCall EXCEPT ![t] = d] /\ CallFits(d, t) /\ CallSure(d) /\ d.step # "insert"
    <2>1. CASE c.op = "pipe"
        BY <1>2, <2>1, WinConstants, IdleFits DEF Win!UseHandle, Win!Done
    <2>2. CASE c.op = "control"
        <3>1. PICK d : d = [c EXCEPT !.step = "file"]
            OBVIOUS
        <3>2. /\ d \in WinCall /\ d.op = c.op /\ d.step = "file" /\ d.got = c.got /\ d.crossed = c.crossed
            BY <1>3, <3>1 DEF WinCall
        <3>3. wCall' = [wCall EXCEPT ![t] = d]
            BY <1>2, <2>2, <3>1 DEF Win!UseHandle, Win!Goto
        <3>4. CallFits(d, t) /\ CallSure(d)
            BY <1>3, <2>2, <3>2 DEF CallFits, CallSure
        <3> QED  BY <3>2, <3>3, <3>4
    <2> QED  BY <1>3, <2>1, <2>2
<1> QED  BY <1>1, <1>2, <1>3, <1>4, <1>5, LocalKeeps DEF WinInv

\* control_file() finds the file of the function the request went to.
LEMMA FileKeepsWin ==
    ASSUME WinInv, NEW t \in Callers, Win!ControlFile(t)
    PROVE  WinInv'
<1>1. UNCHANGED <<winusb, functions, claimed, setting, live, unsure, wClosing>>
    BY DEF Win!ControlFile
<1>2. PICK c : c = wCall[t]
    OBVIOUS
<1>3. c \in WinCall /\ CallFits(c, t) /\ CallSure(c) /\ c.step = "file" /\ c.op = "control"
    BY <1>2 DEF WinInv, WinShape, CallFits, Win!ControlFile
<1>4. wSent'.right
    <2>1. PICK f : f = IF winusb THEN 0 ELSE IF Win!Claims # {} THEN claimed[Win!FirstIn(Win!Claims)].fn
                       ELSE Win!FirstIn(functions)
        OBVIOUS
    <2>2. wSent'.right = (c.crossed \/ f = c.got.fn)
        BY <1>2, <2>1 DEF Win!ControlFile
    <2>3. ~c.crossed => ControlGot(c.got)
        BY <1>3 DEF CallSure
    <2>4. ControlGot(c.got) => f = c.got.fn
        BY <2>1 DEF ControlGot
    <2> QED  BY <2>2, <2>3, <2>4
<1>5. wCall' = [wCall EXCEPT ![t] = Win!Idle]
    BY DEF Win!ControlFile, Win!Done
<1> QED  BY <1>1, <1>2, <1>3, <1>4, <1>5, LocalKeeps, IdleFits, WinConstants DEF WinInv

\* A handle is associated; it is live from now on.
LEMMA AssociateKeepsWin ==
    ASSUME WinInv, NEW t \in Callers, NEW ok \in BOOLEAN, NEW known \in BOOLEAN, Win!Associate(t, ok, known)
    PROVE  WinInv'
<1>1. UNCHANGED <<winusb, functions, claimed, setting, wSent, wClosing>>
    BY DEF Win!Associate
<1>2. PICK c : c = wCall[t]
    OBVIOUS
<1>3. /\ c \in WinCall /\ CallFits(c, t) /\ c.step = "associate" /\ c.op = "claim" /\ c.iface \in WinIfaces
      /\ wCall \in [Callers -> WinCall]
    BY <1>2 DEF WinInv, WinShape, CallFits, Win!Associate
<1>4. CASE ~ok
    <2>1. wCall' = [wCall EXCEPT ![t] = Win!Idle] /\ UNCHANGED <<live, unsure>>
        BY <1>4 DEF Win!Associate, Win!Done
    <2> QED  BY <1>1, <1>2, <1>3, <2>1, LocalKeeps, IdleFits, WinConstants DEF WinInv
<1>5. CASE ok
    <2>1. PICK alt : alt = IF known THEN setting[c.iface] ELSE 0
        OBVIOUS
    <2>2. PICK b : b = IF c.iface = c.got.fn
                       THEN [Win!NoClaim EXCEPT !.fn = c.got.fn, !.handle = Win!Primary(c.got.fn),
                                                !.alt = alt, !.here = TRUE]
                       ELSE [fn |-> c.got.fn, handle |-> Win!Associated(c.got.fn, c.iface, t),
                             owned |-> TRUE, alt |-> alt, here |-> TRUE]
        OBVIOUS
    <2>3. b \in WinClaim /\ b.fn = c.got.fn /\ b.here /\ b.alt = alt /\ HandleFits(b, c.iface, t)
        <3>1. c.got.fn \in Nat
            BY <1>3 DEF WinCall, WinClaim
        <3>2. <<c.got.fn>> \in WinHandle /\ <<c.got.fn, c.iface, t>> \in WinHandle
            BY <1>3, <3>1 DEF WinHandle
        <3>3. alt \in WinAlt
            BY <1>3, <2>1 DEF WinInv, WinShape, WinAlt
        <3>4. CASE c.iface = c.got.fn
            <4>1. b = [fn |-> c.got.fn, handle |-> <<c.got.fn>>, owned |-> FALSE, alt |-> alt, here |-> TRUE]
                BY <2>2, <3>4 DEF Win!NoClaim, Win!Primary
            <4> QED  BY <3>1, <3>2, <3>3, <4>1 DEF WinClaim, HandleFits
        <3>5. CASE c.iface # c.got.fn
            <4>1. b = [fn |-> c.got.fn, handle |-> <<c.got.fn, c.iface, t>>, owned |-> TRUE,
                       alt |-> alt, here |-> TRUE]
                BY <2>2, <3>5 DEF Win!Associated
            <4> QED  BY <3>1, <3>2, <3>3, <4>1 DEF WinClaim, HandleFits
        <3> QED  BY <3>4, <3>5
    <2>4. PICK d : d = [c EXCEPT !.step = "insert", !.got = b]
        OBVIOUS
    <2>5. /\ d \in WinCall /\ d.op = "claim" /\ d.step = "insert" /\ d.iface = c.iface /\ d.got = b
        BY <1>3, <2>3, <2>4 DEF WinCall
    <2>6. /\ live' = live \cup Win!Freed(b)
          /\ wCall' = [wCall EXCEPT ![t].step = "insert", ![t].got = b]
          /\ unsure' = IF known THEN unsure ELSE unsure \cup {c.iface}
        BY <1>2, <1>5, <2>1, <2>2 DEF Win!Associate
    <2>7. wCall' = [wCall EXCEPT ![t] = d]
        BY <1>2, <1>3, <2>4, <2>6
    <2>8. CallFits(d, t)
        BY <1>3, <2>3, <2>5 DEF CallFits
    <2>9. CallSure(d)'
        <3>1. d.got.alt = setting'[d.iface] \/ d.iface \in unsure'
            BY <1>1, <2>1, <2>3, <2>5, <2>6
        <3> QED  BY <2>5, <3>1 DEF CallSure
    <2>10. /\ WinFlags' /\ WinShape' /\ ClaimsFit' /\ AltsExact'
           /\ \A o \in Callers : (CallFits(wCall[o], o) /\ CallSure(wCall[o]))'
        BY <1>1, <2>5, <2>6, <2>7, <2>8, <2>9, LocalKeeps
    <2>11. LiveExact'
        <3>1. wCall'[t] = d /\ \A o \in Callers \ {t} : wCall'[o] = wCall[o]
            BY <1>3, <2>7
        <3>2. ASSUME NEW h
              PROVE  (\E o \in Callers : wCall'[o].step = "insert" /\ wCall'[o].got.owned /\ wCall'[o].got.handle = h)
                     <=> \/ \E o \in Callers : wCall[o].step = "insert" /\ wCall[o].got.owned /\ wCall[o].got.handle = h
                         \/ b.owned /\ b.handle = h
            BY <1>2, <1>3, <2>5, <3>1
        <3>3. ASSUME NEW h
              PROVE  h \in live' <=> h \in live \/ (b.owned /\ b.handle = h)
            BY <2>6 DEF Win!Freed
        <3>4. UNCHANGED claimed
            BY <1>1
        <3> QED  BY <3>2, <3>3, <3>4 DEF WinInv, LiveExact
    <2> QED  BY <1>1, <2>10, <2>11 DEF WinInv
<1> QED  BY <1>4, <1>5

\* What a call makes of the function it was given.
LEMMA WithFunctionIs ==
    ASSUME WinInv, NEW t \in Callers, NEW c, c = wCall[t], c.step = "function", NEW f \in Nat,
           NEW d, d = Win!WithFunction(t, f)
    PROVE  /\ d \in WinCall
           /\ \/ d = Win!Idle
              \/ /\ d.op = "claim" /\ c.op = "claim" /\ d.step = "associate" /\ d.iface = c.iface
                 /\ d.got.fn = f /\ d.crossed = c.crossed
              \/ /\ d.op = "control" /\ c.op = "control" /\ d.step = "use" /\ d.crossed = c.crossed
                 /\ d.got.fn = f /\ d.got.handle = <<f>>
<1>1. c \in WinCall /\ c.got \in WinClaim
    BY DEF WinInv, WinShape, WinCall
<1>2. CASE c.op = "claim"
    <2>1. PICK b : b = [c.got EXCEPT !.fn = f]
        OBVIOUS
    <2>2. b \in WinClaim /\ b.fn = f
        BY <1>1, <2>1 DEF WinClaim
    <2>3. d = [c EXCEPT !.step = "associate", !.got = b]
        BY <1>1, <1>2, <2>1 DEF Win!WithFunction, WinCall, WinClaim
    <2> QED  BY <1>1, <1>2, <2>2, <2>3 DEF WinCall
<1>3. CASE c.op = "control"
    <2>1. PICK b : b = [c.got EXCEPT !.fn = f, !.handle = <<f>>]
        OBVIOUS
    <2>2. b \in WinClaim /\ b.fn = f /\ b.handle = <<f>>
        <3>1. <<f>> \in WinHandle
            BY DEF WinHandle
        <3> QED  BY <1>1, <2>1, <3>1 DEF WinClaim
    <2>3. d = [c EXCEPT !.step = "use", !.got = b]
        BY <1>1, <1>3, <2>1 DEF Win!WithFunction, WinCall, WinClaim, Win!Primary
    <2> QED  BY <1>1, <1>3, <2>2, <2>3 DEF WinCall
<1>4. CASE c.op # "claim" /\ c.op # "control"
    BY <1>4, WinConstants DEF Win!WithFunction
<1> QED  BY <1>2, <1>3, <1>4

\* function_for(): opening a function crosses the other calls.
LEMMA FunctionKeepsWin ==
    ASSUME WinInv, NEW t \in Callers, NEW ok \in BOOLEAN, Win!FunctionFor(t, ok)
    PROVE  WinInv'
<1>1. UNCHANGED <<winusb, claimed, setting, live, wSent, unsure, wClosing>>
    BY DEF Win!FunctionFor
<1>2. PICK c : c = wCall[t]
    OBVIOUS
<1>3. /\ c \in WinCall /\ CallFits(c, t) /\ CallSure(c) /\ c.step = "function"
    BY <1>2 DEF WinInv, WinShape, Win!FunctionFor
<1>4. PICK f : f = IF winusb THEN 0 ELSE WinFirstOf[c.iface]
    OBVIOUS
<1>5. PICK d : d = Win!WithFunction(t, f)
    OBVIOUS
<1>6. \/ wCall' = [wCall EXCEPT ![t] = Win!Idle] /\ UNCHANGED functions
      \/ ~winusb /\ f \in WinBound \ functions /\ functions' = functions \cup {f} /\ Win!Cross(t, d)
      \/ (winusb \/ f \in functions) /\ wCall' = [wCall EXCEPT ![t] = d] /\ UNCHANGED functions
    BY <1>2, <1>4, <1>5 DEF Win!FunctionFor, Win!Done
<1>7. UNCHANGED Win!Claims
    BY <1>1 DEF Win!Claims
<1>8. CASE wCall' = [wCall EXCEPT ![t] = Win!Idle] /\ UNCHANGED functions
    BY <1>1, <1>2, <1>3, <1>8, LocalKeeps, IdleFits, WinConstants DEF WinInv
<1>9. CASE (winusb \/ f \in functions) /\ wCall' = [wCall EXCEPT ![t] = d] /\ UNCHANGED functions
    <2>1. f \in Nat /\ (winusb => f = 0)
        BY <1>4, <1>9, WinAssumption DEF WinInv, WinShape
    <2>2. CASE d = Win!Idle
        BY <1>1, <1>2, <1>3, <1>9, <2>2, LocalKeeps, IdleFits, WinConstants DEF WinInv
    <2>3. CASE /\ d.op = "claim" /\ c.op = "claim" /\ d.step = "associate" /\ d.iface = c.iface
               /\ d.got.fn = f /\ d.crossed = c.crossed
        <3>1. d \in WinCall
            BY <1>2, <1>3, <1>5, <2>1, WithFunctionIs
        <3>2. CallFits(d, t) /\ CallSure(d)
            BY <1>3, <1>9, <2>1, <2>3 DEF CallFits, CallSure
        <3> QED  BY <1>1, <1>2, <1>3, <1>9, <2>3, <3>1, <3>2, LocalKeeps DEF WinInv
    <2>4. CASE /\ d.op = "control" /\ c.op = "control" /\ d.step = "use" /\ d.crossed = c.crossed
               /\ d.got.fn = f /\ d.got.handle = <<f>>
        <3>1. d \in WinCall
            BY <1>2, <1>3, <1>5, <2>1, WithFunctionIs
        <3>2. d.crossed
            BY <1>3, <1>9, <2>4 DEF CallSure
        <3>3. CallFits(d, t) /\ CallSure(d)
            BY <1>3, <2>4, <3>2 DEF CallFits, CallSure
        <3> QED  BY <1>1, <1>2, <1>3, <1>9, <2>4, <3>1, <3>3, LocalKeeps DEF WinInv
    <2> QED  BY <1>2, <1>3, <1>5, <2>1, <2>2, <2>3, <2>4, WithFunctionIs
<1>10. CASE ~winusb /\ f \in WinBound \ functions /\ functions' = functions \cup {f} /\ Win!Cross(t, d)
    <2>1. f \in Nat
        BY <1>10, WinAssumption
    <2>2. d \in WinCall
        BY <1>2, <1>3, <1>5, <2>1, WithFunctionIs
    <2>3. CallFits(d, t)' /\ CallSure(d)' /\ d.step # "insert"
        <3>1. CASE d = Win!Idle
            <4>1. CallFits(Win!Idle, t)' /\ CallSure(Win!Idle)'
                BY WinConstants DEF CallFits, CallSure
            <4> QED  BY <3>1, <4>1, WinConstants DEF CallFits, CallSure
        <3>2. CASE /\ d.op = "claim" /\ c.op = "claim" /\ d.step = "associate" /\ d.iface = c.iface
                   /\ d.got.fn = f /\ d.crossed = c.crossed
            <4>1. CallFits(d, t)'
                BY <1>1, <1>3, <1>10, <3>2 DEF CallFits
            <4> QED  BY <3>2, <4>1 DEF CallSure
        <3>3. CASE /\ d.op = "control" /\ c.op = "control" /\ d.step = "use" /\ d.crossed = c.crossed
                   /\ d.got.fn = f /\ d.got.handle = <<f>>
            <4>1. CallFits(d, t)'
                BY <1>1, <1>3, <3>3 DEF CallFits
            <4>2. ASSUME ~d.crossed PROVE ControlGot(d.got)'
                <5>1. ~winusb /\ Win!Claims = {} /\ functions = {}
                    BY <1>3, <3>3, <4>2 DEF CallSure
                <5>2. functions' = {f}
                    BY <1>10, <5>1
                <5>3. Win!FirstIn(functions)' = f
                    BY <2>1, <5>2, FirstOfOne DEF Win!FirstIn
                <5> QED  BY <1>1, <1>7, <3>3, <5>1, <5>2, <5>3 DEF ControlGot
            <4> QED  BY <3>3, <4>1, <4>2 DEF CallSure
        <3> QED  BY <1>2, <1>3, <1>5, <2>1, <3>1, <3>2, <3>3, WithFunctionIs
    <2>4. /\ wCall' \in [Callers -> WinCall] /\ wCall'[t] = d
          /\ \A o \in Callers \ {t} :
                wCall'[o].step = wCall[o].step /\ wCall'[o].iface = wCall[o].iface /\ wCall'[o].got = wCall[o].got
          /\ \A o \in Callers : (CallFits(wCall[o], o) /\ CallSure(wCall[o]))'
        BY <1>1, <1>10, <2>2, <2>3, CrossKeeps
    <2>5. WinFlags'
        BY <1>1 DEF WinInv, WinFlags
    <2>6. WinShape'
        BY <1>1, <1>10, <2>4 DEF WinInv, WinShape
    <2>7. ClaimsFit' /\ AltsExact'
        BY <1>1 DEF WinInv, ClaimsFit, AltsExact, HandleFits
    <2>8. LiveExact'
        <3>1. \A o \in Callers : \/ wCall'[o].step = wCall[o].step /\ wCall'[o].got = wCall[o].got
                                 \/ wCall[o].step # "insert" /\ wCall'[o].step # "insert"
            BY <1>2, <1>3, <2>3, <2>4
        <3>2. UNCHANGED <<live, claimed>>
            BY <1>1
        <3> QED  BY <3>1, <3>2 DEF WinInv, LiveExact
    <2> QED  BY <1>1, <2>4, <2>5, <2>6, <2>7, <2>8 DEF WinInv
<1> QED  BY <1>6, <1>8, <1>9, <1>10

\* No two claims, and no claim and claim under way, have one handle.
LEMMA HandlesApart ==
    ASSUME WinInv, NEW i \in WinIfaces, claimed[i].owned
    PROVE  /\ \A j \in WinIfaces \ {i} : claimed[j].owned => claimed[j].handle # claimed[i].handle
           /\ \A o \in Callers : wCall[o].step = "insert" /\ wCall[o].got.owned =>
                 wCall[o].got.handle # claimed[i].handle
<1>1. PICK x : claimed[i].handle = <<claimed[i].fn, i, x>>
    BY DEF WinInv, ClaimsFit, HandleFits
<1>2. ASSUME NEW j \in WinIfaces, j # i, claimed[j].owned PROVE claimed[j].handle # claimed[i].handle
    <2>1. PICK y : claimed[j].handle = <<claimed[j].fn, j, y>>
        BY <1>2 DEF WinInv, ClaimsFit, HandleFits
    <2> QED  BY <1>1, <1>2, <2>1, HandlesDiffer
<1>3. ASSUME NEW o \in Callers, wCall[o].step = "insert", wCall[o].got.owned
      PROVE  wCall[o].got.handle # claimed[i].handle
    <2>1. CallFits(wCall[o], o)
        BY DEF WinInv
    <2>2. /\ wCall[o].got.handle = <<wCall[o].got.fn, wCall[o].iface, o>> /\ wCall[o].op = "claim"
          /\ claimed[wCall[o].iface].owned =>
                claimed[wCall[o].iface].handle # <<claimed[wCall[o].iface].fn, wCall[o].iface, o>>
        BY <1>3, <2>1 DEF CallFits, HandleFits
    <2>3. SUFFICES ASSUME wCall[o].got.handle = claimed[i].handle PROVE FALSE
        OBVIOUS
    <2>4. wCall[o].iface = i /\ o = x
        BY <1>1, <2>2, <2>3, HandlesDiffer
    <2> QED  BY <1>1, <2>2, <2>4
<1> QED  BY <1>2, <1>3

\* Replacing a claim: the old handle goes, the new one was live before.
LEMMA ReplaceKeepsLive ==
    ASSUME WinInv, NEW i \in WinIfaces, NEW b \in WinClaim, claimed' = [claimed EXCEPT ![i] = b],
           live' = live \ Win!Freed(claimed[i]),
           \A o \in Callers : \/ wCall'[o].step = wCall[o].step /\ wCall'[o].got = wCall[o].got
                              \/ /\ wCall'[o].step # "insert"
                                 /\ wCall[o].step = "insert" => b = wCall[o].got,
           b.owned => \E o \in Callers : wCall[o].step = "insert" /\ wCall[o].got = b
    PROVE  LiveExact'
<1>1. claimed'[i] = b /\ \A j \in WinIfaces \ {i} : claimed'[j] = claimed[j]
    BY DEF WinInv, WinShape
<1>2. SUFFICES ASSUME NEW h
               PROVE  h \in live' <=>
                        \/ \E j \in WinIfaces : claimed'[j].owned /\ claimed'[j].handle = h
                        \/ \E o \in Callers : /\ wCall'[o].step = "insert" /\ wCall'[o].got.owned
                                              /\ wCall'[o].got.handle = h
    BY DEF LiveExact
<1>3. h \in live <=>
        \/ \E j \in WinIfaces : claimed[j].owned /\ claimed[j].handle = h
        \/ \E o \in Callers : wCall[o].step = "insert" /\ wCall[o].got.owned /\ wCall[o].got.handle = h
    BY DEF WinInv, LiveExact
<1>4. h \in live' <=> h \in live /\ ~(claimed[i].owned /\ claimed[i].handle = h)
    BY DEF Win!Freed
<1>5. ASSUME h \in live'
      PROVE  \/ \E j \in WinIfaces : claimed'[j].owned /\ claimed'[j].handle = h
             \/ \E o \in Callers : /\ wCall'[o].step = "insert" /\ wCall'[o].got.owned
                                   /\ wCall'[o].got.handle = h
    <2>1. CASE \E j \in WinIfaces : claimed[j].owned /\ claimed[j].handle = h
        BY <1>1, <1>4, <1>5, <2>1
    <2>2. CASE \E o \in Callers : wCall[o].step = "insert" /\ wCall[o].got.owned /\ wCall[o].got.handle = h
        BY <1>1, <2>2
    <2> QED  BY <1>3, <1>4, <1>5, <2>1, <2>2
<1>6. ASSUME NEW j \in WinIfaces, claimed'[j].owned, claimed'[j].handle = h PROVE h \in live'
    <2>1. CASE j # i
        BY <1>1, <1>3, <1>4, <1>6, <2>1, HandlesApart
    <2>2. CASE j = i
        BY <1>1, <1>3, <1>4, <1>6, <2>2, HandlesApart
    <2> QED  BY <2>1, <2>2
<1>7. ASSUME NEW o \in Callers, wCall'[o].step = "insert", wCall'[o].got.owned, wCall'[o].got.handle = h
      PROVE  h \in live'
    BY <1>3, <1>4, <1>7, HandlesApart
<1> QED  BY <1>5, <1>6, <1>7

\* The claim is entered; what another thread entered meanwhile is dropped.
LEMMA InsertKeepsWin ==
    ASSUME WinInv, NEW t \in Callers, Win!Insert(t)
    PROVE  WinInv'
<1>1. UNCHANGED <<winusb, functions, setting, wSent, wClosing>>
    BY DEF Win!Insert
<1>2. PICK c : c = wCall[t]
    OBVIOUS
<1>3. /\ c \in WinCall /\ CallFits(c, t) /\ CallSure(c) /\ c.step = "insert" /\ c.iface \in WinIfaces
      /\ c.got \in WinClaim /\ c.got.here /\ HandleFits(c.got, c.iface, t)
    <2>1. c \in WinCall /\ CallFits(c, t) /\ CallSure(c) /\ c.step = "insert"
        BY <1>2 DEF WinInv, WinShape, Win!Insert
    <2> QED  BY <2>1 DEF CallFits, WinCall
<1>4. /\ claimed' = [claimed EXCEPT ![c.iface] = c.got]
      /\ live' = live \ Win!Freed(claimed[c.iface])
      /\ Win!Cross(t, Win!Idle)
      /\ unsure' = IF c.crossed THEN unsure \cup {c.iface} ELSE unsure
    BY <1>2 DEF Win!Insert
<1>5. claimed'[c.iface] = c.got /\ \A j \in WinIfaces \ {c.iface} : claimed'[j] = claimed[j]
    BY <1>3, <1>4 DEF WinInv, WinShape
<1>6. CallFits(Win!Idle, t)' /\ CallSure(Win!Idle)'
    BY WinConstants DEF CallFits, CallSure
<1>7. \A i \in WinIfaces : claimed'[i].owned =>
         \/ claimed'[i].handle = <<claimed'[i].fn, i, t>>
         \/ /\ claimed[i].owned
            /\ claimed'[i].handle = claimed[i].handle /\ claimed'[i].fn = claimed[i].fn
    BY <1>3, <1>5 DEF HandleFits
<1>8. /\ wCall' \in [Callers -> WinCall] /\ wCall'[t] = Win!Idle
      /\ \A o \in Callers \ {t} :
            wCall'[o].step = wCall[o].step /\ wCall'[o].iface = wCall[o].iface /\ wCall'[o].got = wCall[o].got
      /\ \A o \in Callers : (CallFits(wCall[o], o) /\ CallSure(wCall[o]))'
    BY <1>1, <1>4, <1>6, <1>7, CrossKeeps, WinConstants
<1>9. WinFlags'
    BY <1>1 DEF WinInv, WinFlags
<1>10. WinShape'
    BY <1>1, <1>3, <1>4, <1>8 DEF WinInv, WinShape
<1>11. ClaimsFit'
    <2>1. \A i \in WinIfaces : /\ claimed'[i].here => \E x \in Callers : HandleFits(claimed'[i], i, x)
                               /\ claimed'[i].owned => claimed'[i].here
        BY <1>3, <1>5 DEF WinInv, ClaimsFit
    <2> QED  BY <2>1 DEF ClaimsFit, HandleFits
<1>12. AltsExact'
    <2>1. c.iface \notin unsure' => c.got.alt = setting[c.iface]
        BY <1>3, <1>4 DEF CallSure
    <2> QED  BY <1>1, <1>4, <1>5, <2>1 DEF WinInv, AltsExact
<1>13. LiveExact'
    <2>1. PICK b : b = c.got
        OBVIOUS
    <2>2. \A o \in Callers : \/ wCall'[o].step = wCall[o].step /\ wCall'[o].got = wCall[o].got
                             \/ /\ wCall'[o].step # "insert"
                                /\ wCall[o].step = "insert" => b = wCall[o].got
        BY <1>2, <1>8, <2>1, WinConstants
    <2>3. \E o \in Callers : wCall[o].step = "insert" /\ wCall[o].got = b
        BY <1>2, <1>3, <2>1
    <2> QED  BY <1>3, <1>4, <2>1, <2>2, <2>3, ReplaceKeepsLive
<1> QED  BY <1>1, <1>8, <1>9, <1>10, <1>11, <1>12, <1>13 DEF WinInv

\* release_interface().
LEMMA ReleaseKeepsWin ==
    ASSUME WinInv, NEW t \in Callers, NEW i \in WinIfaces, Win!ReleaseInterface(t, i)
    PROVE  WinInv'
<1>1. UNCHANGED <<winusb, functions, setting, wSent, wClosing>>
    BY DEF Win!ReleaseInterface
<1>2. /\ claimed' = [claimed EXCEPT ![i] = Win!NoClaim]
      /\ live' = live \ Win!Freed(claimed[i])
      /\ Win!Cross(t, Win!Idle) /\ unsure' = unsure \ {i} /\ wCall[t].op = "idle"
    BY DEF Win!ReleaseInterface, Win!Free
<1>3. claimed'[i] = Win!NoClaim /\ \A j \in WinIfaces \ {i} : claimed'[j] = claimed[j]
    BY <1>2 DEF WinInv, WinShape
<1>4. CallFits(Win!Idle, t)' /\ CallSure(Win!Idle)'
    BY WinConstants DEF CallFits, CallSure
<1>5. /\ wCall' \in [Callers -> WinCall] /\ wCall'[t] = Win!Idle
      /\ \A o \in Callers \ {t} :
            wCall'[o].step = wCall[o].step /\ wCall'[o].iface = wCall[o].iface /\ wCall'[o].got = wCall[o].got
      /\ \A o \in Callers : (CallFits(wCall[o], o) /\ CallSure(wCall[o]))'
    <2>1. \A j \in WinIfaces : claimed'[j].owned =>
             /\ claimed[j].owned
             /\ claimed'[j].handle = claimed[j].handle /\ claimed'[j].fn = claimed[j].fn
        BY <1>3, WinConstants
    <2> QED  BY <1>1, <1>2, <1>4, <2>1, CrossKeeps, WinConstants
<1>6. WinFlags'
    BY <1>1 DEF WinInv, WinFlags
<1>7. WinShape'
    BY <1>1, <1>2, <1>5, WinConstants DEF WinInv, WinShape
<1>8. ClaimsFit'
    <2>1. \A j \in WinIfaces : /\ claimed'[j].here => \E x \in Callers : HandleFits(claimed'[j], j, x)
                               /\ claimed'[j].owned => claimed'[j].here
        BY <1>3, WinConstants DEF WinInv, ClaimsFit
    <2> QED  BY <2>1 DEF ClaimsFit, HandleFits
<1>9. AltsExact'
    BY <1>1, <1>2, <1>3, WinConstants DEF WinInv, AltsExact
<1>10. LiveExact'
    <2>1. wCall[t] = Win!Idle
        BY <1>2 DEF WinInv, CallFits
    <2> QED  BY <1>2, <1>5, <2>1, WinConstants, ReplaceKeepsLive
<1> QED  BY <1>1, <1>5, <1>6, <1>7, <1>8, <1>9, <1>10 DEF WinInv

\* set_alt_setting().
LEMMA SetAltKeepsWin ==
    ASSUME WinInv, NEW t \in Callers, NEW i \in WinIfaces, NEW alt \in WinSettings, Win!SetAltSetting(t, i, alt)
    PROVE  WinInv'
<1>1. UNCHANGED <<winusb, functions, live, wSent, wClosing>>
    BY DEF Win!SetAltSetting
<1>2. /\ claimed' = [claimed EXCEPT ![i].alt = alt] /\ setting' = [setting EXCEPT ![i] = alt]
      /\ Win!Cross(t, Win!Idle) /\ unsure' = unsure \ {i} /\ wCall[t].op = "idle"
    BY DEF Win!SetAltSetting, Win!Free
<1>3. PICK b : b = [claimed[i] EXCEPT !.alt = alt]
    OBVIOUS
<1>4. /\ b \in WinClaim /\ b.fn = claimed[i].fn /\ b.handle = claimed[i].handle
      /\ b.owned = claimed[i].owned /\ b.here = claimed[i].here /\ b.alt = alt
    <2>1. claimed[i] \in WinClaim /\ alt \in WinAlt
        BY DEF WinInv, WinShape, WinAlt
    <2> QED  BY <1>3, <2>1 DEF WinClaim
<1>5. claimed \in [WinIfaces -> WinClaim] /\ claimed' = [claimed EXCEPT ![i] = b]
    BY <1>2, <1>3 DEF WinInv, WinShape
<1>6. claimed'[i] = b /\ \A j \in WinIfaces \ {i} : claimed'[j] = claimed[j]
    BY <1>5
<1>7. \A j \in WinIfaces :
         /\ claimed'[j].owned = claimed[j].owned /\ claimed'[j].here = claimed[j].here
         /\ claimed'[j].handle = claimed[j].handle /\ claimed'[j].fn = claimed[j].fn
    BY <1>4, <1>6
<1>8. CallFits(Win!Idle, t)' /\ CallSure(Win!Idle)'
    BY WinConstants DEF CallFits, CallSure
<1>9. /\ wCall' \in [Callers -> WinCall] /\ wCall'[t] = Win!Idle
      /\ \A o \in Callers \ {t} :
            wCall'[o].step = wCall[o].step /\ wCall'[o].iface = wCall[o].iface /\ wCall'[o].got = wCall[o].got
      /\ \A o \in Callers : (CallFits(wCall[o], o) /\ CallSure(wCall[o]))'
    BY <1>1, <1>2, <1>7, <1>8, CrossKeeps, WinConstants
<1>10. WinFlags'
    BY <1>1 DEF WinInv, WinFlags
<1>11. WinShape'
    <2>1. setting' \in [WinIfaces -> WinAlt]
        BY <1>2 DEF WinInv, WinShape, WinAlt
    <2> QED  BY <1>1, <1>4, <1>5, <1>9, <2>1 DEF WinInv, WinShape
<1>12. ClaimsFit'
    <2>1. \A j \in WinIfaces : /\ claimed'[j].here => \E x \in Callers : HandleFits(claimed'[j], j, x)
                               /\ claimed'[j].owned => claimed'[j].here
        BY <1>7 DEF WinInv, ClaimsFit, HandleFits
    <2> QED  BY <2>1 DEF ClaimsFit, HandleFits
<1>13. AltsExact'
    <2>1. setting'[i] = alt /\ \A j \in WinIfaces \ {i} : setting'[j] = setting[j]
        BY <1>2 DEF WinInv, WinShape
    <2> QED  BY <1>2, <1>4, <1>6, <2>1 DEF WinInv, AltsExact
<1>14. LiveExact'
    <2>1. wCall[t] = Win!Idle
        BY <1>2 DEF WinInv, CallFits
    <2>2. \A o \in Callers : wCall'[o].step = wCall[o].step /\ wCall'[o].got = wCall[o].got
        BY <1>9, <2>1
    <2>3. UNCHANGED live
        BY <1>1
    <2> QED  BY <1>7, <2>2, <2>3 DEF WinInv, LiveExact
<1> QED  BY <1>1, <1>9, <1>10, <1>11, <1>12, <1>13, <1>14 DEF WinInv

\* Handle::drop begins when no call is under way, and drops the claims one by one.
LEMMA DropKeepsWin ==
    ASSUME WinInv, Win!DropHandle \/ \E i \in WinIfaces : Win!DropClaimed(i)
    PROVE  WinInv'
<1>1. UNCHANGED <<winusb, functions, setting, wCall, wSent, unsure>> /\ wClosing'
    BY DEF Win!DropHandle, Win!DropClaimed
<1>2. \A t \in Callers : wCall[t] = Win!Idle
    BY DEF WinInv, CallFits, Win!DropHandle, Win!DropClaimed
<1>3. \A t \in Callers : (CallFits(wCall[t], t) /\ CallSure(wCall[t]))'
    <2> SUFFICES ASSUME NEW t \in Callers PROVE (CallFits(wCall[t], t) /\ CallSure(wCall[t]))'
        OBVIOUS
    <2>1. wCall'[t] = Win!Idle
        BY <1>1, <1>2
    <2>2. CallFits(Win!Idle, t)' /\ CallSure(Win!Idle)'
        BY WinConstants DEF CallFits, CallSure
    <2> QED  BY <2>1, <2>2 DEF CallFits, CallSure
<1>4. WinFlags'
    BY <1>1, Zenon DEF WinInv, WinFlags
<1>5. CASE Win!DropHandle
    <2>1. UNCHANGED <<claimed, live>>
        BY <1>5 DEF Win!DropHandle
    <2>2. WinShape' /\ ClaimsFit' /\ AltsExact'
        BY <1>1, <2>1 DEF WinInv, WinShape, ClaimsFit, HandleFits, AltsExact
    <2>3. LiveExact'
        BY <1>1, <2>1 DEF WinInv, LiveExact
    <2> QED  BY <1>1, <1>3, <1>4, <2>2, <2>3 DEF WinInv
<1>6. ASSUME NEW i \in WinIfaces, Win!DropClaimed(i) PROVE WinInv'
    <2>1. claimed' = [claimed EXCEPT ![i] = Win!NoClaim] /\ live' = live \ Win!Freed(claimed[i])
        BY <1>6 DEF Win!DropClaimed
    <2>2. claimed'[i] = Win!NoClaim /\ \A j \in WinIfaces \ {i} : claimed'[j] = claimed[j]
        BY <2>1 DEF WinInv, WinShape
    <2>3. WinShape'
        BY <1>1, <2>1, WinConstants DEF WinInv, WinShape
    <2>4. ClaimsFit'
        <3>1. \A j \in WinIfaces : /\ claimed'[j].here => \E x \in Callers : HandleFits(claimed'[j], j, x)
                                   /\ claimed'[j].owned => claimed'[j].here
            BY <2>2, WinConstants DEF WinInv, ClaimsFit
        <3> QED  BY <3>1 DEF ClaimsFit, HandleFits
    <2>5. AltsExact'
        BY <1>1, <2>2, WinConstants DEF WinInv, AltsExact
    <2>6. LiveExact'
        BY <1>1, <2>1, WinConstants, ReplaceKeepsLive
    <2> QED  BY <1>1, <1>3, <1>4, <2>3, <2>4, <2>5, <2>6 DEF WinInv
<1> QED  BY <1>5, <1>6

\* The invariant holds throughout, whenever the part at hand is the handle.
LEMMA WinInvariant == Spec => [](part = "winusb" => WinInv)
<1>1. Init => (part = "winusb" => WinInv)
    BY WinInitInv DEF Init
<1>2. (part = "winusb" => WinInv) /\ [Next]_vars => (part = "winusb" => WinInv)'
    <2>1. ASSUME part = "winusb", WinInv, [Next]_vars PROVE WinInv'
        <3>1. [Win!Next]_(Win!vars)
            BY <2>1, WinMoves
        <3>2. CASE UNCHANGED Win!vars
            <4>1. UNCHANGED <<winusb, functions, claimed, setting, live, wCall, wSent, unsure, wClosing>>
                BY <3>2 DEF Win!vars
            <4>2. UNCHANGED Win!Claims
                BY <4>1 DEF Win!Claims
            <4>3. \A t \in Callers : (CallFits(wCall[t], t) /\ CallSure(wCall[t]))'
                BY <2>1, <4>1, <4>2 DEF WinInv, CallFits, CallSure, ControlGot, HandleFits
            <4>4. (WinFlags /\ WinShape /\ ClaimsFit /\ LiveExact /\ AltsExact)'
                BY <2>1, <4>1 DEF WinInv, WinFlags, WinShape, ClaimsFit, LiveExact, AltsExact, HandleFits
            <4> QED  BY <2>1, <4>1, <4>3, <4>4 DEF WinInv
        <3>3. CASE Win!Next
            BY <2>1, <3>3, DropKeepsWin, InsertKeepsWin, ControlKeepsWin, FunctionsKeepWin, UseKeepsWin,
               FileKeepsWin, FunctionKeepsWin, AssociateKeepsWin, PipeKeepsWin, BeginKeepsWin,
               ReleaseKeepsWin, SetAltKeepsWin DEF Win!Next
        <3> QED  BY <3>1, <3>2, <3>3
    <2>2. ASSUME part # "winusb", [Next]_vars PROVE part' # "winusb"
        BY <2>2 DEF Next, vars
    <2> QED  BY <2>1, <2>2
<1> QED  BY <1>1, <1>2, PTL DEF Spec

\* claim_interface(), release_interface(), set_alt_setting() and the requests of
\* any number of threads, on a device of any interfaces and functions: no WinUSB
\* handle is lost or freed while it is claimed, the function of each is open, the
\* settings on record are the device's, and a request goes to a live handle, an
\* existing pipe and the file CancelIoEx will find it by, unless it was crossed.
THEOREM HandlesAlwaysSound == Spec => []HandlesAreSound
<1>1. (part = "winusb" => WinInv) => HandlesAreSound
    <2> SUFFICES ASSUME part = "winusb", WinInv PROVE Win!HandlesAreSound
        BY DEF HandlesAreSound
    <2>1. ASSUME NEW h
          PROVE  h \in live <=>
                   h \in {claimed[i].handle : i \in {i \in Win!Claims : claimed[i].owned}}
                         \cup {wCall[t].got.handle : t \in {t \in Callers : wCall[t].step = "insert" /\ wCall[t].got.owned}}
        BY DEF WinInv, LiveExact, ClaimsFit, Win!Claims
    <2>2. live = {claimed[i].handle : i \in {i \in Win!Claims : claimed[i].owned}}
                 \cup {wCall[t].got.handle : t \in {t \in Callers : wCall[t].step = "insert" /\ wCall[t].got.owned}}
        BY <2>1
    <2>3. ASSUME NEW h \in live PROVE Win!IsOpen(h[1])
        <3>1. CASE \E i \in WinIfaces : claimed[i].owned /\ claimed[i].handle = h
            <4>1. PICK i \in WinIfaces : claimed[i].owned /\ claimed[i].handle = h
                BY <3>1
            <4>2. claimed[i].here /\ \E x : h = <<claimed[i].fn, i, x>>
                BY <4>1 DEF WinInv, ClaimsFit, HandleFits
            <4>3. h[1] = claimed[i].fn
                BY <4>2, HandlesDiffer
            <4> QED  BY <4>2, <4>3 DEF Win!IsOpen, Win!Claims
        <3>2. CASE \E t \in Callers : wCall[t].step = "insert" /\ wCall[t].got.owned /\ wCall[t].got.handle = h
            <4>1. PICK t \in Callers : wCall[t].step = "insert" /\ wCall[t].got.owned /\ wCall[t].got.handle = h
                BY <3>2
            <4>2. CallFits(wCall[t], t)
                BY DEF WinInv
            <4>3. /\ h = <<wCall[t].got.fn, wCall[t].iface, t>> /\ ~wClosing
                  /\ wCall[t].got.fn \in functions \/ (winusb /\ wCall[t].got.fn = 0)
                BY <4>1, <4>2 DEF CallFits, HandleFits
            <4>4. h[1] = wCall[t].got.fn
                BY <4>3, HandlesDiffer
            <4> QED  BY <4>3, <4>4 DEF Win!IsOpen
        <3> QED  BY <2>3, <3>1, <3>2 DEF WinInv, LiveExact
    <2>4. \A i \in Win!Claims \ unsure : claimed[i].alt = setting[i]
        BY DEF WinInv, AltsExact, Win!Claims
    <2> QED  BY <2>2, <2>3, <2>4 DEF WinInv, Win!HandlesAreSound
<1> QED  BY <1>1, WinInvariant, PTL

(* The baud rate of an FTDI chip *)

LEMMA DivisionIs ==
    ASSUME NEW a \in Nat, NEW p \in Nat \ {0}
    PROVE  a \div p \in Nat /\ a % p \in 0..(p - 1) /\ a = p * (a \div p) + (a % p)
OBVIOUS

Chips == {"Am", "Bm", "Ft2232C", "Ft232R", "FtX", "HighSpeed"}

\* The first divisor that has no encoding.
Wide == 131072

\* What a divisor of the request means to the chip: its 16 bits in wValue and the
\* two above them.
DivisorCode(value, high) == value \div 16384 + 4 * (high % 2)
Decoded(value, high) ==
    CASE value = 0 /\ DivisorCode(value, high) = 0 -> 8
      [] value = 1 /\ DivisorCode(value, high) = 0 -> 12
      [] OTHER -> 8 * (value % 16384) + FtdiChip!Eighths[DivisorCode(value, high) + 1]

\* Two fields of a word can be told apart.
LEMMA FieldsApart ==
    ASSUME NEW N \in Nat \ {0}, NEW w \in Int, w >= 0, w < N, NEW k \in Int, NEW m \in Int, m = w + k * N
    PROVE  m \div N = k /\ m % N = w
BY SMT

\* The chip's codes of the eighths.
LEMMA FractionIs ==
    ASSUME NEW e \in 0..7
    PROVE  /\ FtdiChip!DivFrac[e + 1] \in 0..7 /\ FtdiChip!Eighths[FtdiChip!DivFrac[e + 1] + 1] = e
           /\ FtdiChip!DivFrac[e + 1] = 0 <=> e = 0
           /\ FtdiChip!DivFrac[e + 1] = 1 <=> e = 4
BY DEF FtdiChip!DivFrac, FtdiChip!Eighths

\* What the chip makes of a whole number and the code of a fraction, unless they
\* are those of divisor 1.
LEMMA PartsDecode ==
    ASSUME NEW w \in Int, w >= 1, w <= 16383, NEW g1 \in Int, NEW hi \in Int,
           g1 + 4 * (hi % 2) # 0 \/ w # 1,
           NEW m \in Int, m = w + g1 * 16384, m # 0
    PROVE  Decoded(m, hi) = 8 * w + FtdiChip!Eighths[g1 + 4 * (hi % 2) + 1]
<1>1. m \div 16384 = g1 /\ m % 16384 = w
    <2>1. PICK N \in Nat \ {0} : N = 16384
        BY SMT
    <2>2. m = w + g1 * N /\ w < N /\ w >= 0
        BY <2>1, SMT
    <2>3. m \div N = g1 /\ m % N = w
        BY <2>2, FieldsApart, SMT
    <2> QED  BY <2>1, <2>3, SMT
<1>2. DivisorCode(m, hi) = g1 + 4 * (hi % 2)
    BY <1>1, SMT DEF DivisorCode
<1>3. PICK code : code = DivisorCode(m, hi)
    OBVIOUS
<1>4. m # 0 /\ ~(m = 1 /\ code = 0)
    <2>1. ASSUME m = 1 PROVE w = 1
        BY <1>1, <2>1, SMT
    <2> QED  BY <1>2, <1>3, <2>1, SMT
<1>5. Decoded(m, hi) = 8 * (m % 16384) + FtdiChip!Eighths[code + 1]
    BY <1>3, <1>4, SMT DEF Decoded
<1> QED  BY <1>1, <1>2, <1>3, <1>5, SMT

\* The divisors 1 and 1.5 have codes of their own.
LEMMA ShortDecode ==
    ASSUME NEW hi \in {0, 2}
    PROVE  Decoded(0, hi) = 8 /\ Decoded(1, hi) = 12
<1>1. hi % 2 = 0 /\ 0 \div 16384 = 0 /\ 1 \div 16384 = 0
    BY SMT
<1>2. DivisorCode(0, hi) = 0 /\ DivisorCode(1, hi) = 0
    BY <1>1, SMT DEF DivisorCode
<1> QED  BY <1>2, SMT DEF Decoded

\* bm_divisor(): what the chip makes of the encoded divisor is the divisor.
LEMMA BmDecodes ==
    ASSUME NEW d \in Nat, d >= 8, NEW fast \in BOOLEAN, NEW v, v = FtdiChip!BmDivisor(d, fast),
           v # FtdiChip!Absent
    PROVE  \E value, hi \in Nat : /\ v = value + hi * FtdiChip!Word /\ value < FtdiChip!Word /\ hi <= 3
                                  /\ Decoded(value, hi) = d /\ (hi >= 2 <=> fast)
<1> USE DEF FtdiChip!Word
<1>1. PICK w \in Int, e \in 0..7 : w = d \div 8 /\ e = d % 8 /\ d = 8 * w + e
    BY SMT
<1>2. PICK f \in 0..7 : /\ f = FtdiChip!DivFrac[e + 1] /\ FtdiChip!Eighths[f + 1] = e
                        /\ (f = 0 <=> e = 0) /\ (f = 1 <=> e = 4)
    BY FractionIs, SMT
<1> HIDE DEF FtdiChip!Eighths
<1>20. f \in Int /\ 0 <= f /\ f <= 7 /\ e \in Int /\ 0 <= e /\ e <= 7
    BY SMT
<1>3. PICK c \in {0, 2} : (fast => c = 2) /\ (~fast => c = 0)
    BY SMT
<1>4. PICK x \in Int : x = w + f * 16384
    BY SMT
<1>5. w >= 1 /\ w <= 16383
    BY <1>1, SMT DEF FtdiChip!BmDivisor, FtdiChip!MaxWhole
<1>6. v = (IF x = 1 THEN 0 ELSE IF x = 1 + 16384 THEN 1 ELSE x) + c * 65536
    <2>1. v = (IF x = 1 THEN 0 ELSE IF x = 1 + 16384 THEN 1 ELSE x) + (IF fast THEN 131072 ELSE 0)
        BY <1>1, <1>2, <1>4, SMT DEF FtdiChip!BmDivisor, FtdiChip!MaxWhole, FtdiChip!Frac
    <2> QED  BY <1>3, <2>1, SMT
<1>7. CASE x = 1
    <2>4. w = 1 /\ f = 0
        BY <1>4, <1>5, <1>7, <1>20, SMT
    <2>1. d = 8 /\ v = 0 + c * 65536
        BY <1>1, <1>2, <1>6, <1>7, <2>4, SMT
    <2>2. Decoded(0, c) = 8
        BY ShortDecode, SMT
    <2> QED  BY <1>3, <2>1, <2>2, SMT
<1>8. CASE x = 1 + 16384
    <2>1. w = 1 /\ f = 1
        BY <1>4, <1>5, <1>8, <1>20, SMT
    <2>2. d = 12 /\ v = 1 + c * 65536
        BY <1>1, <1>2, <1>6, <1>8, <2>1, SMT
    <2>3. Decoded(1, c) = 12
        BY ShortDecode, SMT
    <2> QED  BY <1>3, <2>2, <2>3, SMT
<1>9. CASE x # 1 /\ x # 1 + 16384
    <2>1. PICK g1 \in Int, h \in Int : f = g1 + 4 * h /\ 0 <= g1 /\ g1 <= 3 /\ 0 <= h /\ h <= 1
        <3>1. CASE f <= 3
            <4>1. f = f + 4 * 0
                BY <1>20, SMT
            <4> QED  BY <1>20, <3>1, <4>1, SMT
        <3>2. CASE f > 3
            <4>1. f = (f - 4) + 4 * 1 /\ f - 4 \in Int /\ 0 <= f - 4 /\ f - 4 <= 3
                BY <1>20, <3>2, SMT
            <4> QED  BY <4>1, SMT
        <3> QED  BY <1>20, <3>1, <3>2, SMT
    <2>2. PICK m \in Int, hi \in Int : m = w + g1 * 16384 /\ hi = h + c
        BY SMT
    <2>3. m >= 0 /\ m < 65536 /\ 0 <= hi /\ hi <= 3 /\ hi % 2 = h /\ (hi >= 2 <=> fast)
        BY <1>3, <1>5, <2>1, <2>2, SMT
    <2>4. v = m + hi * 65536
        BY <1>4, <1>6, <1>9, <2>1, <2>2, SMT
    <2>5. (g1 + 4 * (hi % 2) # 0 \/ w # 1) /\ g1 + 4 * (hi % 2) = f /\ m # 0
        BY <1>4, <1>5, <1>9, <1>20, <2>1, <2>2, <2>3, SMT
    <2>6. Decoded(m, hi) = 8 * w + FtdiChip!Eighths[g1 + 4 * (hi % 2) + 1]
        BY <1>5, <2>2, <2>5, PartsDecode, SMT
    <2>7. Decoded(m, hi) = d
        BY <1>1, <1>2, <2>5, <2>6, SMT
    <2> QED  BY <2>3, <2>4, <2>7, SMT
<1> QED  BY <1>7, <1>8, <1>9, SMT

\* Quotient and remainder.
LEMMA Divides ==
    ASSUME NEW a \in Nat, NEW p \in Nat \ {0}
    PROVE  \E q \in Nat, r \in 0..(p - 1) : q = a \div p /\ r = a % p /\ a = p * q + r
<1>1. a \div p \in Nat /\ a % p \in 0..(p - 1) /\ a = p * (a \div p) + (a % p)
    BY DivisionIs, Zenon
<1> QED  BY <1>1, Zenon

\* Rounding to the nearest: half of what is divided by is added first.
LEMMA Rounds ==
    ASSUME NEW C \in Nat, NEW h \in Nat \ {0}, NEW p \in Nat \ {0}, p = 2 * h, NEW d \in Nat,
           d = (C + h) \div p
    PROVE  /\ p * d <= C + h /\ C <= p * d + h
           /\ p * 8 <= C => d >= 8
<1>1. PICK a \in Nat : a = C + h
    OBVIOUS
<1>2. PICK q \in Nat, r \in 0..(p - 1) : q = a \div p /\ r = a % p /\ a = p * q + r
    BY Divides
<1>3. q = d
    BY <1>1, <1>2
<1>4. PICK x \in Int : x = p * q
    OBVIOUS
<1>5. x <= C + h /\ C <= x + h
    BY <1>1, <1>2, <1>4
<1>6. ASSUME p * 8 <= C, q <= 7 PROVE FALSE
    <2>1. p * q <= p * 7
        BY <1>6
    <2> QED  BY <1>1, <1>2, <1>6, <2>1
<1> QED  BY <1>3, <1>4, <1>5, <1>6

LEMMA Nearest ==
    ASSUME NEW C \in Nat, NEW h \in Nat \ {0}, NEW p \in Nat \ {0}, p = 2 * h
    PROVE  \E d \in Nat : /\ d = (C + h) \div p /\ p * d <= C + h /\ C <= p * d + h
                          /\ p * 8 <= C => d >= 8
<1>1. PICK a \in Nat : a = C + h
    OBVIOUS
<1>2. PICK d \in Nat, r \in 0..(p - 1) : d = a \div p /\ r = a % p /\ a = p * d + r
    BY Divides
<1>3. d = (C + h) \div p
    BY <1>1, <1>2
<1>4. p * d <= C + h /\ C <= p * d + h /\ (p * 8 <= C => d >= 8)
    BY <1>3, Rounds
<1> QED  BY <1>3, <1>4

\* am_divisor(): the chip makes of it a divisor that is off by two eighths at most.
LEMMA AmDecodes ==
    ASSUME NEW baud \in Nat \ {0}, NEW d \in Nat, d = (48000000 + baud) \div (2 * baud), d >= 8,
           NEW v, v = FtdiChip!AmDivisor(baud), v # FtdiChip!Absent
    PROVE  \E value, eighths \in Nat : /\ v = value /\ value < 65536 /\ Decoded(value, 0) = eighths
                                       /\ eighths - d <= 2 /\ d - eighths <= 2
<1>1. PICK d3 \in Nat : d3 = (IF d % 8 = 7 THEN d + 1 ELSE d)
    BY SMT
<1>2. PICK w \in Int, e \in Int : w = d3 \div 8 /\ e = d3 % 8 /\ d3 = 8 * w + e /\ 0 <= e /\ e <= 7
    BY SMT
<1>3. e # 7 /\ d3 - d <= 1 /\ d <= d3 /\ w >= 1 /\ (d3 # d => e = 0)
    BY <1>1, <1>2, SMT
<1>4. PICK f : f = FtdiChip!AmFrac[e + 1]
    BY SMT
<1>5. /\ e = 0 => f = 0
      /\ e = 1 => f = 3
      /\ e = 2 \/ e = 3 => f = 2
      /\ e = 4 \/ e = 5 \/ e = 6 => f = 1
    BY <1>4, SMT DEF FtdiChip!AmFrac
<1>10. e = 0 \/ e = 1 \/ e = 2 \/ e = 3 \/ e = 4 \/ e = 5 \/ e = 6
    BY <1>2, <1>3, SMT
<1>6. PICK x \in Int : x = w + f * 16384 /\ f \in Int /\ 0 <= f /\ f <= 3
    BY <1>5, <1>10, SMT
<1>7. w <= 16383 /\ v = IF x = 1 THEN 0 ELSE x
    <2>1. v = IF w > 16383 THEN FtdiChip!Absent ELSE IF x = 1 THEN 0 ELSE x
        BY <1>1, <1>2, <1>4, <1>6, SMT DEF FtdiChip!AmDivisor, FtdiChip!SlowClock, FtdiChip!MaxWhole, FtdiChip!Frac
    <2> QED  BY <1>2, <2>1, SMT
<1>8. CASE x = 1
    <2>1. w = 1 /\ f = 0
        BY <1>3, <1>6, <1>7, <1>8, SMT
    <2>2. e = 0
        BY <1>2, <1>3, <1>5, <2>1, SMT
    <2>3. v = 0 /\ 8 - d <= 2 /\ d - 8 <= 2
        BY <1>2, <1>3, <1>7, <1>8, <2>1, <2>2, SMT
    <2>4. Decoded(0, 0) = 8
        BY ShortDecode, SMT
    <2> QED  BY <2>3, <2>4, SMT
<1>9. CASE x # 1
    <2>1. x \in Nat /\ x < 65536 /\ v = x /\ x # 0 /\ (f # 0 \/ w # 1)
        BY <1>3, <1>6, <1>7, <1>9, SMT
    <2>2. PICK hi \in Int : hi = 0 /\ f + 4 * (hi % 2) = f
        BY <1>6, SMT
    <2>3. Decoded(x, hi) = 8 * w + FtdiChip!Eighths[f + 4 * (hi % 2) + 1]
        BY <1>3, <1>6, <1>7, <2>1, <2>2, PartsDecode, SMT
    <2>4. PICK k \in Int : k = FtdiChip!Eighths[f + 1] /\ k - e <= 1 /\ e - k <= 2 /\ k >= 0
                           /\ (e = 0 => k = 0)
        <3>1. FtdiChip!Eighths[0 + 1] = 0 /\ FtdiChip!Eighths[3 + 1] = 1 /\ FtdiChip!Eighths[2 + 1] = 2
              /\ FtdiChip!Eighths[1 + 1] = 4
            BY SMT DEF FtdiChip!Eighths
        <3> QED  BY <1>5, <1>10, <3>1, SMT
    <2>5. Decoded(x, 0) = 8 * w + k
        BY <2>2, <2>3, <2>4, SMT
    <2>6. 8 * w + k - d <= 2 /\ d - (8 * w + k) <= 2 /\ 8 * w + k \in Nat
        BY <1>2, <1>3, <2>4, SMT
    <2> QED  BY <2>1, <2>5, <2>6, SMT
<1> QED  BY <1>8, <1>9, SMT

\* No rate that is refused has a divisor: of the slow clock only the lowest have none,
LEMMA RefusedIsLow ==
    ASSUME NEW baud \in Nat \ {0}, NEW d \in Nat, d = (48000000 + baud) \div (2 * baud), d >= 131071
    PROVE  FtdiChip!TooLow(baud)
<1>1. PICK p \in Nat \ {0} : p = 2 * baud
    BY SMT
<1>2. PICK C \in Nat : C = 48000000
    BY SMT
<1>3. p * d <= C + baud
    <2>1. d = (C + baud) \div p
        BY <1>1, <1>2, SMT
    <2> QED  BY <1>1, <2>1, Rounds, SMT
<1>4. p * 131071 <= p * d
    BY SMT
<1>5. p * 131071 - baud <= C
    <2>1. PICK x \in Int, y \in Int : x = p * d /\ y = p * 131071
        BY SMT
    <2> QED  BY <1>2, <1>3, <1>4, <2>1, SMT
<1>6. baud <= 183
    BY <1>1, <1>2, <1>5, SMT
<1>8. PICK q \in Nat, r \in 0..(p - 1) : q = C \div p /\ r = C % p /\ C = p * q + r
    BY Divides, SMT
<1>9. ASSUME q <= 131070 PROVE FALSE
    <2>1. p * q <= p * 131070
        BY <1>9, SMT
    <2>2. r < p /\ p * 131070 + p <= C
        BY <1>1, <1>2, <1>6, SMT
    <2>3. PICK x \in Int, y \in Int : x = p * q /\ y = p * 131070
        BY SMT
    <2> QED  BY <1>8, <2>1, <2>2, <2>3, SMT
<1>10. q = FtdiChip!SlowClock \div (2 * baud)
    BY <1>1, <1>2, <1>8, SMT DEF FtdiChip!SlowClock
<1> QED  BY <1>9, <1>10, SMT DEF FtdiChip!TooLow, FtdiChip!MaxWhole

\* baud_request() of an AM.
LEMMA AmRequest ==
    ASSUME NEW baud \in Nat \ {0}, baud <= FtdiChip!SlowMax, NEW v, v = FtdiChip!AmDivisor(baud)
    PROVE  /\ v = FtdiChip!Absent => FtdiChip!TooLow(baud)
           /\ v # FtdiChip!Absent =>
                 \E value \in Nat : /\ v = value /\ value < FtdiChip!Word
                                    /\ FtdiChip!Within(2 * Decoded(value, 0) * baud, FtdiChip!SlowClock, 5 * baud)
<1>1. PICK p \in Nat \ {0} : p = 2 * baud
    BY SMT
<1>2. PICK C \in Nat : C = 48000000
    BY SMT
<1>3. PICK d \in Nat : d = (C + baud) \div p /\ p * d <= C + baud /\ C <= p * d + baud /\ d >= 8
    <2>1. p * 8 <= C
        BY <1>1, <1>2, SMT DEF FtdiChip!SlowMax
    <2>2. PICK d \in Nat : /\ d = (C + baud) \div p /\ p * d <= C + baud /\ C <= p * d + baud
                           /\ p * 8 <= C => d >= 8
        BY <1>1, Nearest, Zenon
    <2>3. d >= 8
        BY <2>1, <2>2, Zenon
    <2> QED  BY <2>2, <2>3, Zenon
<1>4. d = (48000000 + baud) \div (2 * baud)
    BY <1>1, <1>2, <1>3, SMT
<1>5. ASSUME v = FtdiChip!Absent PROVE d >= 131071
    <2>1. PICK d3 \in Nat : d3 = (IF d % 8 = 7 THEN d + 1 ELSE d)
        BY SMT
    <2>2. PICK w \in Int, e \in Int : w = d3 \div 8 /\ e = d3 % 8 /\ d3 = 8 * w + e /\ 0 <= e /\ e <= 7
        BY SMT
    <2>3. PICK f : f = FtdiChip!AmFrac[e + 1]
        BY SMT
    <2>4. f \in Int /\ 0 <= f
        <3>1. e = 0 \/ e = 1 \/ e = 2 \/ e = 3 \/ e = 4 \/ e = 5 \/ e = 6 \/ e = 7
            BY <2>2, SMT
        <3> QED  BY <2>3, <3>1, SMT DEF FtdiChip!AmFrac
    <2>5. v = IF w > 16383 THEN FtdiChip!Absent ELSE IF w + f * 16384 = 1 THEN 0 ELSE w + f * 16384
        BY <1>4, <2>1, <2>2, <2>3, SMT DEF FtdiChip!AmDivisor, FtdiChip!SlowClock, FtdiChip!MaxWhole, FtdiChip!Frac
    <2>6. w > 16383
        BY <1>5, <2>2, <2>4, <2>5, SMT DEF FtdiChip!Absent
    <2> QED  BY <2>1, <2>2, <2>6, SMT
<1>6. ASSUME v # FtdiChip!Absent
      PROVE  \E value \in Nat : /\ v = value /\ value < FtdiChip!Word
                                /\ FtdiChip!Within(2 * Decoded(value, 0) * baud, FtdiChip!SlowClock, 5 * baud)
    <2>1. PICK value \in Nat, eighths \in Nat : /\ v = value /\ value < 65536 /\ Decoded(value, 0) = eighths
                                                /\ eighths - d <= 2 /\ d - eighths <= 2
        <3>1. d \in Nat /\ d >= 8 /\ d = (48000000 + baud) \div (2 * baud)
            BY <1>3, <1>4, SMT
        <3> HIDE <1>3
        <3> QED  BY <1>6, <3>1, AmDecodes, SMT
    <2>2. p * eighths - p * d <= 4 * baud /\ p * d - p * eighths <= 4 * baud
        <3>1. PICK k \in Int : k = eighths - d /\ k <= 2 /\ 0 - k <= 2
            BY <2>1, SMT
        <3>2. p * k <= p * 2 /\ 0 - p * k <= p * 2
            BY <3>1, SMT
        <3>3. p * eighths - p * d = p * k
            BY <3>1, SMT
        <3>4. PICK x \in Int, y \in Int, z \in Int : x = p * eighths /\ y = p * d /\ z = p * k
            BY SMT
        <3> QED  BY <1>1, <3>2, <3>3, <3>4, SMT
    <2>3. 2 * eighths * baud = p * eighths
        BY <1>1, SMT
    <2>4. PICK x \in Int, y \in Int : x = p * eighths /\ y = p * d
        BY SMT
    <2>5. x - 48000000 <= 5 * baud /\ 48000000 - x <= 5 * baud
        BY <1>2, <1>3, <2>2, <2>4, SMT
    <2>6. FtdiChip!Within(x, FtdiChip!SlowClock, 5 * baud)
        BY <2>4, <2>5, SMT DEF FtdiChip!Within, FtdiChip!SlowClock
    <2>7. 2 * Decoded(value, 0) * baud = x
        BY <2>1, <2>3, <2>4, SMT
    <2>8. v = value /\ value < FtdiChip!Word
        BY <2>1, SMT DEF FtdiChip!Word
    <2> QED  BY <2>6, <2>7, <2>8, Zenon
<1>7. ASSUME v = FtdiChip!Absent PROVE FtdiChip!TooLow(baud)
    BY <1>4, <1>5, <1>7, RefusedIsLow, SMT
<1> QED  BY <1>6, <1>7, Zenon

\* A divisor that has no encoding is large.
LEMMA BmAbsent ==
    ASSUME NEW d \in Nat, d >= 8, NEW fast \in BOOLEAN, FtdiChip!BmDivisor(d, fast) = FtdiChip!Absent
    PROVE  d >= Wide
<1>1. PICK w \in Int, e \in 0..7 : w = d \div 8 /\ e = d % 8
    BY SMT
<1>2. PICK f \in 0..7 : f = FtdiChip!DivFrac[e + 1]
    BY FractionIs, SMT
<1>3. PICK x \in Int : x = w + f * 16384 /\ w <= x /\ w >= 1 /\ 8 * w <= d
    BY <1>1, SMT
<1>4. PICK c \in Int : c = (IF fast THEN 131072 ELSE 0) /\ c >= 0
    BY SMT
<1>5. FtdiChip!BmDivisor(d, fast) =
        IF w > 16383 THEN FtdiChip!Absent ELSE (IF x = 1 THEN 0 ELSE IF x = 1 + 16384 THEN 1 ELSE x) + c
    BY <1>1, <1>2, <1>3, <1>4, SMT DEF FtdiChip!BmDivisor, FtdiChip!MaxWhole, FtdiChip!Frac
<1>6. w > 16383
    <2>1. PICK y \in Int : y = (IF x = 1 THEN 0 ELSE IF x = 1 + 16384 THEN 1 ELSE x) /\ y >= 0
        BY <1>3, SMT
    <2>2. ASSUME w <= 16383 PROVE FALSE
        <3>1. FtdiChip!BmDivisor(d, fast) = y + c
            BY <1>5, <2>1, <2>2, SMT
        <3> QED  BY <1>4, <2>1, <3>1, SMT DEF FtdiChip!Absent
    <2> QED  BY <2>2, SMT
<1> QED  BY <1>3, <1>6, SMT DEF Wide


\* baud_request() of a BM or a later chip, by the slow clock,
LEMMA SlowRequest ==
    ASSUME NEW baud \in Nat \ {0}, baud <= FtdiChip!SlowMax,
           NEW v, v = FtdiChip!BmDivisor((FtdiChip!SlowClock + baud) \div (2 * baud), FALSE)
    PROVE  /\ v = FtdiChip!Absent => FtdiChip!TooLow(baud)
           /\ v # FtdiChip!Absent =>
                 \E value, hi \in Nat : /\ v = value + hi * FtdiChip!Word /\ value < FtdiChip!Word /\ hi <= 3 /\ ~(hi >= 2)
                                        /\ FtdiChip!Within(2 * Decoded(value, hi) * baud, FtdiChip!SlowClock, baud)
<1>1. PICK p \in Nat \ {0} : p = 2 * baud
    BY SMT
<1>2. PICK C \in Nat : C = FtdiChip!SlowClock /\ p * 8 <= C
    BY <1>1, SMT DEF FtdiChip!SlowClock, FtdiChip!SlowMax
<1>20. PICK fast \in BOOLEAN : ~fast
    OBVIOUS
<1>3. v = FtdiChip!BmDivisor((C + baud) \div p, fast)
    BY <1>1, <1>2, <1>20, Zenon
<1>30. PICK d \in Nat : /\ d = (C + baud) \div p /\ p * d <= C + baud /\ C <= p * d + baud
                        /\ p * 8 <= C => d >= 8
    BY <1>1, <1>2, Nearest, Zenon
<1>4. d >= 8 /\ d = (C + baud) \div p /\ p * d <= C + baud /\ C <= p * d + baud
    BY <1>2, <1>30, Zenon
<1>40. v = FtdiChip!BmDivisor(d, fast)
    BY <1>3, <1>4, Zenon
<1>5. d = (48000000 + baud) \div (2 * baud)
    BY <1>1, <1>2, <1>4, SMT DEF FtdiChip!SlowClock
<1>6. ASSUME v = FtdiChip!Absent PROVE FtdiChip!TooLow(baud)
    <2>1. d >= 131071
        <3>1. d >= Wide
            BY <1>4, <1>40, <1>6, BmAbsent, Zenon
        <3> QED  BY <3>1, SMT DEF Wide
    <2> QED  BY <1>5, <2>1, RefusedIsLow, SMT
<1>7. ASSUME v # FtdiChip!Absent
      PROVE  \E value, hi \in Nat : /\ v = value + hi * FtdiChip!Word /\ value < FtdiChip!Word /\ hi <= 3 /\ ~(hi >= 2)
                                    /\ FtdiChip!Within(2 * Decoded(value, hi) * baud, FtdiChip!SlowClock, baud)
    <2>1. PICK value \in Nat, hi \in Nat : /\ v = value + hi * FtdiChip!Word /\ value < FtdiChip!Word /\ hi <= 3
                                           /\ Decoded(value, hi) = d /\ (hi >= 2 <=> fast)
        BY <1>4, <1>40, <1>7, BmDecodes, Zenon
    <2>2. 2 * d * baud = p * d
        BY <1>1, SMT
    <2>3. PICK x \in Int : x = p * d /\ x <= C + baud /\ C <= x + baud
        BY <1>4, SMT
    <2>4. FtdiChip!Within(x, C, baud)
        BY <2>3, SMT DEF FtdiChip!Within
    <2>5. FtdiChip!Within(2 * Decoded(value, hi) * baud, FtdiChip!SlowClock, baud)
        BY <1>2, <2>1, <2>2, <2>3, <2>4, Zenon
    <2> QED  BY <1>20, <2>1, <2>5, Zenon
<1> QED  BY <1>6, <1>7, Zenon

\* and by the fast one, which has a divisor for every rate it is used for.
LEMMA FastRequest ==
    ASSUME NEW baud \in Nat \ {0}, FtdiChip!FastMin <= baud, baud <= 4 * FtdiChip!SlowMax,
           NEW v, v = FtdiChip!BmDivisor((FtdiChip!FastClock + 5 * baud) \div (10 * baud), TRUE)
    PROVE  /\ v # FtdiChip!Absent
           /\ \E value, hi \in Nat : /\ v = value + hi * FtdiChip!Word /\ value < FtdiChip!Word /\ hi <= 3 /\ hi >= 2
                                     /\ FtdiChip!Within(10 * Decoded(value, hi) * baud, FtdiChip!FastClock, 5 * baud)
<1>1. PICK p \in Nat \ {0}, h \in Nat \ {0} : p = 10 * baud /\ h = 5 * baud /\ p = 2 * h
    BY SMT
<1>2. PICK C \in Nat : C = FtdiChip!FastClock /\ p * 8 <= C
    BY <1>1, SMT DEF FtdiChip!FastClock, FtdiChip!SlowMax
<1>20. PICK fast \in BOOLEAN : fast
    OBVIOUS
<1>3. v = FtdiChip!BmDivisor((C + h) \div p, fast)
    BY <1>1, <1>2, <1>20, Zenon
<1>30. PICK d \in Nat : /\ d = (C + h) \div p /\ p * d <= C + h /\ C <= p * d + h
                        /\ p * 8 <= C => d >= 8
    BY <1>1, <1>2, Nearest, Zenon
<1>4. d >= 8 /\ d = (C + h) \div p /\ p * d <= C + h /\ C <= p * d + h
    BY <1>2, <1>30, Zenon
<1>40. v = FtdiChip!BmDivisor(d, fast)
    BY <1>3, <1>4, Zenon
<1>5. PICK x \in Int : x = p * d /\ x <= C + h /\ C <= x + h
    BY <1>4, SMT
<1>6. ASSUME d >= Wide PROVE FALSE
    <2>1. p * 131072 <= p * d
        BY <1>6, SMT DEF Wide
    <2> QED  BY <1>1, <1>2, <1>5, <2>1, SMT DEF FtdiChip!FastClock, FtdiChip!FastMin
<1>7. v # FtdiChip!Absent
    BY <1>4, <1>40, <1>6, BmAbsent, Zenon
<1>8. PICK value \in Nat, hi \in Nat : /\ v = value + hi * FtdiChip!Word /\ value < FtdiChip!Word /\ hi <= 3
                                       /\ Decoded(value, hi) = d /\ (hi >= 2 <=> fast)
    BY <1>4, <1>40, <1>7, BmDecodes, Zenon
<1>9. 10 * d * baud = p * d
    BY <1>1, SMT
<1>10. FtdiChip!Within(x, C, h)
    BY <1>5, SMT DEF FtdiChip!Within
<1>11. FtdiChip!Within(10 * Decoded(value, hi) * baud, FtdiChip!FastClock, 5 * baud)
    BY <1>1, <1>2, <1>5, <1>8, <1>9, <1>10, Zenon
<1> QED  BY <1>7, <1>8, <1>11, <1>20, Zenon

\* What a request says of the rate it was made for, to a chip c at port p.
ChannelOf(c, p) == IF c \in {"Am", "Bm", "Ft232R"} THEN 0 ELSE p + 1
Says(c, p, value, high, baud) ==
    IF high >= 2 THEN c = "HighSpeed" /\ FtdiChip!Within(10 * Decoded(value, high) * baud, FtdiChip!FastClock, 5 * baud)
    ELSE FtdiChip!Within(2 * Decoded(value, high) * baud, FtdiChip!SlowClock, (IF c = "Am" THEN 5 ELSE 1) * baud)
HighOf(c, p, r) == IF ChannelOf(c, p) # 0 THEN r.index \div 256 ELSE r.index
Fits(c, p, r, baud) ==
    /\ r # FtdiChip!Refused =>
         /\ ChannelOf(c, p) # 0 => r.index % 256 = ChannelOf(c, p)
         /\ Says(c, p, r.value, HighOf(c, p, r), baud)
    /\ r = FtdiChip!Refused /\ baud # 0 =>
         baud > (IF c = "HighSpeed" THEN 4 * FtdiChip!SlowMax ELSE FtdiChip!SlowMax) \/ FtdiChip!TooLow(baud)

\* The fields of wValue and wIndex can be told apart.
LEMMA RequestFits ==
    ASSUME NEW c, NEW p \in Int, 0 <= p, p <= 254, NEW baud \in Nat, NEW v,
           NEW value \in Nat, NEW hi \in Nat, v = value + hi * FtdiChip!Word, value < FtdiChip!Word, hi <= 3,
           Says(c, p, value, hi, baud), NEW r,
           r = [value |-> v % FtdiChip!Word,
                index |-> IF ChannelOf(c, p) # 0 THEN (v \div FtdiChip!Word) * 256 + ChannelOf(c, p) ELSE v \div FtdiChip!Word]
    PROVE  Fits(c, p, r, baud)
<1>1. v % FtdiChip!Word = value /\ v \div FtdiChip!Word = hi
    <2>1. PICK N \in Nat \ {0} : N = FtdiChip!Word
        BY SMT DEF FtdiChip!Word
    <2>2. v = value + hi * N /\ value < N /\ value >= 0
        BY <2>1, SMT
    <2>3. v \div N = hi /\ v % N = value
        BY <2>2, FieldsApart, SMT
    <2> QED  BY <2>1, <2>3, SMT
<1>2. PICK channel \in Int : channel = ChannelOf(c, p) /\ 0 <= channel /\ channel <= 255
    BY SMT DEF ChannelOf
<1>3. r.value = value /\ r.index = IF channel # 0 THEN hi * 256 + channel ELSE hi
    BY <1>1, <1>2, Zenon
<1>4. channel # 0 => r.index \div 256 = hi /\ r.index % 256 = channel
    <2> SUFFICES ASSUME channel # 0 PROVE r.index \div 256 = hi /\ r.index % 256 = channel
        BY SMT
    <2>1. PICK m \in Int : m = channel + hi * 256 /\ r.index = m
        BY <1>3, SMT
    <2> QED  BY <1>2, <2>1, SMT
<1>5. HighOf(c, p, r) = hi
    BY <1>2, <1>3, <1>4, Zenon DEF HighOf
<1>6. r # FtdiChip!Refused
    BY <1>3, SMT DEF FtdiChip!Refused
<1> QED  BY <1>2, <1>3, <1>4, <1>5, <1>6, Zenon DEF Fits

\* baud_request(), for every chip and port.
LEMMA BaudRequestFits ==
    ASSUME chip \in Chips, port \in 0..254, NEW baud \in Nat, NEW r, r = FtdiChip!BaudRequest(baud)
    PROVE  Fits(chip, port, r, baud)
<1>1. PICK c \in Chips : c = chip
    BY Zenon
<1>2. PICK p \in Int : p = port /\ 0 <= p /\ p <= 254
    BY SMT
<1>3. FtdiChip!Channel = ChannelOf(c, p)
    BY <1>1, <1>2, SMT DEF FtdiChip!Channel, ChannelOf
<1>4. PICK top \in Nat : top = FtdiChip!MaxBaudRate /\ top = (IF c = "HighSpeed" THEN 4 * FtdiChip!SlowMax ELSE FtdiChip!SlowMax)
    BY <1>1, SMT DEF FtdiChip!MaxBaudRate, FtdiChip!IsHighSpeed, FtdiChip!SlowMax
<1>5. PICK v : v = IF c = "Am" THEN FtdiChip!AmDivisor(baud)
                   ELSE IF c = "HighSpeed" /\ baud >= FtdiChip!FastMin
                        THEN FtdiChip!BmDivisor((FtdiChip!FastClock + 5 * baud) \div (10 * baud), TRUE)
                        ELSE FtdiChip!BmDivisor((FtdiChip!SlowClock + baud) \div (2 * baud), FALSE)
    BY Zenon
<1>6. r = IF baud = 0 \/ baud > top THEN FtdiChip!Refused
          ELSE IF v = FtdiChip!Absent THEN FtdiChip!Refused
          ELSE [value |-> v % FtdiChip!Word,
                index |-> IF ChannelOf(c, p) # 0 THEN (v \div FtdiChip!Word) * 256 + ChannelOf(c, p) ELSE v \div FtdiChip!Word]
    BY <1>1, <1>3, <1>4, <1>5, Zenon DEF FtdiChip!BaudRequest, FtdiChip!IsHighSpeed
<1> SUFFICES Fits(c, p, r, baud)
    BY <1>1, <1>2, Zenon
<1>7. CASE baud = 0 \/ baud > top
    BY <1>4, <1>6, <1>7, Zenon DEF Fits
<1>8. ASSUME ~(baud = 0 \/ baud > top), v = FtdiChip!Absent, FtdiChip!TooLow(baud) PROVE Fits(c, p, r, baud)
    BY <1>6, <1>8, Zenon DEF Fits
<1>9. ASSUME ~(baud = 0 \/ baud > top), v # FtdiChip!Absent,
             \E value, hi \in Nat : /\ v = value + hi * FtdiChip!Word /\ value < FtdiChip!Word /\ hi <= 3
                                    /\ Says(c, p, value, hi, baud)
      PROVE  Fits(c, p, r, baud)
    <2>1. r = [value |-> v % FtdiChip!Word,
               index |-> IF ChannelOf(c, p) # 0 THEN (v \div FtdiChip!Word) * 256 + ChannelOf(c, p) ELSE v \div FtdiChip!Word]
        BY <1>6, <1>9, Zenon
    <2>2. PICK value \in Nat, hi \in Nat : /\ v = value + hi * FtdiChip!Word /\ value < FtdiChip!Word /\ hi <= 3
                                           /\ Says(c, p, value, hi, baud)
        BY <1>9, Zenon
    <2> QED  BY <1>2, <2>1, <2>2, RequestFits, Zenon
<1>10. ASSUME baud # 0, baud <= top
       PROVE  \/ v = FtdiChip!Absent /\ FtdiChip!TooLow(baud)
              \/ /\ v # FtdiChip!Absent
                 /\ \E value, hi \in Nat : /\ v = value + hi * FtdiChip!Word /\ value < FtdiChip!Word /\ hi <= 3
                                           /\ Says(c, p, value, hi, baud)
    <2>1. baud \in Nat \ {0}
        BY <1>10, SMT
    <2>2. CASE c = "Am"
        <3>1. v = FtdiChip!AmDivisor(baud) /\ baud <= FtdiChip!SlowMax
            BY <1>4, <1>5, <1>10, <2>2, SMT
        <3>2. CASE v = FtdiChip!Absent
            BY <2>1, <3>1, <3>2, AmRequest, Zenon
        <3>3. CASE v # FtdiChip!Absent
            <4>1. PICK value \in Nat : /\ v = value /\ value < FtdiChip!Word
                                      /\ FtdiChip!Within(2 * Decoded(value, 0) * baud, FtdiChip!SlowClock, 5 * baud)
                BY <2>1, <3>1, <3>3, AmRequest, Zenon
            <4>3. v = value + 0 * FtdiChip!Word /\ value < FtdiChip!Word /\ 0 <= 3 /\ ~(0 >= 2) /\ 0 \in Nat
                BY <4>1, SMT DEF FtdiChip!Word
            <4>4. Says(c, p, value, 0, baud)
                BY <2>2, <4>1, <4>3, Zenon DEF Says
            <4> QED  BY <3>3, <4>3, <4>4, Zenon
        <3> QED  BY <3>2, <3>3, Zenon
    <2>3. CASE c = "HighSpeed" /\ baud >= FtdiChip!FastMin
        <3>1. v = FtdiChip!BmDivisor((FtdiChip!FastClock + 5 * baud) \div (10 * baud), TRUE)
            BY <1>5, <2>3, Zenon
        <3>2. baud <= 4 * FtdiChip!SlowMax /\ FtdiChip!FastMin <= baud
            BY <1>4, <1>10, <2>3, SMT DEF FtdiChip!FastMin
        <3>3. v # FtdiChip!Absent
            BY <2>1, <3>1, <3>2, FastRequest, Zenon
        <3>4. PICK value \in Nat, hi \in Nat : /\ v = value + hi * FtdiChip!Word /\ value < FtdiChip!Word /\ hi <= 3 /\ hi >= 2
                                               /\ FtdiChip!Within(10 * Decoded(value, hi) * baud, FtdiChip!FastClock, 5 * baud)
            BY <2>1, <3>1, <3>2, FastRequest, Zenon
        <3>5. Says(c, p, value, hi, baud)
            BY <2>3, <3>4, Zenon DEF Says
        <3> QED  BY <3>3, <3>4, <3>5, Zenon
    <2>4. CASE c # "Am" /\ ~(c = "HighSpeed" /\ baud >= FtdiChip!FastMin)
        <3>1. v = FtdiChip!BmDivisor((FtdiChip!SlowClock + baud) \div (2 * baud), FALSE)
            BY <1>5, <2>4, Zenon
        <3>2. baud <= FtdiChip!SlowMax
            BY <1>4, <1>10, <2>4, SMT DEF FtdiChip!FastMin, FtdiChip!SlowMax
        <3>3. CASE v = FtdiChip!Absent
            BY <2>1, <3>1, <3>2, <3>3, SlowRequest, Zenon
        <3>4. CASE v # FtdiChip!Absent
            <4>1. PICK value \in Nat, hi \in Nat : /\ v = value + hi * FtdiChip!Word /\ value < FtdiChip!Word /\ hi <= 3 /\ ~(hi >= 2)
                                                   /\ FtdiChip!Within(2 * Decoded(value, hi) * baud, FtdiChip!SlowClock, baud)
                BY <2>1, <3>1, <3>2, <3>4, SlowRequest, Zenon
            <4>2. 1 * baud = baud
                BY SMT
            <4>3. Says(c, p, value, hi, baud)
                BY <2>4, <4>1, <4>2, Zenon DEF Says
            <4> QED  BY <3>4, <4>1, <4>3, Zenon
        <3> QED  BY <3>3, <3>4, Zenon
    <2> QED  BY <2>2, <2>3, <2>4, Zenon
<1>11. CASE ~(baud = 0 \/ baud > top)
    <2>1. baud # 0 /\ baud <= top
        BY <1>11, SMT
    <2> QED  BY <1>8, <1>9, <1>10, <1>11, <2>1, Zenon
<1> QED  BY <1>7, <1>11, Zenon

\* The request that was sent says the rate that was asked for.
FtdiInv ==
    /\ chip \in Chips \cup {"closed", "SIO"} /\ port \in 0..254 /\ rate \in Nat
    /\ chip \notin Chips => rate = 0 /\ request = FtdiChip!Refused
    /\ chip \in Chips => Fits(chip, port, request, rate)

LEMMA FtdiInitInv == FtdiChip!Init => FtdiInv
<1> SUFFICES ASSUME FtdiChip!Init PROVE FtdiInv
    OBVIOUS
<1>1. chip = "closed" /\ port \in FtdiPorts /\ rate = 0 /\ request = FtdiChip!Refused
    BY DEF FtdiChip!Init
<1> QED  BY <1>1, RateAssumption, SMT DEF FtdiInv, Chips

LEMMA OpenFtdiKeeps ==
    ASSUME FtdiInv, NEW v, NEW serial, NEW latency, FtdiChip!OpenFtdi(v, serial, latency)
    PROVE  FtdiInv'
<1>0. chip = "closed" /\ rate = 0 /\ request = FtdiChip!Refused
    BY Zenon DEF FtdiChip!OpenFtdi, FtdiInv, Chips
<1>1. chip' = FtdiChip!Probe(v, serial, latency) /\ port' = port /\ rate' = rate /\ request' = request
    BY DEF FtdiChip!OpenFtdi
<1>2. PICK c : c = FtdiChip!FromBcdDevice(v)
    OBVIOUS
<1>3. c \in Chips \cup {"SIO"}
    BY <1>2, SMT DEF FtdiChip!FromBcdDevice, Chips
<1>4. chip' \in Chips \cup {"SIO"}
    BY <1>1, <1>2, <1>3, Zenon DEF FtdiChip!Probe, Chips
<1>6. Fits(chip', port, request, rate)
    BY <1>0, Zenon DEF Fits
<1> QED  BY <1>0, <1>1, <1>4, <1>6, Zenon DEF FtdiInv

LEMMA SetBaudRateKeeps ==
    ASSUME FtdiInv, NEW baud \in FtdiRates, FtdiChip!SetBaudRate(baud)
    PROVE  FtdiInv'
<1>1. chip \notin {"closed", "SIO"} /\ rate' = baud /\ request' = FtdiChip!BaudRequest(baud) /\ chip' = chip
      /\ port' = port
    BY DEF FtdiChip!SetBaudRate
<1>2. chip \in Chips /\ baud \in Nat /\ port \in 0..254
    BY <1>1, RateAssumption, Zenon DEF FtdiInv, FtdiChip!Refused
<1>3. PICK r : r = FtdiChip!BaudRequest(baud)
    OBVIOUS
<1>4. Fits(chip, port, r, baud)
    BY <1>2, <1>3, BaudRequestFits, Zenon
<1> QED  BY <1>1, <1>2, <1>3, <1>4, Zenon DEF FtdiInv

LEMMA FtdiMoves == part = "ftdi" /\ [Next]_vars => [FtdiChip!Next]_(FtdiChip!vars)
<1> SUFFICES ASSUME part = "ftdi", [Next]_vars PROVE [FtdiChip!Next]_(FtdiChip!vars)
    OBVIOUS
<1> USE DEF otherVars, ftdiVars, FtdiChip!vars
<1>1. CASE UNCHANGED vars
    BY <1>1 DEF vars
<1>2. CASE Next
    <2>1. OtherNext \/ UNCHANGED otherVars
        BY <1>2 DEF Next
    <2>2. CASE OtherNext
        BY <2>2 DEF OtherNext
    <2>3. CASE UNCHANGED otherVars
        BY <2>3
    <2> QED  BY <2>1, <2>2, <2>3
<1> QED  BY <1>1, <1>2

LEMMA FtdiInvariant == Spec => [](part = "ftdi" => FtdiInv)
<1>1. Init => (part = "ftdi" => FtdiInv)
    BY FtdiInitInv DEF Init
<1>2. (part = "ftdi" => FtdiInv) /\ [Next]_vars => (part = "ftdi" => FtdiInv)'
    <2> SUFFICES ASSUME part = "ftdi" => FtdiInv, [Next]_vars, part' = "ftdi" PROVE FtdiInv'
        OBVIOUS
    <2>1. part = "ftdi" /\ FtdiInv
        BY DEF Next, vars
    <2>2. [FtdiChip!Next]_(FtdiChip!vars)
        BY <2>1, FtdiMoves
    <2>3. CASE UNCHANGED FtdiChip!vars
        BY <2>1, <2>3, Zenon DEF FtdiChip!vars, FtdiInv
    <2>4. CASE FtdiChip!Next
        BY <2>1, <2>4, OpenFtdiKeeps, SetBaudRateKeeps, Zenon DEF FtdiChip!Next
    <2> QED  BY <2>2, <2>3, <2>4
<1> QED  BY <1>1, <1>2, PTL DEF Spec

\* The rate a chip derives from a request is the nearest it has, and a rate is
\* refused only if the chip has none (Ftdi!RateIsNearest), for every rate.
THEOREM RateIsAlwaysNearest == Spec => []RateIsNearest
<1>1. (part = "ftdi" => FtdiInv) => RateIsNearest
    <2> SUFFICES ASSUME part = "ftdi", FtdiInv PROVE FtdiChip!RateIsNearest
        BY DEF RateIsNearest
    <2>1. CASE chip \notin Chips
        BY <2>1, SMT DEF FtdiInv, FtdiChip!RateIsNearest
    <2>2. CASE chip \in Chips
        <3>1. Fits(chip, port, request, rate)
            BY <2>2, Zenon DEF FtdiInv
        <3>2. FtdiChip!Channel = ChannelOf(chip, port)
            BY Zenon DEF FtdiChip!Channel, ChannelOf
        <3>3. FtdiChip!HighBits = HighOf(chip, port, request)
            BY <3>2, Zenon DEF FtdiChip!HighBits, HighOf
        <3>4. PICK hi : hi = HighOf(chip, port, request)
            BY Zenon
        <3>5. FtdiChip!Code = DivisorCode(request.value, hi)
            BY <3>3, <3>4, SMT DEF FtdiChip!Code, DivisorCode, FtdiChip!Frac
        <3>6. FtdiChip!Divisor = Decoded(request.value, hi)
            BY <3>5, SMT DEF FtdiChip!Divisor, Decoded, FtdiChip!Frac
        <3>7. FtdiChip!Fast <=> hi >= 2
            BY <3>3, <3>4, Zenon DEF FtdiChip!Fast
        <3>8. PICK D : D = Decoded(request.value, hi)
            BY Zenon
        <3>9. ASSUME request # FtdiChip!Refused
              PROVE  IF FtdiChip!Fast
                     THEN FtdiChip!IsHighSpeed /\ FtdiChip!Within(10 * FtdiChip!Divisor * rate, FtdiChip!FastClock, 5 * rate)
                     ELSE FtdiChip!Within(2 * FtdiChip!Divisor * rate, FtdiChip!SlowClock, (IF chip = "Am" THEN 5 ELSE 1) * rate)
            <4>1. Says(chip, port, request.value, hi, rate)
                BY <3>1, <3>4, <3>9, Zenon DEF Fits
            <4>2. IF hi >= 2 THEN chip = "HighSpeed" /\ FtdiChip!Within(10 * D * rate, FtdiChip!FastClock, 5 * rate)
                  ELSE FtdiChip!Within(2 * D * rate, FtdiChip!SlowClock, (IF chip = "Am" THEN 5 ELSE 1) * rate)
                BY <3>8, <4>1, Zenon DEF Says
            <4>3. FtdiChip!Divisor = D
                BY <3>6, <3>8, Zenon
            <4> QED  BY <3>7, <4>2, <4>3, Zenon DEF FtdiChip!IsHighSpeed
        <3>10. request # FtdiChip!Refused /\ FtdiChip!Channel # 0 => request.index % 256 = FtdiChip!Channel
            BY <3>1, <3>2, Zenon DEF Fits
        <3>11. request = FtdiChip!Refused /\ rate # 0 => rate > FtdiChip!MaxBaudRate \/ FtdiChip!TooLow(rate)
            <4>1. FtdiChip!MaxBaudRate = IF chip = "HighSpeed" THEN 4 * FtdiChip!SlowMax ELSE FtdiChip!SlowMax
                BY SMT DEF FtdiChip!MaxBaudRate, FtdiChip!IsHighSpeed
            <4> QED  BY <3>1, <4>1, Zenon DEF Fits
        <3> QED  BY <3>9, <3>10, <3>11, Zenon DEF FtdiChip!RateIsNearest
    <2> QED  BY <2>1, <2>2, Zenon
<1> QED  BY <1>1, FtdiInvariant, PTL

-----------------------------------------------------------------------------
(* The bytes of a logical unit *)

\* What a byte holds: which write it is of, and its index there.
Byte == Nat \X Nat

BlockStream ==
    [pc : {"closed", "idle", "failed", "load", "move", "returned"}, polls : Nat, pos : Nat,
     scratch : Seq(Byte), op : {"none", "read", "write"}, id : Nat, at : Nat, n : Nat, lba : Nat,
     blocks : Nat, done : Nat, seek : BOOLEAN, buf : Seq(Byte)]

BlockTyped ==
    /\ disk \in [Block!Bytes -> Byte] /\ ref \in [Block!Bytes -> SUBSET Byte]
    /\ bStrm \in [Callers -> BlockStream]
    /\ bLeft \in [calls : Nat, faults : Nat, writes : Nat]

\* The bytes of the blocks of a call, and those it is for.
Span(c) == c.lba * BlkSize .. (c.lba + c.blocks) * BlkSize - 1
Window(c) == c.at .. c.at + c.n - 1
UnderWay(c) == c.pc \in {"load", "move", "returned"}

\* A call lies on the unit, and what it is for in its blocks.
Lies(c) ==
    /\ c.op \in {"read", "write"} /\ c.blocks >= 1 /\ c.lba + c.blocks <= BlkCount
    /\ c.lba * BlkSize <= c.at /\ c.at + c.n <= (c.lba + c.blocks) * BlkSize
    /\ c.pc = "load" => c.blocks = 1 /\ c.done = 0 /\ c.n >= 1
    /\ c.pc = "move" => c.done < c.blocks
    /\ c.pc = "move" /\ c.op = "read" => c.at = c.lba * BlkSize /\ c.n = c.blocks * BlkSize

\* What a call carries belongs there, over a disk D whose bytes may be F: a write
\* has its own bytes in its buffer and, of the blocks that are done, on the disk.
Carries(c, D, F) ==
    /\ c.op = "write" /\ c.pc # "returned" => \A b \in Window(c) : <<c.id, b - c.at>> \in F[b]
    /\ c.op = "write" /\ c.pc = "move" =>
         /\ Len(c.buf) = c.blocks * BlkSize
         /\ \A b \in Span(c) : LET i == b - c.lba * BlkSize + 1
                               IN  IF b \in Window(c) THEN c.buf[i] = <<c.id, b - c.at>> ELSE c.buf[i] \in F[b]
         /\ \A b \in Window(c) : b < (c.lba + c.done) * BlkSize => D[b] = <<c.id, b - c.at>>
    /\ c.op = "read" /\ c.pc = "move" =>
         /\ Len(c.buf) = c.done * BlkSize
         /\ \A i \in 1..c.done * BlkSize : c.buf[i] \in F[c.lba * BlkSize + i - 1]
    /\ c.op = "read" /\ c.pc = "returned" =>
         Len(c.buf) = c.n /\ \A i \in 1..c.n : c.buf[i] \in F[c.at + i - 1]

Apart(c, o) == "write" \in {c.op, o.op} => Block!Blocks(c) \cap Block!Blocks(o) = {}

\* Unless calls raced: no two calls are in a block one of them writes.
BlockSound ==
    /\ \A b \in Block!Bytes : disk[b] \in ref[b]
    /\ \A s \in Callers : UnderWay(bStrm[s]) => Lies(bStrm[s]) /\ Carries(bStrm[s], disk, ref)
    /\ \A s \in Callers, o \in Callers :
          s # o /\ UnderWay(bStrm[s]) /\ UnderWay(bStrm[o]) => Apart(bStrm[s], bStrm[o])

BlockGood == BlockTyped /\ BlockSound
BlockInv == bRaced \in BOOLEAN /\ (~bRaced => BlockGood)

\* Blocks to bytes.
LEMMA BytesOf ==
    ASSUME NEW x \in Int, NEW y \in Int, x <= y
    PROVE  x * BlkSize \in Int /\ x * BlkSize <= y * BlkSize
BY BlockAssumption

LEMMA BytesOfMore ==
    ASSUME NEW x \in Int, NEW k \in Int
    PROVE  (x + k) * BlkSize = x * BlkSize + k * BlkSize /\ (x + 1) * BlkSize = x * BlkSize + BlkSize
BY BlockAssumption

\* A byte is in one block.
LEMMA BlockOf ==
    ASSUME NEW b \in Nat
    PROVE  \E q \in Nat, r \in 0..(BlkSize - 1) : /\ q = b \div BlkSize /\ r = b % BlkSize
                                                  /\ b = q * BlkSize + r
<1>1. PICK p \in Nat \ {0} : p = BlkSize
    BY BlockAssumption
<1>2. b \div p \in Nat /\ b % p \in 0..(p - 1) /\ b = p * (b \div p) + (b % p)
    BY DivisionIs
<1>3. b = (b \div p) * p + (b % p)
    BY <1>2
<1> QED  BY <1>1, <1>2, <1>3

LEMMA SpansApart ==
    ASSUME NEW l \in Nat, NEW k \in Nat, NEW m \in Nat, NEW j \in Nat,
           (l .. l + k - 1) \cap (m .. m + j - 1) = {},
           NEW b \in Nat, l * BlkSize <= b, b < (l + k) * BlkSize, m * BlkSize <= b, b < (m + j) * BlkSize
    PROVE  FALSE
<1>1. PICK q \in Nat, r \in 0..(BlkSize - 1) : b = q * BlkSize + r
    BY BlockOf
<1>2. ASSUME NEW x \in Nat, x * BlkSize <= b PROVE x <= q
    <2>1. SUFFICES ASSUME q + 1 <= x PROVE FALSE
        OBVIOUS
    <2>2. (q + 1) * BlkSize <= x * BlkSize /\ x * BlkSize \in Int /\ (q + 1) * BlkSize \in Int
        BY <2>1, BytesOf
    <2>3. (q + 1) * BlkSize = q * BlkSize + BlkSize /\ q * BlkSize \in Int /\ BlkSize \in Nat
        BY BytesOfMore, BlockAssumption
    <2> QED  BY <1>1, <1>2, <2>2, <2>3
<1>3. ASSUME NEW x \in Nat, b < x * BlkSize PROVE q < x
    <2>1. SUFFICES ASSUME x <= q PROVE FALSE
        OBVIOUS
    <2>2. x * BlkSize <= q * BlkSize /\ x * BlkSize \in Int /\ q * BlkSize \in Int
        BY <2>1, BytesOf
    <2> QED  BY <1>1, <1>3, <2>2, BlockAssumption
<1>4. q \in l .. l + k - 1 /\ q \in m .. m + j - 1
    BY <1>2, <1>3
<1> QED  BY <1>4

LEMMA OnTheUnit ==
    ASSUME NEW l \in Nat, NEW k \in Nat, l + k <= BlkCount
    PROVE  /\ l * BlkSize \in Nat /\ (l + k) * BlkSize \in Nat /\ k * BlkSize \in Nat
           /\ (l + k) * BlkSize = l * BlkSize + k * BlkSize /\ (l + k) * BlkSize <= Block!Size
           /\ \A b \in Int : l * BlkSize <= b /\ b < (l + k) * BlkSize => b \in Block!Bytes
<1>1. l * BlkSize \in Nat /\ k * BlkSize \in Nat /\ (l + k) * BlkSize \in Nat
    BY BlockAssumption
<1>2. (l + k) * BlkSize <= BlkCount * BlkSize /\ BlkCount * BlkSize \in Int
    BY BytesOf, BlockAssumption
<1>3. (l + k) * BlkSize = l * BlkSize + k * BlkSize
    BY BytesOfMore
<1> QED  BY <1>1, <1>2, <1>3 DEF Block!Bytes, Block!Size

\* rw_cdb(): the device reads off the command what was meant.
LEMMA RwCdbIs ==
    ASSUME NEW lba \in Nat, NEW blocks \in Nat \ {0}
    PROVE  Block!RwCdb(lba, blocks) = [lba |-> lba, blocks |-> blocks]
<1>1. CASE lba + blocks <= BlkMaxLba + 1 /\ blocks <= BlkMaxBlocks
    <2>1. lba % (BlkMaxLba + 1) = lba /\ blocks % (BlkMaxBlocks + 1) = blocks
        BY <1>1, BlockAssumption
    <2> QED  BY <1>1, <2>1 DEF Block!RwCdb
<1>2. CASE ~(lba + blocks <= BlkMaxLba + 1 /\ blocks <= BlkMaxBlocks)
    BY <1>2 DEF Block!RwCdb
<1> QED  BY <1>1, <1>2

\* read_capacity(), in the form the unit answers.
LEMMA ReadCapacityIs == Block!ReadCapacity = BlkCount
BY BlockAssumption DEF Block!ReadCapacity, Block!Least

LEMMA ChunkIs == Block!ChunkBlocks \in Nat \ {0}
<1>1. PICK q \in Int : q = Block!Most(BlkTransfer \div BlkSize, 1) /\ q >= 1
    <2>1. BlkTransfer \div BlkSize \in Int
        BY BlockAssumption
    <2> QED  BY <2>1 DEF Block!Most
<1> QED  BY <1>1, BlockAssumption DEF Block!ChunkBlocks, Block!Least

\* The next command moves some of the blocks that are left.
LEMMA CdbIs ==
    ASSUME NEW c \in BlockStream, c.done < c.blocks
    PROVE  \E k \in Nat \ {0} : /\ Block!Cdb(c) = [lba |-> c.lba + c.done, blocks |-> k]
                                /\ c.done + k <= c.blocks
<1>1. c.lba \in Nat /\ c.done \in Nat /\ c.blocks \in Nat
    BY DEF BlockStream
<1>2. PICK k \in Nat \ {0} : k = Block!Least(Block!ChunkBlocks, c.blocks - c.done) /\ c.done + k <= c.blocks
    BY <1>1, ChunkIs DEF Block!Least
<1>3. Block!Cdb(c) = [lba |-> c.lba + c.done, blocks |-> k]
    BY <1>1, <1>2, RwCdbIs DEF Block!Cdb
<1> QED  BY <1>2, <1>3

\* What a call carries depends on nothing but its own blocks.
LEMMA CarriesKeeps ==
    ASSUME NEW c \in BlockStream, Lies(c), NEW D, NEW F, NEW D2, NEW F2, Carries(c, D, F),
           \A b \in Span(c) : D2[b] = D[b] /\ F[b] \subseteq F2[b]
    PROVE  Carries(c, D2, F2)
<1>1. c.lba \in Nat /\ c.blocks \in Nat /\ c.done \in Nat /\ c.at \in Nat /\ c.n \in Nat
    BY DEF BlockStream
<1>2. PICK l \in Nat, e \in Nat : l = c.lba * BlkSize /\ e = (c.lba + c.blocks) * BlkSize
    BY <1>1, BlockAssumption
<1>3. Span(c) = l .. e - 1 /\ l <= c.at /\ c.at + c.n <= e
    BY <1>2 DEF Span, Lies
<1>4. \A b \in Window(c) : b \in Span(c)
    BY <1>1, <1>3 DEF Window
<1>5. c.op = "write" /\ c.pc # "returned" => \A b \in Window(c) : <<c.id, b - c.at>> \in F2[b]
    BY <1>4 DEF Carries
<1>6. c.op = "write" /\ c.pc = "move" =>
         /\ Len(c.buf) = c.blocks * BlkSize
         /\ \A b \in Span(c) : LET i == b - c.lba * BlkSize + 1
                               IN  IF b \in Window(c) THEN c.buf[i] = <<c.id, b - c.at>> ELSE c.buf[i] \in F2[b]
         /\ \A b \in Window(c) : b < (c.lba + c.done) * BlkSize => D2[b] = <<c.id, b - c.at>>
    BY <1>4, Zenon DEF Carries
<1>7. c.op = "read" /\ c.pc = "move" =>
         /\ Len(c.buf) = c.done * BlkSize
         /\ \A i \in 1..c.done * BlkSize : c.buf[i] \in F2[c.lba * BlkSize + i - 1]
    <2> SUFFICES ASSUME c.op = "read", c.pc = "move", NEW i \in 1..c.done * BlkSize
                 PROVE  Len(c.buf) = c.done * BlkSize /\ c.buf[i] \in F2[c.lba * BlkSize + i - 1]
        BY DEF Carries
    <2>1. c.done * BlkSize <= c.blocks * BlkSize /\ c.done * BlkSize \in Int /\ c.blocks * BlkSize \in Int
        BY <1>1, BytesOf DEF Lies
    <2>2. e = l + c.blocks * BlkSize
        <3>1. PICK x \in Int, k \in Int : x = c.lba /\ k = c.blocks
            BY <1>1
        <3>2. (x + k) * BlkSize = x * BlkSize + k * BlkSize
            BY BytesOfMore
        <3> QED  BY <1>2, <3>1, <3>2, Zenon
    <2>3. l + i - 1 \in Span(c)
        BY <1>1, <1>3, <2>1, <2>2
    <2>4. Len(c.buf) = c.done * BlkSize /\ c.buf[i] \in F[c.lba * BlkSize + i - 1]
        BY Zenon DEF Carries
    <2> QED  BY <1>2, <2>3, <2>4
<1>8. c.op = "read" /\ c.pc = "returned" =>
         Len(c.buf) = c.n /\ \A i \in 1..c.n : c.buf[i] \in F2[c.at + i - 1]
    <2> SUFFICES ASSUME c.op = "read", c.pc = "returned", NEW i \in 1..c.n
                 PROVE  Len(c.buf) = c.n /\ c.buf[i] \in F2[c.at + i - 1]
        BY DEF Carries
    <2>1. c.at + i - 1 \in Window(c)
        BY <1>1 DEF Window
    <2>2. Len(c.buf) = c.n /\ c.buf[i] \in F[c.at + i - 1]
        BY Zenon DEF Carries
    <2> QED  BY <1>4, <2>1, <2>2
<1> QED  BY <1>5, <1>6, <1>7, <1>8, Zenon DEF Carries

\* One stream moves: the others are kept if nothing of their blocks is changed.
LEMMA BlockStepKeeps ==
    ASSUME BlockGood, NEW s \in Callers, NEW c \in BlockStream, bStrm' = [bStrm EXCEPT ![s] = c],
           disk' \in [Block!Bytes -> Byte], ref' \in [Block!Bytes -> SUBSET Byte],
           bLeft' \in [calls : Nat, faults : Nat, writes : Nat],
           \A b \in Block!Bytes : disk'[b] \in ref'[b],
           UnderWay(c) => Lies(c) /\ Carries(c, disk', ref'),
           \A o \in Callers : o # s /\ UnderWay(bStrm[o]) =>
              /\ UnderWay(c) => Apart(c, bStrm[o])
              /\ \A b \in Span(bStrm[o]) : disk'[b] = disk[b] /\ ref[b] \subseteq ref'[b]
    PROVE  BlockGood'
<1>1. BlockTyped'
    BY Zenon DEF BlockGood, BlockTyped
<1>3. BlockSound /\ BlockTyped
    BY Zenon DEF BlockGood
<1>4. bStrm'[s] = c /\ \A o \in Callers : o # s => bStrm'[o] = bStrm[o]
    BY <1>3, Zenon DEF BlockTyped
<1>5. ASSUME NEW o \in Callers, UnderWay(bStrm'[o])
      PROVE  Lies(bStrm'[o]) /\ Carries(bStrm'[o], disk', ref')
    <2>1. CASE o = s
        BY <1>4, <1>5, <2>1, Zenon
    <2>2. CASE o # s
        <3>1. PICK d : d = bStrm[o]
            OBVIOUS
        <3>2. PICK D : D = disk
            OBVIOUS
        <3>3. PICK F : F = ref
            OBVIOUS
        <3>4. PICK D2 : D2 = disk'
            OBVIOUS
        <3>5. PICK F2 : F2 = ref'
            OBVIOUS
        <3>6. d \in BlockStream
            BY <1>3, <3>1 DEF BlockTyped
        <3>7. UnderWay(d) /\ bStrm'[o] = d
            BY <1>4, <1>5, <2>2, <3>1, Zenon
        <3>8. Lies(d) /\ Carries(d, D, F)
            BY <1>3, <3>1, <3>2, <3>3, <3>7, Zenon DEF BlockSound
        <3>9. \A b \in Span(d) : D2[b] = D[b] /\ F[b] \subseteq F2[b]
            BY <2>2, <3>1, <3>2, <3>3, <3>4, <3>5, <3>7, Zenon
        <3>10. Carries(d, D2, F2)
            BY <3>6, <3>8, <3>9, CarriesKeeps, Zenon
        <3> QED  BY <3>4, <3>5, <3>7, <3>8, <3>10, Zenon
    <2> QED  BY <2>1, <2>2
<1>6. ASSUME NEW o \in Callers, NEW q \in Callers, o # q, UnderWay(bStrm'[o]), UnderWay(bStrm'[q])
      PROVE  Apart(bStrm'[o], bStrm'[q])
    <2>1. CASE o # s /\ q # s
        BY <1>3, <1>4, <1>6, <2>1, Zenon DEF BlockSound
    <2>2. CASE o = s
        BY <1>4, <1>6, <2>2, Zenon
    <2>3. CASE q = s
        <3>1. Apart(c, bStrm[o])
            BY <1>4, <1>6, <2>3, Zenon
        <3>2. Apart(bStrm[o], c)
            BY <3>1 DEF Apart
        <3> QED  BY <1>4, <1>6, <2>3, <3>2, Zenon
    <2> QED  BY <2>1, <2>2, <2>3
<1> QED  BY <1>1, <1>5, <1>6, Zenon DEF BlockSound, BlockGood

\* A step that leaves the disk alone and ends a call, or none.
LEMMA StreamStepKeeps ==
    ASSUME BlockGood, NEW s \in Callers, NEW c \in BlockStream, bStrm' = [bStrm EXCEPT ![s] = c],
           UNCHANGED <<disk, ref>>, bLeft' \in [calls : Nat, faults : Nat, writes : Nat], ~UnderWay(c)
    PROVE  BlockGood'
<1>1. /\ disk' \in [Block!Bytes -> Byte] /\ ref' \in [Block!Bytes -> SUBSET Byte]
      /\ \A b \in Block!Bytes : disk'[b] \in ref'[b]
    BY Zenon DEF BlockGood, BlockTyped, BlockSound
<1>2. UnderWay(c) => Lies(c) /\ Carries(c, disk', ref')
    OBVIOUS
<1>3. \A o \in Callers : o # s /\ UnderWay(bStrm[o]) =>
         /\ UnderWay(c) => Apart(c, bStrm[o])
         /\ \A b \in Span(bStrm[o]) : disk'[b] = disk[b] /\ ref[b] \subseteq ref'[b]
    BY Zenon
<1> QED  BY <1>1, <1>2, <1>3, BlockStepKeeps, Zenon

LEMMA BlockInitInv == Block!Init => BlockInv
<1> SUFFICES ASSUME Block!Init PROVE BlockInv
    OBVIOUS
<1> USE DEF Block!Init
<1>1. \A b \in Block!Bytes : <<0, b>> \in Byte
    BY DEF Block!Bytes, Byte
<1>2. disk \in [Block!Bytes -> Byte]
    BY <1>1
<1>3. ref \in [Block!Bytes -> SUBSET Byte]
    BY <1>1
<1>4. Block!Closed \in BlockStream
    <2>1. <<>> \in Seq(Byte)
        OBVIOUS
    <2> QED  BY <2>1 DEF Block!Closed, BlockStream
<1>5. bStrm \in [Callers -> BlockStream]
    BY <1>4
<1>6. bLeft \in [calls : Nat, faults : Nat, writes : Nat] /\ bRaced \in BOOLEAN
    BY BlockAssumption
<1>7. \A b \in Block!Bytes : disk[b] \in ref[b]
    OBVIOUS
<1>8. \A s \in Callers : ~UnderWay(bStrm[s])
    <2>1. \A s \in Callers : bStrm[s].pc = "closed"
        BY DEF Block!Closed
    <2> QED  BY <2>1 DEF UnderWay
<1> QED  BY <1>2, <1>3, <1>5, <1>6, <1>7, <1>8, Zenon DEF BlockInv, BlockGood, BlockTyped, BlockSound

LEMMA OpenKeeps ==
    ASSUME BlockGood, NEW s \in Callers, NEW sense, Block!Open(s, sense) PROVE BlockGood'
<1>1. PICK c : c = bStrm[s]
    OBVIOUS
<1>2. c \in BlockStream /\ bStrm \in [Callers -> BlockStream] /\ bLeft \in [calls : Nat, faults : Nat, writes : Nat]
    BY <1>1 DEF BlockGood, BlockTyped
<1>3. c.pc = "closed" /\ UNCHANGED <<disk, ref, bLeft>> /\ c.polls \in Nat
    BY <1>1, <1>2 DEF Block!Open, BlockStream
<1>4. PICK e : /\ e \in BlockStream /\ bStrm' = [bStrm EXCEPT ![s] = e] /\ e.pc \in {"closed", "idle", "failed"}
    <2>1. CASE sense = "none"
        <3>3. PICK e : e = [c EXCEPT !.pc = "idle", !.polls = 0]
            OBVIOUS
        <3>1. bStrm' = [bStrm EXCEPT ![s] = e]
            BY <1>1, <1>2, <3>3, <2>1 DEF Block!Open
        <3>4. e \in BlockStream /\ e.pc = "idle"
            BY <1>2, <1>3, <3>3 DEF BlockStream
        <3> QED  BY <3>1, <3>4
    <2>2. CASE sense # "none" /\ Block!ErrorKind(sense) = "Busy"
        <3>3. PICK e : e = [c EXCEPT !.polls = c.polls + 1]
            OBVIOUS
        <3>1. bStrm' = [bStrm EXCEPT ![s] = e]
            BY <1>1, <1>2, <3>3, <2>2 DEF Block!Open
        <3>2. c.polls + 1 \in Nat
            BY <1>3
        <3>4. e \in BlockStream /\ e.pc = "closed"
            BY <1>2, <1>3, <3>2, <3>3 DEF BlockStream
        <3> QED  BY <3>1, <3>4
    <2>3. CASE sense # "none" /\ Block!ErrorKind(sense) # "Busy"
        <3>3. PICK e : e = [c EXCEPT !.pc = "failed"]
            OBVIOUS
        <3>1. bStrm' = [bStrm EXCEPT ![s] = e]
            BY <1>1, <1>2, <3>3, <2>3 DEF Block!Open
        <3>4. e \in BlockStream /\ e.pc = "failed"
            BY <1>2, <1>3, <3>3 DEF BlockStream
        <3> QED  BY <3>1, <3>4
    <2> QED  BY <2>1, <2>2, <2>3
<1>5. ~UnderWay(e)
    BY <1>4 DEF UnderWay
<1> QED  BY <1>2, <1>3, <1>4, <1>5, StreamStepKeeps, Zenon

LEMMA SeekKeeps ==
    ASSUME BlockGood, NEW s \in Callers, NEW p \in Nat, Block!Seek(s, p) PROVE BlockGood'
<1>1. PICK c : c = bStrm[s]
    OBVIOUS
<1>2. c \in BlockStream /\ bStrm \in [Callers -> BlockStream] /\ bLeft \in [calls : Nat, faults : Nat, writes : Nat]
    BY <1>1 DEF BlockGood, BlockTyped
<1>6. PICK e : e = [c EXCEPT !.pos = p]
    OBVIOUS
<1>3. c.pc = "idle" /\ UNCHANGED <<disk, ref>>
      /\ bStrm' = [bStrm EXCEPT ![s] = e]
    BY <1>1, <1>2, <1>6 DEF Block!Seek
<1>4. bLeft' \in [calls : Nat, faults : Nat, writes : Nat]
    BY <1>2 DEF Block!Seek
<1>5. e \in BlockStream /\ ~UnderWay(e)
    BY <1>2, <1>3, <1>6 DEF BlockStream, UnderWay
<1> QED  BY <1>3, <1>4, <1>5, StreamStepKeeps, Zenon

\* CommandFails and Return.
LEMMA CallEnds ==
    ASSUME BlockGood, NEW s \in Callers, Block!CommandFails(s) \/ Block!Return(s) PROVE BlockGood'
<1>1. PICK c : c = bStrm[s]
    OBVIOUS
<1>2. c \in BlockStream /\ bStrm \in [Callers -> BlockStream] /\ bLeft \in [calls : Nat, faults : Nat, writes : Nat]
    BY <1>1 DEF BlockGood, BlockTyped
<1>3. PICK e : e = [c EXCEPT !.pc = "idle", !.buf = <<>>, !.op = "none"]
    OBVIOUS
<1>4. UNCHANGED <<disk, ref>> /\ bStrm' = [bStrm EXCEPT ![s] = e]
    BY <1>1, <1>2, <1>3 DEF Block!CommandFails, Block!Return
<1>5. bLeft' \in [calls : Nat, faults : Nat, writes : Nat]
    BY <1>2 DEF Block!CommandFails, Block!Return
<1>6. e \in BlockStream /\ ~UnderWay(e)
    <2>1. <<>> \in Seq(Byte)
        OBVIOUS
    <2> QED  BY <1>2, <1>3, <2>1 DEF BlockStream, UnderWay
<1> QED  BY <1>4, <1>5, <1>6, StreamStepKeeps, Zenon

\* A call as it starts: nothing done, and of a write of whole blocks its data.
Fresh(c) ==
    /\ c.pc \in {"load", "move"} /\ c.done = 0 /\ Lies(c)
    /\ c.pc = "move" => c.at = c.lba * BlkSize /\ c.n = c.blocks * BlkSize
    /\ c.pc = "move" /\ c.op = "read" => c.buf = <<>>
    /\ c.pc = "move" /\ c.op = "write" => c.buf = Block!Data(c.id, c.n)

LEMMA FreshCarries ==
    ASSUME NEW c \in BlockStream, Fresh(c), NEW D, NEW F,
           c.op = "write" => \A b \in Window(c) : <<c.id, b - c.at>> \in F[b]
    PROVE  Carries(c, D, F)
<1>1. /\ c.lba \in Nat /\ c.blocks \in Nat /\ c.at \in Nat /\ c.n \in Nat /\ c.done = 0
      /\ c.pc # "returned" /\ c.lba * BlkSize <= c.at
    BY DEF BlockStream, Fresh, Lies
<1>2. ASSUME c.op = "write", c.pc = "move"
      PROVE  /\ Len(c.buf) = c.blocks * BlkSize
             /\ \A b \in Span(c) : LET i == b - c.lba * BlkSize + 1
                                   IN  IF b \in Window(c) THEN c.buf[i] = <<c.id, b - c.at>> ELSE c.buf[i] \in F[b]
             /\ \A b \in Window(c) : b < (c.lba + c.done) * BlkSize => D[b] = <<c.id, b - c.at>>
    <2>1. PICK l \in Nat : l = c.lba * BlkSize
        BY <1>1, BlockAssumption
    <2>2. c.at = l /\ c.n = c.blocks * BlkSize /\ c.buf = [i \in 1..c.n |-> <<c.id, i - 1>>]
        BY <1>2, <2>1 DEF Fresh, Block!Data
    <2>3. Len(c.buf) = c.n
        BY <1>1, <2>2
    <2>4. Span(c) = l .. l + c.n - 1
        <3>1. PICK x \in Int, k \in Int : x = c.lba /\ k = c.blocks
            BY <1>1
        <3>2. (x + k) * BlkSize = x * BlkSize + k * BlkSize
            BY BytesOfMore
        <3>3. (c.lba + c.blocks) * BlkSize = l + c.n
            BY <2>1, <2>2, <3>1, <3>2, Zenon
        <3> QED  BY <1>1, <2>1, <3>3 DEF Span
    <2>5. ASSUME NEW b \in Span(c)
          PROVE  b \in Window(c) /\ c.buf[b - c.lba * BlkSize + 1] = <<c.id, b - c.at>>
        <3>1. PICK j \in 1..c.n : j = b - l + 1 /\ j - 1 = b - l
            BY <1>1, <2>4
        <3>2. c.buf[j] = <<c.id, j - 1>>
            BY <2>2
        <3>3. b \in Window(c)
            BY <2>2, <2>4 DEF Window
        <3> QED  BY <2>1, <2>2, <3>1, <3>2, <3>3, Zenon
    <2>6. ASSUME NEW b \in Window(c), b < (c.lba + c.done) * BlkSize PROVE FALSE
        <3>1. c.lba + c.done = c.lba
            BY <1>1
        <3> QED  BY <1>1, <2>1, <2>2, <2>6, <3>1 DEF Window
    <2> QED  BY <2>2, <2>3, <2>5, <2>6, Zenon
<1>3. ASSUME c.op = "read", c.pc = "move"
      PROVE  /\ Len(c.buf) = c.done * BlkSize
             /\ \A i \in 1..c.done * BlkSize : c.buf[i] \in F[c.lba * BlkSize + i - 1]
    <2>1. c.done * BlkSize = 0
        BY <1>1, BlockAssumption
    <2>2. c.buf = <<>>
        BY <1>3 DEF Fresh
    <2> QED  BY <2>1, <2>2
<1> QED  BY <1>1, <1>2, <1>3, Zenon DEF Carries

LEMMA WindowOnTheUnit ==
    ASSUME NEW c \in BlockStream, Lies(c)
    PROVE  /\ \A b \in Window(c) : b \in Block!Bytes /\ b - c.at \in Nat
           /\ \A b \in Span(c) : b \in Block!Bytes
<1>1. c.lba \in Nat /\ c.blocks \in Nat /\ c.at \in Nat /\ c.n \in Nat
    BY DEF BlockStream
<1>2. PICK l \in Nat, k \in Nat : l = c.lba /\ k = c.blocks
    BY <1>1
<1>3. \A b \in Int : l * BlkSize <= b /\ b < (l + k) * BlkSize => b \in Block!Bytes
    BY <1>2, OnTheUnit DEF Lies
<1>4. PICK x \in Int, y \in Int : x = l * BlkSize /\ y = (l + k) * BlkSize
    BY BlockAssumption
<1>5. \A b \in Window(c) : b \in Block!Bytes /\ b - c.at \in Nat
    <2>1. x <= c.at /\ c.at + c.n <= y
        BY <1>2, <1>4 DEF Lies
    <2> QED  BY <1>1, <1>3, <1>4, <2>1 DEF Window
<1>6. \A b \in Span(c) : b \in Block!Bytes
    <2>1. Span(c) = x .. y - 1
        BY <1>2, <1>4, Zenon DEF Span
    <2> QED  BY <1>3, <1>4, <2>1
<1> QED  BY <1>5, <1>6, Zenon

LEMMA StartBlockKeeps ==
    ASSUME BlockGood, ~bRaced, NEW s \in Callers, NEW c \in BlockStream, Fresh(c), Block!Start(s, c)
    PROVE  bRaced' \/ BlockGood'
<1>1. BlockTyped /\ Lies(c)
    BY DEF BlockGood, Fresh
<1>2. /\ bStrm' = [bStrm EXCEPT ![s] = c] /\ disk' = disk
      /\ bRaced' = (bRaced \/ \E o \in Callers \ {s} :
                       /\ bStrm[o].pc \notin {"closed", "idle", "failed"} /\ "write" \in {bStrm[o].op, c.op}
                       /\ Block!Blocks(bStrm[o]) \cap Block!Blocks(c) # {})
      /\ ref' = IF c.op = "read" THEN ref
                ELSE [b \in Block!Bytes |-> IF b \in Window(c) THEN ref[b] \cup {<<c.id, b - c.at>>} ELSE ref[b]]
    BY Zenon DEF Block!Start, Window
<1>3. SUFFICES ASSUME ~bRaced' PROVE BlockGood'
    OBVIOUS
<1>4. bLeft' \in [calls : Nat, faults : Nat, writes : Nat]
    <2>1. bLeft.calls > 0
          /\ bLeft' = [bLeft EXCEPT !.calls = @ - 1, !.writes = IF c.op = "write" THEN @ + 1 ELSE @]
        BY Zenon DEF Block!Start
    <2>2. PICK k \in {0, 1} : bLeft' = [bLeft EXCEPT !.calls = @ - 1, !.writes = @ + k]
        <3>1. CASE c.op = "write"
            BY <2>1, <3>1
        <3>2. CASE c.op # "write"
            <4>1. bLeft.writes \in Nat /\ bLeft.writes = bLeft.writes + 0
                BY <1>1 DEF BlockTyped
            <4> QED  BY <2>1, <3>2, <4>1, Zenon
        <3> QED  BY <3>1, <3>2
    <2>3. bLeft \in [calls : Nat, faults : Nat, writes : Nat]
        BY <1>1, Zenon DEF BlockTyped
    <2>4. bLeft.calls - 1 \in Nat /\ bLeft.writes + k \in Nat
        BY <2>1, <2>3
    <2> QED  BY <2>2, <2>3, <2>4
<1>5. \A b \in Window(c) : b \in Block!Bytes /\ <<c.id, b - c.at>> \in Byte
    <2>1. c.id \in Nat
        BY DEF BlockStream
    <2> QED  BY <1>1, <2>1, WindowOnTheUnit DEF Byte
<1>6. ref' \in [Block!Bytes -> SUBSET Byte] /\ disk' \in [Block!Bytes -> Byte]
    BY <1>1, <1>2, <1>5 DEF BlockTyped
<1>7. \A b \in Block!Bytes : ref[b] \subseteq ref'[b]
    BY <1>2
<1>8. c.op = "write" => \A b \in Window(c) : <<c.id, b - c.at>> \in ref'[b]
    BY <1>2, <1>5
<1>9. Carries(c, disk', ref')
    <2>1. PICK D : D = disk'
        OBVIOUS
    <2>2. PICK F : F = ref'
        OBVIOUS
    <2>3. Carries(c, D, F)
        BY <1>8, <2>2, FreshCarries, Zenon
    <2> QED  BY <2>1, <2>2, <2>3, Zenon
<1>10. BlockSound
    BY Zenon DEF BlockGood
<1>11. \A b \in Block!Bytes : disk'[b] \in ref'[b]
    BY <1>2, <1>7, <1>10, Zenon DEF BlockSound
<1>12. ASSUME NEW o \in Callers, o # s, UnderWay(bStrm[o])
       PROVE  /\ Apart(c, bStrm[o])
              /\ \A b \in Span(bStrm[o]) : disk'[b] = disk[b] /\ ref[b] \subseteq ref'[b]
    <2>1. PICK d : d = bStrm[o]
        OBVIOUS
    <2>2. d \in BlockStream /\ Lies(d)
        BY <1>1, <1>10, <1>12, <2>1, Zenon DEF BlockTyped, BlockSound
    <2>3. \A b \in Span(d) : b \in Block!Bytes
        BY <2>2, WindowOnTheUnit, Zenon
    <2>4. d.pc \notin {"closed", "idle", "failed"}
        BY <1>12, <2>1 DEF UnderWay
    <2>5. "write" \in {d.op, c.op} => Block!Blocks(d) \cap Block!Blocks(c) = {}
        BY <1>2, <1>3, <1>12, <2>1, <2>4, Zenon
    <2>6. Apart(c, d)
        BY <2>5 DEF Apart
    <2> QED  BY <1>2, <1>7, <2>1, <2>3, <2>6, Zenon
<1> QED  BY <1>1, <1>2, <1>4, <1>6, <1>9, <1>11, <1>12, BlockStepKeeps, Zenon

\* What ends within the unit's bytes is within its blocks.
LEMMA FitsTheUnit ==
    ASSUME NEW l \in Nat
    PROVE  /\ l * BlkSize <= BlkCount * BlkSize => l <= BlkCount
           /\ l * BlkSize < BlkCount * BlkSize => l + 1 <= BlkCount
<1>1. ASSUME BlkCount + 1 <= l PROVE BlkCount * BlkSize < l * BlkSize
    <2>1. (BlkCount + 1) * BlkSize <= l * BlkSize /\ (BlkCount + 1) * BlkSize \in Int /\ l * BlkSize \in Int
        BY <1>1, BytesOf, BlockAssumption
    <2>2. (BlkCount + 1) * BlkSize = BlkCount * BlkSize + BlkSize /\ BlkCount * BlkSize \in Int
        BY BytesOfMore, BlockAssumption
    <2> QED  BY <2>1, <2>2, BlockAssumption
<1>2. ASSUME BlkCount <= l PROVE BlkCount * BlkSize <= l * BlkSize
    BY <1>2, BytesOf, BlockAssumption
<1>3. PICK x \in Int, y \in Int : x = l * BlkSize /\ y = BlkCount * BlkSize
    BY BlockAssumption
<1> QED  BY <1>1, <1>2, <1>3, BlockAssumption

LEMMA BlockCallKeeps ==
    ASSUME BlockGood, ~bRaced, NEW s \in Callers, NEW op \in {"read", "write"}, NEW lba \in Nat, NEW len \in Nat,
           Block!BlockCall(s, op, lba, len)
    PROVE  bRaced' \/ BlockGood'
<1>1. PICK c : c = bStrm[s]
    OBVIOUS
<1>2. c \in BlockStream /\ bLeft.writes + 1 \in Nat
    BY <1>1 DEF BlockGood, BlockTyped
<1>3. PICK k \in Nat : k = len \div BlkSize /\ len = k * BlkSize /\ k >= 1
    <2>1. PICK q \in Nat, r \in 0..(BlkSize - 1) : /\ q = len \div BlkSize /\ r = len % BlkSize
                                                   /\ len = q * BlkSize + r
        BY BlockOf
    <2>2. r = 0 /\ len > 0
        BY <2>1 DEF Block!BlockCall
    <2>3. len = q * BlkSize /\ q * BlkSize \in Nat
        BY <2>1, <2>2, BlockAssumption
    <2>4. q # 0
        <3>1. ASSUME q = 0 PROVE q * BlkSize = 0
            BY <3>1, BlockAssumption
        <3> QED  BY <2>2, <2>3, <3>1
    <2> QED  BY <2>1, <2>3, <2>4
<1>4. lba + k <= BlkCount
    BY <1>3, ReadCapacityIs DEF Block!BlockCall
<1>5. PICK id \in Nat, at \in Nat : id = bLeft.writes + 1 /\ at = lba * BlkSize
    BY <1>2, BlockAssumption
<1>6. PICK e : e = [c EXCEPT !.pc = "move", !.op = op, !.id = id, !.at = at, !.n = len, !.lba = lba,
                             !.blocks = k, !.done = 0, !.seek = FALSE,
                             !.buf = IF op = "write" THEN Block!Data(id, len) ELSE <<>>]
    OBVIOUS
<1>7. Block!Start(s, e)
    BY <1>1, <1>3, <1>5, <1>6, Zenon DEF Block!BlockCall
<1>8. PICK data \in Seq(Byte) : data = IF op = "write" THEN Block!Data(id, len) ELSE <<>>
    <2>1. Block!Data(id, len) \in Seq(Byte)
        BY <1>5 DEF Block!Data, Byte
    <2>2. <<>> \in Seq(Byte)
        OBVIOUS
    <2> QED  BY <2>1, <2>2, Zenon
<1>9. e = [c EXCEPT !.pc = "move", !.op = op, !.id = id, !.at = at, !.n = len, !.lba = lba,
                    !.blocks = k, !.done = 0, !.seek = FALSE, !.buf = data]
    BY <1>6, <1>8, Zenon
<1>10. e \in BlockStream
    BY <1>2, <1>9 DEF BlockStream
<1>11. /\ e.pc = "move" /\ e.op = op /\ e.id = id /\ e.at = at /\ e.n = len /\ e.lba = lba
       /\ e.blocks = k /\ e.done = 0 /\ e.buf = data
    BY <1>2, <1>9 DEF BlockStream
<1>12. at + len = (lba + k) * BlkSize
    BY <1>3, <1>5, BytesOfMore
<1>13. Lies(e)
    <2>1. e.lba * BlkSize = at /\ (e.lba + e.blocks) * BlkSize = at + len
        BY <1>5, <1>11, <1>12, Zenon
    <2>2. e.n = e.blocks * BlkSize
        BY <1>3, <1>11, Zenon
    <2>3. at <= at /\ at + len <= at + len
        OBVIOUS
    <2>4. e.lba * BlkSize <= e.at /\ e.at + e.n <= (e.lba + e.blocks) * BlkSize
        BY <1>11, <2>1, <2>3, Zenon
    <2>5. e.op \in {"read", "write"} /\ e.blocks >= 1 /\ e.lba + e.blocks <= BlkCount /\ e.done < e.blocks
          /\ e.pc # "load"
        <3>1. k >= 1
            BY <1>3, Zenon
        <3> QED  BY <1>4, <1>11, <3>1
    <2> QED  BY <1>11, <2>1, <2>2, <2>4, <2>5, Zenon DEF Lies
<1>14. Fresh(e)
    BY <1>3, <1>5, <1>8, <1>11, <1>13, Zenon DEF Fresh
<1> QED  BY <1>7, <1>10, <1>14, StartBlockKeeps, Zenon

LEMMA CallKeeps ==
    ASSUME BlockGood, ~bRaced, NEW s \in Callers, NEW op \in {"read", "write"}, NEW len \in Nat,
           Block!Call(s, op, len)
    PROVE  bRaced' \/ BlockGood'
<1>1. PICK c : c = bStrm[s]
    OBVIOUS
<1>2. c \in BlockStream /\ bLeft.writes + 1 \in Nat
    BY <1>1 DEF BlockGood, BlockTyped
<1>3. PICK at \in Nat : at = c.pos
    BY <1>2 DEF BlockStream
<1>4. PICK l \in Nat, off \in 0..(BlkSize - 1) : l = at \div BlkSize /\ off = at % BlkSize /\ at = l * BlkSize + off
    BY BlockOf
<1>5. PICK size \in Nat : size = BlkCount * BlkSize
    BY BlockAssumption
<1>6. PICK rest \in Nat : rest = Block!Remaining(c) /\ rest = size - at /\ rest > 0 /\ len > 0
    <2>1. Block!Remaining(c) = IF size - at > 0 THEN size - at ELSE 0
        BY <1>3, <1>5, ReadCapacityIs DEF Block!Remaining, Block!Most
    <2>2. Block!Remaining(c) > 0 /\ len > 0
        BY <1>1 DEF Block!Call
    <2> QED  BY <2>1, <2>2
<1>7. PICK least \in Nat : least = Block!Least(len, rest) /\ least <= len /\ least <= rest /\ least >= 1
    <2>1. Block!Least(len, rest) = IF len < rest THEN len ELSE rest
        BY DEF Block!Least
    <2>2. rest > 0 /\ len > 0
        BY <1>6
    <2> QED  BY <2>1, <2>2
<1>8. PICK direct \in Nat : /\ direct = Block!DirectBlocks(c, len)
                            /\ direct > 0 => off = 0 /\ direct * BlkSize <= rest
    <2>1. PICK q \in Nat, r \in 0..(BlkSize - 1) : /\ q = least \div BlkSize /\ r = least % BlkSize
                                                   /\ least = q * BlkSize + r
        BY BlockOf
    <2>2. Block!DirectBlocks(c, len) = IF off # 0 THEN 0 ELSE q
        <3>1. Block!DirectBlocks(c, len) =
                IF c.pos % BlkSize # 0 THEN 0 ELSE Block!Least(len, Block!Remaining(c)) \div BlkSize
            BY Zenon DEF Block!DirectBlocks
        <3>2. Block!Least(len, Block!Remaining(c)) = least
            BY <1>6, <1>7, Zenon
        <3>3. c.pos % BlkSize = off
            BY <1>3, <1>4, Zenon
        <3> QED  BY <2>1, <3>1, <3>2, <3>3, Zenon
    <2>3. q * BlkSize <= rest /\ q * BlkSize \in Int
        <3>1. PICK x \in Int : x = q * BlkSize
            BY BlockAssumption
        <3> QED  BY <1>7, <2>1, <3>1
    <2> QED  BY <2>2, <2>3
<1>9. PICK n \in Nat : /\ n = IF direct > 0 THEN direct * BlkSize
                              ELSE Block!Least(Block!Least(BlkSize - off, len), rest)
                       /\ direct = 0 => n <= BlkSize - off /\ n <= rest /\ n >= 1
    <2>1. BlkSize - off \in Nat \ {0} /\ direct * BlkSize \in Nat
        BY BlockAssumption
    <2> QED  BY <1>6, <2>1 DEF Block!Least
<1>10. PICK id \in Nat, pc \in {"load", "move"}, k \in Nat \ {0} :
          /\ id = bLeft.writes + 1
          /\ pc = IF direct > 0 THEN "move" ELSE "load"
          /\ k = IF direct > 0 THEN direct ELSE 1
    BY <1>2
<1>20. PICK data : data = IF direct > 0 /\ op = "write" THEN Block!Data(id, n) ELSE <<>>
    OBVIOUS
<1>11. data \in Seq(Byte)
    <2>1. Block!Data(id, n) \in Seq(Byte)
        BY DEF Block!Data, Byte
    <2>2. <<>> \in Seq(Byte)
        OBVIOUS
    <2> QED  BY <1>20, <2>1, <2>2, Zenon
<1>12. PICK e : e = [c EXCEPT !.pc = pc, !.op = op, !.id = id, !.at = at, !.n = n, !.lba = l,
                              !.blocks = k, !.done = 0, !.seek = TRUE, !.buf = data]
    OBVIOUS
<1>13. Block!Start(s, e)
    BY <1>1, <1>3, <1>4, <1>6, <1>8, <1>9, <1>10, <1>12, <1>20, Zenon DEF Block!Call
<1>14. e \in BlockStream
    BY <1>2, <1>11, <1>12 DEF BlockStream
<1>15. /\ e.pc = pc /\ e.op = op /\ e.id = id /\ e.at = at /\ e.n = n /\ e.lba = l
       /\ e.blocks = k /\ e.done = 0 /\ e.buf = data
    BY <1>2, <1>12 DEF BlockStream
<1>16. /\ l * BlkSize \in Int /\ l * BlkSize <= at /\ (l + k) * BlkSize \in Int
       /\ at + n <= (l + k) * BlkSize /\ l + k <= BlkCount
    <2>1. (l + k) * BlkSize = l * BlkSize + k * BlkSize /\ l * BlkSize \in Int /\ k * BlkSize \in Int
        BY BytesOfMore, BlockAssumption
    <2>2. CASE direct > 0
        <3>1. k = direct /\ n = k * BlkSize /\ off = 0 /\ n <= rest
            BY <1>8, <1>9, <1>10, <2>2
        <3>2. (l + k) * BlkSize <= size
            BY <1>4, <1>6, <2>1, <3>1
        <3>3. l + k <= BlkCount
            <4>1. l + k \in Nat
                OBVIOUS
            <4> QED  BY <1>5, <3>2, <4>1, FitsTheUnit, Zenon
        <3> QED  BY <1>4, <2>1, <3>1, <3>3
    <2>3. CASE direct = 0
        <3>1. k = 1 /\ n <= BlkSize - off /\ k * BlkSize = BlkSize
            BY <1>9, <1>10, <2>3, BlockAssumption
        <3>2. l * BlkSize < size
            BY <1>4, <1>6, <2>1
        <3>3. l + 1 <= BlkCount
            BY <1>5, <3>2, FitsTheUnit, Zenon
        <3>4. PICK x \in Int, y \in Int : x = l * BlkSize /\ y = (l + k) * BlkSize /\ y = x + BlkSize
            BY <2>1, <3>1, BlockAssumption
        <3>5. x <= at /\ at + n <= y
            BY <1>4, <3>1, <3>4, BlockAssumption
        <3> QED  BY <3>1, <3>3, <3>4, <3>5
    <2> QED  BY <2>2, <2>3
<1>17. Lies(e)
    <2>1. e.lba * BlkSize = l * BlkSize /\ (e.lba + e.blocks) * BlkSize = (l + k) * BlkSize
        BY <1>15, Zenon
    <2>2. e.lba * BlkSize <= at /\ at + n <= (e.lba + e.blocks) * BlkSize
        BY <1>16, <2>1, Zenon
    <2>3. pc = "load" => k = 1 /\ n >= 1
        BY <1>9, <1>10
    <2>4. pc = "move" => at = l * BlkSize /\ n = k * BlkSize
        <3>1. direct > 0 => at = l * BlkSize
            BY <1>4, <1>8, BlockAssumption
        <3> QED  BY <1>9, <1>10, <3>1
    <2>5. e.pc = "move" => e.at = e.lba * BlkSize /\ e.n = e.blocks * BlkSize
        BY <1>15, <2>4, Zenon
    <2> QED  BY <1>15, <1>16, <2>2, <2>3, <2>5 DEF Lies
<1>18. pc = "move" => at = l * BlkSize /\ n = k * BlkSize
    <2>1. direct > 0 => at = l * BlkSize
        BY <1>4, <1>8, BlockAssumption
    <2> QED  BY <1>9, <1>10, <2>1
<1>19. Fresh(e)
    BY <1>10, <1>15, <1>17, <1>18, <1>20, Zenon DEF Fresh
<1> QED  BY <1>13, <1>14, <1>19, StartBlockKeeps, Zenon

\* A slice of a buffer.
LEMMA SliceIs ==
    ASSUME NEW u \in Seq(Byte), NEW m \in Nat, NEW n \in Nat, m + n <= Len(u)
    PROVE  /\ SubSeq(u, m + 1, m + n) \in Seq(Byte) /\ Len(SubSeq(u, m + 1, m + n)) = n
           /\ \A i \in 1..n : SubSeq(u, m + 1, m + n)[i] = u[m + i]
<1>1. SubSeq(u, m + 1, m + n) \in Seq(Byte) /\ Len(SubSeq(u, m + 1, m + n)) = n
    OBVIOUS
<1>2. \A i \in 1..n : SubSeq(u, m + 1, m + n)[i] = u[m + i]
    OBVIOUS
<1> QED  BY <1>1, <1>2, Zenon

\* What a command reads.
LEMMA ReadsAre ==
    ASSUME BlockTyped, NEW lba \in Nat, NEW k \in Nat, lba + k <= BlkCount
    PROVE  LET v == Block!DeviceReads([lba |-> lba, blocks |-> k])
           IN  /\ v \in Seq(Byte) /\ Len(v) = k * BlkSize
               /\ \A i \in 1..k * BlkSize : v[i] = disk[lba * BlkSize + i - 1]
<1>0. PICK v : v = Block!DeviceReads([lba |-> lba, blocks |-> k])
    OBVIOUS
<1>1. PICK w \in Nat, p \in Nat : w = k * BlkSize /\ p = lba * BlkSize
    BY BlockAssumption
<1>2. v = [i \in 1..w |-> disk[p + i - 1]]
    BY <1>0, <1>1, Zenon DEF Block!DeviceReads
<1>3. \A b \in Int : p <= b /\ b < (lba + k) * BlkSize => b \in Block!Bytes
    BY <1>1, OnTheUnit
<1>4. (lba + k) * BlkSize = p + w
    BY <1>1, BytesOfMore
<1>5. \A i \in 1..w : p + i - 1 \in Block!Bytes
    BY <1>3, <1>4
<1>6. \A i \in 1..w : disk[p + i - 1] \in Byte
    BY <1>5, Zenon DEF BlockTyped
<1>7. PICK f : f = [i \in 1..w |-> disk[p + i - 1]]
    OBVIOUS
<1>8. \A i \in 1..w : f[i] = disk[p + i - 1] /\ f[i] \in Byte
    BY <1>6, <1>7, Zenon
<1>9. f \in [1..w -> Byte]
    BY <1>6, <1>7, Zenon
<1>10. f \in Seq(Byte) /\ Len(f) = w
    BY <1>9
<1> QED  BY <1>0, <1>1, <1>2, <1>7, <1>8, <1>10, Zenon

LEMMA LoadKeeps ==
    ASSUME BlockGood, NEW s \in Callers, Block!Load(s) PROVE BlockGood'
<1>1. PICK c : c = bStrm[s]
    OBVIOUS
<1>2. c \in BlockStream /\ BlockTyped /\ BlockSound
    BY <1>1 DEF BlockGood, BlockTyped
<1>3. c.pc = "load" /\ UNCHANGED <<disk, ref, bLeft>> /\ UnderWay(c)
    BY <1>1, Zenon DEF Block!Load, UnderWay
<1>4. /\ c.lba \in Nat /\ c.blocks \in Nat /\ c.at \in Nat /\ c.n \in Nat /\ c.id \in Nat /\ c.pos \in Nat
    BY <1>2 DEF BlockStream
<1>5. PICK D : D = disk
    OBVIOUS
<1>6. PICK F : F = ref
    OBVIOUS
<1>7. Lies(c) /\ Carries(c, D, F) /\ \A b \in Block!Bytes : D[b] \in F[b]
    BY <1>1, <1>2, <1>3, <1>5, <1>6, Zenon DEF BlockSound
<1>8. c.blocks = 1 /\ c.done = 0 /\ c.n >= 1 /\ c.lba + 1 <= BlkCount /\ c.op \in {"read", "write"}
    BY <1>3, <1>7 DEF Lies
<1>9. PICK block \in Seq(Byte), l \in Nat, B \in Nat \ {0} :
         /\ block = Block!DeviceReads(Block!RwCdb(c.lba, 1)) /\ l = c.lba * BlkSize /\ B = BlkSize
         /\ Len(block) = B /\ \A i \in 1..B : block[i] = D[l + i - 1]
    <2>1. PICK x \in Nat, k \in Nat : x = c.lba /\ k = 1 /\ x + k <= BlkCount
        BY <1>4, <1>8
    <2>2. Block!RwCdb(c.lba, 1) = [lba |-> x, blocks |-> k]
        BY <2>1, RwCdbIs
    <2>3. PICK block : block = Block!DeviceReads([lba |-> x, blocks |-> k])
        OBVIOUS
    <2>4. /\ block \in Seq(Byte) /\ Len(block) = k * BlkSize
          /\ \A i \in 1..k * BlkSize : block[i] = disk[x * BlkSize + i - 1]
        <3>1. x \in Nat /\ k \in Nat /\ BlockTyped /\ x + k <= BlkCount
            BY <1>2, <2>1
        <3> QED  BY <2>3, <3>1, ReadsAre, Zenon
    <2>5. PICK l \in Nat, B \in Nat \ {0} : l = x * BlkSize /\ B = BlkSize /\ k * BlkSize = B
        BY <2>1, BlockAssumption
    <2>6. /\ block = Block!DeviceReads(Block!RwCdb(c.lba, 1)) /\ l = c.lba * BlkSize /\ B = BlkSize
          /\ Len(block) = B /\ \A i \in 1..B : block[i] = D[l + i - 1]
        BY <1>5, <2>1, <2>2, <2>3, <2>4, <2>5, Zenon
    <2> QED  BY <2>4, <2>5, <2>6
<1>10. Span(c) = l .. l + B - 1 /\ l <= c.at /\ c.at + c.n <= l + B
    <2>1. PICK x \in Int : x = c.lba
        BY <1>4
    <2>2. 1 \in Int
        OBVIOUS
    <2>3. (x + 1) * BlkSize = x * BlkSize + BlkSize
        BY <2>1, <2>2, BytesOfMore, Zenon
    <2>4. (c.lba + c.blocks) * BlkSize = l + B
        BY <1>8, <1>9, <2>1, <2>3, Zenon
    <2>5. /\ Span(c) = c.lba * BlkSize .. (c.lba + c.blocks) * BlkSize - 1
          /\ c.lba * BlkSize <= c.at /\ c.at + c.n <= (c.lba + c.blocks) * BlkSize
        BY <1>7, Zenon DEF Span, Lies
    <2>6. PICK y : y = (c.lba + c.blocks) * BlkSize
        OBVIOUS
    <2>7. y = l + B /\ Span(c) = l .. y - 1 /\ l <= c.at /\ c.at + c.n <= y
        BY <1>9, <2>4, <2>5, <2>6, Zenon
    <2> QED  BY <2>7
<1>11. PICK off \in Nat : off = c.at % BlkSize /\ off < B /\ c.at = l + off
    <2>1. PICK q \in Nat, r \in 0..(BlkSize - 1) : /\ q = c.at \div BlkSize /\ r = c.at % BlkSize
                                                   /\ c.at = q * BlkSize + r
        BY <1>4, BlockOf, Zenon
    <2>2. PICK y \in Nat : y = q * BlkSize
        BY <1>9
    <2>3. c.at = y + r
        BY <2>1, <2>2, Zenon
    <2>4. r \in Nat /\ r < B
        BY <1>9, <2>1
    <2>5. y <= c.at /\ c.at < y + B
        BY <2>3, <2>4
    <2>6. ASSUME q # c.lba PROVE FALSE
        <3>1. (c.lba .. c.lba + 1 - 1) \cap (q .. q + 1 - 1) = {}
            BY <1>4, <2>6
        <3>2. l <= c.at /\ c.at < l + B
            BY <1>4, <1>8, <1>10
        <3>3. 1 \in Nat /\ 1 \in Int /\ q \in Int /\ c.lba \in Int
            BY <1>4
        <3>4. (c.lba + 1) * BlkSize = l + B
            BY <1>9, <3>3, BytesOfMore, Zenon
        <3>5. (q + 1) * BlkSize = y + B
            BY <1>9, <2>2, <3>3, BytesOfMore, Zenon
        <3>6. /\ c.lba * BlkSize <= c.at /\ c.at < (c.lba + 1) * BlkSize
              /\ q * BlkSize <= c.at /\ c.at < (q + 1) * BlkSize
            BY <1>9, <2>2, <2>5, <3>2, <3>4, <3>5, Zenon
        <3> QED  BY <1>4, <3>1, <3>3, <3>6, SpansApart, Zenon
    <2> QED  BY <1>9, <2>1, <2>2, <2>3, <2>4, <2>6, Zenon
<1>12. /\ c.at = l + off /\ off < B /\ off + c.n <= B /\ Len(block) = B
       /\ \A i \in 1..B : block[i] = D[l + i - 1]
    <2>1. c.at = l + off /\ off < B
        BY <1>11, Zenon
    <2>2. off + c.n <= B
        BY <1>4, <1>10, <2>1
    <2> QED  BY <1>9, <2>1, <2>2, Zenon
<1>14. \A b \in Span(c) : D[b] \in F[b]
    BY <1>2, <1>7, WindowOnTheUnit, Zenon
<1>15. PICK e \in BlockStream : bStrm' = [bStrm EXCEPT ![s] = e] /\ e.op = c.op /\ e.lba = c.lba
                                /\ e.blocks = c.blocks /\ UnderWay(e) /\ Lies(e) /\ Carries(e, D, F)
    <2>1. CASE c.op = "read"
        <3>1. PICK u : u = SubSeq(block, off + 1, off + c.n)
            OBVIOUS
        <3>2. u \in Seq(Byte) /\ Len(u) = c.n /\ \A i \in 1..c.n : u[i] = block[off + i]
            <4>1. off + c.n <= Len(block)
                BY <1>12
            <4>2. block \in Seq(Byte) /\ off \in Nat /\ c.n \in Nat
                BY <1>4, <1>9, <1>11
            <4>3. /\ SubSeq(block, off + 1, off + c.n) \in Seq(Byte) /\ Len(SubSeq(block, off + 1, off + c.n)) = c.n
                  /\ \A i \in 1..c.n : SubSeq(block, off + 1, off + c.n)[i] = block[off + i]
                BY <4>1, <4>2, SliceIs, Zenon
            <4> QED  BY <3>1, <4>3, Zenon
        <3>3. PICK e : e = [c EXCEPT !.pc = "returned", !.pos = @ + c.n, !.scratch = block, !.buf = u]
            OBVIOUS
        <3>4. bStrm' = [bStrm EXCEPT ![s] = e]
            <4>1. bStrm' = [bStrm EXCEPT ![s].pc = "returned", ![s].pos = @ + c.n,
                                         ![s].scratch = block, ![s].buf = u]
                BY <1>1, <1>9, <1>11, <2>1, <3>1, Zenon DEF Block!Load
            <4>2. bStrm \in [Callers -> BlockStream]
                BY <1>2, Zenon DEF BlockTyped
            <4>3. bStrm[s] = c /\ c.pos \in Nat /\ c \in BlockStream
                BY <1>1, <1>2, <1>4, Zenon
            <4>4. bStrm' = [bStrm EXCEPT ![s] = [c EXCEPT !.pc = "returned", !.pos = c.pos + c.n,
                                                          !.scratch = block, !.buf = u]]
                BY <4>1, <4>2, <4>3 DEF BlockStream
            <4> QED  BY <3>3, <4>4
        <3>5. e \in BlockStream
            <4>1. PICK p \in Nat : p = c.pos + c.n
                BY <1>4
            <4>2. e = [c EXCEPT !.pc = "returned", !.pos = p, !.scratch = block, !.buf = u]
                BY <1>2, <3>3, <4>1 DEF BlockStream
            <4>3. block \in Seq(Byte) /\ u \in Seq(Byte) /\ "returned" \in {"closed", "idle", "failed", "load", "move", "returned"}
                BY <1>9, <3>2
            <4> QED  BY <1>2, <4>2, <4>3 DEF BlockStream
        <3>6. /\ e.pc = "returned" /\ e.op = c.op /\ e.lba = c.lba /\ e.blocks = c.blocks /\ e.at = c.at
              /\ e.n = c.n /\ e.buf = u
            BY <1>2, <3>3 DEF BlockStream
        <3>7. Lies(e)
            BY <1>7, <3>6, Zenon DEF Lies
        <3>8. ASSUME NEW i \in 1..c.n PROVE u[i] \in F[c.at + i - 1]
            <4>1. PICK j \in 1..B : j = off + i
                BY <1>4, <1>12
            <4>2. u[i] = D[l + j - 1]
                BY <1>12, <3>2, <4>1, Zenon
            <4>3. l + j - 1 = c.at + i - 1 /\ l + j - 1 \in Span(c)
                BY <1>4, <1>10, <1>12, <4>1
            <4> QED  BY <1>14, <4>2, <4>3, Zenon
        <3>9. Carries(e, D, F)
            BY <2>1, <3>2, <3>6, <3>8, Zenon DEF Carries
        <3> QED  BY <3>4, <3>5, <3>6, <3>7, <3>9, Zenon DEF UnderWay
    <2>2. CASE c.op = "write"
        <3>1. PICK u : u = [i \in 1..B |->
                               IF i \in off + 1 .. off + c.n THEN <<c.id, i - 1 - off>> ELSE block[i]]
            OBVIOUS
        <3>2. u \in Seq(Byte) /\ Len(u) = B
            <4>1. \A i \in 1..B : block[i] \in Byte
                BY <1>12, ElementOfSeq
            <4>2. \A i \in off + 1 .. off + c.n : <<c.id, i - 1 - off>> \in Byte
                BY <1>4 DEF Byte
            <4>3. u \in [1..B -> Byte]
                BY <3>1, <4>1, <4>2
            <4> QED  BY <4>3
        <3>3. PICK e : e = [c EXCEPT !.pc = "move", !.scratch = block, !.buf = u]
            OBVIOUS
        <3>4. bStrm' = [bStrm EXCEPT ![s] = e]
            <4>1. c.op # "read"
                BY <2>2
            <4>2. bStrm' = [bStrm EXCEPT ![s].pc = "move", ![s].scratch = block, ![s].buf = u]
                BY <1>1, <1>9, <1>11, <3>1, <4>1, Zenon DEF Block!Load
            <4>3. bStrm \in [Callers -> BlockStream]
                BY <1>2, Zenon DEF BlockTyped
            <4> QED  BY <1>1, <3>3, <4>2, <4>3
        <3>5. e \in BlockStream
            BY <1>2, <1>4, <3>2, <3>3 DEF BlockStream
        <3>6. /\ e.pc = "move" /\ e.op = c.op /\ e.lba = c.lba /\ e.blocks = c.blocks /\ e.at = c.at
              /\ e.n = c.n /\ e.buf = u /\ e.done = 0 /\ e.id = c.id
            BY <1>2, <1>8, <3>3 DEF BlockStream
        <3>7. Lies(e)
            <4>1. e.done < e.blocks
                BY <1>8, <3>6
            <4> QED  BY <1>7, <2>2, <3>6, <4>1, Zenon DEF Lies
        <3>8. \A b \in Window(e) : <<e.id, b - e.at>> \in F[b]
            BY <1>3, <1>7, <2>2, <3>6, Zenon DEF Carries, Window
        <3>9. ASSUME NEW b \in Span(e)
              PROVE  LET i == b - e.lba * BlkSize + 1
                     IN  IF b \in Window(e) THEN e.buf[i] = <<e.id, b - e.at>> ELSE e.buf[i] \in F[b]
            <4>1. b \in Span(c)
                BY <3>6, Zenon DEF Span
            <4>2. b \in l .. l + B - 1
                BY <1>10, <4>1, Zenon
            <4>3. PICK i \in 1..B : i = b - l + 1 /\ i - 1 - off = b - c.at /\ l + i - 1 = b
                BY <1>4, <1>12, <4>2
            <4>4. b \in Window(e) <=> i \in off + 1 .. off + c.n
                BY <1>4, <1>12, <3>6, <4>2, <4>3 DEF Window
            <4>5. u[i] = IF b \in Window(e) THEN <<c.id, b - c.at>> ELSE D[b]
                BY <1>12, <3>1, <4>3, <4>4, Zenon
            <4>6. D[b] \in F[b]
                BY <1>14, <4>1, Zenon
            <4> QED  BY <1>9, <3>6, <4>3, <4>5, <4>6, Zenon
        <3>10. ASSUME NEW b \in Window(e), b < (e.lba + e.done) * BlkSize PROVE FALSE
            <4>1. e.lba + e.done = c.lba
                BY <1>4, <3>6
            <4>2. b < l
                BY <1>9, <3>10, <4>1, Zenon
            <4>3. b >= c.at /\ b \in Int
                BY <1>4, <3>6 DEF Window
            <4> QED  BY <1>4, <1>10, <4>2, <4>3
        <3>11. Len(e.buf) = e.blocks * BlkSize
            <4>1. 1 * BlkSize = B
                BY <1>9
            <4> QED  BY <1>8, <3>2, <3>6, <4>1, Zenon
        <3>12. Carries(e, D, F)
            BY <2>2, <3>6, <3>8, <3>9, <3>10, <3>11, Zenon DEF Carries
        <3> QED  BY <3>4, <3>5, <3>6, <3>7, <3>12, Zenon DEF UnderWay
    <2> QED  BY <1>8, <2>1, <2>2
<1>16. /\ disk' \in [Block!Bytes -> Byte] /\ ref' \in [Block!Bytes -> SUBSET Byte]
       /\ bLeft' \in [calls : Nat, faults : Nat, writes : Nat]
       /\ \A b \in Block!Bytes : disk'[b] \in ref'[b]
    BY <1>2, <1>3, Zenon DEF BlockTyped, BlockSound
<1>17. Lies(e) /\ Carries(e, disk', ref')
    BY <1>3, <1>5, <1>6, <1>15, Zenon
<1>18. ASSUME NEW o \in Callers, o # s, UnderWay(bStrm[o])
       PROVE  /\ Apart(e, bStrm[o])
              /\ \A b \in Span(bStrm[o]) : disk'[b] = disk[b] /\ ref[b] \subseteq ref'[b]
    <2>1. Apart(c, bStrm[o])
        BY <1>1, <1>2, <1>3, <1>18, Zenon DEF BlockSound
    <2>2. Apart(e, bStrm[o])
        BY <1>15, <2>1, Zenon DEF Apart, Block!Blocks
    <2> QED  BY <1>3, <2>2, Zenon
<1> QED  BY <1>15, <1>16, <1>17, <1>18, BlockStepKeeps, Zenon

\* Where the command under way moves its blocks.
LEMMA MoveNumbers ==
    ASSUME NEW c \in BlockStream, Lies(c), NEW k \in Nat \ {0}, c.done + k <= c.blocks
    PROVE  \E l \in Nat, d \in Nat, w \in Nat, e \in Nat :
              /\ l = c.lba * BlkSize /\ d = c.done * BlkSize /\ w = k * BlkSize
              /\ e = (c.lba + c.blocks) * BlkSize /\ Span(c) = l .. e - 1
              /\ (c.lba + c.done) * BlkSize = l + d /\ ((c.lba + c.done) + k) * BlkSize = l + d + w
              /\ (c.done + k) * BlkSize = d + w /\ c.blocks * BlkSize = e - l
              /\ l + d + w <= e /\ (c.done + k = c.blocks => l + d + w = e)
              /\ l <= c.at /\ c.at + c.n <= e
<1>1. PICK x \in Nat, y \in Nat, z \in Nat : x = c.lba /\ y = c.done /\ z = c.blocks
    BY DEF BlockStream
<1>2. PICK l \in Nat, d \in Nat, w \in Nat, v \in Nat :
         l = x * BlkSize /\ d = y * BlkSize /\ w = k * BlkSize /\ v = z * BlkSize
    <2>1. PICK B \in Nat : B = BlkSize
        BY BlockAssumption
    <2>2. x * B \in Nat /\ y * B \in Nat /\ k * B \in Nat /\ z * B \in Nat
        OBVIOUS
    <2> QED  BY <2>1, <2>2, Zenon
<1>3. x \in Int /\ y \in Int /\ z \in Int /\ k \in Int /\ x + y \in Int /\ y + k \in Int
    BY <1>1
<1>4. (x + y) * BlkSize = l + d /\ (x + z) * BlkSize = l + v /\ (y + k) * BlkSize = d + w
    BY <1>2, <1>3, BytesOfMore, Zenon
<1>5. ((x + y) + k) * BlkSize = l + d + w
    BY <1>2, <1>3, <1>4, BytesOfMore, Zenon
<1>6. d + w <= v /\ (y + k = z => d + w = v)
    <2>1. y + k <= z
        BY <1>1, Zenon
    <2>2. (y + k) * BlkSize <= z * BlkSize
        BY <1>3, <2>1, BytesOf, Zenon
    <2> QED  BY <1>2, <1>4, <2>2, Zenon
<1>7. PICK e \in Nat : e = l + v
    BY <1>2
<1>8. /\ e = (c.lba + c.blocks) * BlkSize /\ Span(c) = l .. e - 1 /\ l <= c.at /\ c.at + c.n <= e
    BY <1>1, <1>2, <1>4, <1>7, Zenon DEF Span, Lies
<1>9. l + d + w <= e /\ v = e - l /\ (y + k = z => l + d + w = e)
    BY <1>2, <1>6, <1>7
<1>10. /\ l = c.lba * BlkSize /\ d = c.done * BlkSize /\ w = k * BlkSize
       /\ (c.lba + c.done) * BlkSize = l + d /\ ((c.lba + c.done) + k) * BlkSize = l + d + w
       /\ (c.done + k) * BlkSize = d + w /\ c.blocks * BlkSize = e - l
       /\ l + d + w <= e /\ (c.done + k = c.blocks => l + d + w = e)
    BY <1>1, <1>2, <1>4, <1>5, <1>9, Zenon
<1>11. l \in Nat /\ d \in Nat /\ w \in Nat /\ e \in Nat
    BY <1>2, <1>7
<1> QED  BY <1>8, <1>10, <1>11, Zenon

\* A read collects its blocks in order.
LEMMA ReadMoves ==
    ASSUME BlockTyped, NEW c \in BlockStream, Lies(c), c.pc = "move", c.op = "read", NEW F,
           Carries(c, disk, F), \A b \in Span(c) : disk[b] \in F[b],
           NEW k \in Nat \ {0}, c.done + k <= c.blocks, NEW u,
           u = c.buf \o Block!DeviceReads([lba |-> c.lba + c.done, blocks |-> k])
    PROVE  /\ u \in Seq(Byte) /\ Len(u) = (c.done + k) * BlkSize
           /\ \A i \in 1..(c.done + k) * BlkSize : u[i] \in F[c.lba * BlkSize + i - 1]
<1>1. c.lba + c.done \in Nat /\ c.lba + c.done + k <= BlkCount /\ k \in Nat /\ c.buf \in Seq(Byte)
    <2>1. c.lba + c.blocks <= BlkCount /\ BlkCount \in Nat
        BY BlockAssumption, Zenon DEF Lies
    <2>2. c.lba \in Nat /\ c.done \in Nat /\ c.blocks \in Nat /\ c.buf \in Seq(Byte)
        BY DEF BlockStream
    <2> QED  BY <2>1, <2>2
<1>2. PICK l \in Nat, d \in Nat, w \in Nat, e \in Nat :
         /\ l = c.lba * BlkSize /\ d = c.done * BlkSize /\ w = k * BlkSize
         /\ e = (c.lba + c.blocks) * BlkSize /\ Span(c) = l .. e - 1
         /\ (c.lba + c.done) * BlkSize = l + d /\ ((c.lba + c.done) + k) * BlkSize = l + d + w
         /\ (c.done + k) * BlkSize = d + w /\ c.blocks * BlkSize = e - l
         /\ l + d + w <= e /\ (c.done + k = c.blocks => l + d + w = e)
         /\ l <= c.at /\ c.at + c.n <= e
    BY MoveNumbers, Zenon
<1>3. PICK v : v = Block!DeviceReads([lba |-> c.lba + c.done, blocks |-> k])
    OBVIOUS
<1>4. v \in Seq(Byte) /\ Len(v) = w /\ \A i \in 1..w : v[i] = disk[(l + d) + i - 1]
    <2>1. PICK x \in Nat : x = c.lba + c.done
        BY <1>1
    <2>2. BlockTyped /\ x + k <= BlkCount /\ x \in Nat /\ k \in Nat /\ v = Block!DeviceReads([lba |-> x, blocks |-> k])
        BY <1>1, <1>3, <2>1, Zenon
    <2>3. /\ v \in Seq(Byte) /\ Len(v) = k * BlkSize
          /\ \A i \in 1..k * BlkSize : v[i] = disk[x * BlkSize + i - 1]
        BY <2>2, ReadsAre, Zenon
    <2> QED  BY <1>2, <2>1, <2>3, Zenon
<1>5. Len(c.buf) = d /\ \A i \in 1..d : c.buf[i] \in F[l + i - 1]
    BY <1>2, Zenon DEF Carries
<1>6. PICK q \in Seq(Byte) : q = c.buf
    BY <1>1
<1>7. u \in Seq(Byte) /\ Len(u) = d + w /\ \A i \in 1..(d + w) : u[i] = IF i <= d THEN q[i] ELSE v[i - d]
    <2>1. u = q \o v /\ v \in Seq(Byte) /\ Len(q) = d /\ Len(v) = w
        BY <1>3, <1>4, <1>5, <1>6, Zenon
    <2>2. /\ q \o v \in Seq(Byte) /\ Len(q \o v) = Len(q) + Len(v)
          /\ \A i \in 1 .. Len(q) + Len(v) : (q \o v)[i] = IF i <= Len(q) THEN q[i] ELSE v[i - Len(q)]
        BY <2>1, ConcatProperties, Zenon
    <2> QED  BY <2>1, <2>2, Zenon
<1>8. ASSUME NEW i \in 1..(d + w) PROVE u[i] \in F[l + i - 1]
    <2>1. CASE i <= d
        <3>1. i \in 1..d
            BY <2>1
        <3> QED  BY <1>5, <1>6, <1>7, <2>1, <3>1, Zenon
    <2>2. CASE ~(i <= d)
        <3>1. PICK j \in 1..w : j = i - d /\ (l + d) + j - 1 = l + i - 1
            BY <2>2
        <3>2. u[i] = disk[l + i - 1]
            BY <1>4, <1>7, <2>2, <3>1, Zenon
        <3>3. l + i - 1 \in l .. e - 1
            <4>1. l + d + w <= e
                BY <1>2, Zenon
            <4> QED  BY <4>1
        <3> QED  BY <1>2, <3>2, <3>3, Zenon
    <2> QED  BY <2>1, <2>2
<1> QED  BY <1>2, <1>7, <1>8, Zenon

\* What a disk is after k blocks of a write, if it was what it may be before.
Written(c, F, k, D2) ==
    /\ D2 \in [Block!Bytes -> Byte]
    /\ \A b \in Block!Bytes : b \notin Span(c) => D2[b] = disk[b]
    /\ \A b \in Span(c) : (b \in Window(c) /\ D2[b] = <<c.id, b - c.at>>) \/ D2[b] \in F[b]
    /\ \A b \in Window(c) : b < ((c.lba + c.done) + k) * BlkSize => D2[b] = <<c.id, b - c.at>>
    /\ c.done + k = c.blocks => \A b \in Window(c) : D2[b] = <<c.id, b - c.at>>

\* A write puts its blocks down, and nothing else.
LEMMA WriteMoves ==
    ASSUME BlockTyped, NEW c \in BlockStream, Lies(c), c.pc = "move", c.op = "write", NEW F,
           Carries(c, disk, F), \A b \in Span(c) : disk[b] \in F[b],
           NEW k \in Nat \ {0}, c.done + k <= c.blocks, NEW cdb, cdb = [lba |-> c.lba + c.done, blocks |-> k]
    PROVE  Written(c, F, k, Block!DeviceWrites(cdb, Block!Part(c, cdb)))
<1>0. PICK D2 : D2 = Block!DeviceWrites(cdb, Block!Part(c, cdb))
    OBVIOUS
<1>1. /\ c.lba \in Nat /\ c.done \in Nat /\ c.blocks \in Nat /\ c.at \in Nat /\ c.n \in Nat /\ c.buf \in Seq(Byte)
    BY DEF BlockStream
<1>2. PICK l \in Nat, d \in Nat, w \in Nat, e \in Nat :
         /\ l = c.lba * BlkSize /\ d = c.done * BlkSize /\ w = k * BlkSize
         /\ e = (c.lba + c.blocks) * BlkSize /\ Span(c) = l .. e - 1
         /\ (c.lba + c.done) * BlkSize = l + d /\ ((c.lba + c.done) + k) * BlkSize = l + d + w
         /\ (c.done + k) * BlkSize = d + w /\ c.blocks * BlkSize = e - l
         /\ l + d + w <= e /\ (c.done + k = c.blocks => l + d + w = e)
         /\ l <= c.at /\ c.at + c.n <= e
    BY MoveNumbers, Zenon
<1>3. PICK q \in Seq(Byte) : q = c.buf
    BY <1>1
<1>4. /\ Len(q) = e - l /\ \A b \in Window(c) : b < l + d => disk[b] = <<c.id, b - c.at>>
      /\ \A b \in Span(c) : IF b \in Window(c) THEN q[b - l + 1] = <<c.id, b - c.at>> ELSE q[b - l + 1] \in F[b]
    BY <1>2, <1>3, Zenon DEF Carries
<1>5. PICK v : v = Block!Part(c, cdb)
    OBVIOUS
<1>6. l + d + w <= e /\ Span(c) = l .. e - 1 /\ l <= c.at /\ c.at + c.n <= e
    BY <1>2, Zenon
<1>7. Len(v) = w /\ \A i \in 1..w : v[i] = q[d + i]
    <2>1. v = SubSeq(q, d + 1, d + w)
        <3>1. cdb.blocks = k
            OBVIOUS
        <3> QED  BY <1>2, <1>3, <1>5, <3>1, Zenon DEF Block!Part
    <2>2. d + w <= Len(q)
        BY <1>4, <1>6
    <2> QED  BY <2>1, <2>2, SliceIs, Zenon
<1>8. D2 = [b \in Block!Bytes |-> IF b \in l + d .. l + d + w - 1 THEN v[b - (l + d) + 1] ELSE disk[b]]
    <2>1. cdb.blocks = k /\ cdb.lba = c.lba + c.done
        OBVIOUS
    <2>2. PICK p \in Nat, z \in Nat : p = l + d /\ z = l + d + w
        OBVIOUS
    <2>3. D2 = [b \in Block!Bytes |-> IF b \in p .. z - 1 THEN v[b - p + 1] ELSE disk[b]]
        <3>1. p = cdb.lba * BlkSize /\ z = (cdb.lba + cdb.blocks) * BlkSize
            BY <1>2, <2>1, <2>2, Zenon
        <3> QED  BY <1>0, <1>5, <3>1 DEF Block!DeviceWrites
    <2> QED  BY <2>2, <2>3
<1>9. \A b \in Span(c) : b \in Block!Bytes
    BY WindowOnTheUnit, Zenon
<1>10. ASSUME NEW b \in l + d .. l + d + w - 1
       PROVE  /\ b \in Span(c) /\ b \in Block!Bytes /\ D2[b] = q[b - l + 1] /\ q[b - l + 1] \in Byte
    <2>1. b \in Span(c)
        BY <1>6
    <2>2. PICK i \in 1..w : i = b - (l + d) + 1 /\ d + i = b - l + 1
        OBVIOUS
    <2>3. D2[b] = q[b - l + 1]
        BY <1>7, <1>8, <1>9, <2>1, <2>2, Zenon
    <2>4. b - l + 1 \in 1..Len(q)
        BY <1>4, <1>6
    <2>5. q[b - l + 1] \in Byte
        BY <2>4, ElementOfSeq, Zenon
    <2> QED  BY <1>9, <2>1, <2>3, <2>5, Zenon
<1>11. D2 \in [Block!Bytes -> Byte]
    <2>1. ASSUME NEW b \in Block!Bytes PROVE D2[b] \in Byte
        <3>1. CASE b \in l + d .. l + d + w - 1
            BY <1>10, <3>1, Zenon
        <3>2. CASE b \notin l + d .. l + d + w - 1
            <4>1. D2[b] = disk[b]
                BY <1>8, <3>2, Zenon
            <4> QED  BY <4>1, Zenon DEF BlockTyped
        <3> QED  BY <3>1, <3>2
    <2> QED  BY <1>8, <2>1, Zenon
<1>12. ASSUME NEW b \in Block!Bytes, b \notin Span(c) PROVE D2[b] = disk[b]
    BY <1>8, <1>10, <1>12, Zenon
<1>13. ASSUME NEW b \in Window(c), b < l + d + w PROVE D2[b] = <<c.id, b - c.at>>
    <2>1. b \in Span(c) /\ b \in Int
        BY <1>1, <1>6 DEF Window
    <2>2. CASE b < l + d
        <3>1. b \notin l + d .. l + d + w - 1
            BY <2>1, <2>2
        <3> QED  BY <1>4, <1>8, <1>9, <2>1, <2>2, <3>1, Zenon
    <2>3. CASE ~(b < l + d)
        <3>1. b \in l + d .. l + d + w - 1
            BY <1>13, <2>1, <2>3
        <3> QED  BY <1>4, <1>10, <2>1, <3>1, Zenon
    <2> QED  BY <2>2, <2>3
<1>14. ASSUME NEW b \in Span(c) PROVE (b \in Window(c) /\ D2[b] = <<c.id, b - c.at>>) \/ D2[b] \in F[b]
    <2>1. CASE b \in l + d .. l + d + w - 1
        BY <1>4, <1>10, <2>1, Zenon
    <2>2. CASE b \notin l + d .. l + d + w - 1
        BY <1>8, <1>9, <2>2, Zenon
    <2> QED  BY <2>1, <2>2
<1>15. ASSUME c.done + k = c.blocks, NEW b \in Window(c) PROVE D2[b] = <<c.id, b - c.at>>
    <2>1. l + d + w = e
        BY <1>2, <1>15, Zenon
    <2>2. b < l + d + w
        BY <1>1, <1>6, <2>1 DEF Window
    <2> QED  BY <1>13, <2>2, Zenon
<1>16. ASSUME NEW b \in Window(c), b < ((c.lba + c.done) + k) * BlkSize PROVE D2[b] = <<c.id, b - c.at>>
    BY <1>2, <1>13, <1>16, Zenon
<1>17. Written(c, F, k, D2)
    BY <1>11, <1>12, <1>14, <1>15, <1>16, Zenon DEF Written
<1> QED  BY <1>0, <1>17, Zenon

LEMMA MoveKeeps ==
    ASSUME BlockGood, NEW s \in Callers, Block!Move(s) PROVE BlockGood'
<1>1. PICK c : c = bStrm[s]
    OBVIOUS
<1>2. c \in BlockStream /\ BlockTyped /\ BlockSound /\ bStrm \in [Callers -> BlockStream]
    BY <1>1 DEF BlockGood, BlockTyped
<1>3. PICK D : D = disk
    OBVIOUS
<1>4. PICK F : F = ref
    OBVIOUS
<1>5. c.pc = "move" /\ UnderWay(c) /\ bLeft' = bLeft
    BY <1>1, Zenon DEF Block!Move, UnderWay
<1>6. Lies(c) /\ Carries(c, D, F) /\ \A b \in Block!Bytes : D[b] \in F[b]
    BY <1>1, <1>2, <1>3, <1>4, <1>5, Zenon DEF BlockSound
<1>7. /\ c.lba \in Nat /\ c.done \in Nat /\ c.blocks \in Nat /\ c.at \in Nat /\ c.n \in Nat /\ c.pos \in Nat
      /\ c.id \in Nat /\ c.seek \in BOOLEAN /\ c.buf \in Seq(Byte)
    BY <1>2 DEF BlockStream
<1>8. /\ c.op \in {"read", "write"} /\ c.done < c.blocks
      /\ c.op = "read" => c.at = c.lba * BlkSize /\ c.n = c.blocks * BlkSize
    BY <1>5, <1>6, Zenon DEF Lies
<1>9. PICK k \in Nat \ {0} : Block!Cdb(c) = [lba |-> c.lba + c.done, blocks |-> k] /\ c.done + k <= c.blocks
    BY <1>2, <1>8, CdbIs, Zenon
<1>10. PICK cdb : cdb = [lba |-> c.lba + c.done, blocks |-> k]
    OBVIOUS
<1>11. cdb.lba = c.lba + c.done /\ cdb.blocks = k
    BY <1>10
<1>12. \A b \in Span(c) : D[b] \in F[b] /\ b \in Block!Bytes
    BY <1>2, <1>6, WindowOnTheUnit, Zenon
<1>13. \A b \in Window(c) : b \in Span(c) /\ b \in Block!Bytes
    <2>1. PICK l \in Int, e \in Int : l = c.lba * BlkSize /\ e = (c.lba + c.blocks) * BlkSize
        BY <1>7, BlockAssumption
    <2>2. l <= c.at /\ c.at + c.n <= e /\ Span(c) = l .. e - 1
        BY <1>6, <2>1, Zenon DEF Lies, Span
    <2>3. \A b \in Window(c) : b \in Span(c)
        BY <1>7, <2>2 DEF Window
    <2> QED  BY <1>12, <2>3, Zenon
<1>14. PICK v, m, p :
          /\ v = IF c.op = "read" THEN c.buf \o Block!DeviceReads(cdb) ELSE c.buf
          /\ m = IF c.done + k = c.blocks THEN "returned" ELSE "move"
          /\ p = IF c.done + k = c.blocks /\ c.seek THEN c.pos + c.n ELSE c.pos
    BY Zenon
<1>15. PICK j \in Nat : j = c.done + k
    BY <1>7
<1>16. bStrm' = [bStrm EXCEPT ![s].pc = m, ![s].done = j, ![s].pos = p, ![s].buf = v]
    <2>1. bStrm' = [bStrm EXCEPT ![s].pc = IF c.done + k = c.blocks THEN "returned" ELSE "move",
                                 ![s].done = @ + k,
                                 ![s].pos = IF c.done + k = c.blocks /\ c.seek THEN @ + c.n ELSE @,
                                 ![s].buf = IF c.op = "read" THEN @ \o Block!DeviceReads(cdb) ELSE @]
        BY <1>1, <1>9, <1>10, <1>11, Zenon DEF Block!Move
    <2>2. bStrm[s] = c
        BY <1>1
    <2> QED  BY <1>2, <1>14, <1>15, <2>1, <2>2 DEF BlockStream
<1>17. PICK e : e = [c EXCEPT !.pc = m, !.done = j, !.pos = p, !.buf = v]
    OBVIOUS
<1>18. bStrm' = [bStrm EXCEPT ![s] = e]
    BY <1>1, <1>2, <1>16, <1>17
<1>19. p \in Nat /\ m \in {"returned", "move"} /\ (m = "move" <=> j # c.blocks)
    BY <1>7, <1>14, <1>15
<1>20. /\ e.pc = m /\ e.op = c.op /\ e.lba = c.lba /\ e.blocks = c.blocks /\ e.at = c.at /\ e.n = c.n
       /\ e.buf = v /\ e.done = j /\ e.id = c.id
    BY <1>2, <1>17 DEF BlockStream
<1>21. Lies(e)
    <2>1. m = "move" => j < c.blocks
        BY <1>7, <1>9, <1>15, <1>19
    <2>2. e.pc = "move" => e.done < e.blocks
        BY <1>20, <2>1, Zenon
    <2>3. e.pc # "load"
        BY <1>19, <1>20
    <2> QED  BY <1>6, <1>8, <1>20, <2>2, <2>3, Zenon DEF Lies
<1>22. PICK D2 : D2 = disk'
    OBVIOUS
<1>23. PICK F2 : F2 = ref'
    OBVIOUS
<1>24. /\ v \in Seq(Byte) /\ D2 \in [Block!Bytes -> Byte] /\ F2 \in [Block!Bytes -> SUBSET Byte]
       /\ \A b \in Block!Bytes : D2[b] \in F2[b]
       /\ Carries(e, D2, F2)
       /\ \A b \in Block!Bytes : c.op = "read" \/ b \notin Span(c) => D2[b] = D[b] /\ F2[b] = F[b]
    <2>1. CASE c.op = "read"
        <3>1. D2 = D /\ F2 = F
            <4>1. c.op # "write"
                BY <2>1
            <4> QED  BY <1>1, <1>3, <1>4, <1>22, <1>23, <4>1, Zenon DEF Block!Move
        <3>2. v = c.buf \o Block!DeviceReads([lba |-> c.lba + c.done, blocks |-> k])
            BY <1>10, <1>14, <2>1, Zenon
        <3>3. /\ v \in Seq(Byte) /\ Len(v) = (c.done + k) * BlkSize
              /\ \A i \in 1..(c.done + k) * BlkSize : v[i] \in F[c.lba * BlkSize + i - 1]
            <4>1. /\ BlockTyped /\ Lies(c) /\ c.pc = "move" /\ Carries(c, disk, F) /\ c.done + k <= c.blocks
                  /\ \A b \in Span(c) : disk[b] \in F[b]
                BY <1>2, <1>3, <1>5, <1>6, <1>9, <1>12, Zenon
            <4> QED  BY <1>2, <2>1, <3>2, <4>1, ReadMoves, Zenon
        <3>4. Carries(e, D, F)
            <4>1. ASSUME m = "move"
                  PROVE  /\ Len(v) = j * BlkSize
                         /\ \A i \in 1..j * BlkSize : v[i] \in F[c.lba * BlkSize + i - 1]
                BY <1>15, <3>3, Zenon
            <4>2. ASSUME m = "returned" PROVE Len(v) = c.n /\ \A i \in 1..c.n : v[i] \in F[c.at + i - 1]
                <5>1. j = c.blocks
                    BY <1>19, <4>2
                <5>2. (c.done + k) * BlkSize = c.n /\ c.lba * BlkSize = c.at
                    BY <1>8, <1>15, <2>1, <5>1, Zenon
                <5> QED  BY <3>3, <5>2, Zenon
            <4>3. c.op # "write"
                BY <2>1
            <4> QED  BY <1>20, <4>1, <4>2, <4>3, Zenon DEF Carries
        <3>5. D \in [Block!Bytes -> Byte] /\ F \in [Block!Bytes -> SUBSET Byte]
            BY <1>2, <1>3, <1>4, Zenon DEF BlockTyped
        <3> QED  BY <1>6, <3>1, <3>3, <3>4, <3>5, Zenon
    <2>2. CASE c.op = "write"
        <3>1. /\ D2 = Block!DeviceWrites(cdb, Block!Part(c, cdb))
              /\ F2 = IF j = c.blocks
                      THEN [b \in Block!Bytes |-> IF b \in Window(c) THEN {<<c.id, b - c.at>>} ELSE F[b]] ELSE F
            BY <1>1, <1>4, <1>9, <1>10, <1>11, <1>15, <1>22, <1>23, <2>2, Zenon DEF Block!Move, Window
        <3>2. /\ D2 \in [Block!Bytes -> Byte]
              /\ \A b \in Block!Bytes : b \notin Span(c) => D2[b] = D[b]
              /\ \A b \in Span(c) : \/ b \in Window(c) /\ D2[b] = <<c.id, b - c.at>>
                                    \/ D2[b] \in F[b]
              /\ \A b \in Window(c) : b < ((c.lba + c.done) + k) * BlkSize => D2[b] = <<c.id, b - c.at>>
              /\ c.done + k = c.blocks => \A b \in Window(c) : D2[b] = <<c.id, b - c.at>>
            <4>1. /\ BlockTyped /\ c \in BlockStream /\ Lies(c) /\ c.pc = "move" /\ c.op = "write"
                  /\ Carries(c, disk, F) /\ c.done + k <= c.blocks /\ \A b \in Span(c) : disk[b] \in F[b]
                  /\ cdb = [lba |-> c.lba + c.done, blocks |-> k]
                BY <1>2, <1>3, <1>5, <1>6, <1>9, <1>10, <1>12, <2>2, <3>1, Zenon
            <4>2. Written(c, F, k, Block!DeviceWrites(cdb, Block!Part(c, cdb)))
                BY <4>1, WriteMoves, Zenon
            <4>3. Written(c, F, k, D2)
                BY <3>1, <4>2, Zenon
            <4> QED  BY <1>3, <4>3, Zenon DEF Written
        <3>3. v = c.buf
            <4>1. c.op # "read"
                BY <2>2
            <4> QED  BY <1>14, <4>1, Zenon
        <3>4. /\ \A b \in Window(c) : <<c.id, b - c.at>> \in F[b]
              /\ Len(c.buf) = c.blocks * BlkSize
              /\ \A b \in Span(c) : LET i == b - c.lba * BlkSize + 1
                                    IN  IF b \in Window(c) THEN c.buf[i] = <<c.id, b - c.at>> ELSE c.buf[i] \in F[b]
            <4>1. c.pc # "returned"
                BY <1>5
            <4> QED  BY <1>5, <1>6, <2>2, <4>1, Zenon DEF Carries
        <3>5. F \in [Block!Bytes -> SUBSET Byte]
            BY <1>2, <1>4, Zenon DEF BlockTyped
        <3>6. \A b \in Window(c) : <<c.id, b - c.at>> \in Byte
            BY <1>2, <1>6, <1>7, WindowOnTheUnit DEF Byte
        <3>7. CASE j = c.blocks
            <4>1. F2 = [b \in Block!Bytes |-> IF b \in Window(c) THEN {<<c.id, b - c.at>>} ELSE F[b]]
                BY <3>1, <3>7, Zenon
            <4>2. F2 \in [Block!Bytes -> SUBSET Byte]
                <5>1. ASSUME NEW b \in Block!Bytes PROVE F2[b] \in SUBSET Byte
                    <6>1. CASE b \in Window(c)
                        BY <3>6, <4>1, <6>1, Zenon
                    <6>2. CASE b \notin Window(c)
                        BY <3>5, <4>1, <6>2, Zenon
                    <6> QED  BY <6>1, <6>2
                <5> QED  BY <4>1, <5>1, Zenon
            <4>3. ASSUME NEW b \in Block!Bytes PROVE D2[b] \in F2[b]
                <5>1. CASE b \in Window(c)
                    BY <1>15, <3>2, <3>7, <4>1, <5>1, Zenon
                <5>2. CASE b \notin Window(c)
                    BY <1>6, <3>2, <4>1, <5>2, Zenon
                <5> QED  BY <5>1, <5>2
            <4>4. ASSUME NEW b \in Block!Bytes, b \notin Span(c) PROVE D2[b] = D[b] /\ F2[b] = F[b]
                BY <1>13, <3>2, <4>1, <4>4, Zenon
            <4>5. Carries(e, D2, F2)
                <5>1. e.pc = "returned" /\ e.op = "write"
                    BY <1>19, <1>20, <2>2, <3>7
                <5>2. e.pc # "move" /\ e.op # "read"
                    BY <5>1
                <5> QED  BY <5>1, <5>2, Zenon DEF Carries
            <4>6. c.op # "read"
                BY <2>2
            <4> QED  BY <1>7, <3>2, <3>3, <4>2, <4>3, <4>4, <4>5, <4>6, Zenon
        <3>8. CASE j # c.blocks
            <4>1. F2 = F
                BY <3>1, <3>8, Zenon
            <4>2. ASSUME NEW b \in Block!Bytes PROVE D2[b] \in F[b]
                <5>1. CASE b \in Span(c)
                    BY <3>2, <3>4, <5>1, Zenon
                <5>2. CASE b \notin Span(c)
                    BY <1>6, <3>2, <5>2, Zenon
                <5> QED  BY <5>1, <5>2
            <4>3. Carries(e, D2, F)
                <5>1. e.pc = "move" /\ e.op = "write"
                    BY <1>19, <1>20, <2>2, <3>8
                <5>2. e.pc # "returned" /\ e.op # "read"
                    BY <5>1
                <5>3. Span(e) = Span(c) /\ Window(e) = Window(c)
                    BY <1>20, Zenon DEF Span, Window
                <5>4. (e.lba + e.done) * BlkSize = ((c.lba + c.done) + k) * BlkSize
                    <6>1. e.lba + e.done = (c.lba + c.done) + k
                        BY <1>7, <1>15, <1>20
                    <6> QED  BY <6>1, Zenon
                <5>5. \A b \in Window(e) : b < (e.lba + e.done) * BlkSize => D2[b] = <<e.id, b - e.at>>
                    BY <1>20, <3>2, <5>3, <5>4, Zenon
                <5>6. \A b \in Window(e) : <<e.id, b - e.at>> \in F[b]
                    BY <1>20, <3>4, <5>3, Zenon
                <5>7. Len(e.buf) = e.blocks * BlkSize
                    BY <1>20, <3>3, <3>4, Zenon
                <5>8. \A b \in Span(e) : LET i == b - e.lba * BlkSize + 1
                                         IN  IF b \in Window(e) THEN e.buf[i] = <<e.id, b - e.at>>
                                             ELSE e.buf[i] \in F[b]
                    BY <1>20, <3>3, <3>4, <5>3, Zenon
                <5> QED  BY <5>1, <5>2, <5>5, <5>6, <5>7, <5>8, Zenon DEF Carries
            <4>4. c.op # "read"
                BY <2>2
            <4> QED  BY <1>7, <3>2, <3>3, <3>5, <4>1, <4>2, <4>3, <4>4, Zenon
        <3> QED  BY <3>7, <3>8
    <2> QED  BY <1>8, <2>1, <2>2
<1>25. e \in BlockStream
    <2>1. m \in {"closed", "idle", "failed", "load", "move", "returned"}
        BY <1>19
    <2> QED  BY <1>2, <1>17, <1>19, <1>24, <2>1 DEF BlockStream
<1>26. ASSUME NEW o \in Callers, o # s, UnderWay(bStrm[o])
       PROVE  /\ Apart(e, bStrm[o])
              /\ \A b \in Span(bStrm[o]) : disk'[b] = disk[b] /\ ref[b] \subseteq ref'[b]
    <2>1. PICK q : q = bStrm[o]
        OBVIOUS
    <2>2. q \in BlockStream /\ Lies(q) /\ Apart(c, q)
        BY <1>1, <1>2, <1>5, <1>26, <2>1, Zenon DEF BlockSound
    <2>3. Apart(e, q)
        BY <1>20, <2>2, Zenon DEF Apart, Block!Blocks
    <2>4. ASSUME NEW b \in Span(q) PROVE D2[b] = D[b] /\ F2[b] = F[b]
        <3>1. b \in Block!Bytes
            BY <2>2, <2>4, WindowOnTheUnit, Zenon
        <3>2. ASSUME c.op = "write", b \in Span(c) PROVE FALSE
            <4>1. (c.lba .. c.lba + c.blocks - 1) \cap (q.lba .. q.lba + q.blocks - 1) = {}
                <5>1. "write" \in {c.op, q.op}
                    BY <3>2
                <5> QED  BY <2>2, <5>1, Zenon DEF Apart, Block!Blocks
            <4>2. q.lba \in Nat /\ q.blocks \in Nat
                BY <2>2 DEF BlockStream
            <4>3. PICK x \in Int, y \in Int, z \in Int, w \in Int :
                     /\ x = c.lba * BlkSize /\ y = (c.lba + c.blocks) * BlkSize
                     /\ z = q.lba * BlkSize /\ w = (q.lba + q.blocks) * BlkSize
                <5>1. PICK B \in Nat : B = BlkSize
                    BY BlockAssumption
                <5>2. PICK h \in Nat, i \in Nat, a \in Nat, n \in Nat :
                         h = c.lba /\ i = c.lba + c.blocks /\ a = q.lba /\ n = q.lba + q.blocks
                    <6>1. c.lba \in Nat /\ c.lba + c.blocks \in Nat /\ q.lba \in Nat /\ q.lba + q.blocks \in Nat
                        BY <1>7, <4>2
                    <6> QED  BY <6>1, Zenon
                <5>3. h * B \in Int /\ i * B \in Int /\ a * B \in Int /\ n * B \in Int
                    OBVIOUS
                <5> QED  BY <5>1, <5>2, <5>3, Zenon
            <4>4. b \in x .. y - 1 /\ b \in z .. w - 1
                BY <2>4, <3>2, <4>3, Zenon DEF Span
            <4>5. b \in Nat /\ x <= b /\ b < y /\ z <= b /\ b < w
                <5>1. b \in Int /\ x <= b /\ b < y /\ z <= b /\ b < w
                    BY <4>4
                <5>2. x \in Nat
                    BY <1>7, <4>3, BlockAssumption
                <5> QED  BY <5>1, <5>2
            <4>6. /\ c.lba * BlkSize <= b /\ b < (c.lba + c.blocks) * BlkSize
                  /\ q.lba * BlkSize <= b /\ b < (q.lba + q.blocks) * BlkSize
                BY <4>3, <4>5, Zenon
            <4> QED  BY <1>7, <4>1, <4>2, <4>5, <4>6, SpansApart, Zenon
        <3> QED  BY <1>8, <1>24, <3>1, <3>2, Zenon
    <2> QED  BY <1>3, <1>4, <1>22, <1>23, <2>1, <2>3, <2>4, Zenon
<1>27. bLeft' \in [calls : Nat, faults : Nat, writes : Nat]
    BY <1>2, <1>5, Zenon DEF BlockTyped
<1>28. /\ disk' \in [Block!Bytes -> Byte] /\ ref' \in [Block!Bytes -> SUBSET Byte]
       /\ \A b \in Block!Bytes : disk'[b] \in ref'[b]
    BY <1>22, <1>23, <1>24, Zenon
<1>29. Lies(e) /\ Carries(e, disk', ref')
    BY <1>21, <1>22, <1>23, <1>24, Zenon
<1> QED  BY <1>18, <1>25, <1>26, <1>27, <1>28, <1>29, BlockStepKeeps, Zenon

LEMMA BlockMoves == part = "block" /\ [Next]_vars => [Block!Next]_(Block!vars)
<1> SUFFICES ASSUME part = "block", [Next]_vars PROVE [Block!Next]_(Block!vars)
    OBVIOUS
<1> USE DEF storageVars, blockVars, Block!vars
<1>1. CASE UNCHANGED vars
    BY <1>1 DEF vars
<1>2. CASE Next
    <2>1. StorageNext \/ UNCHANGED storageVars
        BY <1>2 DEF Next
    <2>2. CASE StorageNext
        BY <2>2 DEF StorageNext
    <2>3. CASE UNCHANGED storageVars
        BY <2>3
    <2> QED  BY <2>1, <2>2, <2>3
<1> QED  BY <1>1, <1>2

\* Every step of the unit keeps the invariant; a race is never forgotten.
LEMMA BlockNextKeeps == BlockInv /\ Block!Next => BlockInv'
<1> SUFFICES ASSUME BlockInv, Block!Next PROVE BlockInv'
    OBVIOUS
<1>1. PICK s \in Callers :
         \/ \E sense \in {"none", "NotReady", "NoMedium"} : Block!Open(s, sense)
         \/ \E op \in {"read", "write"}, len \in BlkLengths :
               Block!Call(s, op, len) \/ \E lba \in 0 .. BlkCount : Block!BlockCall(s, op, lba, len)
         \/ \E p \in 0 .. Block!Size + 1 : Block!Seek(s, p)
         \/ Block!Load(s) \/ Block!Move(s) \/ Block!CommandFails(s) \/ Block!Return(s)
    BY Zenon DEF Block!Next
<1>2. bRaced \in BOOLEAN /\ (~bRaced => BlockGood)
    BY Zenon DEF BlockInv
<1>3. CASE \E sense \in {"none", "NotReady", "NoMedium"} : Block!Open(s, sense)
    <2>1. bRaced' = bRaced
        BY <1>3, Zenon DEF Block!Open
    <2> QED  BY <1>2, <1>3, <2>1, OpenKeeps, Zenon DEF BlockInv
<1>4. ASSUME NEW op \in {"read", "write"}, NEW len \in BlkLengths, Block!Call(s, op, len) PROVE BlockInv'
    <2>1. bRaced' \in BOOLEAN /\ (bRaced => bRaced')
        BY <1>2, <1>4 DEF Block!Call, Block!Start
    <2>2. len \in Nat
        BY BlockAssumption
    <2> QED  BY <1>2, <1>4, <2>1, <2>2, CallKeeps, Zenon DEF BlockInv
<1>5. ASSUME NEW op \in {"read", "write"}, NEW len \in BlkLengths, NEW lba \in 0 .. BlkCount,
             Block!BlockCall(s, op, lba, len)
      PROVE  BlockInv'
    <2>1. bRaced' \in BOOLEAN /\ (bRaced => bRaced')
        BY <1>2, <1>5 DEF Block!BlockCall, Block!Start
    <2>2. len \in Nat /\ lba \in Nat
        BY BlockAssumption
    <2> QED  BY <1>2, <1>5, <2>1, <2>2, BlockCallKeeps, Zenon DEF BlockInv
<1>6. ASSUME NEW p \in 0 .. Block!Size + 1, Block!Seek(s, p) PROVE BlockInv'
    <2>1. bRaced' = bRaced
        BY <1>6, Zenon DEF Block!Seek
    <2>2. p \in Nat
        <3>1. Block!Size \in Int
            BY BlockAssumption DEF Block!Size
        <3> QED  BY <3>1
    <2> QED  BY <1>2, <1>6, <2>1, <2>2, SeekKeeps, Zenon DEF BlockInv
<1>7. CASE Block!Load(s)
    <2>1. bRaced' = bRaced
        BY <1>7, Zenon DEF Block!Load
    <2> QED  BY <1>2, <1>7, <2>1, LoadKeeps, Zenon DEF BlockInv
<1>8. CASE Block!Move(s)
    <2>1. bRaced' = bRaced
        BY <1>8, Zenon DEF Block!Move
    <2> QED  BY <1>2, <1>8, <2>1, MoveKeeps, Zenon DEF BlockInv
<1>9. CASE Block!CommandFails(s) \/ Block!Return(s)
    <2>1. bRaced' = bRaced
        BY <1>9, Zenon DEF Block!CommandFails, Block!Return
    <2> QED  BY <1>2, <1>9, <2>1, CallEnds, Zenon DEF BlockInv
<1> QED  BY <1>1, <1>3, <1>4, <1>5, <1>6, <1>7, <1>8, <1>9, Zenon

LEMMA BlockInvariant == Spec => [](part = "block" => BlockInv)
<1>1. Init => (part = "block" => BlockInv)
    BY BlockInitInv DEF Init
<1>2. (part = "block" => BlockInv) /\ [Next]_vars => (part = "block" => BlockInv)'
    <2> SUFFICES ASSUME part = "block" => BlockInv, [Next]_vars, part' = "block" PROVE BlockInv'
        OBVIOUS
    <2>1. part = "block" /\ BlockInv
        BY DEF Next, vars
    <2>2. [Block!Next]_(Block!vars)
        BY <2>1, BlockMoves
    <2>3. CASE UNCHANGED Block!vars
        <3>1. disk' = disk /\ ref' = ref /\ bStrm' = bStrm /\ bRaced' = bRaced /\ bLeft' = bLeft
            BY <2>3, Zenon DEF Block!vars
        <3> QED  BY <2>1, <3>1, Zenon DEF BlockInv, BlockGood, BlockTyped, BlockSound
    <2>4. CASE Block!Next
        BY <2>1, <2>4, BlockNextKeeps, Zenon
    <2> QED  BY <2>2, <2>3, <2>4
<1> QED  BY <1>1, <1>2, PTL DEF Spec

\* Unless two streams raced for a block, every byte of the unit is one that was
\* written there, and a read returns what is there (BlockIo!BytesAsWritten): for
\* every unit, split into commands, command form and buffer length.
THEOREM BytesAreAlwaysAsWritten == Spec => []BytesAsWritten
<1>1. (part = "block" => BlockInv) => BytesAsWritten
    <2> SUFFICES ASSUME part = "block", BlockInv, ~bRaced PROVE Block!BytesAsWritten
        BY Zenon DEF BytesAsWritten, Block!BytesAsWritten
    <2>1. BlockSound
        BY Zenon DEF BlockInv, BlockGood
    <2>2. ASSUME NEW s \in Callers, bStrm[s].pc = "returned", bStrm[s].op = "read"
          PROVE  /\ Len(bStrm[s].buf) = bStrm[s].n
                 /\ \A i \in 1 .. bStrm[s].n : bStrm[s].buf[i] \in ref[bStrm[s].at + i - 1]
        <3>1. UnderWay(bStrm[s])
            BY <2>2 DEF UnderWay
        <3>2. Carries(bStrm[s], disk, ref)
            BY <2>1, <3>1, Zenon DEF BlockSound
        <3> QED  BY <2>2, <3>2, Zenon DEF Carries
    <2> QED  BY <2>1, <2>2, Zenon DEF BlockSound, Block!BytesAsWritten
<1> QED  BY <1>1, BlockInvariant, PTL

=============================================================================
