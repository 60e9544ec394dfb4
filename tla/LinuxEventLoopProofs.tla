------------------------ MODULE LinuxEventLoopProofs ------------------------
(***************************************************************************)
(* Proofs about LinuxEventLoop, for any finite set of handles and any      *)
(* capacity of the wake pipe.                                              *)
(***************************************************************************)
EXTENDS LinuxEventLoop, FiniteSetTheorems, TLAPS

LoopInv == TypeOK /\ PolledIsOpen /\ NoLostWakeup

\* What wake() leaves in the pipe fits, and is never nothing.
LEMMA WrittenType ==
    ASSUME TypeOK, NEW n \in Nat
    PROVE  Written(n) \in 0..PipeSize /\ (n > 0 => Written(n) > 0)
BY SessionAssumption DEF TypeOK, Written

\* A new Context, with its event thread just spawned, satisfies the invariant.
THEOREM InitLoopInv == Init => LoopInv
<1> SUFFICES ASSUME Init PROVE LoopInv
    OBVIOUS
<1>1. evt \in EventThread /\ evt.step = "top" /\ evt.pass = {}
    BY DEF Init, AtTop, EventThread
<1>2. TypeOK
    BY <1>1, SessionAssumption DEF Init, TypeOK
<1> QED  BY <1>1, <1>2 DEF LoopInv, PolledIsOpen, NoLostWakeup

\* A step of a user thread or the kernel that leaves the event thread alone,
\* takes no byte out of the pipe, closes no handle of the pass, and wakes the
\* thread for every handle it opens or deadline it sets, keeps the invariant.
LEMMA OutsideKeeps ==
    ASSUME LoopInv, TypeOK', evt' = evt,
           pipe' = 0 => pipe = 0,
           \A h \in evt.pass : file'[h] = file[h],
           \A h \in Handles : file'[h] = "open" =>
                file[h] = "open" \/ h \in waking',
           \A h \in Handles : disc[h] => disc'[h],
           \A h \in Handles : h \in waking =>
                h \in waking' \/ pipe' # 0,
           \A h \in Handles : deadline'[h] # "none" =>
                deadline[h] # "none" \/ h \in waking'
    PROVE  LoopInv'
<1>1. PolledIsOpen'
    BY DEF LoopInv, PolledIsOpen
<1>2. NoLostWakeup'
    BY DEF LoopInv, NoLostWakeup
<1> QED  BY <1>1, <1>2 DEF LoopInv

\* The steps of open(), Transfer::new, submit(), the kernel and the clock.
LEMMA UserKeeps ==
    ASSUME LoopInv, NEW h \in Handles,
           \/ Open(h) \/ NewTransfer(h) \/ Submit(h)
           \/ KernelFinishes(h) \/ KernelLosesDevice(h) \/ DeadlinePasses(h)
    PROVE  LoopInv'
<1>1. TypeOK
    BY DEF LoopInv
<1>2. CASE Open(h)
    <2>1. TypeOK'
        BY <1>1, <1>2 DEF TypeOK, Open
    <2>2. \A g \in evt.pass : file'[g] = file[g]
        BY <1>1, <1>2 DEF TypeOK, Open, LoopInv, PolledIsOpen, EventThread
    <2> QED  BY <1>1, <1>2, <2>1, <2>2, OutsideKeeps DEF TypeOK, Open
<1>3. CASE NewTransfer(h)
    <2>1. TypeOK'
        BY <1>1, <1>3 DEF TypeOK, NewTransfer
    <2> QED  BY <1>3, <2>1, OutsideKeeps DEF NewTransfer
<1>4. CASE Submit(h)
    <2>1. PICK d \in {"none", "armed"} : deadline' = [deadline EXCEPT ![h] = d]
        BY <1>4 DEF Submit
    <2>2. TypeOK'
        BY <1>1, <1>4, <2>1 DEF TypeOK, Submit
    <2> QED  BY <1>1, <1>4, <2>1, <2>2, OutsideKeeps DEF TypeOK, Submit
<1>5. CASE KernelFinishes(h)
    <2>1. TypeOK'
        BY <1>1, <1>5 DEF TypeOK, KernelFinishes
    <2> QED  BY <1>5, <2>1, OutsideKeeps DEF KernelFinishes
<1>6. CASE KernelLosesDevice(h)
    <2>1. TypeOK'
        BY <1>1, <1>6 DEF TypeOK, KernelLosesDevice
    <2> QED  BY <1>6, <2>1, OutsideKeeps DEF KernelLosesDevice
<1>7. CASE DeadlinePasses(h)
    <2>1. TypeOK'
        BY <1>1, <1>7 DEF TypeOK, DeadlinePasses
    <2>2. \A g \in Handles : deadline'[g] # "none" => deadline[g] # "none"
        BY <1>1, <1>7 DEF TypeOK, DeadlinePasses
    <2> QED  BY <1>7, <2>1, <2>2, OutsideKeeps DEF DeadlinePasses
<1> QED  BY <1>2, <1>3, <1>4, <1>5, <1>6, <1>7

\* wake() may find the pipe full: the thread is then about to wake up anyway.
LEMMA WakeKeeps ==
    ASSUME LoopInv, NEW h \in Handles, Wake(h)
    PROVE  LoopInv'
<1>1. TypeOK /\ pipe' \in 0..PipeSize /\ pipe' > 0
    BY WrittenType DEF LoopInv, Wake
<1>2. TypeOK'
    BY <1>1 DEF TypeOK, Wake
<1>3. pipe' # 0
    BY <1>1, SessionAssumption
<1> QED  BY <1>2, <1>3, OutsideKeeps DEF Wake

\* Closing a handle that is not of the pass.
LEMMA CloseKeeps ==
    ASSUME TypeOK, NEW h \in Handles, CloseIfLast(h)
    PROVE  /\ file' \in [Handles -> {"none", "open", "closed"}]
           /\ pipe' \in 0..PipeSize /\ (pipe' = 0 => pipe = 0)
           /\ \A g \in evt.pass : file'[g] = file[g]
           /\ \A g \in Handles : file'[g] = "open" => file[g] = "open"
<1>1. CASE LastDropped(h)
    <2>1. /\ h \notin evt.pass /\ file' = [file EXCEPT ![h] = "closed"]
          /\ pipe' = Written(1)
        BY <1>1 DEF CloseIfLast, LastDropped
    <2>2. pipe' \in 0..PipeSize /\ pipe' > 0
        BY <2>1, WrittenType
    <2>3. pipe' # 0
        BY <2>2, SessionAssumption
    <2>4. evt.pass \subseteq Handles
        BY DEF TypeOK, EventThread
    <2> QED  BY <2>1, <2>2, <2>3, <2>4 DEF TypeOK
<1>2. CASE ~LastDropped(h)
    BY <1>2 DEF CloseIfLast, TypeOK
<1> QED  BY <1>1, <1>2

\* Dropping a Transfer or the DeviceHandle closes nothing the thread polls.
LEMMA DropKeeps ==
    ASSUME LoopInv, NEW h \in Handles, DropTransfer(h) \/ DropHandle(h)
    PROVE  LoopInv'
<1>1. TypeOK /\ CloseIfLast(h)
    BY DEF LoopInv, DropTransfer, DropHandle
<1>2. TypeOK'
    BY <1>1, CloseKeeps DEF TypeOK, DropTransfer, DropHandle
<1>3. UNCHANGED <<evt, waking, disc, deadline>>
    BY DEF DropTransfer, DropHandle
<1> QED  BY <1>1, <1>2, <1>3, CloseKeeps, OutsideKeeps

\* Dropping the Context touches no handle.
LEMMA DropContextKeeps ==
    ASSUME LoopInv, DropContext
    PROVE  LoopInv'
<1>1. TypeOK'
    BY DEF LoopInv, TypeOK, DropContext
<1> QED  BY <1>1, OutsideKeeps DEF DropContext

\* The Arcs taken at the top of the loop are those of every live handle.
LEMMA SnapshotKeeps ==
    ASSUME LoopInv, Snapshot
    PROVE  LoopInv'
<1> DEFINE live == {h \in Handles : file[h] = "open" /\ ~disc[h]}
<1>1. TypeOK /\ evt \in EventThread /\ PolledIsOpen
    BY DEF LoopInv, TypeOK
<1>2. UNCHANGED <<ctxHeld, file, shared, holds, flight, deadline, gone, disc,
                  waking, pipe>>
    BY DEF Snapshot
<1>3. CASE CtxAlive
    <2>1. evt' = [evt EXCEPT !.step = "snapshot", !.pass = live]
        BY <1>3 DEF Snapshot
    <2>2. live \in SUBSET Handles
        OBVIOUS
    <2>3. evt' \in EventThread /\ evt'.step = "snapshot" /\ evt'.pass = live
        BY <1>1, <2>1, <2>2 DEF EventThread
    <2>4. TypeOK'
        BY <1>1, <1>2, <2>3 DEF TypeOK
    <2>5. PolledIsOpen' /\ NoLostWakeup'
        BY <1>2, <2>3 DEF PolledIsOpen, NoLostWakeup
    <2> QED  BY <2>4, <2>5 DEF LoopInv
<1>4. CASE ~CtxAlive
    <2>1. evt' = [evt EXCEPT !.step = "exited"]
        BY <1>4 DEF Snapshot
    <2>2. evt' \in EventThread /\ evt'.step = "exited" /\ evt'.pass = evt.pass
        BY <1>1, <2>1 DEF EventThread
    <2>3. TypeOK'
        BY <1>1, <1>2, <2>2 DEF TypeOK
    <2>4. PolledIsOpen' /\ NoLostWakeup'
        BY <1>1, <1>2, <2>2 DEF PolledIsOpen, NoLostWakeup
    <2> QED  BY <2>3, <2>4 DEF LoopInv
<1> QED  BY <1>3, <1>4

\* next_deadline() of every handle of the pass goes into the timeout of poll().
LEMMA ComputeTimeoutKeeps ==
    ASSUME LoopInv, ComputeTimeout
    PROVE  LoopInv'
<1> DEFINE timed == {h \in evt.pass : deadline[h] # "none"}
<1>1. TypeOK /\ evt \in EventThread /\ evt.step = "snapshot"
    BY DEF LoopInv, TypeOK, ComputeTimeout
<1>2. UNCHANGED <<ctxHeld, file, shared, holds, flight, deadline, gone, disc,
                  waking, pipe>>
    BY DEF ComputeTimeout
<1>3. timed \in SUBSET Handles
    BY <1>1 DEF EventThread
<1>4. /\ evt' \in EventThread /\ evt'.step = "poll" /\ evt'.pass = evt.pass
      /\ evt'.wait = timed
    BY <1>1, <1>3 DEF ComputeTimeout, EventThread
<1>5. TypeOK'
    BY <1>1, <1>2, <1>4 DEF TypeOK
<1>6. PolledIsOpen' /\ NoLostWakeup'
    BY <1>1, <1>2, <1>4 DEF LoopInv, PolledIsOpen, NoLostWakeup
<1> QED  BY <1>5, <1>6 DEF LoopInv

\* Draining the pipe is safe once poll() has returned: the next pass looks anew.
LEMMA PollReturnsKeeps ==
    ASSUME LoopInv, PollReturns
    PROVE  LoopInv'
<1>1. TypeOK /\ evt \in EventThread
    BY DEF LoopInv, TypeOK
<1>2. Ready \in SUBSET Handles /\ evt.pass \in SUBSET Handles
    BY <1>1 DEF Ready, EventThread
<1>3. /\ evt' \in EventThread /\ evt'.step \in {"serve", "exited"}
      /\ evt'.pass = evt.pass
    <2>1. CASE CtxAlive
        BY <1>1, <1>2, <2>1 DEF PollReturns, EventThread
    <2>2. CASE ~CtxAlive
        BY <1>1, <2>2 DEF PollReturns, EventThread
    <2> QED  BY <2>1, <2>2
<1>4. TypeOK'
    BY <1>1, <1>3, SessionAssumption DEF TypeOK, PollReturns
<1>5. PolledIsOpen' /\ NoLostWakeup'
    BY <1>3 DEF PollReturns, LoopInv, PolledIsOpen, NoLostWakeup
<1> QED  BY <1>4, <1>5 DEF LoopInv

\* reap(), disconnect() and expire() on one handle of the pass.
LEMMA ServeKeeps ==
    ASSUME LoopInv, NEW h \in Handles, ServeReady(h) \/ ServeOther(h)
    PROVE  LoopInv'
<1>1. TypeOK /\ evt \in EventThread /\ evt.step = "serve"
    BY DEF LoopInv, TypeOK, ServeReady, ServeOther
<1>2. evt' = [evt EXCEPT !.todo = @ \ {h}] /\ UNCHANGED <<file, waking>>
    BY DEF ServeReady, ServeOther
<1>3. evt' \in EventThread /\ evt'.step = "serve" /\ evt'.pass = evt.pass
    BY <1>1, <1>2 DEF EventThread
<1>4. TypeOK'
    <2>1. CASE ServeReady(h)
        <3>1. Written(1) \in 0..PipeSize
            BY <1>1, WrittenType
        <3> QED  BY <1>1, <1>3, <2>1, <3>1 DEF TypeOK, ServeReady
    <2>2. CASE ServeOther(h)
        BY <1>1, <1>3, <2>2 DEF TypeOK, ServeOther
    <2> QED  BY <2>1, <2>2
<1>5. PolledIsOpen' /\ NoLostWakeup'
    BY <1>2, <1>3 DEF LoopInv, PolledIsOpen, NoLostWakeup
<1> QED  BY <1>4, <1>5 DEF LoopInv

\* Closing what only this pass kept open, at its end or when poll() fails.
LEMMA DropPassKeeps ==
    ASSUME LoopInv, DropPass
    PROVE  LoopInv'
<1> DEFINE last == {h \in evt.pass : ~Held(h)}
<1>1. TypeOK /\ evt.pass \subseteq Handles
    BY DEF LoopInv, TypeOK, EventThread
<1>2. Cardinality(last) \in Nat
    <2>1. IsFiniteSet(last)
        BY <1>1, SessionAssumption, FS_Subset
    <2> QED  BY <2>1, FS_CardinalityType
<1>3. pipe' \in 0..PipeSize
    BY <1>1, <1>2, WrittenType DEF DropPass
<1>4. evt' \in EventThread /\ evt'.step = "top" /\ evt'.pass = {}
    BY DEF DropPass, AtTop, EventThread
<1>5. TypeOK'
    BY <1>1, <1>3, <1>4 DEF TypeOK, DropPass
<1>6. PolledIsOpen' /\ NoLostWakeup'
    BY <1>4 DEF PolledIsOpen, NoLostWakeup
<1> QED  BY <1>5, <1>6 DEF LoopInv

\* Every step keeps the invariant.
LEMMA LoopStepKeeps ==
    ASSUME LoopInv, [Next]_vars
    PROVE  LoopInv'
<1>1. CASE UNCHANGED vars
    BY <1>1 DEF vars, LoopInv, TypeOK, PolledIsOpen, NoLostWakeup
<1>2. CASE EventStep
    BY <1>2, SnapshotKeeps, ComputeTimeoutKeeps, PollReturnsKeeps, DropPassKeeps,
       ServeKeeps DEF EventStep, EndPass
<1> QED
    BY <1>1, <1>2, UserKeeps, WakeKeeps, DropKeeps, DropContextKeeps, DropPassKeeps
       DEF Next, PollInterrupted

\* The invariant of the event loop holds in every reachable state, so neither
\* property below needs any strengthening but the type invariant.
THEOREM LoopInvariant == Spec => []LoopInv
BY InitLoopInv, LoopStepKeeps, PTL DEF Spec

\* Whoever drops the last reference to a handle, the event thread polls, reaps
\* and expires open descriptors only.
THEOREM NoUseAfterClose == Spec => []PolledIsOpen
<1>1. LoopInv => PolledIsOpen
    BY DEF LoopInv
<1> QED  BY <1>1, LoopInvariant, PTL

\* The event thread never sleeps through a handle that was opened or a deadline
\* that was set, for any number of handles and any capacity of the pipe.
THEOREM WakeupsKept == Spec => []NoLostWakeup
<1>1. LoopInv => NoLostWakeup
    BY DEF LoopInv
<1> QED  BY <1>1, LoopInvariant, PTL
=============================================================================
