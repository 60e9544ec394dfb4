----------------------------- MODULE Interfaces -----------------------------
(***************************************************************************)
(* Who holds the interfaces of an open device: DeviceHandle's claims and   *)
(* the kernel drivers it detached (src/handle.rs), the leases and claims   *)
(* of the class helpers (Claim in src/class.rs), and what usbfs does with  *)
(* each request.  Threads work on clones of one handle, and every lock the *)
(* code takes and every ioctl it makes is one step.                        *)
(***************************************************************************)
EXTENDS Integers, FiniteSetsExt

CONSTANTS Threads,    \* threads with a clone of the handle
          Interfaces, \* interface numbers of the active configuration
          Driven,     \* those a kernel driver is bound to at first
          NoHelper,   \* no class helper is open
          MaxCalls    \* bound on the number of calls made

ASSUME InterfacesAssumption ==
    /\ Interfaces \subseteq Nat /\ IsFiniteSet(Interfaces)
    /\ Driven \subseteq Interfaces
    /\ NoHelper \notin [leased : SUBSET Interfaces, owned : SUBSET Interfaces]
    /\ MaxCalls \in Nat

VARIABLES bound,      \* usbfs: what holds the interface
          claimed,    \* HandleShared.claimed
          detached,   \* HandleShared.detached, how often it lists the interface
          leased,     \* HandleShared.leased
          autoDetach, \* HandleShared.auto_detach
          closed,     \* HandleShared was dropped
          job,        \* what each thread is doing
          helper,     \* the Claim of the class helper a thread has open
          calls,      \* calls made so far
          raced,      \* history: interfaces two threads worked on at once
          foreign,    \* history: interfaces another process took
          byHand,     \* history: the user detached or attached the driver
          freed,      \* history: the user called release_interface()
          stale       \* history: a reset() failed half-way

flags == <<autoDetach, closed>>
leases == <<leased, helper>>
history == <<foreign, byHand, freed, stale>>
vars == <<bound, claimed, detached, flags, leases, job, calls, raced, history>>

Holders == {"driver", "none", "us", "other"}

\* `todo` are the interfaces the call still has to deal with, `mine` the ones
\* it claimed (`newly` in claim_all_interfaces, `owned` in Claim).
Idle == [op |-> "idle", step |-> "none", todo |-> {}, mine |-> {}, detach |-> FALSE]

Init ==
    /\ bound = [i \in Interfaces |-> IF i \in Driven THEN "driver" ELSE "none"]
    /\ claimed = {} /\ leased = {}
    /\ detached = [i \in Interfaces |-> 0]
    /\ autoDetach = FALSE /\ closed = FALSE
    /\ job = [t \in Threads |-> Idle]
    /\ helper = [t \in Threads |-> NoHelper]
    /\ calls = 0 /\ raced = {} /\ foreign = {} /\ byHand = {} /\ freed = {}
    /\ stale = FALSE

\* The interface in hand: they are dealt with in ascending order.
Cur(t) == Min(job[t].todo)

At(t, step) == job[t].todo # {} /\ job[t].step = step

Goto(t, step) == job' = [job EXCEPT ![t].step = step]

\* The first step a call takes on its next interface.
FirstStep(op) ==
    CASE op \in {"all", "open"} -> "check"
      [] op = "claim"           -> "detach"
      [] op = "reset"           -> "reclaim"
      [] OTHER                  -> "release"

\* The call is done with the interface in hand.
Advance(t, mine) ==
    job' = [job EXCEPT ![t].todo = @ \ {Cur(t)},
                       ![t].mine = mine,
                       ![t].step = FirstStep(job[t].op)]

Call(t, op, todo, detach) ==
    /\ ~closed /\ job[t] = Idle /\ calls < MaxCalls
    /\ calls' = calls + 1
    /\ job' = [job EXCEPT ![t] = [op |-> op, step |-> FirstStep(op), todo |-> todo,
                                  mine |-> {}, detach |-> detach]]

-----------------------------------------------------------------------------
(* The calls. *)

ClaimInterface(t, i) ==
    /\ Call(t, "claim", {i}, autoDetach)
    /\ UNCHANGED <<bound, claimed, detached, leases, flags, history>>

ClaimAllInterfaces(t) ==
    /\ Call(t, "all", Interfaces, TRUE)
    /\ UNCHANGED <<bound, claimed, detached, leases, flags, history>>

ReleaseInterface(t, i) ==
    /\ Call(t, "release", {i}, FALSE)
    /\ freed' = freed \cup {i}
    /\ UNCHANGED <<bound, claimed, detached, leases, flags, foreign, byHand, stale>>

\* lease() reserves all of `wanted`, or fails with Busy.
Lease(wanted) == wanted \cap leased = {} /\ leased' = leased \cup wanted

\* Claim::new: with the lease in hand the interfaces are claimed one by one.
ClaimNew(t, wanted) ==
    /\ helper[t] = NoHelper
    /\ Lease(wanted)
    /\ Call(t, "open", wanted, TRUE)
    /\ helper' = [helper EXCEPT ![t] = [leased |-> wanted, owned |-> {}]]
    /\ UNCHANGED <<bound, claimed, detached, flags, history>>

\* Claim::drop: releases what the helper owns, then gives the lease back.
ClaimDrop(t) ==
    /\ helper[t] # NoHelper
    /\ Call(t, "close", helper[t].owned, FALSE)
    /\ UNCHANGED <<bound, claimed, detached, leases, flags, history>>

\* sys.reset() succeeded; the interfaces in `kept` are still bound to us.
\* Then every claim on record is made again.
Reset(t, kept) ==
    /\ Call(t, "reset", claimed, FALSE)
    /\ bound' = [i \in Interfaces |->
                   IF bound[i] = "us" /\ i \notin kept THEN "none" ELSE bound[i]]
    /\ UNCHANGED <<claimed, detached, leases, flags, history>>

\* detach_kernel_driver() and attach_kernel_driver() called by the user: the
\* ioctl alone.
DetachKernelDriver(t, i) ==
    /\ ~closed /\ job[t] = Idle /\ calls < MaxCalls /\ bound[i] \in {"driver", "us"}
    /\ calls' = calls + 1
    /\ bound' = [bound EXCEPT ![i] = "none"]
    /\ byHand' = byHand \cup {i}
    /\ UNCHANGED <<claimed, detached, leases, flags, job, foreign, freed, stale>>

AttachKernelDriver(t, i) ==
    /\ ~closed /\ job[t] = Idle /\ calls < MaxCalls /\ bound[i] = "none" /\ i \in Driven
    /\ calls' = calls + 1
    /\ bound' = [bound EXCEPT ![i] = "driver"]
    /\ byHand' = byHand \cup {i}
    /\ UNCHANGED <<claimed, detached, leases, flags, job, foreign, freed, stale>>

SetAutoDetach(t) ==
    /\ ~closed /\ job[t] = Idle /\ calls < MaxCalls
    /\ calls' = calls + 1
    /\ autoDetach' = ~autoDetach
    /\ UNCHANGED <<bound, claimed, detached, leases, closed, job, history>>

-----------------------------------------------------------------------------
(* The steps of claim(). *)

\* claim_all_interfaces() and Claim::new skip what is_claimed().
IsClaimed(t) ==
    /\ At(t, "check")
    /\ IF Cur(t) \in claimed THEN Advance(t, job[t].mine) ELSE Goto(t, "detach")
    /\ UNCHANGED <<bound, claimed, detached, leases, flags, calls, history>>

\* Mutant of Unwind: releases every claim on record.
UnwindAll(t) ==
    job' = [job EXCEPT ![t] =
              IF @.op \notin {"all", "open"} THEN Idle
              ELSE [Idle EXCEPT !.op = IF job[t].op = "all" THEN "undo" ELSE "close",
                                !.step = "release", !.todo = claimed]]

\* claim_all_interfaces() releases what it claimed; Claim::new drops the Claim.
Unwind(t) ==
    job' = [job EXCEPT ![t] =
              IF @.op \notin {"all", "open"} THEN Idle
              ELSE [Idle EXCEPT !.op = IF job[t].op = "all" THEN "undo" ELSE "close",
                                !.step = "release", !.todo = job[t].mine]]

\* Nothing to detach; the ioctl works; it fails in a way that still lets the
\* claim be tried (NotSupported, NotFound, Access); or claim() returns the error.
Detach(t) ==
    /\ At(t, "detach")
    /\ \/ /\ ~job[t].detach \/ bound[Cur(t)] # "driver"
          /\ Goto(t, "claim")
          /\ UNCHANGED bound
       \/ /\ job[t].detach /\ bound[Cur(t)] = "driver"
          /\ \/ Goto(t, "record") /\ bound' = [bound EXCEPT ![Cur(t)] = "none"]
             \/ Goto(t, "claim") /\ UNCHANGED bound
             \/ Unwind(t) /\ UNCHANGED bound
    /\ UNCHANGED <<claimed, detached, leases, flags, calls, history>>

\* Mutant: the detached driver is not recorded.
RecordDetachedForgets(t) ==
    /\ At(t, "record")
    /\ Goto(t, "claim")
    /\ UNCHANGED <<bound, claimed, detached, leases, flags, calls, history>>

RecordDetached(t) ==
    /\ At(t, "record")
    /\ detached' = [detached EXCEPT ![Cur(t)] = @ + 1]
    /\ Goto(t, "claim")
    /\ UNCHANGED <<bound, claimed, leases, flags, calls, history>>

\* USBDEVFS_CLAIMINTERFACE: claiming again what we hold is no error.
SysClaim(t) ==
    /\ At(t, "claim")
    /\ IF bound[Cur(t)] \in {"none", "us"}
       THEN Goto(t, "mark") /\ bound' = [bound EXCEPT ![Cur(t)] = "us"]
       ELSE Unwind(t) /\ UNCHANGED bound
    /\ UNCHANGED <<claimed, detached, leases, flags, calls, history>>

Mark(t) ==
    /\ At(t, "mark")
    /\ claimed' = claimed \cup {Cur(t)}
    /\ Advance(t, job[t].mine \cup {Cur(t)})
    /\ UNCHANGED <<bound, detached, leases, flags, calls, history>>

\* The loop of reset(): the first failure ends it, and `claimed` stays.
Reclaim(t) ==
    /\ At(t, "reclaim")
    /\ IF bound[Cur(t)] \in {"none", "us"}
       THEN /\ bound' = [bound EXCEPT ![Cur(t)] = "us"]
            /\ Advance(t, {})
            /\ UNCHANGED stale
       ELSE /\ job' = [job EXCEPT ![t] = Idle]
            /\ stale' = TRUE
            /\ UNCHANGED bound
    /\ UNCHANGED <<claimed, detached, leases, flags, calls, foreign, byHand, freed>>

-----------------------------------------------------------------------------
(* The steps of release_interface(). *)

SysRelease(t) ==
    /\ At(t, "release")
    /\ bound' = [bound EXCEPT ![Cur(t)] = IF @ = "us" THEN "none" ELSE @]
    /\ Goto(t, "unmark")
    /\ UNCHANGED <<claimed, detached, leases, flags, calls, history>>

\* Mutant: the claim stays on record.
UnmarkSkipped(t) ==
    /\ At(t, "unmark")
    /\ UNCHANGED claimed
    /\ Goto(t, "lookup")
    /\ UNCHANGED <<bound, detached, leases, flags, calls, history>>

Unmark(t) ==
    /\ At(t, "unmark")
    /\ claimed' = claimed \ {Cur(t)}
    /\ Goto(t, "lookup")
    /\ UNCHANGED <<bound, detached, leases, flags, calls, history>>

LookupDetached(t) ==
    /\ At(t, "lookup")
    /\ IF detached[Cur(t)] > 0
       THEN detached' = [detached EXCEPT ![Cur(t)] = @ - 1] /\ Goto(t, "attach")
       ELSE UNCHANGED detached /\ Advance(t, {})
    /\ UNCHANGED <<bound, claimed, leases, flags, calls, history>>

\* USBDEVFS_CONNECT binds the driver of a free interface; the outcome is
\* reported, and nothing is left on record.
Reattach(t) ==
    /\ At(t, "attach")
    /\ bound' = [bound EXCEPT ![Cur(t)] =
                   IF @ = "none" /\ Cur(t) \in Driven THEN "driver" ELSE @]
    /\ Advance(t, {})
    /\ UNCHANGED <<claimed, detached, leases, flags, calls, history>>

-----------------------------------------------------------------------------

\* Mutant: a dropped helper keeps its lease.
ReturnKeepsLease(t) ==
    /\ job[t].op # "idle" /\ job[t].todo = {}
    /\ job' = [job EXCEPT ![t] = Idle]
    /\ CASE job[t].op = "open" ->
              helper' = [helper EXCEPT ![t].owned = job[t].mine] /\ UNCHANGED leased
         [] job[t].op = "close" ->
              helper' = [helper EXCEPT ![t] = NoHelper] /\ UNCHANGED leased
         [] OTHER -> UNCHANGED <<leases>>
    /\ UNCHANGED <<bound, claimed, detached, flags, calls, foreign, byHand, freed, stale>>

\* A call is through with its interfaces.  A helper that was opened keeps what
\* it owns; one that is dropped, or could not be opened, gives its lease back.
Return(t) ==
    /\ job[t].op # "idle" /\ job[t].todo = {}
    /\ job' = [job EXCEPT ![t] = Idle]
    /\ CASE job[t].op = "open" ->
              helper' = [helper EXCEPT ![t].owned = job[t].mine] /\ UNCHANGED leased
         [] job[t].op = "close" ->
              /\ helper' = [helper EXCEPT ![t] = NoHelper]
              /\ leased' = leased \ helper[t].leased
         [] OTHER -> UNCHANGED <<leases>>
    /\ UNCHANGED <<bound, claimed, detached, flags, calls, foreign, byHand, freed, stale>>

\* HandleShared::drop, after the last clone (and so after every helper): it
\* releases `claimed`, attaches the drivers in `detached`, and closes.
DropHandle ==
    /\ ~closed
    /\ \A t \in Threads : job[t] = Idle /\ helper[t] = NoHelper
    /\ LET released == [i \in Interfaces |->
                          IF bound[i] = "us" /\ i \in claimed THEN "none" ELSE bound[i]]
           attached == [i \in Interfaces |->
                          IF detached[i] > 0 /\ released[i] = "none" /\ i \in Driven
                          THEN "driver" ELSE released[i]]
       IN bound' = [i \in Interfaces |-> IF attached[i] = "us" THEN "none" ELSE attached[i]]
    /\ claimed' = {} /\ detached' = [i \in Interfaces |-> 0] /\ closed' = TRUE
    /\ UNCHANGED <<leases, autoDetach, job, calls, history>>

\* Another process claims a free interface through usbfs, or lets go of it.
OtherProcess(i) ==
    /\ bound[i] \in {"none", "other"}
    /\ bound' = [bound EXCEPT ![i] = IF @ = "none" THEN "other" ELSE "none"]
    /\ foreign' = foreign \cup {i}
    /\ UNCHANGED <<claimed, detached, leases, flags, job, calls, byHand, freed, stale>>

ThreadCalls(t) ==
    \/ \E i \in Interfaces :
          \/ ClaimInterface(t, i) \/ ReleaseInterface(t, i)
          \/ DetachKernelDriver(t, i) \/ AttachKernelDriver(t, i)
    \/ ClaimAllInterfaces(t)
    \/ \E wanted \in SUBSET Interfaces \ {{}} : ClaimNew(t, wanted)
    \/ ClaimDrop(t)
    \/ \E kept \in SUBSET Interfaces : Reset(t, kept)
    \/ SetAutoDetach(t)

ThreadSteps(t) ==
    \/ IsClaimed(t) \/ Detach(t) \/ RecordDetached(t) \/ SysClaim(t) \/ Mark(t)
    \/ Reclaim(t)
    \/ SysRelease(t) \/ Unmark(t) \/ LookupDetached(t) \/ Reattach(t)
    \/ Return(t)

\* The interfaces a call is working on, or has claimed and may yet release: a
\* reset() works on all of them, and claim_all_interfaces() gives back every
\* one it claimed when it fails.
Touches(t) ==
    job[t].mine \cup {i \in Interfaces :
        \/ job[t].op = "reset"
        \/ i \in job[t].todo /\ (job[t].op = "undo" \/ i = Cur(t))}

Next ==
    /\ \/ \E t \in Threads : ThreadCalls(t) \/ ThreadSteps(t)
       \/ DropHandle
       \/ \E i \in Interfaces : OtherProcess(i)
    /\ raced' = raced \cup
          {i \in Interfaces : \E t, u \in Threads : t # u /\ i \in (Touches(t) \cap Touches(u))'}

Spec == Init /\ [][Next]_vars

-----------------------------------------------------------------------------

\* No call is working on the interface.
Settled(i) == \A t \in Threads : i \notin Touches(t)

\* lease()/unlease(): "so that two helpers can never share one"
\* (HandleShared.leased).  At every moment, and whatever Claim::new failed at,
\* the leases on record are exactly those of the helpers that are open, being
\* opened or being dropped, and no interface is leased twice.
LeasesExact ==
    /\ leased = UNION {helper[t].leased : t \in {u \in Threads : helper[u] # NoHelper}}
    /\ \A t, u \in Threads :
          t # u /\ helper[t] # NoHelper /\ helper[u] # NoHelper =>
              helper[t].leased \cap helper[u].leased = {}

\* claim(), release_interface() and reset(): `claimed` and the kernel agree on
\* every interface no call is working on, unless two threads worked on it at
\* once, the user unbound it by hand, or a reset() failed ("the handle must be
\* reopened").
ClaimsAgree ==
    \A i \in Interfaces \ (raced \cup byHand) :
        Settled(i) /\ ~stale => (i \in claimed <=> bound[i] = "us")

\* "re-attaching any kernel driver that was auto-detached" (DeviceHandle): a
\* driver that claim() detached is bound again or still on record, whichever
\* step failed, and bound again once the handle is gone.  Not ours to restore:
\* what another process took, what the user detached, and an interface that
\* one thread claimed while another released it.
DriversComeBack ==
    \A i \in Driven \ (raced \cup byHand \cup foreign) :
        /\ Settled(i) => bound[i] = "driver" \/ detached[i] > 0
        /\ closed => bound[i] = "driver"

\* Claim: an open class helper holds every interface it leased, its own or
\* borrowed, through the opening, failing and dropping of other helpers and
\* claim_all_interfaces() calls, unless the user releases or unbinds one.
HelperHoldsItsOwn ==
    \A t \in Threads :
        helper[t] # NoHelper /\ job[t].op \notin {"open", "close"} =>
            \A i \in helper[t].leased \ (raced \cup byHand \cup freed) :
                Settled(i) /\ ~stale => i \in claimed /\ bound[i] = "us"
=============================================================================
