------------------------------- MODULE Hotplug -------------------------------
(***************************************************************************)
(* Hotplug notifications: the Registry of src/hotplug.rs with its dispatch *)
(* thread, over the uevent socket that the Linux event thread serves.      *)
(*                                                                         *)
(* Three threads meet: a user thread registering a listener (add, which    *)
(* holds the `dispatch` lock from start to end), the event thread (which   *)
(* drains the socket and raises `pending`), and the dispatch thread (which *)
(* enumerates, compares with `known` and calls the listeners).  A device   *)
(* stands for what same_device() compares; `told` records the calls made.  *)
(***************************************************************************)
EXTENDS Integers, FiniteSets

CONSTANTS
    Devices,       \* the devices that may be plugged in
    Listeners,     \* the registrations user code may make, each once
    Existing,      \* those built with enumerate_existing
    Wants,         \* the devices each listener's Filter matches
    MaxChanges,    \* bound on how often a device is plugged in or unplugged
    NoListener

ASSUME HotplugAssumption ==
    /\ Existing \subseteq Listeners
    /\ Wants \in [Listeners -> SUBSET Devices]
    /\ MaxChanges \in Nat
    /\ NoListener \notin Listeners

VARIABLES
    attached,     \* the devices the system has
    changes,      \* how often that changed
    uevent,       \* a device uevent waits in the socket
    overrun,      \* the socket has dropped a message: POLLERR, ENOBUFS
    watching,     \* Context.hotplug is Some: the event thread polls the socket
    started,      \* State.started
    known,        \* State.known
    listed,       \* State.listeners
    pending,      \* SignalState.pending
    stop,         \* SignalState.stop
    dispatch,     \* who holds Registry.dispatch: "free", "add" or "thread"
    adder,        \* the add() in progress
    thread,       \* the dispatch thread
    scanFailed,   \* the latest enumeration failed
    ctxHeld,      \* user code holds the Context
    joining,      \* Registry::drop waits for the dispatch thread
    reg,          \* each listener: "new", "live", "dropped"
    told,         \* arrivals minus departures each listener was called with
    base          \* State.known when the listener was added without enumeration

vars == <<attached, changes, uevent, overrun, watching, started, known, listed,
          pending, stop, dispatch, adder, thread, scanFailed, ctxHeld, joining,
          reg, told, base>>

sysVars == <<attached, changes, uevent, overrun, watching>>
sessionVars == <<stop, ctxHeld, joining>>
listVars == <<known, listed, reg, base>>

\* One call of one listener's callback.
Event == [kind : {"Arrived", "Left"}, dev : Devices, to : Listeners]

NoAdd == [step |-> "none", l |-> NoListener, seed |-> {}]

\* `seen` is what the thread has enumerated, `todo` the calls it has to make.
NoThread == [step |-> "none", seen |-> {}, todo |-> {}]

Init ==
    /\ attached \in SUBSET Devices
    /\ changes = 0
    /\ uevent = FALSE /\ overrun = FALSE /\ watching = FALSE
    /\ started = FALSE
    /\ known = {} /\ listed = {}
    /\ pending = FALSE /\ stop = FALSE
    /\ dispatch = "free"
    /\ adder = NoAdd
    /\ thread = NoThread
    /\ scanFailed = FALSE
    /\ ctxHeld = TRUE /\ joining = FALSE
    /\ reg = [l \in Listeners |-> "new"]
    /\ told = [l \in Listeners |-> [d \in Devices |-> 0]]
    /\ base = [l \in Listeners |-> {}]

(***************************************************************************)
(* Devices and the kernel (external).                                      *)
(***************************************************************************)

\* A device comes or goes.  The uevent is queued, or the full socket drops it
\* and reports an error from then on.
DeviceChanges(d) ==
    /\ changes < MaxChanges
    /\ changes' = changes + 1
    /\ attached' = IF d \in attached THEN attached \ {d} ELSE attached \cup {d}
    /\ IF watching
       THEN \/ uevent' = TRUE /\ UNCHANGED overrun
            \/ overrun' = TRUE /\ UNCHANGED uevent
       ELSE UNCHANGED <<uevent, overrun>>
    /\ UNCHANGED <<watching, started, pending, dispatch, adder, thread, scanFailed,
                   told, listVars, sessionVars>>

(***************************************************************************)
(* The event thread.                                                       *)
(***************************************************************************)

\* POLLIN: drain_uevents() reads everything, an error that poll() had not
\* reported included, and the signal is raised.
DrainUevents ==
    /\ watching /\ (uevent \/ overrun)
    /\ uevent' = FALSE /\ overrun' = FALSE
    /\ pending' = TRUE
    /\ UNCHANGED <<attached, changes, watching, started, dispatch, adder, thread,
                   scanFailed, told, listVars, sessionVars>>

\* POLLERR: the socket is given up, after one last notify().
SocketError ==
    /\ watching /\ overrun
    /\ uevent' = FALSE /\ overrun' = FALSE
    /\ watching' = FALSE
    /\ pending' = TRUE
    /\ UNCHANGED <<attached, changes, started, dispatch, adder, thread, scanFailed,
                   told, listVars, sessionVars>>

(***************************************************************************)
(* Registration (a user thread).                                           *)
(***************************************************************************)

\* add() takes the dispatch lock; the first one asks the OS for notifications.
AddStart(l) ==
    /\ ctxHeld /\ reg[l] = "new"
    /\ adder = NoAdd /\ dispatch = "free"
    /\ dispatch' = "add"
    /\ watching' = (watching \/ ~started)
    /\ adder' = [step |-> IF started THEN "push" ELSE "enumerate", l |-> l, seed |-> {}]
    /\ UNCHANGED <<attached, changes, uevent, overrun, started, pending, thread,
                   scanFailed, told, listVars, sessionVars>>

\* The dispatch thread cannot be spawned and add() fails; the OS keeps notifying.
\* (When it is the OS that refuses, add() changes nothing.)
AddFails ==
    /\ adder.step = "enumerate"
    /\ known' \in {attached, {}}
    /\ adder' = NoAdd /\ dispatch' = "free"
    /\ UNCHANGED <<started, pending, thread, scanFailed, told, listed, reg, base,
                   sysVars, sessionVars>>

\* The first add() takes the present devices as known (none of them if the
\* enumeration fails) and spawns the dispatch thread.
AddEnumerate ==
    /\ adder.step = "enumerate"
    /\ \/ known' = attached /\ scanFailed' = FALSE
       \/ known' = {} /\ scanFailed' = TRUE
    /\ started' = TRUE
    /\ thread' = [thread EXCEPT !.step = "wait"]
    /\ adder' = [adder EXCEPT !.step = "push"]
    /\ UNCHANGED <<pending, dispatch, told, listed, reg, base, sysVars, sessionVars>>

\* add() lists the listener and takes a copy of `known` for its initial batch.
AddPush ==
    LET l == adder.l
    IN  /\ adder.step = "push"
        /\ listed' = listed \cup {l}
        /\ adder' = [adder EXCEPT !.step = "seed",
                       !.seed = IF l \in Existing THEN known \cap Wants[l] ELSE {}]
        /\ base' = [base EXCEPT ![l] = IF l \in Existing THEN {} ELSE known]
        /\ UNCHANGED <<started, known, pending, dispatch, thread, scanFailed, reg,
                       told, sysVars, sessionVars>>

\* One device of the initial batch, with the registry unlocked.
AddSeed(d) ==
    LET l == adder.l
    IN  /\ adder.step = "seed" /\ d \in adder.seed
        /\ told' = [told EXCEPT ![l][d] = @ + 1]
        /\ adder' = [adder EXCEPT !.seed = @ \ {d}]
        /\ UNCHANGED <<started, pending, dispatch, thread, scanFailed, listVars,
                       sysVars, sessionVars>>

\* add() unlocks `dispatch` and hands the registration back.
AddDone ==
    /\ adder.step = "seed" /\ adder.seed = {}
    /\ reg' = [reg EXCEPT ![adder.l] = "live"]
    /\ adder' = NoAdd
    /\ dispatch' = "free"
    /\ UNCHANGED <<started, known, listed, base, pending, thread, scanFailed, told,
                   sysVars, sessionVars>>

\* HotplugRegistration::drop, by any thread, the callback's own included.
DropRegistration(l) ==
    /\ reg[l] = "live"
    /\ reg' = [reg EXCEPT ![l] = "dropped"]
    /\ listed' = listed \ {l}
    /\ UNCHANGED <<started, known, base, pending, dispatch, adder, thread,
                   scanFailed, told, sysVars, sessionVars>>

(***************************************************************************)
(* The dispatch thread.                                                    *)
(***************************************************************************)

\* Between the upgrade of its Weak and drop(inner) the thread owns the context.
ThreadOwns == thread.step \in {"enumerate", "lock", "call", "release"}

\* Signal::wait returns.
ThreadWakes ==
    /\ thread.step = "wait" /\ (pending \/ stop)
    /\ thread' = [thread EXCEPT !.step = IF stop THEN "exited" ELSE "settle"]
    /\ UNCHANGED <<started, pending, dispatch, adder, scanFailed, told, listVars,
                   sysVars, sessionVars>>

\* The burst has settled: take_pending(), and the upgrade of the context.
TakePending ==
    /\ thread.step = "settle"
    /\ pending' = FALSE
    /\ thread' = [thread EXCEPT !.step = IF stop \/ ~ctxHeld THEN "exited"
                                         ELSE "enumerate"]
    /\ UNCHANGED <<started, dispatch, adder, scanFailed, told, listVars, sysVars,
                   sessionVars>>

\* rescan() enumerates, before it takes the lock; it gives up if that fails.
Enumerate ==
    /\ thread.step = "enumerate"
    /\ \/ /\ thread' = [thread EXCEPT !.step = "lock", !.seen = attached]
          /\ scanFailed' = FALSE
       \/ /\ thread' = [thread EXCEPT !.step = "release"]
          /\ scanFailed' = TRUE
    /\ UNCHANGED <<started, pending, dispatch, adder, told, listVars, sysVars,
                   sessionVars>>

\* What changed, and whom to tell.
Calls(previous, current) ==
    {e \in Event :
        /\ e.to \in listed /\ e.dev \in Wants[e.to]
        /\ IF e.kind = "Arrived" THEN e.dev \in current \ previous
           ELSE e.dev \in previous \ current}

\* Mutants of Compare: `known` is not replaced; the dispatch lock is not taken.
CompareForgets ==
    /\ thread.step = "lock" /\ dispatch = "free"
    /\ dispatch' = "thread"
    /\ thread' = [thread EXCEPT !.step = "call", !.todo = Calls(known, thread.seen)]
    /\ UNCHANGED <<started, listVars, pending, adder, scanFailed, told, sysVars,
                   sessionVars>>

CompareUnlocked ==
    /\ thread.step = "lock"
    /\ known' = thread.seen
    /\ thread' = [thread EXCEPT !.step = "call", !.todo = Calls(known, thread.seen)]
    /\ UNCHANGED <<started, listed, reg, base, pending, dispatch, adder, scanFailed,
                   told, sysVars, sessionVars>>

\* rescan() takes the dispatch lock and, under the state lock, replaces `known`
\* and copies the listeners.
Compare ==
    /\ thread.step = "lock" /\ dispatch = "free"
    /\ dispatch' = "thread"
    /\ known' = thread.seen
    /\ thread' = [thread EXCEPT !.step = "call", !.todo = Calls(known, thread.seen)]
    /\ UNCHANGED <<started, listed, reg, base, pending, adder, scanFailed, told,
                   sysVars, sessionVars>>

\* One callback, departures first, with the registry unlocked.
Call(e) ==
    /\ thread.step = "call" /\ e \in thread.todo
    /\ e.kind = "Arrived" => \A f \in thread.todo : f.kind = "Arrived"
    /\ told' = [told EXCEPT ![e.to][e.dev] =
                  @ + (IF e.kind = "Arrived" THEN 1 ELSE -1)]
    /\ thread' = [thread EXCEPT !.todo = @ \ {e}]
    /\ UNCHANGED <<started, pending, dispatch, adder, scanFailed, listVars, sysVars,
                   sessionVars>>

\* Mutant of CallsDone: the pending flag is consumed after the scan.
CallsDoneClears ==
    /\ thread.step = "call" /\ thread.todo = {}
    /\ dispatch' = "free"
    /\ pending' = FALSE
    /\ thread' = [thread EXCEPT !.step = "release", !.seen = {}]
    /\ UNCHANGED <<started, adder, scanFailed, told, listVars, sysVars, sessionVars>>

\* rescan() returns and unlocks `dispatch`.
CallsDone ==
    /\ thread.step = "call" /\ thread.todo = {}
    /\ dispatch' = "free"
    /\ thread' = [thread EXCEPT !.step = "release", !.seen = {}]
    /\ UNCHANGED <<started, pending, adder, scanFailed, told, listVars, sysVars,
                   sessionVars>>

\* drop(inner): if that was the last Arc, Registry::drop runs here and does not
\* join.  Then the loop looks at `stop` and starts over.
Release ==
    /\ thread.step = "release"
    /\ stop' = (stop \/ ~ctxHeld)
    /\ thread' = [thread EXCEPT !.step = IF stop' THEN "exited" ELSE "wait"]
    /\ UNCHANGED <<started, pending, dispatch, adder, scanFailed, told, listVars,
                   sysVars, ctxHeld, joining>>

(***************************************************************************)
(* The end of the session.                                                 *)
(***************************************************************************)

\* Mutant of DropContext: the thread is joined but not told to stop.
DropContextSilent ==
    /\ ctxHeld /\ adder = NoAdd
    /\ ctxHeld' = FALSE
    /\ joining' = (started /\ ~ThreadOwns)
    /\ UNCHANGED <<started, pending, stop, dispatch, adder, thread, scanFailed, told,
                   listVars, sysVars>>

\* The user's last Context goes; Registry::drop stops and joins the thread
\* unless the thread owns the context at this moment.
DropContext ==
    /\ ctxHeld /\ adder = NoAdd
    /\ ctxHeld' = FALSE
    /\ stop' = ~ThreadOwns
    /\ joining' = (started /\ ~ThreadOwns)
    /\ UNCHANGED <<started, pending, dispatch, adder, thread, scanFailed, told,
                   listVars, sysVars>>

JoinReturns ==
    /\ joining /\ thread.step = "exited"
    /\ joining' = FALSE
    /\ UNCHANGED <<started, pending, dispatch, adder, thread, scanFailed, told,
                   listVars, sysVars, stop, ctxHeld>>

-----------------------------------------------------------------------------

AddStep ==
    \/ AddEnumerate \/ AddFails \/ AddPush \/ AddDone \/ \E d \in Devices : AddSeed(d)

ThreadStep ==
    \/ ThreadWakes \/ TakePending \/ Enumerate \/ Compare \/ CallsDone \/ Release
    \/ \E e \in thread.todo : Call(e)

Next ==
    \/ \E d \in Devices : DeviceChanges(d)
    \/ DrainUevents \/ SocketError
    \/ AddStep \/ ThreadStep
    \/ \E l \in Listeners : AddStart(l) \/ DropRegistration(l)
    \/ DropContext \/ JoinReturns

Spec == Init /\ [][Next]_vars

(***************************************************************************)
(* Fairness: the threads run and callbacks return.  Devices, the socket's  *)
(* buffer and users owe nothing.                                           *)
(***************************************************************************)
Fairness ==
    /\ WF_vars(DrainUevents \/ SocketError)
    /\ WF_vars(AddStep) /\ WF_vars(ThreadStep)
    /\ WF_vars(JoinReturns)

FairSpec == Spec /\ Fairness

(***************************************************************************)
(* Properties.                                                             *)
(***************************************************************************)

\* Each variable has its type; a listener's calls about one device never add up
\* to more than one arrival or one departure.
Flags ==
    /\ uevent \in BOOLEAN /\ overrun \in BOOLEAN /\ watching \in BOOLEAN
    /\ started \in BOOLEAN /\ scanFailed \in BOOLEAN
    /\ pending \in BOOLEAN /\ stop \in BOOLEAN
    /\ ctxHeld \in BOOLEAN /\ joining \in BOOLEAN

Shapes ==
    /\ attached \subseteq Devices /\ known \subseteq Devices
    /\ changes \in 0..MaxChanges
    /\ listed \subseteq Listeners
    /\ dispatch \in {"free", "add", "thread"}
    /\ adder \in [step : {"none", "enumerate", "push", "seed"},
                  l : Listeners \cup {NoListener}, seed : SUBSET Devices]
    /\ adder.step # "none" => adder.l \in Listeners
    /\ thread \in [step : {"none", "wait", "settle", "enumerate", "lock", "call",
                           "release", "exited"},
                   seen : SUBSET Devices, todo : SUBSET Event]
    /\ reg \in [Listeners -> {"new", "live", "dropped"}]
    /\ told \in [Listeners -> [Devices -> -1..1]]
    /\ base \in [Listeners -> SUBSET Devices]

TypeOK == Flags /\ Shapes

\* 1 if b holds, 0 if not.
One(b) == IF b THEN 1 ELSE 0

\* The calls about d that add() or rescan() has still to make to l.
Due(l, d) ==
      One(adder.l = l /\ d \in adder.seed)
    + One([kind |-> "Arrived", dev |-> d, to |-> l] \in thread.todo)
    - One([kind |-> "Left", dev |-> d, to |-> l] \in thread.todo)

\* No event is lost or repeated between the registry and a listener: what it was
\* told, with the calls under way, adds up to the change of `known` since it was
\* added, however add(), rescan() and the enumeration interleave.
ToldIsKnown ==
    \A l \in listed : \A d \in Wants[l] :
        told[l][d] + Due(l, d) = One(d \in known) - One(d \in base[l])

\* A listener that asked for the existing devices never sees "a departure before
\* the matching arrival", nor a second arrival of a device that has not left.
ArrivalFirst == \A l \in Existing, d \in Devices : told[l][d] \in {0, 1}

\* Every change is reported in the end, as long as the socket is watched and the
\* latest enumeration succeeded: a change during a scan raises `pending` anew.
Converges ==
    <>[](\A l \in Listeners :
            ctxHeld /\ watching /\ ~scanFailed /\ reg[l] = "live" =>
                \A d \in Wants[l] :
                    told[l][d] = One(d \in attached) - One(d \in base[l]))

\* When the session ends the dispatch thread ends, and whoever dropped the
\* context is not left waiting for it.
SessionEnds == ~ctxHeld ~> (thread.step \in {"none", "exited"} /\ ~joining)

\* "Dropping it stops the callbacks" (HotplugRegistration): no callback starts
\* once the registration has been dropped.
NoCallAfterDrop ==
    [][\A l \in Listeners : reg[l] = "dropped" => told'[l] = told[l]]_vars
=============================================================================
