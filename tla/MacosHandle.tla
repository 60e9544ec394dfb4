----------------------------- MODULE MacosHandle -----------------------------
(***************************************************************************)
(* Opening, claiming and capturing on macOS (src/sys/macos/mod.rs): the    *)
(* DeviceRef that all handles of a device share with its exclusive open,   *)
(* the interfaces each handle has claimed, and the capture that detaches   *)
(* the kernel drivers of all interfaces at once.  Threads interleave where *)
(* a lock is let go: detach_kernel_driver() drops `capture` before it      *)
(* reopens and reclaims, and the device is handed back after the decision. *)
(* The calls that detach, attach or release on one handle are taken to     *)
(* come from one thread at a time.                                         *)
(***************************************************************************)
EXTENDS Naturals, FiniteSets

CONSTANTS Handles,      \* handles of one device
          Ifaces,       \* its interfaces
          MaxCalls,     \* bound on the number of calls
          MaxFaults,    \* bound on failing IOKit calls
          Free, Driver  \* who else may own an interface

VARIABLES live,      \* the handles that exist
          isOpen,    \* Handle.is_open
          capture,   \* Handle.capture
          claimed,   \* Handle.claimed: the interfaces with an open object
          openCount, \* DeviceRef.open_count
          kernel,    \* IOKit: device open, device captured, owner of each interface
          call,      \* each handle's detach or hand-back under way
          left,      \* calls left within the bound
          faults     \* IOKit calls that have failed

vars == <<live, isOpen, capture, claimed, openCount, kernel, call, left, faults>>

Idle == [op |-> "idle", todo |-> {}]

Init ==
    /\ live = {} /\ isOpen = [h \in Handles |-> FALSE]
    /\ capture = [h \in Handles |-> "None"]
    /\ claimed = [h \in Handles |-> {}]
    /\ openCount = 0
    /\ kernel = [open |-> FALSE, captured |-> FALSE, owner |-> [i \in Ifaces |-> Driver]]
    /\ call = [h \in Handles |-> Idle] /\ left = MaxCalls /\ faults = 0

Calls(h) == h \in live /\ left > 0 /\ left' = left - 1
Fails == faults < MaxFaults /\ faults' = faults + 1

\* USBDeviceReEnumerate: the drivers go or come back, and with them every
\* claim and the device's open.
Reenumerated(captured) ==
    [open |-> FALSE, captured |-> captured,
     owner |-> [i \in Ifaces |-> IF captured THEN Free ELSE Driver]]

\* DeviceRef::open(): only the first share opens; Context::open() goes on
\* without one when another driver holds the device.
Open(h) ==
    /\ h \notin live /\ left > 0 /\ left' = left - 1
    /\ live' = live \cup {h}
    /\ \/ /\ isOpen' = [isOpen EXCEPT ![h] = TRUE]
          /\ openCount' = openCount + 1
          /\ kernel' = IF openCount = 0 THEN [kernel EXCEPT !.open = TRUE] ELSE kernel
          /\ UNCHANGED faults
       \/ openCount = 0 /\ Fails /\ UNCHANGED <<isOpen, openCount, kernel>>
    /\ UNCHANGED <<capture, claimed, call>>

\* claim_interface(): the lock of `claimed` is taken by a reclaim under way.
Claim(h, i) ==
    /\ Calls(h) /\ i \notin claimed[h] /\ call[h].op # "reclaim" /\ kernel.owner[i] = Free
    /\ claimed' = [claimed EXCEPT ![h] = @ \cup {i}]
    /\ kernel' = [kernel EXCEPT !.owner[i] = h]
    /\ UNCHANGED <<live, isOpen, capture, openCount, call, faults>>

Closed(h, is) ==
    [kernel EXCEPT !.owner = [i \in Ifaces |-> IF i \in is /\ @[i] = h THEN Free ELSE @[i]]]

\* release_interface(): the last one of a handle that was asked to re-attach
\* leads to the hand-back.
Release(h, i) ==
    /\ Calls(h) /\ i \in claimed[h] /\ call[h] = Idle
    /\ claimed' = [claimed EXCEPT ![h] = @ \ {i}]
    /\ kernel' = Closed(h, {i})
    /\ IF claimed[h] = {i} /\ capture[h] = "ReleasePending"
       THEN /\ capture' = [capture EXCEPT ![h] = "None"]
            /\ call' = [call EXCEPT ![h].op = "handback"]
       ELSE UNCHANGED <<capture, call>>
    /\ UNCHANGED <<live, isOpen, openCount, faults>>

\* detach_kernel_driver(): the capture itself ...
Detach(h, i) ==
    /\ Calls(h) /\ call[h] = Idle /\ capture[h] = "None" /\ kernel.owner[i] = Driver
    /\ \/ /\ kernel' = Reenumerated(TRUE)
          /\ capture' = [capture EXCEPT ![h] = "Held"]
          /\ call' = [call EXCEPT ![h].op = "reopen"]
          /\ UNCHANGED faults
       \/ Fails /\ UNCHANGED <<kernel, capture, call>>
    /\ UNCHANGED <<live, isOpen, claimed, openCount>>

\* Mutant: detach_kernel_driver() opens a device that this handle has open already.
ReopenTwice(h) ==
    /\ call[h].op = "reopen"
    /\ kernel' = [kernel EXCEPT !.open = TRUE]
    /\ openCount' = openCount + 1
    /\ isOpen' = [isOpen EXCEPT ![h] = TRUE]
    /\ call' = [call EXCEPT ![h] = [op |-> "reclaim", todo |-> claimed[h]]]
    /\ claimed' = [claimed EXCEPT ![h] = {}]
    /\ UNCHANGED <<live, capture, left, faults>>

\* ... then the open is taken back, or taken for the first time; `claimed` is
\* emptied and what was in it remembered ...
Reopen(h) ==
    /\ call[h].op = "reopen"
    /\ \/ /\ kernel' = [kernel EXCEPT !.open = TRUE]
          /\ openCount' = IF isOpen[h] THEN openCount ELSE openCount + 1
          /\ isOpen' = [isOpen EXCEPT ![h] = TRUE]
          /\ call' = [call EXCEPT ![h] = [op |-> "reclaim", todo |-> claimed[h]]]
          /\ claimed' = [claimed EXCEPT ![h] = {}]
          /\ UNCHANGED faults
       \/ /\ Fails /\ call' = [call EXCEPT ![h] = Idle]
          /\ UNCHANGED <<kernel, openCount, isOpen, claimed>>
    /\ UNCHANGED <<live, capture, left>>

\* ... and the interfaces one by one; a failure gives up the rest.
Reclaim(h) ==
    /\ call[h].op = "reclaim"
    /\ \/ /\ call[h].todo = {} /\ call' = [call EXCEPT ![h] = Idle]
          /\ UNCHANGED <<claimed, kernel, faults>>
       \/ \E i \in call[h].todo :
            /\ kernel.owner[i] = Free
            /\ claimed' = [claimed EXCEPT ![h] = @ \cup {i}]
            /\ kernel' = [kernel EXCEPT !.owner[i] = h]
            /\ call' = [call EXCEPT ![h].todo = @ \ {i}]
            /\ UNCHANGED faults
       \/ /\ call[h].todo # {}
          /\ \/ Fails
             \/ (\E i \in call[h].todo : kernel.owner[i] # Free) /\ UNCHANGED faults
          /\ call' = [call EXCEPT ![h] = Idle]
          /\ UNCHANGED <<claimed, kernel>>
    /\ UNCHANGED <<live, isOpen, capture, openCount, left>>

\* attach_kernel_driver(): later if this handle still has interfaces.
Attach(h) ==
    /\ Calls(h) /\ call[h] = Idle /\ capture[h] # "None"
    /\ IF claimed[h] # {} THEN capture' = [capture EXCEPT ![h] = "ReleasePending"] /\ UNCHANGED call
       ELSE /\ capture' = [capture EXCEPT ![h] = "None"]
            /\ call' = [call EXCEPT ![h].op = "handback"]
    /\ UNCHANGED <<live, isOpen, claimed, openCount, kernel, faults>>

\* close(): when the last clone of the handle goes, before its Drop.
Close(h) ==
    /\ Calls(h) /\ call[h] = Idle
    /\ capture' = [capture EXCEPT ![h] = "None"]
    /\ call' = [call EXCEPT ![h].op = IF capture[h] = "None" THEN "drop" ELSE "handbackAndDrop"]
    /\ UNCHANGED <<live, isOpen, claimed, openCount, kernel, faults>>

HandBack(h) ==
    /\ call[h].op \in {"handback", "handbackAndDrop"}
    /\ \/ kernel' = Reenumerated(FALSE) /\ UNCHANGED faults
       \/ Fails /\ UNCHANGED kernel
    /\ call' = [call EXCEPT ![h].op = IF @ = "handback" THEN "idle" ELSE "drop"]
    /\ UNCHANGED <<live, isOpen, capture, claimed, openCount, left>>

\* Handle::drop(): the claims go, then this handle's share of the open.
DropHandle(h) ==
    /\ call[h].op = "drop"
    /\ live' = live \ {h} /\ claimed' = [claimed EXCEPT ![h] = {}]
    /\ openCount' = IF isOpen[h] THEN openCount - 1 ELSE openCount
    /\ kernel' = [Closed(h, claimed[h]) EXCEPT !.open = @ /\ ~(isOpen[h] /\ openCount = 1)]
    /\ isOpen' = [isOpen EXCEPT ![h] = FALSE]
    /\ call' = [call EXCEPT ![h] = Idle]
    /\ UNCHANGED <<capture, left, faults>>

Next ==
    \E h \in Handles :
        \/ Open(h) \/ Reopen(h) \/ Reclaim(h) \/ Attach(h) \/ Close(h) \/ HandBack(h) \/ DropHandle(h)
        \/ \E i \in Ifaces : Claim(h, i) \/ Release(h, i) \/ Detach(h, i)

Spec == Init /\ [][Next]_vars

-----------------------------------------------------------------------------
(* Properties *)

\* What handles take of a device they give back.  DeviceRef::open_count is the
\* number of handles with a share, through captures that give a handle its share
\* late, failed reopens and drops in any order, and the device is closed when
\* the last share is gone.  A captured device belongs to a handle that will hand
\* it back: as long as no IOKit call has failed, some handle has it captured or
\* is about to return it ("The device is handed back once the handle that
\* captured it has released all of its interfaces", and at the latest in close()).
DeviceIsGivenBack ==
    /\ openCount = Cardinality({h \in live : isOpen[h]})
    /\ kernel.open => openCount > 0
    /\ (kernel.captured /\ faults = 0) =>
           \E h \in live : capture[h] # "None" \/ call[h].op \in {"handback", "handbackAndDrop"}
=============================================================================
