-------------------------- MODULE InterfacesProofs --------------------------
(***************************************************************************)
(* Proofs about Interfaces, for any threads, interfaces and drivers.       *)
(***************************************************************************)
EXTENDS Interfaces, WellFoundedInduction, TLAPS

USE InterfacesAssumption

Ops == {"idle", "claim", "all", "release", "open", "close", "reset", "undo"}

Steps == {"none", "check", "detach", "record", "claim", "mark", "reclaim",
          "release", "unmark", "lookup", "attach"}

Job == [op : Ops, step : Steps, todo : SUBSET Interfaces, mine : SUBSET Interfaces,
        detach : BOOLEAN]

Claim == [leased : SUBSET Interfaces, owned : SUBSET Interfaces]

Flag == autoDetach \in BOOLEAN

Shapes ==
    /\ bound \in [Interfaces -> Holders]
    /\ claimed \subseteq Interfaces
    /\ detached \in [Interfaces -> Nat]
    /\ job \in [Threads -> Job]
    /\ helper \in [Threads -> {NoHelper} \cup Claim]

\* A call that is dealing with an interface is at one of the steps of its loop.
StepsOf(op) ==
    IF op \in {"all", "open"} THEN {"check", "detach", "record", "claim", "mark"}
    ELSE IF op = "claim" THEN {"detach", "record", "claim", "mark"}
    ELSE IF op = "reset" THEN {"reclaim"}
    ELSE {"release", "unmark", "lookup", "attach"}

\* What each call has in hand: an idle thread nothing; only a call that claims
\* has claimed anything, and no interface twice; a helper's calls stay within
\* its lease; release_interface() is the user's doing.
JobOf(t) ==
    /\ job[t].op = "idle" => job[t] = Idle
    /\ job[t].todo # {} => job[t].step \in StepsOf(job[t].op)
    /\ job[t].mine # {} => job[t].op \in {"claim", "all", "open"}
    /\ job[t].mine \cap job[t].todo = {}
    /\ job[t].op = "release" => job[t].todo \subseteq freed
    /\ job[t].op \in {"open", "close"} =>
          helper[t] # NoHelper /\ job[t].todo \cup job[t].mine \subseteq helper[t].leased
    /\ helper[t] # NoHelper => helper[t].owned \subseteq helper[t].leased
    /\ closed => job[t] = Idle

Jobs == \A t \in Threads : JobOf(t)

\* An interface that is not in `raced` is worked on by one thread at a time.
Apart ==
    \A t, u \in Threads, i \in Interfaces :
        t # u /\ i \in Touches(t) /\ i \in Touches(u) => i \in raced

\* Thread t stands at the given step, with interface i in hand.
Has(t, i, step) == i \in job[t].todo /\ i = Cur(t) /\ job[t].step = step

\* reset() has still to claim the interface again.
Reclaiming(t, i) == job[t].op = "reset" /\ i \in job[t].todo

\* `claimed` and the kernel, whatever is under way: what the kernel gave us is
\* on record unless claim() has yet to put it there; what is on record is ours
\* unless release_interface() has yet to strike it, or reset() to claim it again.
RecordedAt(i) ==
    /\ bound[i] = "us" => i \in claimed \/ \E t \in Threads : Has(t, i, "mark")
    /\ i \in claimed /\ ~stale =>
          bound[i] = "us" \/ \E t \in Threads : Has(t, i, "unmark") \/ Reclaiming(t, i)
    /\ \A t \in Threads :
          /\ Has(t, i, "mark") => bound[i] = "us"
          /\ Has(t, i, "unmark") \/ Has(t, i, "lookup") \/ Has(t, i, "attach") =>
                bound[i] # "us"
          /\ i \in job[t].mine \/ Reclaiming(t, i) => i \in claimed

Recorded == \A i \in Interfaces \ (raced \cup byHand) : RecordedAt(i)

\* A driver that was detached is bound again, on record, or about to be either.
RestorableAt(i) ==
    /\ bound[i] # "other"
    /\ \/ bound[i] = "driver" \/ detached[i] > 0
       \/ \E t \in Threads : Has(t, i, "record") \/ Has(t, i, "attach")
    /\ closed => bound[i] = "driver"

Restorable == \A i \in Driven \ (raced \cup byHand \cup foreign) : RestorableAt(i)

\* The call is a claim_all_interfaces() that will release the interface, or is
\* claiming it and then may.
MayUndo(u, i) ==
    \/ job[u].op = "undo" /\ i \in job[u].todo
    \/ job[u].op = "all" /\ i \in job[u].mine
    \/ job[u].op = "all" /\ i \in job[u].todo /\ i = Cur(u) /\ job[u].step # "check"

\* What a helper leases stays on record from the moment it was found or put
\* there, and no call under way will release it.
HeldAt(t, i) ==
    \/ job[t].op = "open" /\ i \in job[t].todo
    \/ i \in claimed /\ \A u \in Threads : ~MayUndo(u, i)

Held ==
    \A t \in Threads :
        helper[t] # NoHelper /\ job[t].op # "close" =>
            \A i \in helper[t].leased \ (raced \cup byHand \cup freed) : HeldAt(t, i)

FaceInv ==
    /\ Flag /\ Shapes /\ Jobs /\ LeasesExact /\ Apart /\ Recorded /\ Restorable /\ Held

-----------------------------------------------------------------------------

\* The interface in hand is one the call has still to deal with.
LEMMA MinIsIn ==
    ASSUME NEW s \in SUBSET Nat, s # {}
    PROVE  Min(s) \in s
<1>1. PICK x \in s : \A y \in s : ~(<<y, x>> \in OpToRel(<, Nat))
    BY NatLessThanWellFounded, WFMin
<1>2. \A y \in s : ~(y < x)
    <2> TAKE y \in s
    <2>1. <<y, x>> \in Nat \X Nat /\ <<y, x>>[1] = y /\ <<y, x>>[2] = x
        OBVIOUS
    <2> QED  BY <1>1, <2>1, Zenon DEF OpToRel
<1>3. \A y \in s : x <= y
    BY <1>2
<1> QED  BY <1>3 DEF Min

(* Cur(t), the interface a call works on next, is one of those still to do. *)
LEMMA CurIsDue ==
    ASSUME Shapes, NEW t \in Threads, job[t].todo # {}
    PROVE  Cur(t) \in job[t].todo /\ Cur(t) \in Interfaces
<1>1. job[t].todo \subseteq Interfaces
    BY DEF Shapes, Job
<1>2. job[t].todo \in SUBSET Nat
    BY <1>1
<1>3. Cur(t) \in job[t].todo
    BY <1>2, MinIsIn DEF Cur
<1> QED  BY <1>1, <1>3

\* The step leaves every other thread where it was, and thread t as given.
Becomes(t, op, step, todo, mine) ==
    /\ job' \in [Threads -> Job]
    /\ \A u \in Threads \ {t} : job'[u] = job[u]
    /\ job'[t].op = op /\ job'[t].step = step
    /\ job'[t].todo = todo /\ job'[t].mine = mine

(* Goto changes the step of a call and nothing else of it. *)
LEMMA GotoIs ==
    ASSUME Shapes, NEW t \in Threads, NEW s \in Steps, Goto(t, s)
    PROVE  Becomes(t, job[t].op, s, job[t].todo, job[t].mine)
BY DEF Shapes, Goto, Becomes, Job

(* Where each call of handle.rs and class.rs begins. *)
LEMMA FirstStepIs ==
    ASSUME NEW op \in Ops
    PROVE  /\ FirstStep(op) \in Steps \ {"record", "mark", "unmark", "lookup", "attach"}
           /\ FirstStep(op) \in StepsOf(op)
           /\ op = "all" => FirstStep(op) = "check"
BY DEF Ops, FirstStep, Steps, StepsOf

(* Advance drops the interface just handled, and ends the call with the last. *)
LEMMA AdvanceIs ==
    ASSUME Shapes, NEW t \in Threads, NEW mine \in SUBSET Interfaces, Advance(t, mine)
    PROVE  Becomes(t, job[t].op, FirstStep(job[t].op), job[t].todo \ {Cur(t)}, mine)
<1>1. job[t].op \in Ops /\ FirstStep(job[t].op) \in Steps
    BY FirstStepIs DEF Shapes, Job
<1>2. job[t].todo \ {Cur(t)} \in SUBSET Interfaces
    BY DEF Shapes, Job
<1> QED  BY <1>1, <1>2 DEF Shapes, Advance, Becomes, Job

(* Unwind turns to what claim_all_interfaces() has claimed so far, or ends the call. *)
LEMMA UnwindIs ==
    ASSUME Shapes, NEW t \in Threads, Unwind(t)
    PROVE  \/ job[t].op \notin {"all", "open"} /\ Becomes(t, "idle", "none", {}, {}) /\ job'[t] = Idle
           \/ job[t].op = "all" /\ Becomes(t, "undo", "release", job[t].mine, {})
           \/ job[t].op = "open" /\ Becomes(t, "close", "release", job[t].mine, {})
<1>1. Idle \in Job
    BY DEF Idle, Job, Ops, Steps
<1>2. CASE job[t].op \notin {"all", "open"}
    <2>1. job' = [job EXCEPT ![t] = Idle]
        BY <1>2 DEF Unwind
    <2> QED  BY <2>1, <1>1, <1>2 DEF Shapes, Becomes, Idle
<1>3. CASE job[t].op \in {"all", "open"}
    <2> DEFINE op == IF job[t].op = "all" THEN "undo" ELSE "close"
               j == [Idle EXCEPT !.op = op, !.step = "release", !.todo = job[t].mine]
    <2>1. job' = [job EXCEPT ![t] = j]
        BY <1>3 DEF Unwind
    <2>2. j \in Job /\ j.op = op /\ j.step = "release" /\ j.todo = job[t].mine /\ j.mine = {}
        BY DEF Idle, Job, Shapes, Ops, Steps
    <2> HIDE DEF j
    <2> QED  BY <2>1, <2>2, <1>3 DEF Shapes, Becomes
<1> QED  BY <1>2, <1>3

(* A new call starts at its first step with nothing claimed of its own. *)
LEMMA CallIs ==
    ASSUME Shapes, NEW t \in Threads, NEW op \in Ops, NEW todo \in SUBSET Interfaces,
           NEW detach \in BOOLEAN, Call(t, op, todo, detach)
    PROVE  /\ Becomes(t, op, FirstStep(op), todo, {})
           /\ ~closed /\ job[t] = Idle
<1> DEFINE j == [op |-> op, step |-> FirstStep(op), todo |-> todo, mine |-> {},
                 detach |-> detach]
<1>1. j \in Job /\ j.op = op /\ j.step = FirstStep(op) /\ j.todo = todo /\ j.mine = {}
    BY FirstStepIs DEF Job
<1>2. job' = [job EXCEPT ![t] = j] /\ ~closed /\ job[t] = Idle
    BY DEF Call
<1> HIDE DEF j
<1> QED  BY <1>1, <1>2 DEF Shapes, Becomes

-----------------------------------------------------------------------------

\* The steps at which a call has an interface half done.
Special == {"record", "mark", "unmark", "lookup", "attach"}

\* `raced` remembers for good, and misses nothing.
LEMMA RacedKeeps ==
    ASSUME Next
    PROVE  Apart' /\ raced \subseteq raced'
BY DEF Next, Apart

\* A thread that stays where it is stands in the same relation to everything.
LEMMA Bystander ==
    ASSUME NEW u \in Threads, job'[u] = job[u], NEW i \in Interfaces
    PROVE  /\ \A s \in Steps : Has(u, i, s)' <=> Has(u, i, s)
           /\ Reclaiming(u, i)' <=> Reclaiming(u, i)
           /\ MayUndo(u, i)' <=> MayUndo(u, i)
           /\ i \in Touches(u)' <=> i \in Touches(u)
BY DEF Has, Reclaiming, MayUndo, Touches, Cur

\* A thread that does not touch an interface has no part in it.
LEMMA NotInvolved ==
    ASSUME NEW u \in Threads, NEW i \in Interfaces, i \notin Touches(u)
    PROVE  /\ \A s \in Steps : ~Has(u, i, s)
           /\ ~Reclaiming(u, i) /\ ~MayUndo(u, i) /\ i \notin job[u].mine
BY DEF Has, Reclaiming, MayUndo, Touches

\* Nobody else is involved with the interface a thread has in hand.
LEMMA Alone ==
    ASSUME FaceInv, NEW t \in Threads, NEW i \in Interfaces, i \in Touches(t), i \notin raced,
           NEW u \in Threads, u # t
    PROVE  /\ \A s \in Steps : ~Has(u, i, s)
           /\ ~Reclaiming(u, i) /\ ~MayUndo(u, i) /\ i \notin job[u].mine
BY NotInvolved DEF FaceInv, Apart

\* A step that does nothing to an interface keeps what is said about it.
LEMMA Elsewhere ==
    ASSUME NEW i \in Interfaces,
           bound'[i] = bound[i], i \in claimed' <=> i \in claimed, detached'[i] = detached[i],
           stale => stale', closed' = closed,
           \A u \in Threads, s \in Special : Has(u, i, s)' <=> Has(u, i, s),
           \A u \in Threads : Reclaiming(u, i)' <=> Reclaiming(u, i),
           \A u \in Threads : i \in job'[u].mine => i \in job[u].mine
    PROVE  (RecordedAt(i) => RecordedAt(i)') /\ (RestorableAt(i) => RestorableAt(i)')
<1>1. RecordedAt(i) => RecordedAt(i)'
    BY DEF RecordedAt, Special
<1>2. RestorableAt(i) => RestorableAt(i)'
    BY DEF RestorableAt, Special
<1> QED  BY <1>1, <1>2

\* The same for a step of one thread that neither was nor will be half done
\* with the interface.
LEMMA Untouched ==
    ASSUME NEW t \in Threads, NEW i \in Interfaces,
           \A u \in Threads \ {t} : job'[u] = job[u],
           bound'[i] = bound[i], i \in claimed' <=> i \in claimed, detached'[i] = detached[i],
           stale => stale', closed' = closed,
           \A s \in Special : ~Has(t, i, s) /\ ~Has(t, i, s)',
           Reclaiming(t, i)' <=> Reclaiming(t, i),
           i \in job'[t].mine => i \in job[t].mine
    PROVE  (RecordedAt(i) => RecordedAt(i)') /\ (RestorableAt(i) => RestorableAt(i)')
<1>1. \A u \in Threads, s \in Special : Has(u, i, s)' <=> Has(u, i, s)
    BY Bystander DEF Special, Steps
<1>2. \A u \in Threads : Reclaiming(u, i)' <=> Reclaiming(u, i)
    BY Bystander
<1>3. \A u \in Threads : i \in job'[u].mine => i \in job[u].mine
    OBVIOUS
<1> QED  BY <1>1, <1>2, <1>3, Elsewhere

\* What the rest of the invariant needs of a step that leaves the leases alone.
LEMMA LeasesKept ==
    ASSUME LeasesExact, UNCHANGED leases
    PROVE  LeasesExact'
BY DEF LeasesExact, leases

\* The helpers keep what they lease through a step that leaves the helpers
\* alone, if what it strikes from the record is its own to release, if it sets
\* out to undo only what was not on record, and if a Claim::new that passes an
\* interface leaves it on record with nobody about to undo it.
LEMMA HeldKept ==
    ASSUME FaceInv, NEW t \in Threads, \A u \in Threads \ {t} : job'[u] = job[u],
           raced \subseteq raced', byHand \subseteq byHand', freed \subseteq freed',
           helper' = helper, job[t].op = "close" => job'[t].op = "close",
           \A i \in Interfaces \ (raced' \cup byHand' \cup freed') :
              /\ i \in claimed => \/ i \in claimed' \/ MayUndo(t, i)
                                  \/ job[t].op = "close" /\ i \in helper[t].leased
              /\ MayUndo(t, i)' => MayUndo(t, i) \/ i \notin claimed
              /\ job[t].op = "open" /\ i \in job[t].todo /\ job'[t].op # "close" =>
                    \/ job'[t].op = "open" /\ i \in job'[t].todo
                    \/ /\ i \in claimed' /\ ~MayUndo(t, i)'
                       /\ \A u \in Threads \ {t} : ~MayUndo(u, i)
    PROVE  Held'
<1> SUFFICES ASSUME NEW o \in Threads, helper'[o] # NoHelper, job'[o].op # "close",
                    NEW i \in helper'[o].leased \ (raced' \cup byHand' \cup freed')
             PROVE  HeldAt(o, i)'
    BY DEF Held
<1>1. i \in Interfaces /\ helper[o] # NoHelper
    BY DEF FaceInv, Shapes, Claim
<1>2. job[o].op # "close"
    OBVIOUS
<1>3. HeldAt(o, i)
    BY <1>1, <1>2 DEF FaceInv, Held
<1>4. \A u \in Threads \ {t} : MayUndo(u, i)' <=> MayUndo(u, i)
    BY <1>1, Bystander
<1>5. CASE job[o].op = "open" /\ i \in job[o].todo
    <2>1. CASE o # t
        BY <2>1, <1>5 DEF HeldAt
    <2>2. CASE o = t
        BY <2>2, <1>5, <1>1, <1>4 DEF HeldAt
    <2> QED  BY <2>1, <2>2
<1>6. CASE i \in claimed /\ \A u \in Threads : ~MayUndo(u, i)
    <2>1. ~(job[t].op = "close" /\ i \in helper[t].leased)
        BY <1>1, <1>2 DEF FaceInv, LeasesExact, Jobs, JobOf
    <2>2. i \in claimed'
        BY <1>1, <1>6, <2>1
    <2>3. \A u \in Threads : ~MayUndo(u, i)'
        BY <1>1, <1>4, <1>6
    <2> QED  BY <2>2, <2>3 DEF HeldAt
<1> QED  BY <1>3, <1>5, <1>6 DEF HeldAt

\* An idle thread takes no part in anything.
LEMMA IdleIsNotInvolved ==
    ASSUME NEW t \in Threads, job[t] = Idle, NEW i \in Interfaces
    PROVE  /\ \A s \in Steps : ~Has(t, i, s)
           /\ ~Reclaiming(t, i) /\ ~MayUndo(t, i) /\ i \notin job[t].mine
BY DEF Has, Reclaiming, MayUndo, Idle

\* The start of a call other than reset() does nothing to any interface yet.
LEMMA StartKeeps ==
    ASSUME FaceInv, raced \subseteq raced', NEW t \in Threads,
           NEW op \in {"claim", "all", "release", "open", "close"},
           NEW todo \in SUBSET Interfaces, NEW detach \in BOOLEAN,
           Call(t, op, todo, detach),
           UNCHANGED <<bound, claimed, detached, flags, foreign, byHand, stale>>
    PROVE  /\ Becomes(t, op, FirstStep(op), todo, {})
           /\ ~closed /\ job[t] = Idle
           /\ Recorded' /\ Restorable'
<1>1. Becomes(t, op, FirstStep(op), todo, {}) /\ ~closed /\ job[t] = Idle
    BY CallIs DEF FaceInv, Ops
<1>2. FirstStep(op) \notin Special
    BY FirstStepIs DEF Ops, Special
<1>3. ASSUME NEW i \in Interfaces
      PROVE  (RecordedAt(i) => RecordedAt(i)') /\ (RestorableAt(i) => RestorableAt(i)')
    <2>1. \A s \in Special : ~Has(t, i, s)
        BY <1>1, IdleIsNotInvolved DEF Special, Steps
    <2>2. \A s \in Special : ~Has(t, i, s)'
        BY <1>1, <1>2 DEF Becomes, Has
    <2>3. ~Reclaiming(t, i) /\ ~Reclaiming(t, i)'
        BY <1>1, IdleIsNotInvolved DEF Becomes, Reclaiming
    <2> QED  BY <1>1, <2>1, <2>2, <2>3, Untouched DEF Becomes, flags
<1>4. Recorded'
    BY <1>3 DEF FaceInv, Recorded
<1>5. Restorable'
    BY <1>3 DEF FaceInv, Restorable
<1> QED  BY <1>1, <1>4, <1>5

\* claim_interface(), claim_all_interfaces(), release_interface() and the drop
\* of a helper begin.
LEMMA CallsKeep ==
    ASSUME FaceInv, Apart', raced \subseteq raced', NEW t \in Threads,
           \/ \E i \in Interfaces : ClaimInterface(t, i) \/ ReleaseInterface(t, i)
           \/ ClaimAllInterfaces(t) \/ ClaimDrop(t)
    PROVE  FaceInv'
<1>1. PICK op \in {"claim", "all", "release", "close"}, todo \in SUBSET Interfaces,
           detach \in BOOLEAN :
        /\ Call(t, op, todo, detach)
        /\ op = "release" => todo \subseteq freed'
        /\ op = "close" => helper[t] # NoHelper /\ todo = helper[t].owned
    <2>1. ASSUME NEW i \in Interfaces, ClaimInterface(t, i)
          PROVE  Call(t, "claim", {i}, TRUE) \/ Call(t, "claim", {i}, FALSE)
        <3>1. autoDetach = TRUE \/ autoDetach = FALSE
            BY DEF FaceInv, Flag
        <3> QED  BY <2>1, <3>1 DEF ClaimInterface
    <2>2. ASSUME NEW i \in Interfaces, ReleaseInterface(t, i)
          PROVE  Call(t, "release", {i}, FALSE) /\ {i} \subseteq freed'
        BY <2>2 DEF ReleaseInterface
    <2>3. ASSUME ClaimDrop(t)
          PROVE  /\ Call(t, "close", helper[t].owned, FALSE) /\ helper[t] # NoHelper
                 /\ helper[t].owned \in SUBSET Interfaces
        BY <2>3 DEF ClaimDrop, FaceInv, Shapes, Claim
    <2>4. ASSUME ClaimAllInterfaces(t)
          PROVE  Call(t, "all", Interfaces, TRUE)
        BY <2>4 DEF ClaimAllInterfaces
    <2> QED  BY <2>1, <2>2, <2>3, <2>4, Zenon
<1>2. /\ UNCHANGED <<bound, claimed, detached, leases, flags, foreign, byHand, stale>>
      /\ freed \subseteq freed'
    BY DEF ClaimInterface, ReleaseInterface, ClaimAllInterfaces, ClaimDrop, history
<1>3. /\ Becomes(t, op, FirstStep(op), todo, {})
      /\ ~closed /\ job[t] = Idle /\ Recorded' /\ Restorable'
    BY <1>1, <1>2, StartKeeps
<1>4. Shapes'
    BY <1>2, <1>3 DEF FaceInv, Shapes, Becomes, leases
<1>5. Jobs'
    <2>1. FirstStep(op) \in StepsOf(op)
        BY FirstStepIs DEF Ops
    <2>2. UNCHANGED <<helper, closed>>
        BY <1>2 DEF leases, flags
    <2> SUFFICES ASSUME NEW u \in Threads PROVE JobOf(u)'
        BY DEF Jobs
    <2>3. CASE u # t
        BY <2>2, <2>3, <1>2, <1>3 DEF FaceInv, Jobs, JobOf, Becomes
    <2>4. CASE u = t
        BY <2>1, <2>2, <2>4, <1>1, <1>3 DEF FaceInv, Jobs, JobOf, Becomes
    <2> QED  BY <2>3, <2>4
<1>6. Held'
    <2>1. job[t].op = "idle"
        BY <1>3 DEF Idle
    <2>2. \A i \in Interfaces : ~MayUndo(t, i)'
        BY <1>3, FirstStepIs DEF Becomes, MayUndo, Ops
    <2> QED  BY <1>2, <1>3, <2>1, <2>2, HeldKept DEF Becomes, leases
<1>7. Flag'
    BY <1>2, Zenon DEF FaceInv, Flag, flags
<1> QED  BY <1>2, <1>3, <1>4, <1>5, <1>6, <1>7, LeasesKept DEF FaceInv

\* Claim::new takes its lease and begins.
LEMMA ClaimNewKeeps ==
    ASSUME FaceInv, Apart', raced \subseteq raced', NEW t \in Threads,
           NEW wanted \in SUBSET Interfaces, ClaimNew(t, wanted)
    PROVE  FaceInv'
<1> DEFINE claim == [leased |-> wanted, owned |-> {}]
<1>1. /\ UNCHANGED <<bound, claimed, detached, flags, history>>
      /\ Call(t, "open", wanted, TRUE) /\ helper[t] = NoHelper
      /\ wanted \cap leased = {} /\ leased' = leased \cup wanted
      /\ helper' = [helper EXCEPT ![t] = claim]
    BY DEF ClaimNew, Lease
<1>2. /\ Becomes(t, "open", FirstStep("open"), wanted, {})
      /\ ~closed /\ job[t] = Idle /\ Recorded' /\ Restorable'
    BY <1>1, StartKeeps DEF history
<1>3. /\ claim \in Claim /\ claim # NoHelper
      /\ claim.leased = wanted /\ claim.owned = {}
    <2>1. claim \in Claim /\ claim.leased = wanted /\ claim.owned = {}
        BY DEF Claim
    <2>2. NoHelper \notin Claim
        BY DEF Claim
    <2> QED  BY <2>1, <2>2
<1> HIDE DEF claim
<1>4. Shapes'
    BY <1>1, <1>2, <1>3 DEF FaceInv, Shapes, Becomes
<1>5. helper'[t] = claim /\ \A u \in Threads \ {t} : helper'[u] = helper[u]
    BY <1>1 DEF FaceInv, Shapes
<1>6. Jobs'
    <2> SUFFICES ASSUME NEW u \in Threads PROVE JobOf(u)'
        BY DEF Jobs
    <2>1. FirstStep("open") \in StepsOf("open")
        BY FirstStepIs DEF Ops
    <2>2. CASE u # t
        BY <2>2, <1>1, <1>2, <1>5 DEF FaceInv, Jobs, JobOf, Becomes, flags, history
    <2>3. CASE u = t
        BY <2>1, <2>3, <1>1, <1>2, <1>3, <1>5 DEF JobOf, Becomes, flags
    <2> QED  BY <2>2, <2>3
<1>7. LeasesExact'
    BY <1>1, <1>3, <1>5 DEF FaceInv, LeasesExact
<1>8. Held'
    <2> SUFFICES ASSUME NEW o \in Threads, helper'[o] # NoHelper, job'[o].op # "close",
                        NEW i \in helper'[o].leased \ (raced' \cup byHand' \cup freed')
                 PROVE  HeldAt(o, i)'
        BY DEF Held
    <2>1. i \in Interfaces
        BY <1>4 DEF Shapes, Claim
    <2>2. CASE o = t
        BY <2>2, <1>2, <1>3, <1>5 DEF HeldAt, Becomes
    <2>3. CASE o # t
        <3>1. HeldAt(o, i) /\ job'[o] = job[o]
            BY <2>3, <1>1, <1>2, <1>5 DEF FaceInv, Held, Becomes, history
        <3>2. \A u \in Threads : MayUndo(u, i)' => MayUndo(u, i)
            BY <2>1, <1>2, Bystander DEF Becomes, MayUndo
        <3> QED  BY <3>1, <3>2, <1>1 DEF HeldAt
    <2> QED  BY <2>2, <2>3
<1>9. Flag'
    BY <1>1, Zenon DEF FaceInv, Flag, flags
<1> QED  BY <1>2, <1>4, <1>6, <1>7, <1>8, <1>9 DEF FaceInv

\* A call returns: the helper it opened owns what it claimed, the one it
\* dropped or failed to open is gone, and so is its lease.
LEMMA ReturnKeeps ==
    ASSUME FaceInv, Apart', raced \subseteq raced', NEW t \in Threads, Return(t)
    PROVE  FaceInv'
<1>1. /\ UNCHANGED <<bound, claimed, detached, flags, foreign, byHand, freed, stale>>
      /\ job[t].op # "idle" /\ job[t].todo = {} /\ job' = [job EXCEPT ![t] = Idle]
    BY DEF Return
<1>2. Becomes(t, "idle", "none", {}, {}) /\ job'[t] = Idle
    <2>1. Idle \in Job
        BY DEF Idle, Job, Ops, Steps
    <2> QED  BY <2>1, <1>1 DEF FaceInv, Shapes, Becomes, Idle
<1>3. \/ /\ job[t].op = "open" /\ leased' = leased
         /\ helper' = [helper EXCEPT ![t].owned = job[t].mine]
      \/ /\ job[t].op = "close" /\ leased' = leased \ helper[t].leased
         /\ helper' = [helper EXCEPT ![t] = NoHelper]
      \/ job[t].op \notin {"open", "close"} /\ UNCHANGED leases
    BY DEF Return
<1>4. /\ helper' \in [Threads -> {NoHelper} \cup Claim]
      /\ \A u \in Threads \ {t} : helper'[u] = helper[u]
      /\ job[t].op = "open" =>
            /\ leased' = leased /\ helper'[t] # NoHelper /\ helper[t] # NoHelper
            /\ helper'[t].leased = helper[t].leased /\ helper'[t].owned = job[t].mine
      /\ job[t].op = "close" =>
            leased' = leased \ helper[t].leased /\ helper'[t] = NoHelper
      /\ job[t].op \notin {"open", "close"} => leased' = leased /\ helper' = helper
    <2>1. CASE job[t].op = "open"
        <3> DEFINE h == [helper[t] EXCEPT !.owned = job[t].mine]
        <3>1. helper[t] \in Claim /\ helper[t] # NoHelper
            BY <2>1 DEF FaceInv, Shapes, Jobs, JobOf
        <3>2. h \in Claim /\ h.leased = helper[t].leased /\ h.owned = job[t].mine
            BY <3>1 DEF FaceInv, Shapes, Claim, Job
        <3>3. helper' = [helper EXCEPT ![t] = h] /\ leased' = leased
            BY <2>1, <1>3
        <3>4. h # NoHelper
            BY <3>2 DEF Claim
        <3> HIDE DEF h
        <3> QED  BY <2>1, <3>1, <3>2, <3>3, <3>4 DEF FaceInv, Shapes
    <2>2. CASE job[t].op = "close"
        BY <2>2, <1>3 DEF FaceInv, Shapes
    <2>3. CASE job[t].op \notin {"open", "close"}
        BY <2>3, <1>3 DEF FaceInv, Shapes, leases
    <2> QED  BY <2>1, <2>2, <2>3
<1>5. Shapes'
    BY <1>1, <1>2, <1>4 DEF FaceInv, Shapes, Becomes
<1>6. ASSUME NEW i \in Interfaces
      PROVE  (RecordedAt(i) => RecordedAt(i)') /\ (RestorableAt(i) => RestorableAt(i)')
    <2>1. \A s \in Special : ~Has(t, i, s) /\ ~Has(t, i, s)'
        BY <1>1, <1>2 DEF Becomes, Has
    <2>2. ~Reclaiming(t, i) /\ ~Reclaiming(t, i)'
        BY <1>1, <1>2 DEF Becomes, Reclaiming
    <2> QED  BY <1>1, <1>2, <2>1, <2>2, Untouched DEF Becomes, flags
<1>7. Recorded' /\ Restorable'
    BY <1>6, <1>1 DEF FaceInv, Recorded, Restorable
<1>8. Jobs'
    <2> SUFFICES ASSUME NEW u \in Threads PROVE JobOf(u)'
        BY DEF Jobs
    <2>1. JobOf(u)
        BY DEF FaceInv, Jobs
    <2>2. CASE u # t
        BY <2>1, <2>2, <1>1, <1>2, <1>4 DEF JobOf, Becomes, flags
    <2>3. CASE u = t
        <3>1. helper'[t] # NoHelper => helper'[t].owned \subseteq helper'[t].leased
            BY <2>1, <2>3, <1>4 DEF JobOf
        <3> QED  BY <2>3, <3>1, <1>2 DEF JobOf, Idle
    <2> QED  BY <2>2, <2>3
<1>9. LeasesExact'
    <2>1. CASE job[t].op = "close"
        <3>1. helper[t] # NoHelper
            BY <2>1 DEF FaceInv, Jobs, JobOf
        <3> QED  BY <2>1, <3>1, <1>4 DEF FaceInv, LeasesExact
    <2>2. CASE job[t].op = "open"
        BY <2>2, <1>4 DEF FaceInv, LeasesExact
    <2>3. CASE job[t].op \notin {"open", "close"}
        BY <2>3, <1>3, LeasesKept DEF FaceInv
    <2> QED  BY <2>1, <2>2, <2>3
<1>10. Held'
    <2> SUFFICES ASSUME NEW o \in Threads, helper'[o] # NoHelper, job'[o].op # "close",
                        NEW i \in helper'[o].leased \ (raced' \cup byHand' \cup freed')
                 PROVE  HeldAt(o, i)'
        BY DEF Held
    <2>1. i \in Interfaces
        BY <1>5 DEF Shapes, Claim
    <2>2. HeldAt(o, i)
        <3>1. helper[o] # NoHelper /\ job[o].op # "close" /\ i \in helper[o].leased
            BY <1>2, <1>4 DEF Becomes
        <3> QED  BY <3>1, <1>1 DEF FaceInv, Held
    <2>3. \A u \in Threads : MayUndo(u, i)' => MayUndo(u, i)
        BY <2>1, <1>2, Bystander DEF Becomes, MayUndo
    <2> QED  BY <2>2, <2>3, <1>1, <1>2 DEF HeldAt, Becomes
<1>11. Flag'
    BY <1>1, Zenon DEF FaceInv, Flag, flags
<1> QED  BY <1>5, <1>7, <1>8, <1>9, <1>10, <1>11 DEF FaceInv

\* The device is reset, and reset() begins to claim again what was claimed.
LEMMA ResetKeeps ==
    ASSUME FaceInv, Apart', raced \subseteq raced', NEW t \in Threads,
           NEW kept \in SUBSET Interfaces, Reset(t, kept)
    PROVE  FaceInv'
<1>1. /\ UNCHANGED <<claimed, detached, leases, flags, history>>
      /\ Call(t, "reset", claimed, FALSE)
      /\ bound' = [i \in Interfaces |->
                     IF bound[i] = "us" /\ i \notin kept THEN "none" ELSE bound[i]]
    BY DEF Reset
<1>2. Becomes(t, "reset", "reclaim", claimed, {}) /\ ~closed /\ job[t] = Idle
    <2>1. FirstStep("reset") = "reclaim"
        BY DEF FirstStep
    <2>2. Shapes /\ claimed \in SUBSET Interfaces /\ "reset" \in Ops
        BY DEF FaceInv, Shapes, Ops
    <2>3. Becomes(t, "reset", FirstStep("reset"), claimed, {}) /\ ~closed /\ job[t] = Idle
        BY <1>1, <2>2, CallIs
    <2> QED  BY <2>1, <2>3
<1>3. bound' \in [Interfaces -> Holders]
    BY <1>1 DEF FaceInv, Shapes, Holders
<1>4. Shapes'
    BY <1>1, <1>2, <1>3 DEF FaceInv, Shapes, Becomes, leases
<1>5. ASSUME NEW i \in Interfaces \ raced'
      PROVE  /\ \A u \in Threads, s \in Steps : ~Has(u, i, s)
             /\ \A u \in Threads : ~Reclaiming(u, i) /\ i \notin job[u].mine
             /\ \A u \in Threads \ {t}, s \in Steps : ~Has(u, i, s)'
             /\ \A u \in Threads \ {t} : ~Reclaiming(u, i)' /\ i \notin job'[u].mine
    <2>1. i \in Touches(t)'
        BY <1>2 DEF Touches, Becomes
    <2>2. \A u \in Threads \ {t} : i \notin Touches(u)' /\ job'[u] = job[u]
        BY <2>1, <1>2 DEF Apart, Becomes
    <2>3. \A u \in Threads \ {t} : i \notin Touches(u)
        BY <2>2, Bystander
    <2> QED  BY <2>2, <2>3, <1>2, NotInvolved, IdleIsNotInvolved, Bystander
<1>6. Recorded'
    <2> SUFFICES ASSUME NEW i \in Interfaces \ (raced' \cup byHand') PROVE RecordedAt(i)'
        BY DEF Recorded
    <2>1. RecordedAt(i)
        BY <1>1 DEF FaceInv, Recorded, history
    <2>2. bound'[i] = "us" => i \in claimed
        BY <2>1, <1>1, <1>5 DEF RecordedAt, Steps
    <2>3. i \in claimed => Reclaiming(t, i)'
        BY <1>2 DEF Reclaiming, Becomes
    <2>4. \A u \in Threads : ~Has(u, i, "mark")' /\ ~Has(u, i, "unmark")'
                             /\ ~Has(u, i, "lookup")' /\ ~Has(u, i, "attach")'
        BY <1>5, <1>2 DEF Becomes, Has, Steps
    <2>5. \A u \in Threads : i \in job'[u].mine \/ Reclaiming(u, i)' => i \in claimed
        BY <1>5, <1>2 DEF Becomes, Reclaiming
    <2> QED  BY <2>2, <2>3, <2>4, <2>5, <1>1 DEF RecordedAt
<1>7. Restorable'
    <2> SUFFICES ASSUME NEW i \in Driven \ (raced' \cup byHand' \cup foreign')
                 PROVE  RestorableAt(i)'
        BY DEF Restorable
    <2>1. RestorableAt(i)
        BY <1>1 DEF FaceInv, Restorable, history
    <2>2. bound[i] = "driver" \/ detached[i] > 0
        BY <2>1, <1>5 DEF RestorableAt, Steps
    <2> QED  BY <2>1, <2>2, <1>1, <1>2 DEF RestorableAt, flags
<1>8. Jobs'
    <2> SUFFICES ASSUME NEW u \in Threads PROVE JobOf(u)'
        BY DEF Jobs
    <2>1. JobOf(u)
        BY DEF FaceInv, Jobs
    <2> QED  BY <2>1, <1>1, <1>2 DEF JobOf, Becomes, flags, leases, history, StepsOf
<1>9. Held'
    <2>1. job[t].op = "idle" /\ \A i \in Interfaces : ~MayUndo(t, i)'
        BY <1>2 DEF Becomes, MayUndo, Idle
    <2> QED  BY <1>1, <1>2, <2>1, HeldKept DEF Becomes, leases, history
<1>10. Flag'
    BY <1>1, Zenon DEF FaceInv, Flag, flags
<1> QED  BY <1>1, <1>4, <1>6, <1>7, <1>8, <1>9, <1>10, LeasesKept DEF FaceInv

\* A step that is no part of any call, such as another process's, keeps what
\* the calls rely on.
LEMMA OutsideKeeps ==
    ASSUME FaceInv, Apart', raced \subseteq raced', Flag',
           UNCHANGED <<claimed, detached, leases, closed, job, freed, stale>>,
           byHand \subseteq byHand', foreign \subseteq foreign',
           bound' \in [Interfaces -> Holders],
           \A i \in Interfaces \ byHand' :
              \/ bound'[i] = bound[i]
              \/ bound[i] # "us" /\ bound'[i] # "us" /\ i \in foreign'
    PROVE  FaceInv'
<1>1. Shapes'
    BY DEF FaceInv, Shapes, leases
<1>2. \A u \in Threads, i \in Interfaces, s \in Special : Has(u, i, s)' <=> Has(u, i, s)
    BY Bystander DEF Special, Steps
<1>3. \A u \in Threads, i \in Interfaces :
         (Reclaiming(u, i)' <=> Reclaiming(u, i)) /\ (MayUndo(u, i)' <=> MayUndo(u, i))
    BY Bystander
<1>4. Recorded'
    <2> SUFFICES ASSUME NEW i \in Interfaces \ (raced' \cup byHand') PROVE RecordedAt(i)'
        BY DEF Recorded
    <2>1. RecordedAt(i)
        BY DEF FaceInv, Recorded
    <2> QED  BY <2>1, <1>2, <1>3 DEF RecordedAt, Special
<1>5. Restorable'
    <2> SUFFICES ASSUME NEW i \in Driven \ (raced' \cup byHand' \cup foreign')
                 PROVE  RestorableAt(i)'
        BY DEF Restorable
    <2>1. RestorableAt(i) /\ bound'[i] = bound[i]
        BY DEF FaceInv, Restorable
    <2> QED  BY <2>1, <1>2 DEF RestorableAt, Special
<1>6. Jobs'
    BY DEF FaceInv, Jobs, JobOf, leases
<1>7. Held'
    <2> SUFFICES ASSUME NEW o \in Threads, helper[o] # NoHelper, job[o].op # "close",
                        NEW i \in helper[o].leased \ (raced' \cup byHand' \cup freed')
                 PROVE  HeldAt(o, i)'
        BY DEF Held, leases
    <2>1. HeldAt(o, i) /\ i \in Interfaces
        BY DEF FaceInv, Held, Shapes, Claim
    <2> QED  BY <2>1, <1>3 DEF HeldAt
<1> QED  BY <1>1, <1>4, <1>5, <1>6, <1>7, LeasesKept DEF FaceInv

\* The ioctls the user makes by hand, set_auto_detach(), and other processes.
LEMMA ByHandKeeps ==
    ASSUME FaceInv, Apart', raced \subseteq raced',
           \/ \E t \in Threads, i \in Interfaces :
                 DetachKernelDriver(t, i) \/ AttachKernelDriver(t, i)
           \/ \E t \in Threads : SetAutoDetach(t)
           \/ \E i \in Interfaces : OtherProcess(i)
    PROVE  FaceInv'
<1>1. CASE \E t \in Threads, i \in Interfaces :
              DetachKernelDriver(t, i) \/ AttachKernelDriver(t, i)
    <2>1. PICK t \in Threads, i \in Interfaces :
              DetachKernelDriver(t, i) \/ AttachKernelDriver(t, i)
        BY <1>1
    <2>2. /\ bound' \in [Interfaces -> Holders]
          /\ \A k \in Interfaces \ {i} : bound'[k] = bound[k]
          /\ byHand' = byHand \cup {i}
          /\ UNCHANGED <<claimed, detached, leases, flags, job, foreign, freed, stale>>
        BY <2>1 DEF DetachKernelDriver, AttachKernelDriver, FaceInv, Shapes, Holders
    <2>3. Flag'
        BY <2>2, Zenon DEF FaceInv, Flag, flags
    <2> QED  BY <2>2, <2>3, OutsideKeeps DEF flags
<1>2. CASE \E t \in Threads : SetAutoDetach(t)
    <2>1. /\ autoDetach' = ~autoDetach
          /\ UNCHANGED <<bound, claimed, detached, leases, closed, job, history>>
        BY <1>2 DEF SetAutoDetach
    <2>2. Flag'
        BY <2>1, Zenon DEF Flag
    <2>3. bound' \in [Interfaces -> Holders]
        BY <2>1 DEF FaceInv, Shapes
    <2> QED  BY <2>1, <2>2, <2>3, OutsideKeeps DEF history
<1>3. CASE \E i \in Interfaces : OtherProcess(i)
    <2>1. PICK i \in Interfaces : OtherProcess(i)
        BY <1>3
    <2>2. /\ bound' \in [Interfaces -> Holders]
          /\ \A k \in Interfaces \ {i} : bound'[k] = bound[k]
          /\ bound[i] # "us" /\ bound'[i] # "us" /\ foreign' = foreign \cup {i}
          /\ UNCHANGED <<claimed, detached, leases, flags, job, byHand, freed, stale>>
        BY <2>1 DEF OtherProcess, FaceInv, Shapes, Holders
    <2>3. Flag'
        BY <2>2, Zenon DEF FaceInv, Flag, flags
    <2> QED  BY <2>2, <2>3, OutsideKeeps DEF flags
<1> QED  BY <1>1, <1>2, <1>3

\* The handle is dropped: what is on record is released, and the drivers on
\* record are attached.
LEMMA DropKeeps ==
    ASSUME FaceInv, Apart', raced \subseteq raced', DropHandle
    PROVE  FaceInv'
<1> DEFINE released == [i \in Interfaces |->
                          IF bound[i] = "us" /\ i \in claimed THEN "none" ELSE bound[i]]
           attached == [i \in Interfaces |->
                          IF detached[i] > 0 /\ released[i] = "none" /\ i \in Driven
                          THEN "driver" ELSE released[i]]
<1>1. /\ \A t \in Threads : job[t] = Idle /\ helper[t] = NoHelper
      /\ bound' = [i \in Interfaces |-> IF attached[i] = "us" THEN "none" ELSE attached[i]]
      /\ claimed' = {} /\ detached' = [i \in Interfaces |-> 0]
      /\ UNCHANGED <<leases, autoDetach, job, history>>
    BY DEF DropHandle
<1>2. bound' \in [Interfaces -> Holders \ {"us"}]
    BY <1>1 DEF FaceInv, Shapes, Holders
<1>3. Shapes'
    BY <1>1, <1>2 DEF FaceInv, Shapes, Holders, leases
<1>4. Jobs'
    BY <1>1 DEF FaceInv, Jobs, JobOf, leases, history
<1>5. \A u \in Threads, i \in Interfaces :
         /\ \A s \in Steps : ~Has(u, i, s) /\ ~Has(u, i, s)'
         /\ ~Reclaiming(u, i)' /\ i \notin job'[u].mine
    BY <1>1, IdleIsNotInvolved, Bystander
<1>6. Recorded'
    BY <1>1, <1>2, <1>5 DEF Recorded, RecordedAt, Steps
<1>7. Restorable'
    <2> SUFFICES ASSUME NEW i \in Driven \ (raced' \cup byHand' \cup foreign')
                 PROVE  bound'[i] = "driver"
        BY DEF Restorable, RestorableAt
    <2>1. RestorableAt(i) /\ RecordedAt(i)
        BY <1>1 DEF FaceInv, Restorable, Recorded, history
    <2>2. bound[i] # "other" /\ (bound[i] = "driver" \/ detached[i] > 0)
        BY <2>1, <1>5 DEF RestorableAt, Steps
    <2>3. bound[i] = "us" => i \in claimed
        BY <2>1, <1>5 DEF RecordedAt, Steps
    <2>4. bound[i] \in Holders
        BY DEF FaceInv, Shapes
    <2> QED  BY <2>2, <2>3, <2>4, <1>1 DEF Holders
<1>8. Held'
    BY <1>1 DEF Held, leases
<1>9. Flag'
    BY <1>1, Zenon DEF FaceInv, Flag
<1> QED  BY <1>1, <1>3, <1>4, <1>6, <1>7, <1>8, <1>9, LeasesKept DEF FaceInv

\* What every step of a call must show: the interfaces other than the one in
\* hand are as they were.
LEMMA StepKeeps ==
    ASSUME FaceInv, Apart', raced \subseteq raced', NEW t \in Threads,
           NEW hand \in SUBSET Interfaces,
           Shapes', \A u \in Threads \ {t} : job'[u] = job[u],
           UNCHANGED <<leases, flags, foreign, byHand, freed>>,
           JobOf(t)', Held', ~closed,
           stale => stale',
           \A i \in Interfaces \ hand :
              /\ bound'[i] = bound[i] /\ detached'[i] = detached[i]
              /\ i \in claimed' <=> i \in claimed
              /\ \A s \in Special : ~Has(t, i, s) /\ ~Has(t, i, s)'
              /\ Reclaiming(t, i)' <=> Reclaiming(t, i)
              /\ i \in job'[t].mine => i \in job[t].mine,
           \A i \in hand \ (raced' \cup byHand) : RecordedAt(i)',
           \A i \in hand \ (raced' \cup byHand \cup foreign) :
              i \in Driven => RestorableAt(i)'
    PROVE  FaceInv'
<1>1. closed' = closed /\ helper' = helper
    BY DEF flags, leases
<1>2. \A i \in Interfaces \ hand :
         (RecordedAt(i) => RecordedAt(i)') /\ (RestorableAt(i) => RestorableAt(i)')
    BY <1>1, Untouched
<1>3. Recorded' /\ Restorable'
    BY <1>2 DEF FaceInv, Recorded, Restorable
<1>4. Jobs'
    BY <1>1 DEF FaceInv, Jobs, JobOf
<1>5. Flag'
    BY Zenon DEF FaceInv, Flag, flags
<1> QED  BY <1>3, <1>4, <1>5, LeasesKept DEF FaceInv

\* And if it only changed its mind, the one in hand as well.
LEMMA QuietStepKeeps ==
    ASSUME FaceInv, Apart', raced \subseteq raced', NEW t \in Threads,
           Shapes', \A u \in Threads \ {t} : job'[u] = job[u],
           UNCHANGED <<bound, claimed, detached, leases, flags, history>>,
           JobOf(t)', Held', ~closed,
           \A i \in Interfaces :
              /\ \A s \in Special : ~Has(t, i, s) /\ ~Has(t, i, s)'
              /\ Reclaiming(t, i)' <=> Reclaiming(t, i)
              /\ i \in job'[t].mine => i \in job[t].mine
    PROVE  FaceInv'
<1> DEFINE hand == {}
<1>1. \A i \in Interfaces \ hand :
              /\ bound'[i] = bound[i] /\ detached'[i] = detached[i]
              /\ i \in claimed' <=> i \in claimed
              /\ \A s \in Special : ~Has(t, i, s) /\ ~Has(t, i, s)'
              /\ Reclaiming(t, i)' <=> Reclaiming(t, i)
              /\ i \in job'[t].mine => i \in job[t].mine
    OBVIOUS
<1>2. /\ \A i \in hand \ (raced' \cup byHand) : RecordedAt(i)'
      /\ \A i \in hand \ (raced' \cup byHand \cup foreign) : i \in Driven => RestorableAt(i)'
      /\ hand \in SUBSET Interfaces
    OBVIOUS
<1>3. UNCHANGED <<leases, flags, foreign, byHand, freed>> /\ stale' = stale
    BY DEF history
<1> HIDE DEF hand
<1> QED  BY <1>1, <1>2, <1>3, StepKeeps

\* A thread with an interface in hand: it is alone with it, unless they race.
LEMMA InHand ==
    ASSUME FaceInv, NEW t \in Threads, job[t].todo # {}
    PROVE  /\ Cur(t) \in job[t].todo /\ Cur(t) \in Interfaces /\ Cur(t) \notin job[t].mine
           /\ ~closed /\ job[t].step \in StepsOf(job[t].op) /\ job[t].op \in Ops \ {"idle"}
           /\ \A i \in Interfaces \ {Cur(t)}, s \in Special : ~Has(t, i, s)
           /\ job[t].op \in {"open", "close"} => Cur(t) \in helper[t].leased
           /\ Cur(t) \notin raced =>
                 \A u \in Threads \ {t} :
                    /\ \A s \in Steps : ~Has(u, Cur(t), s)
                    /\ ~Reclaiming(u, Cur(t)) /\ ~MayUndo(u, Cur(t))
                    /\ Cur(t) \notin job[u].mine
<1>1. Cur(t) \in job[t].todo /\ Cur(t) \in Interfaces
    BY CurIsDue DEF FaceInv
<1>2. JobOf(t) /\ job[t].op \in Ops
    BY DEF FaceInv, Jobs, Shapes, Job
<1>3. /\ Cur(t) \notin job[t].mine /\ ~closed /\ job[t].step \in StepsOf(job[t].op)
      /\ job[t].op \in Ops \ {"idle"}
      /\ job[t].op \in {"open", "close"} => Cur(t) \in helper[t].leased
    BY <1>1, <1>2 DEF JobOf, Idle
<1>4. \A i \in Interfaces \ {Cur(t)}, s \in Special : ~Has(t, i, s)
    BY DEF Has
<1>5. Cur(t) \in Touches(t)
    BY <1>1 DEF Touches
<1>6. Cur(t) \notin raced =>
         \A u \in Threads \ {t} :
            /\ \A s \in Steps : ~Has(u, Cur(t), s)
            /\ ~Reclaiming(u, Cur(t)) /\ ~MayUndo(u, Cur(t))
            /\ Cur(t) \notin job[u].mine
    BY <1>1, <1>5, Alone
<1> QED  BY <1>1, <1>3, <1>4, <1>6

\* claim_all_interfaces() and Claim::new skip what is on record.
LEMMA IsClaimedKeeps ==
    ASSUME FaceInv, Apart', raced \subseteq raced', NEW t \in Threads, IsClaimed(t)
    PROVE  FaceInv'
<1>1. /\ job[t].todo # {} /\ job[t].step = "check"
      /\ UNCHANGED <<bound, claimed, detached, leases, flags, history>>
    BY DEF IsClaimed, At
<1>c. PICK c \in Interfaces : c = Cur(t)
    BY <1>1, InHand
<1>2. /\ c \in job[t].todo /\ c \in Interfaces /\ ~closed
      /\ job[t].op \in {"all", "open"} /\ job[t].op \in Ops
    BY <1>1, <1>c, InHand DEF StepsOf
<1>3. /\ FirstStep(job[t].op) = "check"
      /\ job[t].mine \in SUBSET Interfaces /\ Shapes
    BY <1>2 DEF FirstStep, FaceInv, Shapes, Job
<1>4. \/ c \in claimed /\ Becomes(t, job[t].op, "check", job[t].todo \ {c}, job[t].mine)
      \/ c \notin claimed /\ Becomes(t, job[t].op, "detach", job[t].todo, job[t].mine)
    <2>1. CASE c \in claimed
        BY <2>1, <1>3, <1>c, AdvanceIs DEF IsClaimed
    <2>2. CASE c \notin claimed
        BY <2>2, <1>3, <1>c, GotoIs DEF IsClaimed, Steps
    <2> QED  BY <2>1, <2>2
<1>5. Shapes' /\ \A u \in Threads \ {t} : job'[u] = job[u]
    BY <1>1, <1>4 DEF FaceInv, Shapes, Becomes, leases
<1>6. JobOf(t)'
    <2>1. JobOf(t)
        BY DEF FaceInv, Jobs
    <2> QED  BY <2>1, <1>1, <1>2, <1>4 DEF JobOf, Becomes, StepsOf, leases, flags, history
<1>7. Held'
    <2>1. \A i \in Interfaces : MayUndo(t, i)' => MayUndo(t, i) \/ i \notin claimed
        BY <1>c, <1>4 DEF Becomes, MayUndo, Cur
    <2>2. ASSUME c \notin raced, job[t].op = "open"
          PROVE  ~MayUndo(t, c)' /\ \A u \in Threads \ {t} : ~MayUndo(u, c)
        <3>1. ~MayUndo(t, c)'
            BY <2>2, <1>4 DEF Becomes, MayUndo
        <3> QED  BY <2>2, <3>1, <1>1, <1>c, InHand
    <2>3. \A i \in job[t].todo : i \in job'[t].todo \/ (i = c /\ c \in claimed)
        BY <1>4 DEF Becomes
    <2>4. job[t].op # "close" /\ job'[t].op = job[t].op
        BY <1>2, <1>4 DEF Becomes
    <2>5. \A i \in Interfaces \ (raced' \cup byHand' \cup freed') :
             /\ i \in claimed => i \in claimed'
             /\ MayUndo(t, i)' => MayUndo(t, i) \/ i \notin claimed
             /\ job[t].op = "open" /\ i \in job[t].todo =>
                   \/ job'[t].op = "open" /\ i \in job'[t].todo
                   \/ /\ i \in claimed' /\ ~MayUndo(t, i)'
                      /\ \A u \in Threads \ {t} : ~MayUndo(u, i)
        BY <1>1, <2>1, <2>2, <2>3, <2>4
    <2>6. helper' = helper /\ byHand' = byHand /\ freed' = freed
        BY <1>1 DEF leases, history
    <2> QED  BY <1>5, <2>4, <2>5, <2>6, HeldKept
<1>8. \A i \in Interfaces :
         /\ \A s \in Special : ~Has(t, i, s) /\ ~Has(t, i, s)'
         /\ Reclaiming(t, i)' <=> Reclaiming(t, i)
         /\ i \in job'[t].mine => i \in job[t].mine
    BY <1>1, <1>2, <1>4 DEF Becomes, Has, Reclaiming, Special
<1> QED  BY <1>1, <1>2, <1>5, <1>6, <1>7, <1>8, QuietStepKeeps DEF history

\* Nobody else enters or leaves the interface in hand.
LEMMA AloneStill ==
    ASSUME FaceInv, NEW t \in Threads, job[t].todo # {}, raced \subseteq raced',
           \A u \in Threads \ {t} : job'[u] = job[u],
           NEW c, c = Cur(t), c \notin raced'
    PROVE  \A u \in Threads \ {t} :
              /\ \A s \in Steps : ~Has(u, c, s) /\ ~Has(u, c, s)'
              /\ ~Reclaiming(u, c) /\ ~Reclaiming(u, c)' /\ ~MayUndo(u, c)
              /\ c \notin job[u].mine /\ c \notin job'[u].mine
<1>1. c \in Interfaces /\ c \notin raced
    BY InHand
<1>2. \A u \in Threads \ {t} :
         /\ \A s \in Steps : ~Has(u, c, s)
         /\ ~Reclaiming(u, c) /\ ~MayUndo(u, c) /\ c \notin job[u].mine
    BY <1>1, InHand
<1> QED  BY <1>1, <1>2, Bystander

\* A call that strikes nothing from the record, passes no interface and sets
\* out to undo nothing new takes nothing from the helpers.
LEMMA HeldQuietly ==
    ASSUME FaceInv, NEW t \in Threads, \A u \in Threads \ {t} : job'[u] = job[u],
           raced \subseteq raced', UNCHANGED <<leases, byHand, freed>>,
           claimed \subseteq claimed', job[t].op = "close" => job'[t].op = "close",
           job[t].op = "open" =>
              job'[t].op = "close" \/ (job'[t].op = "open" /\ job[t].todo \subseteq job'[t].todo),
           \A i \in Interfaces : MayUndo(t, i)' => MayUndo(t, i)
    PROVE  Held'
<1>1. \A i \in Interfaces \ (raced' \cup byHand' \cup freed') :
         /\ i \in claimed => i \in claimed'
         /\ MayUndo(t, i)' => MayUndo(t, i) \/ i \notin claimed
         /\ job[t].op = "open" /\ i \in job[t].todo /\ job'[t].op # "close" =>
               job'[t].op = "open" /\ i \in job'[t].todo
    OBVIOUS
<1>2. helper' = helper
    BY DEF leases
<1> QED  BY <1>1, <1>2, HeldKept

\* claim() gives up: claim_all_interfaces() and Claim::new go on to release what
\* they claimed.
LEMMA UnwindKeeps ==
    ASSUME FaceInv, Apart', raced \subseteq raced', NEW t \in Threads, job[t].todo # {},
           job[t].step \in {"detach", "claim"}, Unwind(t),
           UNCHANGED <<bound, claimed, detached, leases, flags, history>>
    PROVE  FaceInv'
<1>1. ~closed /\ job[t].op \in {"claim", "all", "open"}
    BY InHand DEF StepsOf
<1>2. \/ job[t].op = "claim" /\ Becomes(t, "idle", "none", {}, {}) /\ job'[t] = Idle
      \/ job[t].op = "all" /\ Becomes(t, "undo", "release", job[t].mine, {})
      \/ job[t].op = "open" /\ Becomes(t, "close", "release", job[t].mine, {})
    BY <1>1, UnwindIs DEF FaceInv
<1>3. Shapes' /\ \A u \in Threads \ {t} : job'[u] = job[u]
    BY <1>2 DEF FaceInv, Shapes, Becomes, leases
<1>4. JobOf(t)'
    <2>1. JobOf(t)
        BY DEF FaceInv, Jobs
    <2> QED  BY <2>1, <1>1, <1>2 DEF JobOf, Becomes, StepsOf, leases, flags
<1>5. Held'
    <2>1. \A i \in Interfaces : MayUndo(t, i)' => MayUndo(t, i)
        BY <1>2 DEF Becomes, MayUndo
    <2>2. job[t].op # "close" /\ (job[t].op = "open" => job'[t].op = "close")
        BY <1>2 DEF Becomes
    <2> QED  BY <1>3, <2>1, <2>2, HeldQuietly DEF history
<1>6. \A i \in Interfaces :
         /\ \A s \in Special : ~Has(t, i, s) /\ ~Has(t, i, s)'
         /\ Reclaiming(t, i)' <=> Reclaiming(t, i)
         /\ i \in job'[t].mine => i \in job[t].mine
    BY <1>1, <1>2 DEF Becomes, Has, Reclaiming, Special
<1> QED  BY <1>1, <1>3, <1>4, <1>5, <1>6, QuietStepKeeps

\* claim() goes from one of its steps to the next.
LEMMA GoesOn ==
    ASSUME FaceInv, raced \subseteq raced', NEW t \in Threads, job[t].todo # {},
           job[t].step \in {"detach", "record", "claim"},
           NEW s \in {"record", "claim", "mark"}, Goto(t, s),
           bound' \in [Interfaces -> Holders], detached' \in [Interfaces -> Nat],
           UNCHANGED <<claimed, leases, flags, history>>
    PROVE  /\ Becomes(t, job[t].op, s, job[t].todo, job[t].mine)
           /\ Shapes' /\ JobOf(t)' /\ Held' /\ ~closed
           /\ job[t].op \in {"claim", "all", "open"}
<1>1. ~closed /\ job[t].op \in {"claim", "all", "open"}
    BY InHand DEF StepsOf
<1>2. Becomes(t, job[t].op, s, job[t].todo, job[t].mine)
    BY GotoIs DEF FaceInv, Steps
<1>3. Shapes' /\ \A u \in Threads \ {t} : job'[u] = job[u]
    BY <1>2 DEF FaceInv, Shapes, Becomes, leases
<1>4. JobOf(t)'
    <2>1. JobOf(t)
        BY DEF FaceInv, Jobs
    <2> QED  BY <2>1, <1>1, <1>2 DEF JobOf, Becomes, StepsOf, leases, flags
<1>5. Held'
    <2>1. \A i \in Interfaces : MayUndo(t, i)' => MayUndo(t, i)
        BY <1>2 DEF Becomes, MayUndo, Cur
    <2>2. job'[t].op = job[t].op /\ job'[t].todo = job[t].todo
        BY <1>2 DEF Becomes
    <2> QED  BY <1>3, <2>1, <2>2, HeldQuietly DEF history
<1> QED  BY <1>1, <1>2, <1>3, <1>4, <1>5

\* RecordedAt and RestorableAt as thread t sees them when it is alone.
RecordedBy(t, i) ==
    /\ bound[i] = "us" => i \in claimed \/ Has(t, i, "mark")
    /\ i \in claimed /\ ~stale =>
          bound[i] = "us" \/ Has(t, i, "unmark") \/ Reclaiming(t, i)
    /\ Has(t, i, "mark") => bound[i] = "us"
    /\ Has(t, i, "unmark") \/ Has(t, i, "lookup") \/ Has(t, i, "attach") => bound[i] # "us"
    /\ i \in job[t].mine \/ Reclaiming(t, i) => i \in claimed

RestorableBy(t, i) ==
    /\ bound[i] # "other"
    /\ \/ bound[i] = "driver" \/ detached[i] > 0
       \/ Has(t, i, "record") \/ Has(t, i, "attach")

\* A step of a call keeps the invariant if it does so for the interface in
\* hand, alone with it, and does nothing to the others.
LEMMA HandStepKeeps ==
    ASSUME FaceInv, Apart', raced \subseteq raced', NEW t \in Threads, job[t].todo # {},
           NEW c \in Interfaces, c = Cur(t),
           Shapes', \A u \in Threads \ {t} : job'[u] = job[u],
           UNCHANGED <<leases, flags, foreign, byHand, freed>>,
           JobOf(t)', Held', stale => stale',
           \A i \in Interfaces \ {c} :
              /\ bound'[i] = bound[i] /\ detached'[i] = detached[i]
              /\ i \in claimed' <=> i \in claimed
              /\ \A s \in Special : ~Has(t, i, s)'
              /\ Reclaiming(t, i)' <=> Reclaiming(t, i)
              /\ i \in job'[t].mine => i \in job[t].mine,
           RecordedBy(t, c) => RecordedBy(t, c)',
           c \in Driven /\ RecordedBy(t, c) /\ RestorableBy(t, c) => RestorableBy(t, c)'
    PROVE  FaceInv'
<1>1. ~closed /\ ~closed' /\ \A i \in Interfaces \ {c}, s \in Special : ~Has(t, i, s)
    BY InHand DEF flags
<1>2. ASSUME c \notin raced', c \notin byHand
      PROVE  RecordedBy(t, c) /\ RecordedAt(c)'
    <2>1. RecordedAt(c)
        BY <1>2 DEF FaceInv, Recorded
    <2>2. \A u \in Threads \ {t} :
              /\ \A s \in Steps : ~Has(u, c, s) /\ ~Has(u, c, s)'
              /\ ~Reclaiming(u, c) /\ ~Reclaiming(u, c)'
              /\ c \notin job[u].mine /\ c \notin job'[u].mine
        BY <1>2, AloneStill
    <2>3. RecordedBy(t, c)
        BY <2>1, <2>2 DEF RecordedAt, RecordedBy, Steps
    <2>4. RecordedBy(t, c)'
        BY <2>3
    <2> QED  BY <2>2, <2>3, <2>4 DEF RecordedAt, RecordedBy, Steps
<1>3. ASSUME c \notin raced', c \notin byHand, c \notin foreign, c \in Driven
      PROVE  RestorableAt(c)'
    <2>1. RestorableAt(c)
        BY <1>3 DEF FaceInv, Restorable
    <2>2. \A u \in Threads \ {t}, s \in Steps : ~Has(u, c, s) /\ ~Has(u, c, s)'
        BY <1>3, AloneStill
    <2>3. RestorableBy(t, c)
        BY <2>1, <2>2 DEF RestorableAt, RestorableBy, Steps
    <2>4. RestorableBy(t, c)'
        BY <2>3, <1>2, <1>3
    <2> QED  BY <2>2, <2>4, <1>1 DEF RestorableAt, RestorableBy, Steps
<1> DEFINE hand == {c}
<1>4. /\ hand \in SUBSET Interfaces
      /\ \A i \in hand \ (raced' \cup byHand) : RecordedAt(i)'
      /\ \A i \in hand \ (raced' \cup byHand \cup foreign) : i \in Driven => RestorableAt(i)'
    <2>1. \A i \in hand : i = c
        OBVIOUS
    <2> QED  BY <2>1, <1>2, <1>3
<1>5. \A i \in Interfaces \ hand :
              /\ bound'[i] = bound[i] /\ detached'[i] = detached[i]
              /\ i \in claimed' <=> i \in claimed
              /\ \A s \in Special : ~Has(t, i, s) /\ ~Has(t, i, s)'
              /\ Reclaiming(t, i)' <=> Reclaiming(t, i)
              /\ i \in job'[t].mine => i \in job[t].mine
    BY <1>1
<1> HIDE DEF hand
<1> QED  BY <1>1, <1>4, <1>5, StepKeeps

\* The kernel driver is detached, where there is one and it is asked for.
LEMMA DetachKeeps ==
    ASSUME FaceInv, Apart', raced \subseteq raced', NEW t \in Threads, Detach(t)
    PROVE  FaceInv'
<1>1. /\ job[t].todo # {} /\ job[t].step = "detach"
      /\ UNCHANGED <<claimed, detached, leases, flags, history>>
      /\ \/ Goto(t, "claim") /\ UNCHANGED bound
         \/ /\ bound[Cur(t)] = "driver" /\ Goto(t, "record")
            /\ bound' = [bound EXCEPT ![Cur(t)] = "none"]
         \/ Unwind(t) /\ UNCHANGED bound
    BY DEF Detach, At
<1>2. PICK c \in Interfaces : c = Cur(t) /\ c \in job[t].todo
    BY <1>1, InHand
<1>3. CASE Goto(t, "claim") /\ UNCHANGED bound
    <2>1. /\ Becomes(t, job[t].op, "claim", job[t].todo, job[t].mine)
          /\ Shapes' /\ JobOf(t)' /\ Held' /\ ~closed
          /\ job[t].op \in {"claim", "all", "open"}
        BY <1>1, <1>3, GoesOn DEF FaceInv, Shapes
    <2>2. \A i \in Interfaces :
             /\ \A s \in Special : ~Has(t, i, s) /\ ~Has(t, i, s)'
             /\ Reclaiming(t, i)' <=> Reclaiming(t, i)
             /\ i \in job'[t].mine => i \in job[t].mine
        BY <1>1, <2>1 DEF Becomes, Has, Reclaiming, Special
    <2>3. \A u \in Threads \ {t} : job'[u] = job[u]
        BY <2>1 DEF Becomes
    <2> QED  BY <1>1, <1>3, <2>1, <2>2, <2>3, QuietStepKeeps
<1>4. CASE /\ bound[Cur(t)] = "driver" /\ Goto(t, "record")
           /\ bound' = [bound EXCEPT ![Cur(t)] = "none"]
    <2>1. /\ bound' \in [Interfaces -> Holders] /\ detached' \in [Interfaces -> Nat]
          /\ bound[c] = "driver" /\ bound'[c] = "none"
          /\ \A i \in Interfaces \ {c} : bound'[i] = bound[i]
        BY <1>1, <1>2, <1>4 DEF FaceInv, Shapes, Holders
    <2>2. /\ Becomes(t, job[t].op, "record", job[t].todo, job[t].mine)
          /\ Shapes' /\ JobOf(t)' /\ Held' /\ ~closed
          /\ job[t].op \in {"claim", "all", "open"}
        BY <1>1, <1>4, <2>1, GoesOn
    <2>3. \A u \in Threads \ {t} : job'[u] = job[u]
        BY <2>2 DEF Becomes
    <2>4. /\ \A i \in Interfaces \ {c} :
                /\ \A s \in Special : ~Has(t, i, s) /\ ~Has(t, i, s)'
                /\ i \in job'[t].mine => i \in job[t].mine
          /\ \A i \in Interfaces : ~Reclaiming(t, i) /\ ~Reclaiming(t, i)'
          /\ c \notin job'[t].mine /\ Has(t, c, "record")'
          /\ \A s \in Special \ {"record"} : ~Has(t, c, s) /\ ~Has(t, c, s)'
        BY <1>1, <1>2, <2>2, InHand DEF Becomes, Has, Reclaiming, Special, Cur
    <2>5. RecordedBy(t, c) => RecordedBy(t, c)'
        BY <2>1, <2>4, <1>1 DEF RecordedBy, Special, history
    <2>6. RestorableBy(t, c)'
        BY <2>1, <2>4 DEF RestorableBy
    <2> QED  BY <1>1, <1>2, <2>1, <2>2, <2>3, <2>4, <2>5, <2>6, HandStepKeeps DEF history
<1>5. CASE Unwind(t) /\ UNCHANGED bound
    BY <1>1, <1>5, UnwindKeeps
<1> QED  BY <1>1, <1>3, <1>4, <1>5

\* The detached driver is recorded.
LEMMA RecordDetachedKeeps ==
    ASSUME FaceInv, Apart', raced \subseteq raced', NEW t \in Threads, RecordDetached(t)
    PROVE  FaceInv'
<1>1. /\ job[t].todo # {} /\ job[t].step = "record" /\ Goto(t, "claim")
      /\ detached' = [detached EXCEPT ![Cur(t)] = @ + 1]
      /\ UNCHANGED <<bound, claimed, leases, flags, history>>
    BY DEF RecordDetached, At
<1>2. PICK c \in Interfaces : c = Cur(t) /\ c \in job[t].todo
    BY <1>1, InHand
<1>3. /\ bound' \in [Interfaces -> Holders] /\ detached' \in [Interfaces -> Nat]
      /\ detached'[c] > 0 /\ \A i \in Interfaces \ {c} : detached'[i] = detached[i]
    <2>1. /\ detached \in [Interfaces -> Nat] /\ bound \in [Interfaces -> Holders]
          /\ detached' = [detached EXCEPT ![c] = detached[c] + 1] /\ bound' = bound
        BY <1>1, <1>2 DEF FaceInv, Shapes
    <2>2. detached[c] + 1 \in Nat /\ detached[c] + 1 > 0
        BY <2>1
    <2> QED  BY <2>1, <2>2
<1>4. /\ Becomes(t, job[t].op, "claim", job[t].todo, job[t].mine)
      /\ Shapes' /\ JobOf(t)' /\ Held' /\ job[t].op \in {"claim", "all", "open"}
    BY <1>1, <1>3, GoesOn
<1>5. /\ \A u \in Threads \ {t} : job'[u] = job[u]
      /\ \A i \in Interfaces :
            /\ \A s \in Special : ~Has(t, i, s)'
            /\ ~Reclaiming(t, i) /\ ~Reclaiming(t, i)'
            /\ i \in job'[t].mine => i \in job[t].mine
      /\ \A s \in Special \ {"record"} : ~Has(t, c, s)
    BY <1>1, <1>4 DEF Becomes, Has, Reclaiming, Special
<1>6. RecordedBy(t, c) => RecordedBy(t, c)'
    BY <1>1, <1>5 DEF RecordedBy, Special, history
<1>7. RestorableBy(t, c) => RestorableBy(t, c)'
    BY <1>1, <1>3 DEF RestorableBy
<1> QED  BY <1>1, <1>2, <1>3, <1>4, <1>5, <1>6, <1>7, HandStepKeeps DEF history

\* USBDEVFS_CLAIMINTERFACE.
LEMMA SysClaimKeeps ==
    ASSUME FaceInv, Apart', raced \subseteq raced', NEW t \in Threads, SysClaim(t)
    PROVE  FaceInv'
<1>1. /\ job[t].todo # {} /\ job[t].step = "claim"
      /\ UNCHANGED <<claimed, detached, leases, flags, history>>
      /\ \/ /\ bound[Cur(t)] \in {"none", "us"} /\ Goto(t, "mark")
            /\ bound' = [bound EXCEPT ![Cur(t)] = "us"]
         \/ Unwind(t) /\ UNCHANGED bound
    BY DEF SysClaim, At
<1>2. CASE Unwind(t) /\ UNCHANGED bound
    BY <1>1, <1>2, UnwindKeeps
<1>3. CASE /\ bound[Cur(t)] \in {"none", "us"} /\ Goto(t, "mark")
           /\ bound' = [bound EXCEPT ![Cur(t)] = "us"]
    <2>1. PICK c \in Interfaces : c = Cur(t) /\ c \in job[t].todo
        BY <1>1, InHand
    <2>2. /\ bound' \in [Interfaces -> Holders] /\ detached' \in [Interfaces -> Nat]
          /\ bound[c] \in {"none", "us"} /\ bound'[c] = "us"
          /\ \A i \in Interfaces \ {c} : bound'[i] = bound[i]
        BY <1>1, <1>3, <2>1 DEF FaceInv, Shapes, Holders
    <2>3. /\ Becomes(t, job[t].op, "mark", job[t].todo, job[t].mine)
          /\ Shapes' /\ JobOf(t)' /\ Held' /\ job[t].op \in {"claim", "all", "open"}
        BY <1>1, <1>3, <2>2, GoesOn
    <2>4. /\ \A u \in Threads \ {t} : job'[u] = job[u]
          /\ \A i \in Interfaces \ {c}, s \in Special : ~Has(t, i, s)'
          /\ \A i \in Interfaces :
                /\ ~Reclaiming(t, i) /\ ~Reclaiming(t, i)'
                /\ i \in job'[t].mine => i \in job[t].mine
          /\ \A s \in Special : ~Has(t, c, s)
          /\ \A s \in Special \ {"mark"} : ~Has(t, c, s)'
          /\ Has(t, c, "mark")'
        BY <1>1, <2>1, <2>3 DEF Becomes, Has, Reclaiming, Special, Cur
    <2>5. RecordedBy(t, c) => RecordedBy(t, c)'
        BY <1>1, <2>2, <2>4 DEF RecordedBy, Special
    <2>6. RestorableBy(t, c) => RestorableBy(t, c)'
        BY <1>1, <2>2, <2>4 DEF RestorableBy, Special
    <2> QED  BY <1>1, <2>1, <2>2, <2>3, <2>4, <2>5, <2>6, HandStepKeeps DEF history
<1> QED  BY <1>1, <1>2, <1>3

\* The claim is put on record.
LEMMA MarkKeeps ==
    ASSUME FaceInv, Apart', raced \subseteq raced', NEW t \in Threads, Mark(t)
    PROVE  FaceInv'
<1>1. /\ job[t].todo # {} /\ job[t].step = "mark"
      /\ claimed' = claimed \cup {Cur(t)} /\ Advance(t, job[t].mine \cup {Cur(t)})
      /\ UNCHANGED <<bound, detached, leases, flags, history>>
    BY DEF Mark, At
<1>2. PICK c \in Interfaces : c = Cur(t) /\ c \in job[t].todo
    BY <1>1, InHand
<1>3. /\ ~closed /\ job[t].op \in {"claim", "all", "open"} /\ job[t].op \in Ops
    BY <1>1, InHand DEF StepsOf
<1> DEFINE first == FirstStep(job[t].op)
<1>4. /\ Becomes(t, job[t].op, first, job[t].todo \ {c}, job[t].mine \cup {c})
      /\ first \in StepsOf(job[t].op) /\ first \notin Special
      /\ job[t].op = "all" => first = "check"
    <2>1. job[t].mine \cup {Cur(t)} \in SUBSET Interfaces
        BY <1>2 DEF FaceInv, Shapes, Job
    <2>2. Becomes(t, job[t].op, first, job[t].todo \ {Cur(t)}, job[t].mine \cup {Cur(t)})
        BY <1>1, <2>1, AdvanceIs DEF FaceInv
    <2> QED  BY <2>2, <1>2, <1>3, FirstStepIs DEF Special
<1> HIDE DEF first
<1>5. Shapes' /\ \A u \in Threads \ {t} : job'[u] = job[u]
    BY <1>1, <1>2, <1>4 DEF FaceInv, Shapes, Becomes, leases
<1>6. JobOf(t)'
    <2>1. JobOf(t)
        BY DEF FaceInv, Jobs
    <2> QED  BY <2>1, <1>1, <1>2, <1>3, <1>4 DEF JobOf, Becomes, leases, flags
<1>7. Held'
    <2>1. \A i \in Interfaces : MayUndo(t, i)' => MayUndo(t, i)
        BY <1>1, <1>2, <1>4 DEF Becomes, MayUndo
    <2>2. ASSUME c \notin raced', job[t].op = "open"
          PROVE  ~MayUndo(t, c)' /\ \A u \in Threads \ {t} : ~MayUndo(u, c)
        <3>1. ~MayUndo(t, c)'
            BY <2>2, <1>4 DEF Becomes, MayUndo
        <3> QED  BY <2>2, <3>1, <1>1, <1>2, <1>5, AloneStill
    <2>3. job'[t].op = job[t].op /\ job[t].op # "close"
          /\ \A i \in job[t].todo \ {c} : i \in job'[t].todo
        BY <1>3, <1>4 DEF Becomes
    <2>4. \A i \in Interfaces \ (raced' \cup byHand' \cup freed') :
             /\ i \in claimed => i \in claimed'
             /\ MayUndo(t, i)' => MayUndo(t, i) \/ i \notin claimed
             /\ job[t].op = "open" /\ i \in job[t].todo =>
                   \/ job'[t].op = "open" /\ i \in job'[t].todo
                   \/ /\ i \in claimed' /\ ~MayUndo(t, i)'
                      /\ \A u \in Threads \ {t} : ~MayUndo(u, i)
        BY <1>1, <1>2, <2>1, <2>2, <2>3
    <2>5. helper' = helper /\ byHand' = byHand /\ freed' = freed
        BY <1>1 DEF leases, history
    <2> QED  BY <1>5, <2>3, <2>4, <2>5, HeldKept
<1>8. /\ \A i \in Interfaces :
            /\ \A s \in Special : ~Has(t, i, s)'
            /\ ~Reclaiming(t, i) /\ ~Reclaiming(t, i)'
            /\ i \in job'[t].mine => i \in job[t].mine \cup {c}
      /\ Has(t, c, "mark") /\ \A s \in Special \ {"mark"} : ~Has(t, c, s)
    BY <1>1, <1>2, <1>3, <1>4 DEF Becomes, Has, Reclaiming, Special
<1>9. RecordedBy(t, c) => RecordedBy(t, c)'
    BY <1>1, <1>2, <1>8 DEF RecordedBy, Special
<1>10. RestorableBy(t, c) => RestorableBy(t, c)'
    BY <1>1, <1>8 DEF RestorableBy, Special
<1> QED  BY <1>1, <1>2, <1>5, <1>6, <1>7, <1>8, <1>9, <1>10, HandStepKeeps DEF history

\* The loop of reset() claims an interface again, or fails and leaves the
\* handle to be reopened.
LEMMA ReclaimKeeps ==
    ASSUME FaceInv, Apart', raced \subseteq raced', NEW t \in Threads, Reclaim(t)
    PROVE  FaceInv'
<1>1. /\ job[t].todo # {} /\ job[t].step = "reclaim"
      /\ UNCHANGED <<claimed, detached, leases, flags, foreign, byHand, freed>>
      /\ \/ /\ bound[Cur(t)] \in {"none", "us"}
            /\ bound' = [bound EXCEPT ![Cur(t)] = "us"] /\ Advance(t, {}) /\ UNCHANGED stale
         \/ job' = [job EXCEPT ![t] = Idle] /\ stale' = TRUE /\ UNCHANGED bound
    BY DEF Reclaim, At
<1>2. PICK c \in Interfaces : c = Cur(t) /\ c \in job[t].todo
    BY <1>1, InHand
<1>3. ~closed /\ job[t].op = "reset" /\ JobOf(t) /\ job[t].mine = {}
    <2>1. ~closed /\ job[t].op = "reset" /\ JobOf(t)
        BY <1>1, InHand DEF StepsOf, FaceInv, Jobs
    <2> QED  BY <2>1 DEF JobOf
<1>4. CASE /\ bound[Cur(t)] \in {"none", "us"}
           /\ bound' = [bound EXCEPT ![Cur(t)] = "us"] /\ Advance(t, {}) /\ UNCHANGED stale
    <2>1. Becomes(t, "reset", "reclaim", job[t].todo \ {c}, {})
        <3>1. FirstStep("reset") = "reclaim"
            BY DEF FirstStep
        <3> QED  BY <1>2, <1>3, <1>4, <3>1, AdvanceIs DEF FaceInv
    <2>2. /\ bound' \in [Interfaces -> Holders]
          /\ bound[c] \in {"none", "us"} /\ bound'[c] = "us"
          /\ \A i \in Interfaces \ {c} : bound'[i] = bound[i]
        BY <1>2, <1>4 DEF FaceInv, Shapes, Holders
    <2>3. Shapes' /\ \A u \in Threads \ {t} : job'[u] = job[u]
        BY <1>1, <2>1, <2>2 DEF FaceInv, Shapes, Becomes, leases
    <2>4. JobOf(t)'
        BY <1>1, <1>3, <2>1 DEF JobOf, Becomes, StepsOf, leases, flags
    <2>5. Held'
        <3>1. \A i \in Interfaces : ~MayUndo(t, i)'
            BY <2>1 DEF Becomes, MayUndo
        <3> QED  BY <3>1, <1>1, <1>3, <2>3, HeldQuietly
    <2>6. /\ \A i \in Interfaces, s \in Special : ~Has(t, i, s) /\ ~Has(t, i, s)'
          /\ \A i \in Interfaces \ {c} : Reclaiming(t, i)' <=> Reclaiming(t, i)
          /\ Reclaiming(t, c) /\ ~Reclaiming(t, c)' /\ job'[t].mine = {}
        BY <1>1, <1>2, <1>3, <2>1 DEF Becomes, Has, Reclaiming, Special
    <2>7. RecordedBy(t, c) => RecordedBy(t, c)'
        BY <1>1, <2>2, <2>6 DEF RecordedBy, Special
    <2>8. RestorableBy(t, c) => RestorableBy(t, c)'
        BY <1>1, <2>2, <2>6 DEF RestorableBy, Special
    <2> QED  BY <1>1, <1>2, <1>4, <2>2, <2>3, <2>4, <2>5, <2>6, <2>7, <2>8, HandStepKeeps
<1>5. CASE job' = [job EXCEPT ![t] = Idle] /\ stale' = TRUE /\ UNCHANGED bound
    <2>1. Becomes(t, "idle", "none", {}, {}) /\ job'[t] = Idle
        <3>1. Idle \in Job
            BY DEF Idle, Job, Ops, Steps
        <3> QED  BY <3>1, <1>5 DEF FaceInv, Shapes, Becomes, Idle
    <2>2. Shapes' /\ \A u \in Threads \ {t} : job'[u] = job[u]
        BY <1>1, <1>5, <2>1 DEF FaceInv, Shapes, Becomes, leases
    <2>3. JobOf(t)'
        BY <1>1, <1>3, <2>1 DEF JobOf, Becomes, leases, flags
    <2>4. Held'
        <3>1. \A i \in Interfaces : ~MayUndo(t, i)'
            BY <2>1 DEF Becomes, MayUndo
        <3> QED  BY <3>1, <1>1, <1>3, <2>2, HeldQuietly
    <2>5. ASSUME NEW i \in Interfaces, i \notin raced'
          PROVE  /\ \A u \in Threads, s \in Special : ~Has(u, i, s) /\ ~Has(u, i, s)'
                 /\ \A u \in Threads : ~Reclaiming(u, i)' /\ i \notin job'[u].mine
        <3>1. i \in Touches(t) /\ i \notin raced
            BY <1>3, <2>5 DEF Touches
        <3>2. \A u \in Threads \ {t} :
                 /\ \A s \in Steps : ~Has(u, i, s)
                 /\ ~Reclaiming(u, i) /\ i \notin job[u].mine
            BY <3>1, Alone
        <3>3. \A s \in Special : ~Has(t, i, s) /\ ~Has(t, i, s)'
            BY <1>1, <2>1 DEF Becomes, Has, Special
        <3>4. ~Reclaiming(t, i)' /\ i \notin job'[t].mine
            BY <2>1 DEF Becomes, Reclaiming
        <3> QED  BY <3>2, <3>3, <3>4, <2>2, Bystander DEF Special, Steps
    <2>6. ASSUME NEW i \in Interfaces, i \notin raced', i \notin byHand
          PROVE  RecordedAt(i)'
        <3>1. RecordedAt(i)
            BY <2>6 DEF FaceInv, Recorded
        <3> QED  BY <3>1, <2>5, <2>6, <1>1, <1>5 DEF RecordedAt, Special
    <2>7. ASSUME NEW i \in Interfaces, i \notin raced', i \notin byHand, i \notin foreign,
                 i \in Driven
          PROVE  RestorableAt(i)'
        <3>1. RestorableAt(i)
            BY <2>7 DEF FaceInv, Restorable
        <3> QED  BY <3>1, <2>5, <2>7, <1>1, <1>3, <1>5 DEF RestorableAt, Special, flags
    <2> DEFINE hand == Interfaces
    <2>8. /\ hand \in SUBSET Interfaces
          /\ \A i \in hand \ (raced' \cup byHand) : RecordedAt(i)'
          /\ \A i \in hand \ (raced' \cup byHand \cup foreign) :
                i \in Driven => RestorableAt(i)'
          /\ \A i \in Interfaces \ hand : FALSE
        BY <2>6, <2>7
    <2> HIDE DEF hand
    <2> QED  BY <1>1, <1>3, <1>5, <2>2, <2>3, <2>4, <2>8, StepKeeps
<1> QED  BY <1>1, <1>4, <1>5

\* A call that releases is release_interface(), the drop of a helper, or
\* claim_all_interfaces() giving up.
LEMMA Releasing ==
    ASSUME FaceInv, NEW t \in Threads, job[t].todo # {},
           job[t].step \in {"release", "unmark", "lookup", "attach"}
    PROVE  /\ ~closed /\ job[t].op \in {"release", "close", "undo"} /\ JobOf(t)
           /\ job[t].mine = {} /\ FirstStep(job[t].op) = "release"
<1>1. ~closed /\ job[t].op \in {"release", "close", "undo"} /\ JobOf(t)
    BY InHand DEF StepsOf, FaceInv, Jobs, Ops
<1>2. job[t].mine = {}
    BY <1>1 DEF JobOf
<1>3. FirstStep(job[t].op) = "release"
    BY <1>1 DEF FirstStep
<1> QED  BY <1>1, <1>2, <1>3

\* It goes from one of its steps to the next, or on to the next interface.
LEMMA ReleaseGoesOn ==
    ASSUME FaceInv, Apart', raced \subseteq raced', NEW t \in Threads, job[t].todo # {},
           job[t].step \in {"release", "unmark", "lookup", "attach"},
           NEW s \in {"release", "unmark", "lookup", "attach"},
           NEW c \in Interfaces, c = Cur(t), NEW todo \in {job[t].todo, job[t].todo \ {c}},
           Becomes(t, job[t].op, s, todo, {}),
           todo # job[t].todo => s = "release",
           bound' \in [Interfaces -> Holders], detached' \in [Interfaces -> Nat],
           claimed' \subseteq claimed, \A i \in claimed \ claimed' : i = c,
           \A i \in Interfaces \ {c} : bound'[i] = bound[i] /\ detached'[i] = detached[i],
           UNCHANGED <<leases, flags, history>>,
           RecordedBy(t, c) => RecordedBy(t, c)',
           c \in Driven /\ RecordedBy(t, c) /\ RestorableBy(t, c) => RestorableBy(t, c)'
    PROVE  FaceInv'
<1>1. /\ ~closed /\ job[t].op \in {"release", "close", "undo"} /\ JobOf(t)
      /\ job[t].mine = {}
    BY Releasing
<1>2. Shapes' /\ \A u \in Threads \ {t} : job'[u] = job[u]
    BY DEF FaceInv, Shapes, Becomes, leases
<1>3. JobOf(t)'
    BY <1>1 DEF JobOf, Becomes, StepsOf, leases, flags, history
<1>4. Held'
    <2>1. c \in job[t].todo /\ (job[t].op = "close" => c \in helper[t].leased)
        BY InHand
    <2>2. /\ job[t].op = "release" => c \in freed
          /\ job[t].op = "undo" => MayUndo(t, c)
        BY <1>1, <2>1 DEF JobOf, MayUndo
    <2>3. \A i \in Interfaces : MayUndo(t, i)' => MayUndo(t, i)
        BY <1>1 DEF MayUndo, Becomes
    <2>4. job'[t].op = job[t].op /\ job[t].op # "open"
        BY <1>1 DEF Becomes
    <2>5. helper' = helper /\ byHand' = byHand /\ freed' = freed
        BY DEF leases, history
    <2>6. \A i \in Interfaces \ (raced' \cup byHand' \cup freed') :
             /\ i \in claimed => \/ i \in claimed' \/ MayUndo(t, i)
                                 \/ job[t].op = "close" /\ i \in helper[t].leased
             /\ MayUndo(t, i)' => MayUndo(t, i) \/ i \notin claimed
        BY <1>1, <2>1, <2>2, <2>3, <2>5
    <2> QED  BY <1>2, <2>4, <2>5, <2>6, HeldKept
<1>5. \A i \in Interfaces \ {c} :
         /\ \A x \in Special : ~Has(t, i, x)'
         /\ Reclaiming(t, i)' <=> Reclaiming(t, i)
         /\ i \in job'[t].mine => i \in job[t].mine
    BY <1>1 DEF Becomes, Has, Reclaiming, Special, Cur
<1>6. UNCHANGED <<leases, flags, foreign, byHand, freed>> /\ stale' = stale
    BY DEF history
<1> QED  BY <1>2, <1>3, <1>4, <1>5, <1>6, HandStepKeeps

\* USBDEVFS_RELEASEINTERFACE, and the claim is struck from the record.
LEMMA ReleaseKeeps ==
    ASSUME FaceInv, Apart', raced \subseteq raced', NEW t \in Threads,
           SysRelease(t) \/ Unmark(t)
    PROVE  FaceInv'
<1>1. /\ job[t].todo # {} /\ job[t].step \in {"release", "unmark"}
      /\ UNCHANGED <<detached, leases, flags, history>>
      /\ \/ /\ job[t].step = "release" /\ claimed' = claimed /\ Goto(t, "unmark")
            /\ bound' = [bound EXCEPT ![Cur(t)] = IF @ = "us" THEN "none" ELSE @]
         \/ /\ job[t].step = "unmark" /\ bound' = bound /\ Goto(t, "lookup")
            /\ claimed' = claimed \ {Cur(t)}
    BY DEF SysRelease, Unmark, At
<1>2. PICK c \in Interfaces : c = Cur(t) /\ c \in job[t].todo
    BY <1>1, InHand
<1>3. job[t].mine = {} /\ job[t].op \in {"release", "close", "undo"}
    BY <1>1, Releasing
<1>4. PICK s \in {"unmark", "lookup"} :
        /\ Becomes(t, job[t].op, s, job[t].todo, {})
        /\ s = "unmark" <=> job[t].step = "release"
    BY <1>1, <1>3, GotoIs DEF FaceInv, Steps
<1>5. /\ bound' \in [Interfaces -> Holders] /\ detached' \in [Interfaces -> Nat]
      /\ \A i \in Interfaces \ {c} : bound'[i] = bound[i] /\ detached'[i] = detached[i]
      /\ bound'[c] = IF job[t].step = "release" /\ bound[c] = "us" THEN "none" ELSE bound[c]
      /\ claimed' \subseteq claimed /\ \A i \in claimed \ claimed' : i = c
      /\ job[t].step = "unmark" => c \notin claimed'
    BY <1>1, <1>2 DEF FaceInv, Shapes, Holders
<1>6. /\ Has(t, c, job[t].step) /\ Has(t, c, s)'
      /\ \A x \in Special \ {job[t].step} : ~Has(t, c, x)
      /\ \A x \in Special \ {s} : ~Has(t, c, x)'
      /\ ~Reclaiming(t, c) /\ ~Reclaiming(t, c)' /\ c \notin job'[t].mine
    BY <1>2, <1>3, <1>4 DEF Becomes, Has, Reclaiming, Cur
<1>7. RecordedBy(t, c) => RecordedBy(t, c)'
    BY <1>1, <1>4, <1>5, <1>6 DEF RecordedBy, Special
<1>8. RestorableBy(t, c) => RestorableBy(t, c)'
    BY <1>1, <1>5, <1>6 DEF RestorableBy, Special
<1> QED  BY <1>1, <1>2, <1>4, <1>5, <1>7, <1>8, ReleaseGoesOn

\* The driver is looked up among the detached ones and attached again.
LEMMA ReattachKeeps ==
    ASSUME FaceInv, Apart', raced \subseteq raced', NEW t \in Threads,
           LookupDetached(t) \/ Reattach(t)
    PROVE  FaceInv'
<1>1. /\ job[t].todo # {} /\ job[t].step \in {"lookup", "attach"}
      /\ UNCHANGED <<claimed, leases, flags, history>>
      /\ \/ /\ job[t].step = "lookup" /\ bound' = bound /\ detached[Cur(t)] > 0
            /\ detached' = [detached EXCEPT ![Cur(t)] = @ - 1] /\ Goto(t, "attach")
         \/ /\ job[t].step = "lookup" /\ bound' = bound /\ ~(detached[Cur(t)] > 0)
            /\ detached' = detached /\ Advance(t, {})
         \/ /\ job[t].step = "attach" /\ detached' = detached /\ Advance(t, {})
            /\ bound' = [bound EXCEPT ![Cur(t)] =
                           IF @ = "none" /\ Cur(t) \in Driven THEN "driver" ELSE @]
    BY DEF LookupDetached, Reattach, At
<1>2. PICK c \in Interfaces : c = Cur(t) /\ c \in job[t].todo
    BY <1>1, InHand
<1>3. /\ job[t].mine = {} /\ job[t].op \in {"release", "close", "undo"}
      /\ FirstStep(job[t].op) = "release"
    BY <1>1, Releasing
<1>4. PICK s \in {"attach", "release"}, todo \in {job[t].todo, job[t].todo \ {c}} :
        /\ Becomes(t, job[t].op, s, todo, {})
        /\ s = "attach" <=> job[t].step = "lookup" /\ detached[c] > 0
        /\ s = "attach" => todo = job[t].todo
        /\ s = "release" => todo = job[t].todo \ {c}
    <2>1. CASE job[t].step = "lookup" /\ detached[c] > 0
        <3>1. Goto(t, "attach")
            BY <2>1, <1>1, <1>2
        <3> QED  BY <2>1, <3>1, <1>3, GotoIs DEF FaceInv, Steps
    <2>2. CASE ~(job[t].step = "lookup" /\ detached[c] > 0)
        <3>1. Advance(t, {})
            BY <2>2, <1>1, <1>2
        <3> QED  BY <2>2, <3>1, <1>2, <1>3, AdvanceIs DEF FaceInv
    <2> QED  BY <2>1, <2>2
<1>5. /\ bound' \in [Interfaces -> Holders] /\ detached' \in [Interfaces -> Nat]
      /\ \A i \in Interfaces \ {c} : bound'[i] = bound[i] /\ detached'[i] = detached[i]
    <2>1. /\ bound \in [Interfaces -> Holders] /\ detached \in [Interfaces -> Nat]
          /\ detached[c] \in Nat
        BY DEF FaceInv, Shapes
    <2>2. /\ detached' \in [Interfaces -> Nat]
          /\ \A i \in Interfaces \ {c} : detached'[i] = detached[i]
        BY <2>1, <1>1, <1>2
    <2>3. /\ bound' \in [Interfaces -> Holders]
          /\ \A i \in Interfaces \ {c} : bound'[i] = bound[i]
        BY <2>1, <1>1, <1>2 DEF Holders
    <2> QED  BY <2>2, <2>3
<1>6. /\ bound'[c] = IF job[t].step = "attach" /\ bound[c] = "none" /\ c \in Driven
                     THEN "driver" ELSE bound[c]
      /\ s = "release" => detached'[c] = detached[c]
      /\ bound[c] \in Holders /\ detached[c] \in Nat
    BY <1>1, <1>2, <1>4 DEF FaceInv, Shapes
<1>7. /\ Has(t, c, job[t].step)
      /\ \A x \in Special \ {job[t].step} : ~Has(t, c, x)
      /\ s = "attach" => Has(t, c, "attach")'
      /\ \A x \in Special \ {"attach"} : ~Has(t, c, x)'
      /\ s = "release" => \A x \in Special : ~Has(t, c, x)'
      /\ ~Reclaiming(t, c) /\ ~Reclaiming(t, c)' /\ c \notin job'[t].mine
    BY <1>2, <1>3, <1>4 DEF Becomes, Has, Reclaiming, Cur, Special
<1>8. RecordedBy(t, c) => RecordedBy(t, c)'
    BY <1>1, <1>4, <1>6, <1>7 DEF RecordedBy, Special, history
<1>9. c \in Driven /\ RecordedBy(t, c) /\ RestorableBy(t, c) => RestorableBy(t, c)'
    BY <1>1, <1>4, <1>6, <1>7 DEF RecordedBy, RestorableBy, Special, Holders
<1> QED  BY <1>1, <1>2, <1>4, <1>5, <1>8, <1>9, ReleaseGoesOn

-----------------------------------------------------------------------------

\* A handle just opened satisfies the invariant.
THEOREM InitFaceInv == Init => FaceInv
<1> SUFFICES ASSUME Init PROVE FaceInv
    OBVIOUS
<1>1. Shapes
    <2>1. Idle \in Job
        BY DEF Idle, Job, Ops, Steps
    <2>2. job \in [Threads -> Job]
        BY <2>1 DEF Init
    <2> QED  BY <2>2 DEF Init, Shapes, Holders
<1>2. \A t \in Threads : job[t] = Idle /\ helper[t] = NoHelper
    BY DEF Init
<1>3. \A t \in Threads, i \in Interfaces :
         /\ \A s \in Steps : ~Has(t, i, s)
         /\ ~Reclaiming(t, i) /\ i \notin job[t].mine /\ i \notin Touches(t)
    BY <1>2, IdleIsNotInvolved DEF Touches, Idle
<1>4. Jobs
    <2> SUFFICES ASSUME NEW t \in Threads PROVE JobOf(t)
        BY DEF Jobs
    <2> QED  BY <1>2 DEF JobOf, Idle, Init
<1>5. LeasesExact
    BY <1>2 DEF Init, LeasesExact
<1>6. Apart /\ Held
    BY <1>2, <1>3 DEF Apart, Held
<1>7. Recorded /\ Restorable
    BY <1>3 DEF Init, Recorded, RecordedAt, Restorable, RestorableAt, Steps
<1>8. Flag
    BY Zenon DEF Init, Flag
<1> QED  BY <1>1, <1>4, <1>5, <1>6, <1>7, <1>8 DEF FaceInv

\* No step of any thread, nor of another process, breaks it.
THEOREM NextFaceInv == FaceInv /\ [Next]_vars => FaceInv'
<1> SUFFICES ASSUME FaceInv, [Next]_vars PROVE FaceInv'
    OBVIOUS
<1>1. CASE UNCHANGED vars
    <2>1. /\ UNCHANGED <<bound, claimed, detached, autoDetach, closed, job, raced>>
          /\ UNCHANGED <<leases, foreign, byHand, freed, stale>>
        BY <1>1 DEF vars, flags, history
    <2>2. Apart'
        BY <2>1 DEF FaceInv, Apart, Touches, Cur
    <2>3. bound' \in [Interfaces -> Holders]
        BY <2>1 DEF FaceInv, Shapes
    <2>4. Flag'
        BY <2>1, Zenon DEF FaceInv, Flag
    <2> QED  BY <2>1, <2>2, <2>3, <2>4, OutsideKeeps
<1>2. CASE Next
    <2>1. Apart' /\ raced \subseteq raced'
        BY <1>2, RacedKeeps
    <2>2. CASE DropHandle
        BY <2>1, <2>2, DropKeeps
    <2>3. CASE \E i \in Interfaces : OtherProcess(i)
        BY <2>1, <2>3, ByHandKeeps
    <2>4. ASSUME NEW t \in Threads, ThreadCalls(t)
          PROVE  FaceInv'
        BY <2>1, <2>4, CallsKeep, ClaimNewKeeps, ResetKeeps, ByHandKeeps DEF ThreadCalls
    <2>5. ASSUME NEW t \in Threads, ThreadSteps(t)
          PROVE  FaceInv'
        BY <2>1, <2>5, IsClaimedKeeps, DetachKeeps, RecordDetachedKeeps, SysClaimKeeps,
           MarkKeeps, ReclaimKeeps, ReleaseKeeps, ReattachKeeps, ReturnKeeps
           DEF ThreadSteps
    <2> QED  BY <1>2, <2>2, <2>3, <2>4, <2>5 DEF Next
<1> QED  BY <1>1, <1>2

\* The inductive invariant of claims, leases and detached drivers holds always.
THEOREM FaceInvariant == Spec => []FaceInv
BY InitFaceInv, NextFaceInv, PTL DEF Spec

\* No two class helpers ever share an interface, and no lease outlives its
\* helper, whatever Claim::new failed at.
THEOREM LeasesAreExact == Spec => []LeasesExact
<1>1. FaceInv => LeasesExact
    BY DEF FaceInv
<1> QED  BY <1>1, FaceInvariant, PTL

\* `claimed` and the kernel agree on every interface that no call works on.
THEOREM ClaimsAlwaysAgree == Spec => []ClaimsAgree
<1>1. FaceInv => ClaimsAgree
    <2> SUFFICES ASSUME FaceInv, NEW i \in Interfaces \ (raced \cup byHand), Settled(i), ~stale
                 PROVE  i \in claimed <=> bound[i] = "us"
        BY DEF ClaimsAgree
    <2>1. RecordedAt(i)
        BY DEF FaceInv, Recorded
    <2> QED  BY <2>1, NotInvolved DEF Settled, RecordedAt, Steps
<1> QED  BY <1>1, FaceInvariant, PTL

\* Every kernel driver that claim() detached comes back.
THEOREM DriversAlwaysComeBack == Spec => []DriversComeBack
<1>1. FaceInv => DriversComeBack
    <2> SUFFICES ASSUME FaceInv, NEW i \in Driven \ (raced \cup byHand \cup foreign)
                 PROVE  /\ Settled(i) => bound[i] = "driver" \/ detached[i] > 0
                        /\ closed => bound[i] = "driver"
        BY DEF DriversComeBack
    <2>1. RestorableAt(i)
        BY DEF FaceInv, Restorable
    <2> QED  BY <2>1, NotInvolved DEF Settled, RestorableAt, Steps
<1> QED  BY <1>1, FaceInvariant, PTL

\* An open class helper holds every interface it leased.
THEOREM HelpersHoldTheirOwn == Spec => []HelperHoldsItsOwn
<1>1. FaceInv => HelperHoldsItsOwn
    <2> SUFFICES ASSUME FaceInv, NEW t \in Threads, helper[t] # NoHelper,
                        job[t].op \notin {"open", "close"},
                        NEW i \in helper[t].leased \ (raced \cup byHand \cup freed),
                        Settled(i), ~stale
                 PROVE  i \in claimed /\ bound[i] = "us"
        BY DEF HelperHoldsItsOwn
    <2>1. i \in Interfaces
        BY DEF FaceInv, Shapes, Claim
    <2>2. i \in claimed
        BY DEF FaceInv, Held, HeldAt
    <2>3. RecordedAt(i)
        BY <2>1 DEF FaceInv, Recorded
    <2> QED  BY <2>1, <2>2, <2>3, NotInvolved DEF Settled, RecordedAt, Steps
<1> QED  BY <1>1, FaceInvariant, PTL

=============================================================================
