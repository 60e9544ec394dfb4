--------------------------- MODULE HotplugProofs ----------------------------
(***************************************************************************)
(* Proofs about Hotplug, for any devices, listeners and filters.           *)
(***************************************************************************)
EXTENDS Hotplug, TLAPS

USE HotplugAssumption

\* Who holds `dispatch`: an add() from start to end, or rescan() while it calls.
Locked ==
    /\ dispatch = "add" <=> adder.step # "none"
    /\ dispatch = "thread" <=> thread.step = "call"
    /\ adder.step = "none" => adder.l = NoListener
    /\ adder.step # "seed" => adder.seed = {}
    /\ thread.step # "call" => thread.todo = {}

\* Only the first add() replaces `known`, when nobody is listed yet.
Starting ==
    /\ ~started => listed = {} /\ thread.step = "none"
    /\ adder.step = "enumerate" => ~started
    /\ adder.step \in {"push", "seed"} => started

\* A listener is called from the moment it is listed, not before.
Registered ==
    \A l \in Listeners :
        /\ adder.l = l => reg[l] = "new"
        /\ adder.l = l /\ adder.step = "seed" => l \in listed
        /\ l \in listed => reg[l] = "live" \/ (adder.l = l /\ adder.step = "seed")
        /\ reg[l] = "new" /\ l \notin listed => \A d \in Devices : told[l][d] = 0
        /\ l \in Existing => base[l] = {}

\* The initial batch is of devices its listener has not been told of.
Seeding ==
    \A d \in adder.seed :
        /\ adder.l \in Existing /\ d \in Wants[adder.l] /\ d \in known
        /\ told[adder.l][d] = 0

\* A call that is due has not been made: its listener was last told the opposite.
Calling ==
    \A e \in thread.todo :
        /\ reg[e.to] # "new" /\ e.dev \in Wants[e.to]
        /\ e.kind = "Arrived" <=> e.dev \in known
        /\ told[e.to][e.dev] = One(e.kind = "Left") - One(e.dev \in base[e.to])

HotInv ==
    /\ Shapes /\ Locked /\ Starting /\ Registered /\ Seeding /\ Calling
    /\ ToldIsKnown /\ ArrivalFirst

\* A new Registry, with no listener and no dispatch thread, satisfies the
\* invariant.
THEOREM InitHotInv == Init => HotInv
<1> SUFFICES ASSUME Init PROVE HotInv
    OBVIOUS
<1>1. Shapes
    <2>1. adder.step = "none" /\ adder \in [step : {"none"}, l : {NoListener}, seed : {{}}]
        BY DEF Init, NoAdd
    <2>2. thread \in [step : {"none"}, seen : {{}}, todo : {{}}]
        BY DEF Init, NoThread
    <2>3. told \in [Listeners -> [Devices -> -1..1]]
        BY DEF Init
    <2>4. base \in [Listeners -> SUBSET Devices] /\ reg \in [Listeners -> {"new", "live", "dropped"}]
        BY DEF Init
    <2> QED  BY <2>1, <2>2, <2>3, <2>4 DEF Init, Shapes
<1>2. Locked /\ Starting /\ Seeding /\ Calling
    BY DEF Init, NoAdd, NoThread, Locked, Starting, Seeding, Calling
<1>3. Registered /\ ToldIsKnown /\ ArrivalFirst
    BY DEF Init, NoAdd, Registered, ToldIsKnown, ArrivalFirst
<1> QED  BY <1>1, <1>2, <1>3 DEF HotInv

\* A step that touches neither the registry nor the calls that are due keeps
\* the invariant: devices, the event thread, and the dispatch thread while it
\* does not hold the lock.
LEMMA QuietKeeps ==
    ASSUME HotInv, Shapes',
           UNCHANGED <<started, dispatch, adder, told, known, listed, reg, base>>,
           thread'.todo = thread.todo,
           thread'.step = "call" <=> thread.step = "call",
           thread'.step = "none" <=> thread.step = "none"
    PROVE  HotInv'
<1>1. Locked' /\ Starting'
    BY DEF HotInv, Locked, Starting
<1>2. Registered' /\ Seeding'
    BY DEF HotInv, Registered, Seeding
<1>3. Calling'
    BY DEF HotInv, Calling
<1>4. ToldIsKnown' /\ ArrivalFirst'
    BY DEF HotInv, ToldIsKnown, ArrivalFirst, Due
<1> QED  BY <1>1, <1>2, <1>3, <1>4 DEF HotInv

\* Devices come and go, and the event thread serves or gives up the socket.
LEMMA SystemKeeps ==
    ASSUME HotInv, (\E d \in Devices : DeviceChanges(d)) \/ DrainUevents \/ SocketError
    PROVE  HotInv'
<1>1. CASE \E d \in Devices : DeviceChanges(d)
    <2>1. PICK d \in Devices : DeviceChanges(d)
        BY <1>1
    <2>2. Shapes'
        BY <2>1 DEF HotInv, Shapes, DeviceChanges, listVars, sessionVars
    <2> QED  BY <2>1, <2>2, QuietKeeps DEF DeviceChanges, listVars
<1>2. CASE DrainUevents
    <2>1. Shapes'
        BY <1>2 DEF HotInv, Shapes, DrainUevents, listVars, sessionVars
    <2> QED  BY <1>2, <2>1, QuietKeeps DEF DrainUevents, listVars
<1>3. CASE SocketError
    <2>1. Shapes'
        BY <1>3 DEF HotInv, Shapes, SocketError, listVars, sessionVars
    <2> QED  BY <1>3, <2>1, QuietKeeps DEF SocketError, listVars
<1> QED  BY <1>1, <1>2, <1>3

\* The dispatch thread sleeps, wakes, enumerates and lets go of the context.
LEMMA ThreadKeeps ==
    ASSUME HotInv, ThreadWakes \/ TakePending \/ Enumerate \/ Release
    PROVE  HotInv'
<1>1. CASE ThreadWakes
    <2>1. Shapes'
        BY <1>1 DEF HotInv, Shapes, ThreadWakes, listVars, sessionVars, sysVars
    <2>2. thread'.todo = thread.todo /\ thread'.step \in {"exited", "settle"}
        BY <1>1 DEF HotInv, Shapes, ThreadWakes
    <2> QED  BY <1>1, <2>1, <2>2, QuietKeeps DEF ThreadWakes, listVars
<1>2. CASE TakePending
    <2>1. Shapes'
        BY <1>2 DEF HotInv, Shapes, TakePending, listVars, sessionVars, sysVars
    <2>2. thread'.todo = thread.todo /\ thread'.step \in {"exited", "enumerate"}
        BY <1>2 DEF HotInv, Shapes, TakePending
    <2> QED  BY <1>2, <2>1, <2>2, QuietKeeps DEF TakePending, listVars
<1>3. CASE Enumerate
    <2>1. Shapes'
        BY <1>3 DEF HotInv, Shapes, Enumerate, listVars, sessionVars, sysVars
    <2>2. thread'.todo = thread.todo /\ thread'.step \in {"lock", "release"}
        BY <1>3 DEF HotInv, Shapes, Enumerate
    <2> QED  BY <1>3, <2>1, <2>2, QuietKeeps DEF Enumerate, listVars
<1>4. CASE Release
    <2>1. Shapes'
        BY <1>4 DEF HotInv, Shapes, Release, listVars, sysVars
    <2>2. thread'.todo = thread.todo /\ thread'.step \in {"exited", "wait"}
        BY <1>4 DEF HotInv, Shapes, Release
    <2> QED  BY <1>4, <2>1, <2>2, QuietKeeps DEF Release, listVars
<1> QED  BY <1>1, <1>2, <1>3, <1>4

\* The session ends.
LEMMA EndKeeps ==
    ASSUME HotInv, DropContext \/ JoinReturns
    PROVE  HotInv'
<1>1. CASE DropContext
    <2>1. Shapes'
        BY <1>1 DEF HotInv, Shapes, DropContext, ThreadOwns, listVars, sysVars
    <2> QED  BY <1>1, <2>1, QuietKeeps DEF DropContext, listVars
<1>2. CASE JoinReturns
    <2>1. Shapes'
        BY <1>2 DEF HotInv, Shapes, JoinReturns, listVars, sysVars
    <2> QED  BY <1>2, <2>1, QuietKeeps DEF JoinReturns, listVars
<1> QED  BY <1>1, <1>2

\* add() takes `dispatch`: nothing is due, and the listener is a new one.
LEMMA AddStartKeeps ==
    ASSUME HotInv, NEW l \in Listeners, AddStart(l)
    PROVE  HotInv'
<1> USE DEF AddStart, NoAdd, listVars, sessionVars
<1>1. /\ adder' \in [step : {"push", "enumerate"}, l : {l}, seed : {{}}]
      /\ adder'.step = "push" <=> started
      /\ adder.step = "none" /\ adder.l = NoListener /\ adder.seed = {}
    BY DEF HotInv, Shapes
<1>2. Shapes'
    BY <1>1 DEF HotInv, Shapes
<1>3. Locked' /\ Starting'
    BY <1>1 DEF HotInv, Locked, Starting
<1>4. Registered' /\ Seeding'
    BY <1>1 DEF HotInv, Registered, Seeding
<1>5. Calling'
    BY DEF HotInv, Calling
<1>6. ToldIsKnown' /\ ArrivalFirst'
    BY <1>1 DEF HotInv, ToldIsKnown, ArrivalFirst, Due
<1> QED  BY <1>2, <1>3, <1>4, <1>5, <1>6 DEF HotInv

\* The first add() replaces `known` while nobody listens, whether or not it
\* can spawn the dispatch thread.
LEMMA AddFirstKeeps ==
    ASSUME HotInv, AddFails \/ AddEnumerate
    PROVE  HotInv'
<1>1. /\ listed = {} /\ ~started /\ thread.todo = {} /\ adder.seed = {}
      /\ adder.step = "enumerate" /\ adder.l \in Listeners
    BY DEF HotInv, Locked, Starting, Shapes, AddFails, AddEnumerate
<1>2. /\ known' \subseteq Devices /\ listed' = listed /\ thread'.todo = {}
      /\ UNCHANGED <<told, reg, base>>
    BY <1>1 DEF HotInv, Shapes, AddFails, AddEnumerate
<1>3. CASE AddFails
    <2>1. adder' \in [step : {"none"}, l : {NoListener}, seed : {{}}]
        BY <1>3 DEF AddFails, NoAdd
    <2>2. Shapes'
        BY <1>2, <1>3, <2>1 DEF HotInv, Shapes, AddFails, sysVars, sessionVars
    <2>3. Locked' /\ Starting'
        BY <1>1, <1>3, <2>1 DEF HotInv, Locked, Starting, AddFails
    <2>4. Registered' /\ Seeding' /\ Calling'
        BY <1>1, <1>2, <2>1 DEF HotInv, Registered, Seeding, Calling
    <2>5. ToldIsKnown' /\ ArrivalFirst'
        BY <1>1, <1>2 DEF HotInv, ToldIsKnown, ArrivalFirst
    <2> QED  BY <2>2, <2>3, <2>4, <2>5 DEF HotInv
<1>4. CASE AddEnumerate
    <2>1. /\ adder' \in [step : {"push"}, l : {adder.l}, seed : {{}}]
          /\ thread'.step = "wait" /\ thread'.seen = thread.seen
          /\ thread' \in [step : {"wait"}, seen : SUBSET Devices, todo : {{}}]
        BY <1>1, <1>4 DEF HotInv, Shapes, AddEnumerate
    <2>2. Shapes'
        BY <1>1, <1>2, <1>4, <2>1 DEF HotInv, Shapes, AddEnumerate, sysVars, sessionVars
    <2>3. Locked' /\ Starting'
        BY <1>1, <1>4, <2>1 DEF HotInv, Locked, Starting, AddEnumerate
    <2>4. Registered' /\ Seeding' /\ Calling'
        BY <1>1, <1>2, <2>1 DEF HotInv, Registered, Seeding, Calling
    <2>5. ToldIsKnown' /\ ArrivalFirst'
        BY <1>1, <1>2 DEF HotInv, ToldIsKnown, ArrivalFirst
    <2> QED  BY <2>2, <2>3, <2>4, <2>5 DEF HotInv
<1> QED  BY <1>3, <1>4

\* The listener joins the list with nothing told yet: its batch is what is known.
LEMMA AddPushKeeps ==
    ASSUME HotInv, AddPush
    PROVE  HotInv'
<1> USE DEF AddPush, sysVars, sessionVars
<1> DEFINE l == adder.l
           batch == IF l \in Existing THEN known \cap Wants[l] ELSE {}
<1>1. /\ l \in Listeners /\ l # NoListener /\ l \notin listed /\ reg[l] = "new"
      /\ adder.step = "push" /\ dispatch = "add" /\ thread.todo = {} /\ started
      /\ \A d \in Devices : told[l][d] = 0
    BY DEF HotInv, Shapes, Locked, Starting, Registered
<1>2. /\ adder' \in [step : {"seed"}, l : {l}, seed : {batch}]
      /\ batch \subseteq Devices
    BY DEF HotInv, Shapes
<1>3. /\ base' \in [Listeners -> SUBSET Devices]
      /\ base'[l] = IF l \in Existing THEN {} ELSE known
      /\ \A m \in Listeners : m # l => base'[m] = base[m]
    BY <1>1 DEF HotInv, Shapes
<1> HIDE DEF l, batch
<1>4. Shapes'
    BY <1>1, <1>2, <1>3 DEF HotInv, Shapes, l
<1>5. Locked' /\ Starting'
    BY <1>1, <1>2 DEF HotInv, Locked, Starting
<1>6. Registered'
    BY <1>1, <1>2, <1>3 DEF HotInv, Registered, l
<1>7. Seeding' /\ Calling'
    BY <1>1, <1>2 DEF HotInv, Seeding, Calling, batch
<1>8. ToldIsKnown'
    <2> SUFFICES ASSUME NEW m \in listed', NEW d \in Wants[m]
                 PROVE  told'[m][d] + Due(m, d)' = One(d \in known') - One(d \in base'[m])
        BY DEF ToldIsKnown
    <2>1. d \in Devices /\ m \in Listeners
        BY <1>4 DEF Shapes
    <2>2. CASE m = l
        BY <1>1, <1>2, <1>3, <2>1, <2>2 DEF Due, One, batch
    <2>3. CASE m # l
        <3>1. m \in listed /\ Due(m, d) = 0 /\ Due(m, d)' = 0
            BY <1>1, <1>2, <2>3 DEF Due, One, l
        <3> QED  BY <1>3, <2>1, <2>3, <3>1 DEF HotInv, ToldIsKnown
    <2> QED  BY <2>2, <2>3
<1>9. ArrivalFirst'
    BY DEF HotInv, ArrivalFirst
<1> QED  BY <1>4, <1>5, <1>6, <1>7, <1>8, <1>9 DEF HotInv

\* One device of the initial batch, which was due and is told now.
LEMMA AddSeedKeeps ==
    ASSUME HotInv, NEW d \in Devices, AddSeed(d)
    PROVE  HotInv'
<1> USE DEF AddSeed, listVars, sysVars, sessionVars
<1> DEFINE l == adder.l
<1>1. /\ l \in Existing /\ l \in Listeners /\ l \in listed /\ d \in known /\ reg[l] = "new"
      /\ thread.todo = {} /\ dispatch = "add" /\ adder.step = "seed" /\ d \in adder.seed
      /\ told[l][d] = 0
    BY DEF HotInv, Shapes, Locked, Registered, Seeding
<1>2. /\ adder' \in [step : {"seed"}, l : {l}, seed : {adder.seed \ {d}}]
      /\ adder.seed \subseteq Devices
    BY <1>1 DEF HotInv, Shapes
<1>3. /\ told' \in [Listeners -> [Devices -> -1..1]] /\ told'[l][d] = 1
      /\ \A m \in Listeners, c \in Devices : m # l \/ c # d => told'[m][c] = told[m][c]
    BY <1>1 DEF HotInv, Shapes
<1> HIDE DEF l
<1>4. Shapes'
    BY <1>1, <1>2, <1>3 DEF HotInv, Shapes
<1>5. Locked' /\ Starting'
    BY <1>1, <1>2 DEF HotInv, Locked, Starting, l
<1>6. Registered'
    BY <1>1, <1>2, <1>3 DEF HotInv, Registered, l
<1>7. Seeding'
    BY <1>1, <1>2, <1>3 DEF HotInv, Seeding, l
<1>8. Calling'
    BY <1>1 DEF Calling
<1>9. ToldIsKnown'
    <2> SUFFICES ASSUME NEW m \in listed, NEW c \in Wants[m]
                 PROVE  told'[m][c] + Due(m, c)' = One(c \in known) - One(c \in base[m])
        BY DEF ToldIsKnown
    <2>1. c \in Devices /\ m \in Listeners
        BY DEF HotInv, Shapes
    <2>2. told[m][c] + Due(m, c) = One(c \in known) - One(c \in base[m])
        BY DEF HotInv, ToldIsKnown
    <2>3. told[m][c] \in Int
        BY <2>1 DEF HotInv, Shapes
    <2>4. CASE m = l /\ c = d
        BY <1>1, <1>2, <1>3, <2>2, <2>4 DEF Due, One, l
    <2>5. CASE ~(m = l /\ c = d)
        <3>1. Due(m, c)' = Due(m, c)
            BY <1>1, <1>2, <2>5 DEF Due, One, l
        <3> QED  BY <1>3, <2>1, <2>2, <2>5, <3>1
    <2> QED  BY <2>4, <2>5
<1>10. ArrivalFirst'
    BY <1>1, <1>3 DEF HotInv, ArrivalFirst
<1> QED  BY <1>4, <1>5, <1>6, <1>7, <1>8, <1>9, <1>10 DEF HotInv

\* The registration is handed back when its batch has been delivered.
LEMMA AddDoneKeeps ==
    ASSUME HotInv, AddDone
    PROVE  HotInv'
<1> USE DEF AddDone, NoAdd, sysVars, sessionVars
<1>1. /\ adder.l \in Listeners /\ adder.l \in listed /\ adder.seed = {}
      /\ thread.todo = {} /\ dispatch = "add"
    BY DEF HotInv, Shapes, Locked, Registered
<1>2. adder' \in [step : {"none"}, l : {NoListener}, seed : {{}}]
    OBVIOUS
<1>3. /\ reg' \in [Listeners -> {"new", "live", "dropped"}] /\ reg'[adder.l] = "live"
      /\ \A m \in Listeners : m # adder.l => reg'[m] = reg[m]
    BY <1>1 DEF HotInv, Shapes
<1>4. Shapes'
    BY <1>2, <1>3 DEF HotInv, Shapes
<1>5. Locked' /\ Starting'
    BY <1>1, <1>2 DEF HotInv, Locked, Starting
<1>6. Registered'
    BY <1>1, <1>2, <1>3 DEF HotInv, Registered
<1>7. Seeding' /\ Calling'
    BY <1>1, <1>2 DEF Seeding, Calling
<1>8. ToldIsKnown' /\ ArrivalFirst'
    BY <1>1, <1>2 DEF HotInv, ToldIsKnown, ArrivalFirst, Due
<1> QED  BY <1>4, <1>5, <1>6, <1>7, <1>8 DEF HotInv

\* A registration may be dropped at any time, also during a scan that has
\* copied it; what it was told stays within bounds.
LEMMA DropRegistrationKeeps ==
    ASSUME HotInv, NEW l \in Listeners, DropRegistration(l)
    PROVE  HotInv'
<1> USE DEF DropRegistration, sysVars, sessionVars
<1>1. l # adder.l
    BY DEF HotInv, Registered
<1>2. /\ reg' \in [Listeners -> {"new", "live", "dropped"}] /\ reg'[l] = "dropped"
      /\ \A m \in Listeners : m # l => reg'[m] = reg[m]
    BY DEF HotInv, Shapes
<1>3. Shapes'
    BY <1>2 DEF HotInv, Shapes
<1>4. Locked' /\ Starting' /\ Seeding'
    BY DEF HotInv, Locked, Starting, Seeding
<1>5. Registered'
    BY <1>1, <1>2 DEF HotInv, Registered
<1>6. Calling'
    <2>1. \A e \in thread.todo : e.to \in Listeners
        BY DEF HotInv, Shapes, Event
    <2> QED  BY <1>2, <2>1 DEF HotInv, Calling
<1>7. ToldIsKnown' /\ ArrivalFirst'
    BY DEF HotInv, ToldIsKnown, ArrivalFirst, Due
<1> QED  BY <1>3, <1>4, <1>5, <1>6, <1>7 DEF HotInv

\* rescan() replaces `known`; with the lock taken no call was due, so that every
\* listener has been told exactly what was known before.
LEMMA CompareKeeps ==
    ASSUME HotInv, Compare
    PROVE  HotInv'
<1> USE DEF Compare, sysVars, sessionVars
<1>1. /\ adder.step = "none" /\ adder.l = NoListener /\ adder.seed = {}
      /\ thread.todo = {} /\ thread.seen \subseteq Devices /\ dispatch' = "thread"
    BY DEF HotInv, Shapes, Locked
<1>2. /\ thread'.step = "call" /\ thread'.todo = Calls(known, thread.seen)
      /\ thread' \in [step : {"call"}, seen : SUBSET Devices, todo : SUBSET Event]
    BY <1>1 DEF HotInv, Shapes, Calls
<1>3. Shapes'
    BY <1>1, <1>2 DEF HotInv, Shapes
<1>4. Locked' /\ Starting'
    BY <1>1, <1>2 DEF HotInv, Locked, Starting
<1>5. Registered' /\ Seeding'
    BY <1>1 DEF HotInv, Registered, Seeding
<1>6. \A l \in listed : /\ l \in Listeners /\ reg[l] = "live"
                        /\ \A d \in Wants[l] : told[l][d] = One(d \in known) - One(d \in base[l])
    <2> SUFFICES ASSUME NEW l \in listed
                 PROVE  /\ l \in Listeners /\ reg[l] = "live"
                        /\ \A d \in Wants[l] : told[l][d] = One(d \in known) - One(d \in base[l])
        OBVIOUS
    <2>1. l \in Listeners
        BY DEF HotInv, Shapes
    <2>2. \A d \in Wants[l] : Due(l, d) = 0 /\ told[l][d] \in Int
        BY <1>1, <2>1 DEF HotInv, Shapes, Due, One
    <2> QED  BY <1>1, <2>1, <2>2 DEF HotInv, Registered, ToldIsKnown
<1>7. Calling'
    <2> SUFFICES ASSUME NEW e \in thread'.todo
                 PROVE  /\ reg[e.to] # "new" /\ e.dev \in Wants[e.to]
                        /\ e.kind = "Arrived" <=> e.dev \in thread.seen
                        /\ told[e.to][e.dev] = One(e.kind = "Left") - One(e.dev \in base[e.to])
        BY DEF Calling
    <2>1. /\ e.to \in listed /\ e.dev \in Wants[e.to]
          /\ \/ e.kind = "Arrived" /\ e.dev \in thread.seen /\ e.dev \notin known
             \/ e.kind = "Left" /\ e.dev \notin thread.seen /\ e.dev \in known
        BY <1>2 DEF Calls, Event
    <2>2. One(e.dev \in known) = One(e.kind = "Left")
        BY <2>1 DEF One
    <2> QED  BY <1>6, <2>1, <2>2
<1>8. ToldIsKnown'
    <2> SUFFICES ASSUME NEW l \in listed, NEW d \in Wants[l]
                 PROVE  told[l][d] + Due(l, d)' = One(d \in thread.seen) - One(d \in base[l])
        BY DEF ToldIsKnown
    <2>1. l \in Listeners /\ d \in Devices
        BY <1>6
    <2>2. /\ [kind |-> "Arrived", dev |-> d, to |-> l] \in thread'.todo
                <=> d \in thread.seen \ known
          /\ [kind |-> "Left", dev |-> d, to |-> l] \in thread'.todo
                <=> d \in known \ thread.seen
        BY <1>2, <2>1 DEF Calls, Event
    <2> QED  BY <1>1, <1>6, <2>2 DEF Due, One
<1>9. ArrivalFirst'
    BY DEF HotInv, ArrivalFirst
<1> QED  BY <1>3, <1>4, <1>5, <1>7, <1>8, <1>9 DEF HotInv

\* One callback of rescan(), which was due and is made now.
LEMMA CallKeeps ==
    ASSUME HotInv, NEW e \in thread.todo, Call(e)
    PROVE  HotInv'
<1> USE DEF Call, listVars, sysVars, sessionVars
<1> DEFINE was == One(e.kind = "Left") - One(e.dev \in base[e.to])
           is == One(e.kind = "Arrived") - One(e.dev \in base[e.to])
<1>1. /\ e \in Event /\ e.to \in Listeners /\ e.dev \in Devices
      /\ reg[e.to] # "new" /\ adder.seed = {} /\ adder.l = NoListener /\ adder.step = "none"
      /\ e.kind = "Arrived" <=> e.dev \in known
    BY DEF HotInv, Shapes, Event, Calling, Locked
<1>2. told[e.to][e.dev] = was
    BY DEF HotInv, Calling
<1>3. /\ thread' \in [step : {"call"}, seen : SUBSET Devices, todo : SUBSET Event]
      /\ thread'.todo = thread.todo \ {e}
    BY DEF HotInv, Shapes
<1>4. is \in -1..1 /\ was \in Int /\ (IF e.kind = "Arrived" THEN was + 1 ELSE was - 1) = is
    BY <1>1 DEF One, Event
<1> HIDE DEF was, is
<1>5. /\ told' \in [Listeners -> [Devices -> -1..1]] /\ told'[e.to][e.dev] = is
      /\ \A m \in Listeners, c \in Devices :
            m # e.to \/ c # e.dev => told'[m][c] = told[m][c]
    BY <1>1, <1>2, <1>4 DEF HotInv, Shapes
<1>6. Shapes'
    BY <1>3, <1>5 DEF HotInv, Shapes
<1>7. Locked' /\ Starting' /\ Seeding'
    BY <1>1, <1>3 DEF HotInv, Locked, Starting, Seeding
<1>8. Registered'
    BY <1>1, <1>5 DEF HotInv, Registered
<1>9. \A f \in thread'.todo : f \in Event /\ f \in thread.todo /\ (f.to # e.to \/ f.dev # e.dev)
    <2> SUFFICES ASSUME NEW f \in thread.todo, f # e, f.to = e.to, f.dev = e.dev
                 PROVE  FALSE
        BY <1>3 DEF Event
    <2>1. f \in Event /\ f.kind = e.kind
        BY <1>1 DEF HotInv, Shapes, Calling, Event
    <2> QED  BY <1>1, <2>1 DEF Event
<1>10. Calling'
    BY <1>5, <1>9 DEF HotInv, Calling, Event
<1>11. ToldIsKnown'
    <2> SUFFICES ASSUME NEW m \in listed, NEW c \in Wants[m]
                 PROVE  told'[m][c] + Due(m, c)' = One(c \in known) - One(c \in base[m])
        BY DEF ToldIsKnown
    <2>1. c \in Devices /\ m \in Listeners
        BY DEF HotInv, Shapes
    <2>2. told[m][c] + Due(m, c) = One(c \in known) - One(c \in base[m])
        BY DEF HotInv, ToldIsKnown
    <2>3. CASE m = e.to /\ c = e.dev
        <3>1. /\ [kind |-> "Arrived", dev |-> c, to |-> m] \notin thread'.todo
              /\ [kind |-> "Left", dev |-> c, to |-> m] \notin thread'.todo
            BY <1>9, <2>3
        <3> QED  BY <1>1, <1>5, <2>3, <3>1 DEF Due, One, is
    <2>4. CASE ~(m = e.to /\ c = e.dev)
        <3>1. \A k \in {"Arrived", "Left"} :
                [kind |-> k, dev |-> c, to |-> m] \in thread'.todo
                    <=> [kind |-> k, dev |-> c, to |-> m] \in thread.todo
            BY <1>3, <2>4
        <3>2. Due(m, c)' = Due(m, c)
            BY <3>1 DEF Due
        <3> QED  BY <1>5, <2>1, <2>2, <2>4, <3>2
    <2> QED  BY <2>3, <2>4
<1>12. ArrivalFirst'
    <2> SUFFICES ASSUME NEW m \in Existing, NEW c \in Devices
                 PROVE  told'[m][c] \in {0, 1}
        BY DEF ArrivalFirst
    <2>1. CASE m = e.to /\ c = e.dev
        BY <1>1, <1>5, <2>1 DEF HotInv, Registered, One, is
    <2>2. CASE ~(m = e.to /\ c = e.dev)
        BY <1>5, <2>2 DEF HotInv, ArrivalFirst
    <2> QED  BY <2>1, <2>2
<1> QED  BY <1>6, <1>7, <1>8, <1>10, <1>11, <1>12 DEF HotInv

\* rescan() returns with nothing left to call.
LEMMA CallsDoneKeeps ==
    ASSUME HotInv, CallsDone
    PROVE  HotInv'
<1> USE DEF CallsDone, listVars, sysVars, sessionVars
<1>1. /\ thread' \in [step : {"release"}, seen : {{}}, todo : {{}}]
      /\ thread.todo = {} /\ adder.step = "none"
    BY DEF HotInv, Shapes, Locked
<1>2. Shapes'
    BY <1>1 DEF HotInv, Shapes
<1>3. Locked' /\ Starting'
    BY <1>1 DEF HotInv, Locked, Starting
<1>4. Registered' /\ Seeding' /\ Calling'
    BY <1>1 DEF HotInv, Registered, Seeding, Calling
<1>5. ToldIsKnown' /\ ArrivalFirst'
    BY <1>1 DEF HotInv, ToldIsKnown, ArrivalFirst, Due
<1> QED  BY <1>2, <1>3, <1>4, <1>5 DEF HotInv

\* Every step keeps the invariant.
THEOREM NextHotInv == HotInv /\ [Next]_vars => HotInv'
<1> SUFFICES ASSUME HotInv, [Next]_vars PROVE HotInv'
    OBVIOUS
<1>1. CASE (\E d \in Devices : DeviceChanges(d)) \/ DrainUevents \/ SocketError
    BY <1>1, SystemKeeps
<1>2. CASE AddStep
    BY <1>2, AddFirstKeeps, AddPushKeeps, AddSeedKeeps, AddDoneKeeps DEF AddStep
<1>3. CASE ThreadStep
    BY <1>3, ThreadKeeps, CompareKeeps, CallKeeps, CallsDoneKeeps DEF ThreadStep
<1>4. CASE \E l \in Listeners : AddStart(l) \/ DropRegistration(l)
    BY <1>4, AddStartKeeps, DropRegistrationKeeps
<1>5. CASE DropContext \/ JoinReturns
    BY <1>5, EndKeeps
<1>6. CASE UNCHANGED vars
    <2>1. Shapes'
        BY <1>6 DEF vars, HotInv, Shapes
    <2> QED  BY <1>6, <2>1, QuietKeeps DEF vars
<1> QED  BY <1>1, <1>2, <1>3, <1>4, <1>5, <1>6 DEF Next

\* The registry's bookkeeping, at all times.
THEOREM HotInvariant == Spec => []HotInv
BY InitHotInv, NextHotInv, PTL DEF Spec

\* No event is lost or repeated between rescan() or add() and a listener,
\* whatever devices, listeners and filters there are.
THEOREM NoEventLost == Spec => []ToldIsKnown
<1>1. HotInv => ToldIsKnown
    BY DEF HotInv
<1> QED  BY <1>1, HotInvariant, PTL

\* A listener that asked for the existing devices sees arrivals and departures
\* of each device in turn, an arrival first.
THEOREM ArrivalComesFirst == Spec => []ArrivalFirst
<1>1. HotInv => ArrivalFirst
    BY DEF HotInv
<1> QED  BY <1>1, HotInvariant, PTL
=============================================================================
