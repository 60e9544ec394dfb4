----------------------------- MODULE ClassProofs ----------------------------
(***************************************************************************)
(* Proofs about the protocols of the class drivers, as MCClasses puts them *)
(* side by side: the bulk-only transport of mass storage (MassStorage),    *)
(* the control channel of network devices (NetControl), and the serial     *)
(* port, its device and its bytes (Serial).                                *)
(***************************************************************************)
EXTENDS MCClasses, FiniteSetTheorems, SequenceTheorems, TLAPS

(* Mass storage *)

Data == {"none", "in", "out"}

\* While a call is at one of these steps it holds the lock of the MassStorage.
Held == Msc!Bulk \cup {"ask", "judge"}

MscCall ==
    [pc : Held \cup {"idle", "reset", "clear"}, op : {"none", "execute", "command", "reset"},
     data : Data, tag : Nat, failed : Nat, attempts : Nat, got : Nat, sense : Nat,
     ret : {"none", "passed", "failed", "error"}]

MscDevice ==
    [stage : {"cbw", "in", "out", "csw", "stuck"}, tag : Nat, cbw : {None} \cup (Nat \X Data),
     halts : SUBSET {"in", "out"}, ran : SUBSET Nat, sense : Nat]

MscShape ==
    /\ mCall \in [Callers -> MscCall] /\ mDev \in MscDevice
    /\ nextTag \in Nat /\ nextTag # 0

\* What is known of a call c: data it was given is its own, or the status that
\* follows will be refused; the sense data the device keeps until REQUEST SENSE
\* has read it, and what that read, are those of the command that failed.
CallOwn(c) ==
    /\ c.pc \in Held => c.tag # 0
    /\ c.ret = "passed" => c.pc = "idle" /\ c.tag \in mDev.ran /\ c.got \in {0, c.tag}
    /\ c.pc \in {"cbw", "data"} => c.got = 0
    /\ c.pc \in {"csw", "csw2"} => c.got \in {0, c.tag} \/ mDev.tag # c.tag
    /\ c.pc = "ask" => mDev.sense \in {0, c.tag}
    /\ c.pc \in {"cbw", "data"} /\ c.failed # 0 => mDev.sense \in {0, c.failed}
    /\ c.pc \in Msc!Bulk \cup {"judge"} /\ c.failed # 0 => c.sense \in {0, c.failed}
    /\ c.pc = "judge" => c.failed # 0

MscInv ==
    /\ MscShape
    /\ \A t \in Callers : CallOwn(mCall[t]) /\ (mCall[t].pc \in Held => mutex = t)

-----------------------------------------------------------------------------

\* The device takes a command block: neither sense data nor what ran changes.
LEMMA TakesCbwIs ==
    ASSUME NEW d \in MscDevice, NEW k \in Nat, NEW data \in Data, NEW e, e = Msc!TakesCbw(d, k, data)
    PROVE  e \in MscDevice /\ e.ran = d.ran /\ e.sense = d.sense
<1>1. CASE d.stage = "cbw"
    BY <1>1 DEF Msc!TakesCbw, Msc!Begins, MscDevice, Data
<1>2. CASE d.stage = "out"
    BY <1>2 DEF Msc!TakesCbw, MscDevice
<1>3. CASE d.stage \notin {"cbw", "out"}
    BY <1>3 DEF Msc!TakesCbw, MscDevice
<1> QED  BY <1>1, <1>2, <1>3

\* Something is read from the IN endpoint: data, or a status with its effects.
LEMMA TakesInIs ==
    ASSUME NEW d \in MscDevice, NEW v, NEW e, e = Msc!TakesIn(d, v)
    PROVE  /\ e \in MscDevice /\ d.ran \subseteq e.ran
           /\ d.stage = "in" => e.tag = d.tag /\ e.sense = d.sense
           /\ d.stage # "in" => IF v = "pass" THEN d.tag \in e.ran ELSE e.sense = d.tag
<1>1. CASE d.stage = "in"
    BY <1>1 DEF Msc!TakesIn, MscDevice
<1>2. CASE d.stage # "in"
    <2>1. PICK b : b = IF d.cbw = None THEN [d EXCEPT !.stage = "cbw"] ELSE Msc!Begins(d, d.cbw[1], d.cbw[2])
        OBVIOUS
    <2>2. b \in MscDevice /\ b.ran = d.ran
        <3>1. CASE d.cbw = None
            BY <2>1, <3>1 DEF MscDevice
        <3>2. CASE d.cbw # None
            <4>1. d.cbw[1] \in Nat /\ d.cbw[2] \in Data
                BY <3>2 DEF MscDevice
            <4> QED  BY <2>1, <3>2, <4>1 DEF Msc!Begins, MscDevice, Data
        <3> QED  BY <3>1, <3>2
    <2>3. e = IF v = "pass" THEN [b EXCEPT !.ran = b.ran \cup {d.tag}] ELSE [b EXCEPT !.sense = d.tag]
        BY <1>2, <2>1 DEF Msc!TakesIn
    <2>4. d.tag \in Nat
        BY DEF MscDevice
    <2>5. CASE v = "pass"
        BY <1>2, <2>2, <2>3, <2>4, <2>5 DEF MscDevice
    <2>6. CASE v # "pass"
        BY <1>2, <2>2, <2>3, <2>4, <2>6 DEF MscDevice
    <2> QED  BY <2>5, <2>6
<1> QED  BY <1>1, <1>2

\* Data that is sent, a stall and a cleared halt change neither the command at
\* hand, nor its sense data, nor what ran.
LEMMA DeviceKeeps ==
    ASSUME NEW d \in MscDevice, NEW e,
           \/ e = Msc!TakesOut(d) \/ \E ep \in {"in", "out"} : e = Msc!ClearHalt(d, ep)
           \/ \E ep \in {"in", "out"} : e = [d EXCEPT !.stage = "csw", !.halts = @ \cup {ep}]
    PROVE  e \in MscDevice /\ e.ran = d.ran /\ e.sense = d.sense /\ e.tag = d.tag
<1>1. CASE e = Msc!TakesOut(d)
    BY <1>1 DEF Msc!TakesOut, MscDevice
<1>2. ASSUME NEW ep \in {"in", "out"}, e = Msc!ClearHalt(d, ep)
      PROVE  e \in MscDevice /\ e.ran = d.ran /\ e.sense = d.sense /\ e.tag = d.tag
    <2>1. PICK s : s = d.halts \ {ep}
        OBVIOUS
    <2>2. s \in SUBSET {"in", "out"}
        BY <2>1 DEF MscDevice
    <2>3. e = d \/ e = [d EXCEPT !.halts = s]
        BY <1>2, <2>1 DEF Msc!ClearHalt
    <2> QED  BY <2>2, <2>3 DEF MscDevice
<1>3. ASSUME NEW ep \in {"in", "out"}, e = [d EXCEPT !.stage = "csw", !.halts = @ \cup {ep}]
      PROVE  e \in MscDevice /\ e.ran = d.ran /\ e.sense = d.sense /\ e.tag = d.tag
    <2>1. PICK s : s = d.halts \cup {ep}
        OBVIOUS
    <2>2. s \in SUBSET {"in", "out"}
        BY <2>1 DEF MscDevice
    <2>3. e = [d EXCEPT !.stage = "csw", !.halts = s]
        BY <1>3, <2>1
    <2> QED  BY <2>2, <2>3 DEF MscDevice
<1> QED  BY <1>1, <1>2, <1>3

\* A step of one call.  If it changes what the device is at, other than by a
\* reset, the call holds the lock.
LEMMA StepKeepsMsc ==
    ASSUME MscInv, NEW t \in Callers, NEW c \in MscCall, mCall' = [mCall EXCEPT ![t] = c],
           mDev' \in MscDevice, mDev.ran \subseteq mDev'.ran,
           nextTag' \in Nat, nextTag' # 0, CallOwn(c)', c.pc \in Held => mutex' = t,
           \A o \in Callers \ {t} : mutex = o => mutex' = o,
           \/ mDev'.tag \in {0, mDev.tag} /\ mDev'.sense \in {0, mDev.sense}
           \/ mutex = t
    PROVE  MscInv'
<1>1. mCall \in [Callers -> MscCall]
    BY DEF MscInv, MscShape
<1>2. mCall' \in [Callers -> MscCall] /\ mCall'[t] = c /\ \A o \in Callers \ {t} : mCall'[o] = mCall[o]
    BY <1>1
<1>3. MscShape'
    BY <1>2 DEF MscShape
<1>4. ASSUME NEW o \in Callers, o # t PROVE CallOwn(mCall[o])' /\ (mCall'[o].pc \in Held => mutex' = o)
    <2>1. PICK d : d = mCall[o]
        OBVIOUS
    <2>2. CallOwn(d) /\ (d.pc \in Held => mutex = o)
        BY <2>1 DEF MscInv
    <2>3. CallOwn(d)'
        <3>1. CASE d.pc \in Held
            <4>1. mDev'.tag \in {0, mDev.tag} /\ mDev'.sense \in {0, mDev.sense}
                BY <1>4, <2>2, <3>1
            <4> QED  BY <2>2, <3>1, <4>1 DEF CallOwn
        <3>2. CASE d.pc \notin Held
            BY <2>2, <3>2 DEF CallOwn, Held, Msc!Bulk
        <3> QED  BY <3>1, <3>2
    <2>4. mCall'[o] = d
        BY <1>2, <1>4, <2>1
    <2> QED  BY <1>4, <2>2, <2>3, <2>4 DEF CallOwn
<1>5. CallOwn(mCall[t])' /\ (mCall'[t].pc \in Held => mutex' = t)
    BY <1>2 DEF CallOwn
<1> QED  BY <1>3, <1>4, <1>5 DEF MscInv

\* The device moves by itself, or nothing does.
LEMMA DeviceMoveKeepsMsc ==
    ASSUME MscInv, UNCHANGED <<mutex, nextTag, mCall>>, mDev' \in MscDevice,
           mDev'.ran = mDev.ran, mDev'.sense = mDev.sense, mDev'.tag = mDev.tag
    PROVE  MscInv'
<1>1. MscShape'
    BY DEF MscInv, MscShape
<1>2. ASSUME NEW t \in Callers PROVE CallOwn(mCall[t])' /\ (mCall'[t].pc \in Held => mutex' = t)
    <2>1. PICK c : c = mCall[t]
        OBVIOUS
    <2>2. CallOwn(c)' /\ (c.pc \in Held => mutex' = t)
        BY <2>1 DEF MscInv, CallOwn
    <2> QED  BY <2>1, <2>2 DEF CallOwn
<1> QED  BY <1>1, <1>2 DEF MscInv

\* What the invariant says of the call that makes a step.
LEMMA MscCallIs ==
    ASSUME MscInv, NEW t \in Callers
    PROVE  /\ mCall[t] \in MscCall /\ CallOwn(mCall[t]) /\ (mCall[t].pc \in Held => mutex = t)
           /\ mDev \in MscDevice /\ nextTag \in Nat /\ nextTag # 0 /\ nextTag + 1 \in Nat
           /\ nextTag + 1 # 0
BY DEF MscInv, MscShape

\* A call begins, with the lock or, for a reset by hand, without.
LEMMA StartKeepsMsc ==
    ASSUME MscInv, NEW t \in Callers,
           \/ Msc!ResetByHand(t)
           \/ \E op \in {"execute", "command"}, data \in Data : Msc!Start(t, op, data)
    PROVE  MscInv'
<1>1. CASE Msc!ResetByHand(t)
    <2>1. PICK c : c = [Msc!NoCall EXCEPT !.pc = "reset", !.op = "reset"]
        OBVIOUS
    <2>2. mCall' = [mCall EXCEPT ![t] = c] /\ UNCHANGED <<mutex, nextTag, mDev>>
        BY <1>1, <2>1 DEF Msc!ResetByHand, Msc!Set
    <2>3. c \in MscCall /\ c.pc \notin Held /\ c.ret = "none" /\ c.pc = "reset"
        BY <2>1 DEF Msc!NoCall, MscCall, Held, Msc!Bulk, Data
    <2>4. CallOwn(c)'
        BY <2>3 DEF CallOwn, Held, Msc!Bulk
    <2> QED  BY <2>2, <2>3, <2>4, MscCallIs, StepKeepsMsc
<1>2. ASSUME NEW op \in {"execute", "command"}, NEW data \in Data, Msc!Start(t, op, data)
      PROVE  MscInv'
    <2>1. PICK k : k = nextTag
        OBVIOUS
    <2>2. PICK c : c = [Msc!NoCall EXCEPT !.pc = "cbw", !.op = op, !.data = data, !.tag = k]
        OBVIOUS
    <2>3. /\ mCall' = [mCall EXCEPT ![t] = c] /\ mutex = None /\ mutex' = t
          /\ nextTag' = nextTag + 1 /\ UNCHANGED mDev
        BY <1>2, <2>1, <2>2 DEF Msc!Start, Msc!Set
    <2>4. c \in MscCall /\ c.tag = k /\ c.got = 0 /\ c.failed = 0 /\ c.ret = "none" /\ c.pc = "cbw" /\ k # 0
        BY <2>1, <2>2, MscCallIs DEF Msc!NoCall, MscCall, Held, Msc!Bulk, Data
    <2>5. CallOwn(c)'
        BY <2>4 DEF CallOwn, Held, Msc!Bulk
    <2>6. \A o \in Callers \ {t} : mutex # o
        BY <2>3, ClassesAssumption
    <2> QED  BY <2>3, <2>4, <2>5, <2>6, MscCallIs, StepKeepsMsc
<1> QED  BY <1>1, <1>2

\* The call returns, or a phase of it fails and recover() follows: nothing is
\* claimed of it any more.
LEMMA EndKeepsMsc ==
    ASSUME MscInv, NEW t \in Callers, mCall[t].pc # "idle", NEW pc \in {"idle", "reset", "clear"},
           NEW ret \in {"none", "failed", "error"},
           \/ ret = "none" /\ Msc!Goto(t, pc) /\ UNCHANGED mutex
           \/ ret # "none" /\ pc = "idle" /\ Msc!Return(t, ret),
           UNCHANGED nextTag, mDev' \in MscDevice, mDev.ran \subseteq mDev'.ran,
           \/ mDev'.tag \in {0, mDev.tag} /\ mDev'.sense \in {0, mDev.sense}
           \/ mutex = t
    PROVE  MscInv'
<1>1. PICK b : b = mCall[t]
    OBVIOUS
<1>2. PICK c : c = IF ret = "none" THEN [b EXCEPT !.pc = pc] ELSE [b EXCEPT !.pc = "idle", !.ret = ret]
    OBVIOUS
<1>3. mCall' = [mCall EXCEPT ![t] = c]
    BY <1>1, <1>2 DEF Msc!Goto, Msc!Return, Msc!Set
<1>4. \A o \in Callers \ {t} : mutex = o => mutex' = o
    BY DEF Msc!Return
<1>5. b \in MscCall /\ b.ret # "passed"
    BY <1>1, MscCallIs DEF CallOwn
<1>6. c \in MscCall /\ c.pc = pc /\ c.ret # "passed"
    BY <1>2, <1>5 DEF MscCall
<1>7. CallOwn(c)' /\ c.pc \notin Held
    BY <1>6 DEF CallOwn, Held, Msc!Bulk
<1> QED  BY <1>3, <1>4, <1>6, <1>7, MscCallIs, StepKeepsMsc

\* A timeout, a stall that cannot be cleared, or a device that is gone.
LEMMA FailKeepsMsc ==
    ASSUME MscInv, NEW t \in Callers, Msc!PhaseFails(t) \/ Msc!NoDevice(t)
    PROVE  MscInv'
<1>1. mCall[t].pc # "idle" /\ UNCHANGED <<mDev, nextTag>>
    BY DEF Msc!PhaseFails, Msc!NoDevice, Msc!Bulk
<1>2. CASE Msc!PhaseFails(t)
    <2>1. Msc!Goto(t, "reset") /\ UNCHANGED mutex
        BY <1>2 DEF Msc!PhaseFails
    <2> QED  BY <1>1, <2>1, MscCallIs, EndKeepsMsc
<1>3. CASE Msc!NoDevice(t)
    <2>1. Msc!Return(t, "error")
        BY <1>3 DEF Msc!NoDevice
    <2> QED  BY <1>1, <2>1, MscCallIs, EndKeepsMsc
<1> QED  BY <1>2, <1>3

\* reset_recovery(): the device forgets the command at hand and its sense data,
\* also while another thread holds the lock.
LEMMA ResetKeepsMsc ==
    ASSUME MscInv, NEW t \in Callers, Msc!ResetDevice(t) \/ Msc!ClearHalts(t)
    PROVE  MscInv'
<1>1. mCall[t].pc # "idle" /\ UNCHANGED nextTag /\ mDev \in MscDevice
    BY MscCallIs DEF Msc!ResetDevice, Msc!ClearHalts
<1>2. CASE Msc!ResetDevice(t) /\ mDev' = [Msc!NewDevice EXCEPT !.halts = mDev.halts, !.ran = mDev.ran]
                              /\ Msc!Goto(t, "clear") /\ UNCHANGED mutex
    <2>1. mDev' \in MscDevice /\ mDev'.ran = mDev.ran /\ mDev'.tag = 0 /\ mDev'.sense = 0
        BY <1>1, <1>2 DEF Msc!NewDevice, MscDevice
    <2> QED  BY <1>1, <1>2, <2>1, EndKeepsMsc
<1>3. CASE Msc!Return(t, "error") /\ UNCHANGED mDev
    BY <1>1, <1>3, EndKeepsMsc
<1>4. CASE Msc!ClearHalts(t)
    <2>1. CASE "in" \in mDev.halts
        <3>1. mDev' = Msc!ClearHalt(mDev, "in") /\ UNCHANGED <<mCall, mutex>>
            BY <1>4, <2>1 DEF Msc!ClearHalts
        <3>2. mDev' \in MscDevice /\ mDev'.ran = mDev.ran /\ mDev'.sense = mDev.sense /\ mDev'.tag = mDev.tag
            BY <1>1, <3>1, DeviceKeeps
        <3> QED  BY <1>1, <3>1, <3>2, DeviceMoveKeepsMsc
    <2>2. CASE "in" \notin mDev.halts
        <3>1. mDev' = Msc!ClearHalt(mDev, "out") /\ Msc!Return(t, "error")
            BY <1>4, <2>2 DEF Msc!ClearHalts
        <3>2. mDev' \in MscDevice /\ mDev'.ran = mDev.ran /\ mDev'.sense = mDev.sense /\ mDev'.tag = mDev.tag
            BY <1>1, <3>1, DeviceKeeps
        <3> QED  BY <1>1, <3>1, <3>2, EndKeepsMsc
    <2> QED  BY <2>1, <2>2
<1> QED  BY <1>2, <1>3, <1>4 DEF Msc!ResetDevice

\* The command block, its data and a stall of either: the device may be at
\* another command, whose data is then refused with its status.
LEMMA DataKeepsMsc ==
    ASSUME MscInv, NEW t \in Callers,
           Msc!SendCbw(t) \/ Msc!DataIn(t) \/ Msc!DataOut(t) \/ Msc!Unstall(t)
    PROVE  MscInv'
<1>1. PICK b : b = mCall[t]
    OBVIOUS
<1>2. /\ b \in MscCall /\ CallOwn(b) /\ b.pc \in Held /\ mutex = t /\ mDev \in MscDevice
      /\ nextTag \in Nat /\ nextTag # 0 /\ b.ret # "passed" /\ b.tag # 0
      /\ b.pc \in {"cbw", "data", "csw"}
    BY <1>1, MscCallIs DEF Msc!SendCbw, Msc!DataIn, Msc!DataOut, Msc!Unstall, Held, Msc!Bulk, CallOwn
<1>3. UNCHANGED <<mutex, nextTag>>
    BY DEF Msc!SendCbw, Msc!DataIn, Msc!DataOut, Msc!Unstall
<1>4. CASE Msc!SendCbw(t)
    <2>1. PICK c : c = [b EXCEPT !.pc = IF Msc!Phase(b) = "none" THEN "csw" ELSE "data"]
        OBVIOUS
    <2>2. /\ mCall' = [mCall EXCEPT ![t] = c] /\ b.pc = "cbw"
          /\ mDev' = Msc!TakesCbw(mDev, b.tag, Msc!Phase(b))
        BY <1>1, <1>4, <2>1 DEF Msc!SendCbw, Msc!Goto, Msc!Set
    <2>3. Msc!Phase(b) \in Data /\ b.tag \in Nat
        BY <1>2 DEF Msc!Phase, MscCall, Data
    <2>4. mDev' \in MscDevice /\ mDev'.ran = mDev.ran /\ mDev'.sense = mDev.sense
        BY <1>2, <2>2, <2>3, TakesCbwIs
    <2>5. /\ c \in MscCall /\ c.pc \in {"csw", "data"} /\ c.tag = b.tag /\ c.got = b.got
          /\ c.ret = b.ret /\ c.failed = b.failed /\ c.sense = b.sense
        BY <1>2, <2>1 DEF MscCall, Held, Msc!Bulk
    <2>6. CallOwn(c)'
        BY <1>2, <2>2, <2>4, <2>5 DEF CallOwn, Held, Msc!Bulk
    <2> QED  BY <1>2, <1>3, <2>2, <2>4, <2>5, <2>6, StepKeepsMsc
<1>5. CASE Msc!DataIn(t)
    <2>1. PICK c : c = [b EXCEPT !.pc = "csw", !.got = IF mDev.stage = "in" THEN mDev.tag ELSE 0,
                                 !.sense = mDev.sense]
        OBVIOUS
    <2>2. mCall' = [mCall EXCEPT ![t] = c] /\ b.pc = "data"
        BY <1>1, <1>5, <2>1 DEF Msc!DataIn, Msc!Set
    <2>3. PICK v \in {"pass", "fail"} : mDev' = Msc!TakesIn(mDev, v)
        BY <1>5 DEF Msc!DataIn
    <2>4. /\ mDev' \in MscDevice /\ mDev.ran \subseteq mDev'.ran
          /\ mDev.stage = "in" => mDev'.tag = mDev.tag
        BY <1>2, <2>3, TakesInIs
    <2>5. mDev.tag \in Nat /\ mDev.sense \in Nat
        BY <1>2 DEF MscDevice
    <2>6. /\ c \in MscCall /\ c.pc = "csw" /\ c.tag = b.tag /\ c.ret = b.ret /\ c.failed = b.failed
          /\ c.sense = mDev.sense /\ c.got = IF mDev.stage = "in" THEN mDev.tag ELSE 0
        BY <1>2, <2>1, <2>5 DEF MscCall, Held, Msc!Bulk
    <2>7. c.got \in {0, c.tag} \/ mDev'.tag # c.tag
        BY <2>4, <2>6
    <2>8. CallOwn(c)'
        BY <1>2, <2>2, <2>6, <2>7 DEF CallOwn, Held, Msc!Bulk
    <2>9. c.pc \in Held => mutex' = t
        BY <1>2, <1>3
    <2> QED  BY <1>2, <1>3, <2>2, <2>4, <2>6, <2>8, <2>9, StepKeepsMsc
<1>6. CASE Msc!DataOut(t) \/ Msc!Unstall(t)
    <2>1. PICK pc \in {"csw", "csw2"} :
             /\ Msc!Goto(t, pc)
             /\ mDev' = Msc!TakesOut(mDev) \/ \E ep \in {"in", "out"} : mDev' = Msc!ClearHalt(mDev, ep)
        <3>1. CASE Msc!DataOut(t)
            BY <3>1 DEF Msc!DataOut
        <3>2. CASE Msc!Unstall(t)
            <4>1. Msc!Endpoint(mCall[t]) \in {"in", "out"}
                BY DEF Msc!Endpoint
            <4> QED  BY <3>2, <4>1 DEF Msc!Unstall
        <3> QED  BY <1>6, <3>1, <3>2
    <2>2. /\ mDev' \in MscDevice /\ mDev'.ran = mDev.ran /\ mDev'.sense = mDev.sense
          /\ mDev'.tag = mDev.tag
        BY <1>2, <2>1, DeviceKeeps
    <2>3. PICK c : c = [b EXCEPT !.pc = pc]
        OBVIOUS
    <2>4. mCall' = [mCall EXCEPT ![t] = c]
        BY <1>1, <2>1, <2>3 DEF Msc!Goto, Msc!Set
    <2>5. b.pc \in {"data", "csw"}
        BY <1>1, <1>6 DEF Msc!DataOut, Msc!Unstall
    <2>6. /\ c \in MscCall /\ c.pc = pc /\ c.tag = b.tag /\ c.got = b.got
          /\ c.ret = b.ret /\ c.failed = b.failed /\ c.sense = b.sense
        BY <1>2, <2>3 DEF MscCall, Held, Msc!Bulk
    <2>7. CallOwn(c)'
        BY <1>2, <2>2, <2>5, <2>6 DEF CallOwn, Held, Msc!Bulk
    <2> QED  BY <1>2, <1>3, <2>2, <2>4, <2>6, <2>7, StepKeepsMsc
<1> QED  BY <1>4, <1>5, <1>6

\* The status: only one with the tag of this command is believed.
LEMMA CswKeepsMsc ==
    ASSUME MscInv, NEW t \in Callers, Msc!ReadCsw(t)
    PROVE  MscInv'
<1>1. PICK b : b = mCall[t]
    OBVIOUS
<1>2. /\ b \in MscCall /\ CallOwn(b) /\ b.pc \in {"csw", "csw2"} /\ mutex = t /\ mDev \in MscDevice
      /\ nextTag \in Nat /\ nextTag # 0 /\ UNCHANGED nextTag /\ b.ret # "passed" /\ b.tag # 0
      /\ b.pc # "idle"
    BY <1>1, MscCallIs DEF Msc!ReadCsw, Held, Msc!Bulk, CallOwn
<1>3. PICK v \in {"pass", "fail", "phase"} : mDev' = Msc!TakesIn(mDev, v) /\ Msc!AfterCsw(t, v)
    BY DEF Msc!ReadCsw
<1>4. /\ mDev' \in MscDevice /\ mDev.ran \subseteq mDev'.ran
      /\ mDev.stage # "in" => IF v = "pass" THEN mDev.tag \in mDev'.ran ELSE mDev'.sense = mDev.tag
    BY <1>2, <1>3, TakesInIs
<1>5. ASSUME NEW pc \in {"judge", "ask"}, Msc!Goto(t, pc) /\ UNCHANGED mutex,
             pc = "judge" => b.failed # 0, pc = "ask" => mDev'.sense = b.tag
      PROVE  MscInv'
    <2>1. PICK c : c = [b EXCEPT !.pc = pc]
        OBVIOUS
    <2>2. mCall' = [mCall EXCEPT ![t] = c]
        BY <1>1, <1>5, <2>1 DEF Msc!Goto, Msc!Set
    <2>3. /\ c \in MscCall /\ c.pc = pc /\ c.tag = b.tag /\ c.ret = b.ret
          /\ c.failed = b.failed /\ c.sense = b.sense
        BY <1>2, <2>1 DEF MscCall, Held, Msc!Bulk
    <2>4. CallOwn(c)'
        BY <1>2, <1>5, <2>3 DEF CallOwn, Held, Msc!Bulk
    <2> QED  BY <1>2, <1>4, <1>5, <2>2, <2>3, <2>4, StepKeepsMsc
<1>6. CASE ~Msc!ValidCsw(b) \/ v = "phase"
    <2>1. Msc!Goto(t, "reset") /\ UNCHANGED mutex
        BY <1>1, <1>3, <1>6 DEF Msc!AfterCsw
    <2> QED  BY <1>1, <1>2, <1>4, <2>1, EndKeepsMsc
<1>7. CASE Msc!ValidCsw(b) /\ v # "phase" /\ b.failed # 0
    <2>1. \/ Msc!Goto(t, "judge") /\ UNCHANGED mutex
          \/ Msc!Return(t, "error")
        BY <1>1, <1>3, <1>7 DEF Msc!AfterCsw
    <2>2. CASE Msc!Return(t, "error")
        BY <1>1, <1>2, <1>4, <2>2, EndKeepsMsc
    <2> QED  BY <1>5, <1>7, <2>1, <2>2
<1>8. CASE Msc!ValidCsw(b) /\ v = "pass" /\ b.failed = 0
    <2>1. PICK c : c = [b EXCEPT !.pc = "idle", !.ret = "passed"]
        OBVIOUS
    <2>2. mCall' = [mCall EXCEPT ![t] = c] /\ mutex' = None
        BY <1>1, <1>2, <1>3, <1>8, <2>1 DEF Msc!AfterCsw, Msc!Return, Msc!Set
    <2>3. c \in MscCall /\ c.pc = "idle" /\ c.tag = b.tag /\ c.got = b.got
        BY <1>2, <2>1 DEF MscCall, Held, Msc!Bulk
    <2>4. c.tag \in mDev'.ran /\ c.got \in {0, c.tag}
        BY <1>2, <1>4, <1>8, <2>3 DEF Msc!ValidCsw, CallOwn
    <2>5. CallOwn(c)' /\ c.pc \notin Held
        BY <2>3, <2>4 DEF CallOwn, Held, Msc!Bulk
    <2> QED  BY <1>2, <1>4, <2>2, <2>3, <2>5, StepKeepsMsc
<1>9. CASE Msc!ValidCsw(b) /\ v = "fail" /\ b.failed = 0
    <2>1. \/ Msc!Goto(t, "ask") /\ UNCHANGED mutex
          \/ Msc!Return(t, "failed")
        BY <1>1, <1>3, <1>9 DEF Msc!AfterCsw
    <2>2. CASE Msc!Return(t, "failed")
        BY <1>1, <1>2, <1>4, <2>2, EndKeepsMsc
    <2>3. mDev'.sense = b.tag
        BY <1>4, <1>9 DEF Msc!ValidCsw
    <2> QED  BY <1>5, <2>1, <2>2, <2>3
<1> QED  BY <1>6, <1>7, <1>8, <1>9

\* REQUEST SENSE, and what command() makes of it, under the same lock.
LEMMA SenseKeepsMsc ==
    ASSUME MscInv, NEW t \in Callers,
           Msc!AskSense(t) \/ \E unitAttention \in BOOLEAN : Msc!Judge(t, unitAttention)
    PROVE  MscInv'
<1>1. PICK b : b = mCall[t]
    OBVIOUS
<1>2. PICK k : k = nextTag
    OBVIOUS
<1>3. /\ b \in MscCall /\ CallOwn(b) /\ b.pc \in {"ask", "judge"} /\ mutex = t /\ mDev \in MscDevice
      /\ k \in Nat /\ k # 0 /\ k + 1 \in Nat /\ k + 1 # 0 /\ b.ret # "passed" /\ b.tag \in Nat
      /\ b.attempts + 1 \in Nat /\ b.pc # "idle" /\ UNCHANGED mDev
    <2>1. b \in MscCall /\ CallOwn(b) /\ b.pc \in {"ask", "judge"} /\ UNCHANGED mDev
        BY <1>1, MscCallIs DEF Msc!AskSense, Msc!Judge
    <2> QED  BY <1>1, <1>2, <2>1, MscCallIs DEF Held, CallOwn, MscCall
<1>4. ASSUME NEW c \in MscCall, mCall' = [mCall EXCEPT ![t] = c], UNCHANGED mutex, nextTag' = k + 1,
             c.pc = "cbw", c.tag = k, c.ret = b.ret, c.got = 0,
             c.failed # 0 => mDev.sense \in {0, c.failed} /\ c.sense = 0
      PROVE  MscInv'
    <2>1. CallOwn(c)'
        BY <1>3, <1>4 DEF CallOwn, Held, Msc!Bulk
    <2> QED  BY <1>3, <1>4, <2>1, StepKeepsMsc
<1>5. CASE Msc!AskSense(t)
    <2>1. PICK c : c = [b EXCEPT !.pc = "cbw", !.tag = k, !.failed = b.tag, !.got = 0, !.sense = 0]
        OBVIOUS
    <2>2. mCall' = [mCall EXCEPT ![t] = c] /\ UNCHANGED mutex /\ nextTag' = k + 1 /\ b.pc = "ask"
        BY <1>1, <1>2, <1>5, <2>1 DEF Msc!AskSense, Msc!Set
    <2>3. /\ c \in MscCall /\ c.pc = "cbw" /\ c.tag = k /\ c.ret = b.ret /\ c.got = 0
          /\ c.failed = b.tag /\ c.sense = 0
        BY <1>3, <2>1 DEF MscCall, Held, Msc!Bulk
    <2>4. mDev.sense \in {0, c.failed}
        BY <1>3, <2>2, <2>3 DEF CallOwn
    <2> QED  BY <1>4, <2>2, <2>3, <2>4
<1>6. ASSUME NEW ua \in BOOLEAN, Msc!Judge(t, ua) PROVE MscInv'
    <2>1. CASE ua /\ b.attempts < Retries
        <3>1. PICK c : c = [b EXCEPT !.pc = "cbw", !.tag = k, !.failed = 0, !.got = 0, !.attempts = b.attempts + 1]
            OBVIOUS
        <3>2. mCall' = [mCall EXCEPT ![t] = c] /\ UNCHANGED mutex /\ nextTag' = k + 1
            BY <1>1, <1>2, <1>6, <2>1, <3>1 DEF Msc!Judge, Msc!Set
        <3>3. c \in MscCall /\ c.pc = "cbw" /\ c.tag = k /\ c.ret = b.ret /\ c.got = 0 /\ c.failed = 0
            BY <1>3, <3>1 DEF MscCall, Held, Msc!Bulk
        <3> QED  BY <1>4, <3>2, <3>3
    <2>2. CASE ~(ua /\ b.attempts < Retries)
        <3>1. Msc!Return(t, "failed") /\ UNCHANGED nextTag
            BY <1>1, <1>6, <2>2 DEF Msc!Judge
        <3> QED  BY <1>1, <1>3, <3>1, EndKeepsMsc
    <2> QED  BY <2>1, <2>2
<1> QED  BY <1>5, <1>6

\* A data phase that the device ends with a stall.
LEMMA StallKeepsMsc ==
    ASSUME MscInv, Msc!DeviceStalls
    PROVE  MscInv'
<1>1. /\ UNCHANGED <<mutex, nextTag, mCall>> /\ mDev \in MscDevice
      /\ \E ep \in {"in", "out"} : mDev' = [mDev EXCEPT !.stage = "csw", !.halts = @ \cup {ep}]
    BY DEF Msc!DeviceStalls, MscInv, MscShape
<1>2. mDev' \in MscDevice /\ mDev'.ran = mDev.ran /\ mDev'.sense = mDev.sense /\ mDev'.tag = mDev.tag
    BY <1>1, DeviceKeeps
<1> QED  BY <1>1, <1>2, DeviceMoveKeepsMsc

\* Nothing is under way at first.
LEMMA MscInitInv ==
    ASSUME Msc!Init
    PROVE  MscInv
<1>1. PICK n : n = Msc!NoCall
    OBVIOUS
<1>2. n \in MscCall /\ n.pc = "idle" /\ n.ret = "none"
    BY <1>1 DEF Msc!NoCall, MscCall, Data
<1>3. mCall \in [Callers -> MscCall] /\ \A t \in Callers : mCall[t] = n
    BY <1>1, <1>2 DEF Msc!Init
<1>4. mDev \in MscDevice /\ nextTag \in Nat /\ nextTag # 0
    BY DEF Msc!Init, Msc!NewDevice, MscDevice
<1>5. CallOwn(n) /\ n.pc \notin Held
    BY <1>2 DEF CallOwn, Held, Msc!Bulk
<1>6. \A t \in Callers : CallOwn(mCall[t]) /\ mCall[t].pc \notin Held
    BY <1>3, <1>5
<1> QED  BY <1>3, <1>4, <1>6 DEF MscInv, MscShape

\* A step of MCClasses while mass storage is the part at hand is a step of it.
LEMMA MscMoves == part = "msc" /\ [Next]_vars => [Msc!Next]_(Msc!vars)
<1> SUFFICES ASSUME part = "msc", [Next]_vars PROVE [Msc!Next]_(Msc!vars)
    OBVIOUS
<1>1. CASE UNCHANGED vars
    BY <1>1 DEF vars, storageVars, mscVars, Msc!vars
<1>2. CASE Next
    <2>1. StorageNext \/ UNCHANGED storageVars
        BY <1>2 DEF Next
    <2>2. CASE StorageNext
        BY <2>2 DEF StorageNext
    <2>3. CASE UNCHANGED storageVars
        BY <2>3 DEF storageVars, mscVars, Msc!vars
    <2> QED  BY <2>1, <2>2, <2>3
<1> QED  BY <1>1, <1>2

\* The invariant holds throughout, whenever the part at hand is mass storage.
LEMMA MscInvariant == Spec => [](part = "msc" => MscInv)
<1>1. Init => (part = "msc" => MscInv)
    BY MscInitInv DEF Init
<1>2. (part = "msc" => MscInv) /\ [Next]_vars => (part = "msc" => MscInv)'
    <2>1. ASSUME part = "msc", MscInv, [Next]_vars PROVE MscInv'
        <3>1. [Msc!Next]_(Msc!vars)
            BY <2>1, MscMoves
        <3>2. CASE UNCHANGED Msc!vars
            <4>1. UNCHANGED <<mutex, nextTag, mCall, mDev>> /\ mDev \in MscDevice
                BY <2>1, <3>2 DEF Msc!vars, MscInv, MscShape
            <4> QED  BY <2>1, <4>1, DeviceMoveKeepsMsc
        <3>3. CASE Msc!Next
            BY <2>1, <3>3, StallKeepsMsc, StartKeepsMsc, FailKeepsMsc, DataKeepsMsc, CswKeepsMsc,
               SenseKeepsMsc, ResetKeepsMsc DEF Msc!Next, Data
        <3> QED  BY <3>1, <3>2, <3>3
    <2>2. ASSUME part # "msc", [Next]_vars PROVE part' # "msc"
        BY <2>2 DEF Next, vars
    <2> QED  BY <2>1, <2>2
<1> QED  BY <1>1, <1>2, PTL DEF Spec

\* transport(), run by any number of threads, through any timeouts, stalls, late
\* answers and resets, lost ones and ones by hand too: a command that is reported
\* as passed was executed, and the data it was given in full is its own.
THEOREM PassedAlwaysOwn == Spec => []PassedIsOwn
<1>1. (part = "msc" => MscInv) => PassedIsOwn
    BY DEF MscInv, CallOwn, PassedIsOwn, Msc!PassedIsOwn
<1> QED  BY <1>1, MscInvariant, PTL

\* command(): the sense data a failed command is judged by, and retried for, is
\* that of this command, whoever else uses or resets the device.
THEOREM SenseAlwaysOwn == Spec => []SenseIsOwn
<1>1. (part = "msc" => MscInv) => SenseIsOwn
    BY DEF MscInv, CallOwn, SenseIsOwn, Msc!SenseIsOwn
<1> QED  BY <1>1, MscInvariant, PTL

(* The control channel of network devices *)

Questions == {"init", "mac", "frame", "status", "speed"}

\* Until the link is asked for, and while it is.
Early == {"init", "mac", "frame", "status"}

Types == {"init", "set", "query", "indicate", "keepalive", "none"}
Whats == Questions \cup {"directed", "promiscuous", "off", "none"}
Question == [type : Types, what : Whats, id : Nat, tries : Nat]
Command == [type : Types, what : Whats, id : Nat]
Reply == [type : Types, what : Whats, id : Nat, ok : BOOLEAN, link : {"up", "down"}]

CtlShape ==
    /\ ask \in Question /\ nextId \in Nat \ {0} /\ owed \in Seq(Command) /\ replies \in Seq(Reply)
    /\ up \in {"up", "down"} /\ ctlLink \in {"unknown", "up", "down"}

\* ECM and NCM ask nothing this way.
PlainFits == cKind # "Rndis" => ask = Ctl!NoAsk /\ owed = <<>> /\ replies = <<>> /\ cPc # "speed"

\* The question at hand has the latest id and is the one its step asks.
AskFits ==
    ask # Ctl!NoAsk =>
        /\ ask.id \in 1..nextId - 1
        /\ IF cPc \in Questions THEN ask.what = cPc ELSE ask.what \notin Questions

\* What is on its way with the id of the question is about it, and anything about
\* the link answers the one time it was asked for.
OnItsWay(c) ==
    /\ c.id < nextId
    /\ ask # Ctl!NoAsk /\ c.id = ask.id => c.what = ask.what
    /\ c.what = "status" =>
          /\ c.type = "query" /\ cPc \notin {"init", "mac", "frame"}
          /\ cPc = "status" => ask # Ctl!NoAsk /\ c.id = ask.id
QueuesFit ==
    /\ \A i \in 1..Len(owed) : OnItsWay(owed[i])
    /\ \A i \in 1..Len(replies) : OnItsWay(replies[i])
    /\ ask # Ctl!NoAsk /\ ask.what = "status" => ask.type = "query"

\* A link that was reported is that of the next report, but for an indication.
Follows(link, r) == r.type = "indicate" \/ link \in {"unknown", r.link}
LinksFollow ==
    /\ replies = <<>> => ctlLink \in {"unknown", up}
    /\ replies # <<>> => Follows(ctlLink, replies[1]) /\ replies[Len(replies)].link = up
    /\ \A i \in 1..Len(replies) - 1 : Follows(replies[i].link, replies[i + 1])

LinkShown ==
    /\ cKind = "Rndis" /\ cPc \in Early => connected = "unknown" /\ heard = ctlLink
    /\ cPc = "speed" /\ ask = Ctl!NoAsk => connected = heard

CtlInv ==
    /\ CtlShape /\ PlainFits /\ AskFits /\ QueuesFit /\ LinksFollow /\ LinkShown
    /\ taken[1] = taken[2]

-----------------------------------------------------------------------------

\* Append and Tail, element by element.
LEMMA AppendIs ==
    ASSUME NEW S, NEW s \in Seq(S), NEW e \in S
    PROVE  /\ Append(s, e) \in Seq(S) /\ Len(Append(s, e)) = Len(s) + 1 /\ Len(s) \in Nat
           /\ Append(s, e)[Len(s) + 1] = e /\ \A i \in 1..Len(s) : Append(s, e)[i] = s[i]
           /\ Append(s, e) # <<>> /\ (s # <<>> <=> Len(s) > 0)
OBVIOUS

LEMMA TailIs ==
    ASSUME NEW S, NEW s \in Seq(S), s # <<>>
    PROVE  /\ Tail(s) \in Seq(S) /\ Len(Tail(s)) = Len(s) - 1 /\ Len(s) \in Nat /\ Len(s) > 0
           /\ Head(s) = s[1] /\ Head(s) \in S /\ \A i \in 1..Len(s) - 1 : Tail(s)[i] = s[i + 1]
           /\ (Tail(s) = <<>> <=> Len(s) = 1)
<1>1. Len(s) \in Nat /\ Len(s) > 0 /\ Head(s) = s[1]
    OBVIOUS
<1>2. Head(s) \in S
    BY <1>1
<1>3. Tail(s) \in Seq(S) /\ Len(Tail(s)) = Len(s) - 1
    BY <1>1
<1>4. \A i \in 1..Len(s) - 1 : Tail(s)[i] = s[i + 1]
    BY <1>1
<1>5. Tail(s) = <<>> <=> Len(s) = 1
    BY <1>1, <1>3
<1> QED  BY <1>1, <1>2, <1>3, <1>4, <1>5

LEMMA ElementIs ==
    ASSUME NEW S, NEW s \in Seq(S), NEW i \in 1..Len(s)
    PROVE  s[i] \in S
OBVIOUS

\* How a question may move on: it stays, it ends, or one with a new id is asked;
\* the step at which the link is asked for is not come back to.
QuestionMoves ==
    /\ nextId' \in Nat /\ nextId' >= nextId
    /\ ask' # Ctl!NoAsk =>
          \/ ask # Ctl!NoAsk /\ ask'.id = ask.id /\ ask'.what = ask.what
          \/ ask'.id = nextId
    /\ cPc' \in {"init", "mac", "frame"} => cPc \in {"init", "mac", "frame"}
    /\ cPc' = "status" =>
          \/ cPc \in {"init", "mac", "frame"}
          \/ cPc = "status" /\ ask = Ctl!NoAsk
          \/ cPc = "status" /\ ask' # Ctl!NoAsk /\ ask'.id = ask.id

\* What is on its way stays what it is.
LEMMA StillOnItsWay ==
    ASSUME CtlShape, QuestionMoves, NEW c, c.id \in Nat, OnItsWay(c)
    PROVE  OnItsWay(c)'
<1>1. nextId \in Nat
    BY DEF CtlShape
<1>2. c.id < nextId /\ c.id < nextId' /\ c.id # nextId
    BY <1>1 DEF OnItsWay, QuestionMoves
<1>3. ask' # Ctl!NoAsk /\ c.id = ask'.id => c.what = ask'.what
    BY <1>2 DEF OnItsWay, QuestionMoves
<1>4. c.what = "status" =>
          /\ c.type = "query" /\ cPc' \notin {"init", "mac", "frame"}
          /\ cPc' = "status" => ask' # Ctl!NoAsk /\ c.id = ask'.id
    BY DEF OnItsWay, QuestionMoves
<1> QED  BY <1>2, <1>3, <1>4 DEF OnItsWay

\* What is queued either way has an id and is on its way.
LEMMA QueuedIs ==
    ASSUME CtlShape, QueuesFit
    PROVE  /\ \A i \in 1..Len(owed) : owed[i].id \in Nat /\ OnItsWay(owed[i])
           /\ \A i \in 1..Len(replies) : replies[i].id \in Nat /\ OnItsWay(replies[i])
<1>1. ASSUME NEW i \in 1..Len(owed) PROVE owed[i].id \in Nat
    <2>1. owed[i] \in Command
        BY ElementIs DEF CtlShape
    <2> QED  BY <2>1 DEF Command
<1>2. ASSUME NEW i \in 1..Len(replies) PROVE replies[i].id \in Nat
    <2>1. replies[i] \in Reply
        BY ElementIs DEF CtlShape
    <2> QED  BY <2>1 DEF Reply
<1> QED  BY <1>1, <1>2 DEF QueuesFit

\* So it stays, wherever it is queued then.
LEMMA KeptOnItsWay ==
    ASSUME CtlShape, QueuesFit, QuestionMoves, NEW s, s = owed \/ s = replies, NEW i \in 1..Len(s)
    PROVE  OnItsWay(s[i])'
<1>1. PICK c : c = s[i]
    OBVIOUS
<1>2. c.id \in Nat /\ OnItsWay(c)
    BY <1>1, QueuedIs
<1>3. OnItsWay(c)'
    BY <1>2, StillOnItsWay
<1> QED  BY <1>1, <1>3 DEF OnItsWay

\* Everything the device sends is put behind what it sent before.
LEMMA SentFollows ==
    ASSUME CtlShape, LinksFollow, NEW r \in Reply, replies' = Append(replies, r), r.link = up',
           r.type = "indicate" \/ up' = up, UNCHANGED ctlLink
    PROVE  LinksFollow'
<1>1. PICK s : s = replies
    OBVIOUS
<1>2. PICK n : n = Len(s)
    OBVIOUS
<1>3. PICK u : u = Append(s, r)
    OBVIOUS
<1>4. /\ s \in Seq(Reply) /\ n \in Nat /\ Len(u) = n + 1 /\ u[n + 1] = r /\ u # <<>>
      /\ \A i \in 1..n : u[i] = s[i]
      /\ s # <<>> <=> n > 0
    BY <1>1, <1>2, <1>3, AppendIs DEF CtlShape
<1>5. Follows(ctlLink, u[1]) /\ u[n + 1].link = up'
    <2>1. CASE n = 0
        BY <1>1, <1>4, <2>1 DEF LinksFollow, Follows
    <2>2. CASE n > 0
        <3>1. u[1] = s[1]
            BY <1>4, <2>2
        <3> QED  BY <1>1, <1>4, <2>2, <3>1 DEF LinksFollow
    <2> QED  BY <1>4, <2>1, <2>2
<1>6. ASSUME NEW i \in 1..n PROVE Follows(u[i].link, u[i + 1])
    <2>1. CASE i = n
        <3>1. n > 0 /\ u[i] = s[n] /\ u[i + 1] = r /\ s[n].link = up
            BY <1>1, <1>2, <1>4, <1>6, <2>1 DEF LinksFollow
        <3> QED  BY <3>1 DEF Follows
    <2>2. CASE i # n
        <3>1. i \in 1..n - 1 /\ i + 1 \in 1..n
            BY <1>4, <1>6, <2>2
        <3>2. u[i] = s[i] /\ u[i + 1] = s[i + 1]
            BY <1>4, <1>6, <3>1
        <3> QED  BY <1>1, <1>2, <3>1, <3>2 DEF LinksFollow
    <2> QED  BY <2>1, <2>2
<1>7. replies' = u
    BY <1>1, <1>3
<1> QED  BY <1>4, <1>5, <1>6, <1>7 DEF LinksFollow, Follows

\* What the host reads is the next report, and of the link it knows.
LEMMA ReadFollows ==
    ASSUME CtlShape, LinksFollow, replies # <<>>, replies' = Tail(replies), UNCHANGED up,
           ctlLink' = IF replies[1].type = "indicate" THEN replies[1].link ELSE ctlLink
    PROVE  LinksFollow'
<1>1. PICK s : s = replies
    OBVIOUS
<1>2. PICK n : n = Len(s)
    OBVIOUS
<1>3. PICK u : u = Tail(s)
    OBVIOUS
<1>4. /\ s \in Seq(Reply) /\ n \in Nat /\ n > 0 /\ Len(u) = n - 1 /\ (u = <<>> <=> n = 1)
      /\ \A i \in 1..n - 1 : u[i] = s[i + 1]
    BY <1>1, <1>2, <1>3, TailIs DEF CtlShape
<1>5. s[1].link \in {"up", "down"}
    <2>1. s[1] \in Reply
        BY <1>2, <1>4, ElementIs
    <2> QED  BY <2>1 DEF Reply
<1>6. ctlLink' \in {"unknown", s[1].link}
    BY <1>1 DEF LinksFollow, Follows
<1>7. u = <<>> => ctlLink' \in {"unknown", up}
    BY <1>1, <1>2, <1>4, <1>6 DEF LinksFollow
<1>8. ASSUME u # <<>> PROVE Follows(ctlLink', u[1]) /\ u[n - 1].link = up
    <2>1. n - 1 \in 1..n - 1 /\ 1 \in 1..n - 1
        BY <1>4, <1>8
    <2>2. u[1] = s[2] /\ u[n - 1] = s[n]
        BY <1>4, <2>1
    <2>3. Follows(s[1].link, s[2])
        BY <1>1, <1>2, <2>1 DEF LinksFollow
    <2> QED  BY <1>1, <1>2, <1>5, <1>6, <2>2, <2>3 DEF LinksFollow, Follows
<1>9. ASSUME NEW i \in 1..n - 2 PROVE Follows(u[i].link, u[i + 1])
    <2>1. i \in 1..n - 1 /\ i + 1 \in 1..n - 1
        BY <1>4, <1>9
    <2>2. u[i] = s[i + 1] /\ u[i + 1] = s[(i + 1) + 1]
        BY <1>4, <2>1
    <2> QED  BY <1>1, <1>2, <2>1, <2>2 DEF LinksFollow
<1>10. replies' = u /\ Len(u) - 1 = n - 2
    BY <1>1, <1>3, <1>4
<1> QED  BY <1>4, <1>7, <1>8, <1>9, <1>10 DEF LinksFollow, Follows

\* A step of open_interface() or close() that asks nothing of the device.
LEMMA PlainKeepsCtl ==
    ASSUME CtlInv, UNCHANGED <<cKind, ask, nextId, owed, replies, up, ctlLink, taken>>,
           \/ cKind # "Rndis" /\ cPc' # "speed"
           \/ cPc' \notin Questions /\ (ask = Ctl!NoAsk \/ cPc \notin Questions)
    PROVE  CtlInv'
<1>1. CtlShape' /\ (taken[1] = taken[2])'
    BY DEF CtlInv, CtlShape
<1>2. PlainFits' /\ AskFits'
    BY DEF CtlInv, PlainFits, AskFits, Questions
<1>3. LinksFollow'
    BY DEF CtlInv, LinksFollow, Follows
<1>4. LinkShown'
    BY DEF CtlInv, LinkShown, Early, Questions
<1>5. QueuesFit'
    <2>1. CASE cKind # "Rndis"
        <3>1. owed' = <<>> /\ replies' = <<>> /\ ask' = Ctl!NoAsk
            BY <2>1 DEF CtlInv, PlainFits
        <3>2. Len(owed') = 0 /\ Len(replies') = 0
            BY <3>1
        <3> QED  BY <3>1, <3>2 DEF QueuesFit
    <2>2. CASE cPc' \notin Questions
        <3>1. QuestionMoves
            <4>1. nextId \in Nat /\ nextId' \in Nat /\ nextId' >= nextId
                BY DEF CtlInv, CtlShape
            <4> QED  BY <2>2, <4>1 DEF QuestionMoves, Questions
        <3>2. ASSUME NEW i \in 1..Len(owed) PROVE OnItsWay(owed[i])'
            <4>1. PICK s : s = owed
                OBVIOUS
            <4>2. OnItsWay(s[i])'
                BY <3>1, <4>1, KeptOnItsWay DEF CtlInv
            <4> QED  BY <4>1, <4>2 DEF OnItsWay
        <3>3. ASSUME NEW i \in 1..Len(replies) PROVE OnItsWay(replies[i])'
            <4>1. PICK s : s = replies
                OBVIOUS
            <4>2. OnItsWay(s[i])'
                BY <3>1, <4>1, KeptOnItsWay DEF CtlInv
            <4> QED  BY <4>1, <4>2 DEF OnItsWay
        <3> QED  BY <3>2, <3>3 DEF CtlInv, QueuesFit
    <2> QED  BY <2>1, <2>2
<1> QED  BY <1>1, <1>2, <1>3, <1>4, <1>5 DEF CtlInv

\* The device answers, indicates its link or asks for a sign of life.
LEMMA DeviceKeepsCtl ==
    ASSUME CtlInv, NEW r \in Reply, replies' = Append(replies, r), r.link = up',
           \/ Ctl!DeviceAnswers(r.ok) /\ owed # <<>>
              /\ r.type = Head(owed).type /\ r.what = Head(owed).what /\ r.id = Head(owed).id
           \/ Ctl!DeviceSpeaks(r.type) /\ r.what = "none" /\ r.id = 0
    PROVE  CtlInv'
<1>1. /\ UNCHANGED <<cKind, cPc, ask, nextId, ctlLink, connected, heard, taken>>
      /\ owed' = owed \/ (owed # <<>> /\ owed' = Tail(owed) /\ up' = up)
      /\ r.type = "indicate" \/ up' = up
    BY DEF Ctl!DeviceAnswers, Ctl!DeviceSpeaks, Ctl!opening
<1>2. owed' \in Seq(Command)
    BY <1>1, TailIs DEF CtlInv, CtlShape
<1>3. CtlShape'
    <2>1. replies' \in Seq(Reply)
        BY AppendIs DEF CtlInv, CtlShape
    <2>2. up' \in {"up", "down"}
        BY DEF Reply
    <2> QED  BY <1>1, <1>2, <2>1, <2>2 DEF CtlInv, CtlShape
<1>4. PlainFits'
    <2>1. cKind = "Rndis"
        BY DEF Ctl!DeviceAnswers, Ctl!DeviceSpeaks, CtlInv, PlainFits
    <2> QED  BY <1>1, <2>1 DEF PlainFits
<1>5. AskFits' /\ LinkShown' /\ (taken[1] = taken[2])'
    BY <1>1 DEF CtlInv, AskFits, LinkShown
<1>6. LinksFollow'
    BY <1>1, SentFollows DEF CtlInv
<1>7. QuestionMoves
    <2>1. nextId \in Nat /\ nextId' \in Nat /\ nextId' >= nextId
        BY <1>1 DEF CtlInv, CtlShape
    <2> QED  BY <1>1, <2>1 DEF QuestionMoves
<1>8. PICK s : s = owed
    OBVIOUS
<1>9. PICK u : u = replies
    OBVIOUS
<1>10. s \in Seq(Command) /\ u \in Seq(Reply)
    BY <1>8, <1>9 DEF CtlInv, CtlShape
<1>11. ASSUME NEW i \in 1..Len(owed') PROVE OnItsWay(owed[i])'
    <2>1. \E k \in 1..Len(s) : owed'[i] = s[k]
        <3>1. CASE owed' = s
            BY <1>11, <3>1
        <3>2. CASE s # <<>> /\ owed' = Tail(s)
            BY <1>10, <1>11, <3>2, TailIs
        <3> QED  BY <1>1, <1>8, <3>1, <3>2
    <2>2. PICK k \in 1..Len(s) : owed'[i] = s[k]
        BY <2>1
    <2>3. OnItsWay(s[k])'
        BY <1>7, <1>8, KeptOnItsWay DEF CtlInv
    <2> QED  BY <2>2, <2>3 DEF OnItsWay
<1>12. OnItsWay(r)'
    <2>1. CASE s # <<>> /\ r.type = Head(s).type /\ r.what = Head(s).what /\ r.id = Head(s).id
        <3>1. 1 \in 1..Len(s) /\ Head(s) = s[1]
            BY <1>10, <2>1, TailIs
        <3>2. OnItsWay(s[1])'
            BY <1>7, <1>8, <3>1, KeptOnItsWay DEF CtlInv
        <3> QED  BY <2>1, <3>1, <3>2 DEF OnItsWay
    <2>2. CASE r.what = "none" /\ r.id = 0
        <3>1. nextId' \in Nat \ {0} /\ (ask' # Ctl!NoAsk => ask'.id \in 1..nextId' - 1)
            BY <1>3, <1>5 DEF CtlShape, AskFits
        <3> QED  BY <2>2, <3>1 DEF OnItsWay
    <2> QED  BY <1>8, <2>1, <2>2
<1>13. ASSUME NEW i \in 1..Len(replies') PROVE OnItsWay(replies[i])'
    <2>1. replies'[i] = r \/ (i \in 1..Len(u) /\ replies'[i] = u[i])
        BY <1>9, <1>10, <1>13, AppendIs
    <2>2. CASE i \in 1..Len(u) /\ replies'[i] = u[i]
        <3>1. OnItsWay(u[i])'
            BY <1>7, <1>9, <2>2, KeptOnItsWay DEF CtlInv
        <3> QED  BY <2>2, <3>1 DEF OnItsWay
    <2>3. CASE replies'[i] = r
        BY <1>12, <2>3 DEF OnItsWay
    <2> QED  BY <2>1, <2>2, <2>3
<1>14. QueuesFit'
    BY <1>1, <1>11, <1>13 DEF CtlInv, QueuesFit
<1> QED  BY <1>3, <1>4, <1>5, <1>6, <1>14 DEF CtlInv

\* A question is put to the device, with an id of its own.
LEMMA AskKeepsCtl ==
    ASSUME CtlInv, NEW what \in Whats \ {"none"}, Ctl!Ask(what), cKind = "Rndis", ask = Ctl!NoAsk,
           UNCHANGED <<cKind, ctlLink, connected, replies, up, heard, taken>>,
           \/ cPc \in Questions /\ cPc' = cPc /\ what = cPc
           \/ cPc' \notin Questions /\ what \notin Questions
    PROVE  CtlInv'
<1>1. PICK k : k = nextId
    OBVIOUS
<1>2. PICK s : s = owed
    OBVIOUS
<1>3. PICK u : u = replies
    OBVIOUS
<1>4. PICK c : c = [type |-> Ctl!Type(what), what |-> what, id |-> k]
    OBVIOUS
<1>5. /\ k \in Nat \ {0} /\ k + 1 \in Nat \ {0} /\ k + 1 >= k /\ k < k + 1 /\ k \in 1..(k + 1) - 1
      /\ s \in Seq(Command)
    BY <1>1, <1>2 DEF CtlInv, CtlShape
<1>6. Ctl!Type(what) \in {"init", "set", "query"} /\ (what = "status" => Ctl!Type(what) = "query")
    BY DEF Ctl!Type
<1>7. c \in Command /\ c.what = what /\ c.id = k /\ c.type = Ctl!Type(what)
    BY <1>4, <1>5, <1>6 DEF Command, Types
<1>8. /\ ask' = [type |-> Ctl!Type(what), what |-> what, id |-> k, tries |-> 0]
      /\ nextId' = k + 1 /\ owed' = Append(s, c)
    BY <1>1, <1>2, <1>4 DEF Ctl!Ask
<1>9. /\ ask' \in Question /\ ask'.id = k /\ ask'.what = what /\ ask'.type = Ctl!Type(what)
      /\ ask' # Ctl!NoAsk
    BY <1>5, <1>6, <1>8 DEF Question, Types, Ctl!NoAsk
<1>10. CtlShape'
    BY <1>5, <1>7, <1>8, <1>9, AppendIs DEF CtlInv, CtlShape
<1>11. PlainFits' /\ AskFits' /\ LinkShown' /\ (taken[1] = taken[2])'
    <2>1. AskFits'
        BY <1>5, <1>8, <1>9 DEF AskFits
    <2>2. LinkShown'
        BY <1>9 DEF CtlInv, LinkShown, Early, Questions
    <2> QED  BY <2>1, <2>2 DEF CtlInv, PlainFits
<1>12. LinksFollow'
    BY DEF CtlInv, LinksFollow, Follows
<1>13. QuestionMoves
    BY <1>1, <1>5, <1>8, <1>9 DEF QuestionMoves, Questions
<1>14. OnItsWay(c)'
    BY <1>5, <1>6, <1>7, <1>8, <1>9 DEF OnItsWay, Questions
<1>15. ASSUME NEW i \in 1..Len(owed') PROVE OnItsWay(owed[i])'
    <2>1. owed'[i] = c \/ (i \in 1..Len(s) /\ owed'[i] = s[i])
        BY <1>5, <1>7, <1>8, <1>15, AppendIs
    <2>2. CASE i \in 1..Len(s) /\ owed'[i] = s[i]
        <3>1. OnItsWay(s[i])'
            BY <1>2, <1>13, <2>2, KeptOnItsWay DEF CtlInv
        <3> QED  BY <2>2, <3>1 DEF OnItsWay
    <2>3. CASE owed'[i] = c
        BY <1>14, <2>3 DEF OnItsWay
    <2> QED  BY <2>1, <2>2, <2>3
<1>16. ASSUME NEW i \in 1..Len(replies') PROVE OnItsWay(replies[i])'
    <2>1. replies' = u
        BY <1>3
    <2>2. OnItsWay(u[i])'
        BY <1>3, <1>13, <1>16, KeptOnItsWay DEF CtlInv
    <2> QED  BY <2>1, <2>2 DEF OnItsWay
<1>17. QueuesFit'
    BY <1>6, <1>9, <1>15, <1>16 DEF QueuesFit
<1> QED  BY <1>10, <1>11, <1>12, <1>17 DEF CtlInv

\* A question ends, with or without an answer: open_interface() goes on to the
\* next one, and only the question about the link says what is shown of it.
LEMMA AskEnds ==
    ASSUME CtlInv, ask # Ctl!NoAsk, NEW ok, NEW link, Ctl!EndAsk(ok, link)
    PROVE  /\ ask' = Ctl!NoAsk
           /\ cPc' \in {"init", "mac", "frame"} => cPc \in {"init", "mac", "frame"}
           /\ cPc' = "status" => cPc = "frame"
           /\ cPc' = "speed" => cPc = "status"
           /\ cPc = "status" <=> ask.what = "status"
           /\ connected' = IF cPc # "status" THEN connected
                           ELSE IF ctlLink' # "unknown" THEN ctlLink'
                           ELSE IF ok THEN link ELSE connected
<1>1. IF cPc \in Questions THEN ask.what = cPc ELSE ask.what \notin Questions
    BY DEF CtlInv, AskFits
<1>2. cPc = "status" <=> ask.what = "status"
    BY <1>1 DEF Questions
<1>3. /\ ask' = Ctl!NoAsk
      /\ connected' = IF ask.what # "status" THEN connected
                      ELSE IF ctlLink' # "unknown" THEN ctlLink'
                      ELSE IF ok THEN link ELSE connected
    BY DEF Ctl!EndAsk
<1>4. cPc' = "failed" \/ cPc' = Ctl!Then(ask.what)
    BY DEF Ctl!EndAsk
<1>5. CASE cPc \in Questions
    BY <1>1, <1>2, <1>3, <1>4, <1>5 DEF Ctl!Then, Questions
<1>6. CASE cPc \notin Questions
    <2>1. ask.what \notin {"init", "mac", "frame", "status", "speed"}
        BY <1>1, <1>6 DEF Questions
    <2>2. Ctl!Then(ask.what) \in {"halt", "stream", "open"}
        BY <2>1 DEF Ctl!Then
    <2> QED  BY <1>2, <1>3, <1>4, <2>2
<1> QED  BY <1>5, <1>6

\* A round of exchange() in which it reads r or nothing, whatever it makes of it:
\* the queues and the question fit, once what is shown of the link does.
LEMMA RoundKeepsCtl ==
    ASSUME CtlInv, ask # Ctl!NoAsk, UNCHANGED <<cKind, nextId, owed, up>>,
           \/ UNCHANGED <<replies, ctlLink>>
           \/ /\ replies # <<>> /\ replies' = Tail(replies)
              /\ ctlLink' = IF replies[1].type = "indicate" THEN replies[1].link ELSE ctlLink,
           \/ ask' = [ask EXCEPT !.tries = @ + 1] /\ cPc' = cPc
           \/ /\ ask' = Ctl!NoAsk
              /\ cPc' \in {"init", "mac", "frame"} => cPc \in {"init", "mac", "frame"}
              /\ cPc' = "status" => cPc = "frame",
           LinkShown', taken'[1] = taken'[2]
    PROVE  CtlInv'
<1>1. CtlShape /\ QueuesFit /\ LinksFollow /\ AskFits /\ cKind = "Rndis" /\ nextId \in Nat
    BY DEF CtlInv, PlainFits, CtlShape
<1>2. ask \in Question /\ ask.tries + 1 \in Nat /\ ask.id # 0 /\ Ctl!NoAsk \in Question /\ Ctl!NoAsk.id = 0
    BY <1>1 DEF CtlShape, AskFits, Question, Ctl!NoAsk, Types, Whats
<1>3. /\ ask' \in Question
      /\ ask' # Ctl!NoAsk => /\ ask'.id = ask.id /\ ask'.what = ask.what /\ ask'.type = ask.type
                             /\ cPc' = cPc
    BY <1>2 DEF Question
<1>4. QuestionMoves
    <2>1. CASE ask' = Ctl!NoAsk
        <3>1. nextId' \in Nat /\ nextId' >= nextId
            BY <1>1
        <3>2. CASE cPc' = cPc /\ ask' = [ask EXCEPT !.tries = @ + 1]
            BY <1>2, <2>1, <3>2 DEF Question
        <3> QED  BY <2>1, <3>1, <3>2 DEF QuestionMoves
    <2>2. CASE ask' # Ctl!NoAsk
        <3>1. nextId' \in Nat /\ nextId' >= nextId
            BY <1>1
        <3> QED  BY <1>3, <2>2, <3>1 DEF QuestionMoves
    <2> QED  BY <2>1, <2>2
<1>5. PICK u : u = replies
    OBVIOUS
<1>6. u \in Seq(Reply)
    BY <1>1, <1>5 DEF CtlShape
<1>7. replies' \in Seq(Reply)
    BY <1>5, <1>6, TailIs
<1>8. ctlLink' \in {"unknown", "up", "down"}
    <2>1. CASE replies # <<>>
        <3>1. replies[1] \in Reply
            BY <1>5, <1>6, <2>1, TailIs
        <3> QED  BY <1>1, <3>1 DEF Reply, CtlShape
    <2> QED  BY <1>1, <2>1 DEF CtlShape
<1>9. CtlShape'
    BY <1>1, <1>3, <1>7, <1>8 DEF CtlShape
<1>10. AskFits' /\ PlainFits'
    BY <1>1, <1>3 DEF AskFits, PlainFits
<1>11. LinksFollow'
    <2>1. CASE UNCHANGED <<replies, ctlLink>>
        BY <1>1, <2>1 DEF LinksFollow, Follows
    <2>2. CASE /\ replies # <<>> /\ replies' = Tail(replies)
               /\ ctlLink' = IF replies[1].type = "indicate" THEN replies[1].link ELSE ctlLink
        BY <1>1, <2>2, ReadFollows
    <2> QED  BY <2>1, <2>2
<1>12. ASSUME NEW i \in 1..Len(owed') PROVE OnItsWay(owed[i])'
    <2>1. PICK s : s = owed
        OBVIOUS
    <2>2. OnItsWay(s[i])' /\ owed' = s
        BY <1>1, <1>4, <1>12, <2>1, KeptOnItsWay
    <2> QED  BY <2>2 DEF OnItsWay
<1>13. ASSUME NEW i \in 1..Len(replies') PROVE OnItsWay(replies[i])'
    <2>1. \E k \in 1..Len(u) : replies'[i] = u[k]
        <3>1. CASE replies' = u
            BY <1>13, <3>1
        <3>2. CASE u # <<>> /\ replies' = Tail(u)
            BY <1>6, <1>13, <3>2, TailIs
        <3> QED  BY <1>5, <3>1, <3>2
    <2>2. PICK k \in 1..Len(u) : replies'[i] = u[k]
        BY <2>1
    <2>3. OnItsWay(u[k])'
        BY <1>1, <1>4, <1>5, KeptOnItsWay
    <2> QED  BY <2>2, <2>3 DEF OnItsWay
<1>14. QueuesFit'
    BY <1>1, <1>3, <1>12, <1>13 DEF QueuesFit
<1> QED  BY <1>9, <1>10, <1>11, <1>14 DEF CtlInv

\* A round without the answer: an indication says both what is known of the link
\* and what was heard last; an answer about the link would have been the answer.
LEMMA NothingYetKeepsCtl ==
    ASSUME CtlInv, ask # Ctl!NoAsk, UNCHANGED <<cKind, nextId, owed, up, taken>>,
           \/ UNCHANGED <<replies, ctlLink, heard>>
           \/ /\ replies # <<>> /\ replies' = Tail(replies) /\ ~Ctl!IsAnswer(replies[1])
              /\ ctlLink' = IF replies[1].type = "indicate" THEN replies[1].link ELSE ctlLink
              /\ heard' = IF \/ replies[1].type = "indicate"
                             \/ replies[1].what = "status" /\ replies[1].ok
                          THEN replies[1].link ELSE heard,
           Ctl!NothingYet \/ Ctl!EndAsk(FALSE, "unknown")
    PROVE  CtlInv'
<1>1. cKind = "Rndis" /\ taken[1] = taken[2] /\ LinkShown
    BY DEF CtlInv, PlainFits
<1>2. cPc \in Early => connected = "unknown" /\ heard' = ctlLink'
    <2>1. CASE replies # <<>> /\ replies[1].what = "status" /\ ~Ctl!IsAnswer(replies[1])
        <3>1. 1 \in 1..Len(replies)
            BY <2>1, TailIs DEF CtlInv, CtlShape
        <3>2. OnItsWay(replies[1])
            BY <3>1 DEF CtlInv, QueuesFit
        <3>3. cPc \in Early => cPc = "status" /\ replies[1].type = "query" /\ replies[1].id = ask.id
            BY <2>1, <3>2 DEF OnItsWay, Early
        <3>4. cPc = "status" => ask.type = "query"
            BY DEF CtlInv, QueuesFit, AskFits, Questions
        <3> QED  BY <2>1, <3>3, <3>4 DEF Ctl!IsAnswer
    <2>2. CASE ~(replies # <<>> /\ replies[1].what = "status" /\ ~Ctl!IsAnswer(replies[1]))
        BY <1>1, <2>2 DEF LinkShown
    <2> QED  BY <2>1, <2>2
<1>3. \/ UNCHANGED <<replies, ctlLink>>
      \/ /\ replies # <<>> /\ replies' = Tail(replies)
         /\ ctlLink' = IF replies[1].type = "indicate" THEN replies[1].link ELSE ctlLink
    OBVIOUS
<1>4. CASE Ctl!EndAsk(FALSE, "unknown")
    <2>1. /\ ask' = Ctl!NoAsk
          /\ cPc' \in {"init", "mac", "frame"} => cPc \in {"init", "mac", "frame"}
          /\ cPc' = "status" => cPc = "frame"
          /\ cPc' = "speed" => cPc = "status"
          /\ connected' = IF cPc # "status" THEN connected
                          ELSE IF ctlLink' # "unknown" THEN ctlLink' ELSE connected
        BY <1>4, AskEnds
    <2>2. LinkShown'
        <3>1. cPc' \in Early => cPc \in Early /\ cPc # "status" /\ connected' = "unknown" /\ heard' = ctlLink'
            BY <1>2, <2>1 DEF Early
        <3>2. cPc' = "speed" => connected' = heard'
            BY <1>2, <2>1 DEF Early
        <3> QED  BY <3>1, <3>2 DEF LinkShown
    <2> QED  BY <1>1, <1>3, <2>1, <2>2, RoundKeepsCtl
<1>5. CASE ask' = [ask EXCEPT !.tries = @ + 1] /\ UNCHANGED <<cPc, connected>>
    <2>1. ask' # Ctl!NoAsk
        <3>1. ask \in Question /\ ask.id # 0
            BY DEF CtlInv, CtlShape, AskFits
        <3>2. ask'.id = ask.id /\ Ctl!NoAsk.id = 0
            BY <1>5, <3>1 DEF Question, Ctl!NoAsk
        <3> QED  BY <3>1, <3>2
    <2>2. LinkShown'
        BY <1>2, <1>5, <2>1 DEF LinkShown
    <2> QED  BY <1>1, <1>3, <1>5, <2>2, RoundKeepsCtl
<1> QED  BY <1>4, <1>5 DEF Ctl!NothingYet

\* A round of exchange(), or one that fails.
LEMMA PollKeepsCtl ==
    ASSUME CtlInv, Ctl!Poll \/ Ctl!PollFails
    PROVE  CtlInv'
<1>1. ask # Ctl!NoAsk /\ UNCHANGED <<cKind, nextId, owed, up>>
    BY DEF Ctl!Poll, Ctl!PollFails, Ctl!opening, Ctl!device
<1>2. CASE Ctl!PollFails
    <2>1. UNCHANGED <<replies, ctlLink, heard, taken>> /\ Ctl!EndAsk(FALSE, "unknown")
        BY <1>2 DEF Ctl!PollFails, Ctl!device
    <2> QED  BY <1>1, <2>1, NothingYetKeepsCtl
<1>3. CASE Ctl!Poll /\ replies = <<>>
    <2>1. UNCHANGED <<replies, ctlLink, heard, taken>> /\ Ctl!NothingYet
        BY <1>3 DEF Ctl!Poll
    <2> QED  BY <1>1, <2>1, NothingYetKeepsCtl
<1>4. CASE Ctl!Poll /\ replies # <<>>
    <2>1. Head(replies) = replies[1] /\ 1 \in 1..Len(replies)
        BY <1>4, TailIs DEF CtlInv, CtlShape
    <2>2. /\ replies' = Tail(replies)
          /\ heard' = IF \/ replies[1].type = "indicate"
                         \/ replies[1].what = "status" /\ replies[1].ok
                      THEN replies[1].link ELSE heard
          /\ ctlLink' = IF replies[1].type = "indicate" THEN replies[1].link ELSE ctlLink
          /\ IF Ctl!IsAnswer(replies[1])
             THEN /\ Ctl!EndAsk(replies[1].ok, replies[1].link)
                  /\ taken' = <<ask.what, replies[1].what>>
             ELSE Ctl!NothingYet /\ UNCHANGED taken
        BY <1>4, <2>1 DEF Ctl!Poll
    <2>3. CASE ~Ctl!IsAnswer(replies[1])
        BY <1>1, <1>4, <2>2, <2>3, NothingYetKeepsCtl
    <2>4. CASE Ctl!IsAnswer(replies[1])
        <3>1. PICK r : r = replies[1]
            OBVIOUS
        <3>2. r \in Reply /\ OnItsWay(r) /\ r.type = ask.type /\ r.id = ask.id /\ Follows(ctlLink, r)
            BY <1>4, <2>1, <2>4, <3>1, ElementIs DEF CtlInv, CtlShape, QueuesFit, LinksFollow, Ctl!IsAnswer
        <3>3. r.what = ask.what
            BY <1>1, <3>2 DEF OnItsWay
        <3>4. taken'[1] = taken'[2]
            BY <2>2, <2>4, <3>1, <3>3
        <3>5. /\ ask' = Ctl!NoAsk
              /\ cPc' \in {"init", "mac", "frame"} => cPc \in {"init", "mac", "frame"}
              /\ cPc' = "status" => cPc = "frame"
              /\ cPc' = "speed" => cPc = "status"
              /\ cPc = "status" <=> ask.what = "status"
              /\ connected' = IF cPc # "status" THEN connected
                              ELSE IF ctlLink' # "unknown" THEN ctlLink'
                              ELSE IF r.ok THEN r.link ELSE connected
            BY <1>1, <2>2, <2>4, <3>1, AskEnds
        <3>6. cPc \in Early => connected = "unknown" /\ heard = ctlLink
            BY <1>1 DEF CtlInv, PlainFits, LinkShown
        <3>7. /\ heard' = IF r.type = "indicate" \/ (r.what = "status" /\ r.ok) THEN r.link ELSE heard
              /\ ctlLink' = IF r.type = "indicate" THEN r.link ELSE ctlLink
            BY <2>2, <3>1
        <3>8. LinkShown'
            <4>1. cPc' \in Early => connected' = "unknown" /\ heard' = ctlLink'
                <5>1. cPc' \in Early => cPc \in Early /\ cPc # "status"
                    BY <3>5 DEF Early
                <5> QED  BY <3>3, <3>5, <3>6, <3>7, <5>1
            <4>2. cPc' = "speed" => connected' = heard'
                <5>1. cPc = "status" => r.what = "status" /\ r.type # "indicate" /\ cPc \in Early
                    BY <1>1, <3>2, <3>3, <3>5 DEF CtlInv, QueuesFit, Early
                <5>2. cPc = "status" => ctlLink' = ctlLink /\ ctlLink \in {"unknown", r.link}
                    BY <3>2, <3>7, <5>1 DEF Follows
                <5> QED  BY <3>5, <3>6, <3>7, <5>1, <5>2
            <4> QED  BY <4>1, <4>2 DEF LinkShown
        <3> QED  BY <1>1, <1>4, <2>2, <3>4, <3>5, <3>8, RoundKeepsCtl
    <2> QED  BY <2>3, <2>4
<1> QED  BY <1>2, <1>3, <1>4

\* The steps of open_interface(), set_filter() and close().
LEMMA StepKeepsCtl ==
    ASSUME CtlInv,
           \/ Ctl!RndisStep \/ Ctl!Close \/ Ctl!Halt
           \/ \E ok \in BOOLEAN : Ctl!CdcStep(ok) \/ Ctl!StartStreaming(ok) \/ Ctl!SetPromiscuous(ok)
           \/ \E link \in {"up", "down"} : Ctl!Notified(link)
    PROVE  CtlInv'
<1>1. CASE Ctl!RndisStep
    <2>1. PICK what : what = IF cPc = "filter" THEN "directed" ELSE cPc
        OBVIOUS
    <2>2. /\ cKind = "Rndis" /\ ask = Ctl!NoAsk /\ Ctl!Ask(what)
          /\ cPc \in {"init", "mac", "frame", "status", "speed", "filter"}
          /\ UNCHANGED <<cKind, cPc, ctlLink, connected, replies, up, heard, taken>>
        BY <1>1, <2>1 DEF Ctl!RndisStep, Ctl!opening
    <2>3. /\ what \in Whats \ {"none"}
          /\ \/ cPc \in Questions /\ cPc' = cPc /\ what = cPc
             \/ cPc' \notin Questions /\ what \notin Questions
        BY <2>1, <2>2 DEF Whats, Questions
    <2> QED  BY <2>2, <2>3, AskKeepsCtl
<1>2. CASE Ctl!Halt
    BY <1>2, PlainKeepsCtl DEF Ctl!Halt, Ctl!opening, Questions
<1>3. CASE Ctl!Close
    <2>1. /\ cPc = "open" /\ ask = Ctl!NoAsk
          /\ UNCHANGED <<cKind, ctlLink, connected, replies, up, heard, taken>>
        BY <1>3 DEF Ctl!Close, Ctl!opening
    <2>2. CASE cKind = "Rndis"
        <3>1. cPc' = "close" /\ Ctl!Ask("off") /\ "off" \in Whats \ {"none"}
            BY <1>3, <2>2 DEF Ctl!Close, Whats, Questions
        <3>2. cPc' \notin Questions /\ "off" \notin Questions
            BY <3>1 DEF Questions
        <3> QED  BY <2>1, <2>2, <3>1, <3>2, AskKeepsCtl
    <2>3. CASE cKind # "Rndis"
        <3>1. cPc' = "closed" /\ UNCHANGED <<ask, nextId, owed>>
            BY <1>3, <2>3 DEF Ctl!Close
        <3> QED  BY <2>1, <2>3, <3>1, PlainKeepsCtl
    <2> QED  BY <2>2, <2>3
<1>4. ASSUME NEW ok \in BOOLEAN, Ctl!CdcStep(ok) PROVE CtlInv'
    <2>1. /\ cKind # "Rndis" /\ UNCHANGED <<cKind, ask, nextId, owed, replies, up, ctlLink, taken>>
          /\ cPc \in {"reset", "params", "size", "mac", "filter"}
          /\ cPc' \in {Ctl!CdcThen, "failed"}
        BY <1>4 DEF Ctl!CdcStep, Ctl!device
    <2>2. Ctl!CdcThen # "speed"
        BY <2>1 DEF Ctl!CdcThen
    <2> QED  BY <2>1, <2>2, PlainKeepsCtl
<1>5. ASSUME NEW ok \in BOOLEAN, Ctl!StartStreaming(ok) PROVE CtlInv'
    <2>1. ask = Ctl!NoAsk /\ UNCHANGED <<cKind, ctlLink, connected, replies, up, heard, taken>>
        BY <1>5 DEF Ctl!StartStreaming
    <2>2. CASE cPc' = (IF ok THEN "open" ELSE "failed") /\ UNCHANGED <<ask, nextId, owed>>
        <3>1. cPc' \notin Questions
            BY <2>2 DEF Questions
        <3> QED  BY <2>1, <2>2, <3>1, PlainKeepsCtl
    <2>3. CASE cKind = "Rndis" /\ cPc' = "close" /\ Ctl!Ask("off")
        <3>1. cPc' \notin Questions /\ "off" \notin Questions /\ "off" \in Whats \ {"none"}
            BY <2>3 DEF Questions, Whats
        <3> QED  BY <2>1, <2>3, <3>1, AskKeepsCtl
    <2> QED  BY <1>5, <2>2, <2>3 DEF Ctl!StartStreaming
<1>6. ASSUME NEW on \in BOOLEAN, Ctl!SetPromiscuous(on) PROVE CtlInv'
    <2>1. PICK what : what = IF on THEN "promiscuous" ELSE "directed"
        OBVIOUS
    <2>2. /\ cPc = "open" /\ ask = Ctl!NoAsk
          /\ UNCHANGED <<cKind, cPc, ctlLink, connected, replies, up, heard, taken>>
          /\ IF cKind = "Rndis" THEN Ctl!Ask(what) ELSE UNCHANGED <<ask, nextId, owed>>
        BY <1>6, <2>1 DEF Ctl!SetPromiscuous, Ctl!opening
    <2>3. cPc' \notin Questions /\ what \notin Questions /\ what \in Whats \ {"none"}
        BY <2>1, <2>2 DEF Questions, Whats
    <2>4. CASE cKind = "Rndis"
        BY <2>2, <2>3, <2>4, AskKeepsCtl
    <2>5. CASE cKind # "Rndis"
        BY <2>2, <2>3, <2>5, PlainKeepsCtl
    <2> QED  BY <2>4, <2>5
<1>7. ASSUME NEW link, Ctl!Notified(link) PROVE CtlInv'
    <2>1. /\ cKind # "Rndis" /\ cPc' = cPc /\ cPc = "open"
          /\ UNCHANGED <<cKind, ask, nextId, owed, replies, up, ctlLink, taken>>
        BY <1>7 DEF Ctl!Notified, Ctl!opening, Ctl!device
    <2> QED  BY <2>1, PlainKeepsCtl
<1> QED  BY <1>1, <1>2, <1>3, <1>4, <1>5, <1>6, <1>7

\* The device's steps send a reply.
LEMMA SendsKeepCtl ==
    ASSUME CtlInv,
           \/ \E ok \in BOOLEAN : Ctl!DeviceAnswers(ok)
           \/ \E type \in {"indicate", "keepalive"} : Ctl!DeviceSpeaks(type)
    PROVE  CtlInv'
<1>1. ASSUME NEW ok \in BOOLEAN, Ctl!DeviceAnswers(ok) PROVE CtlInv'
    <2>1. PICK c : c = Head(owed)
        OBVIOUS
    <2>2. PICK r : r = [type |-> c.type, what |-> c.what, id |-> c.id, ok |-> ok, link |-> up]
        OBVIOUS
    <2>3. owed # <<>> /\ replies' = Append(replies, r) /\ up' = up
        BY <1>1, <2>1, <2>2 DEF Ctl!DeviceAnswers
    <2>4. c \in Command
        BY <2>1, <2>3, TailIs DEF CtlInv, CtlShape
    <2>5. /\ r \in Reply /\ r.link = up /\ r.type = c.type /\ r.what = c.what /\ r.id = c.id
          /\ r.ok = ok
        BY <2>2, <2>4 DEF Command, Reply, CtlInv, CtlShape
    <2>6. Ctl!DeviceAnswers(r.ok)
        BY <1>1, <2>5
    <2> QED  BY <2>1, <2>3, <2>5, <2>6, DeviceKeepsCtl
<1>2. ASSUME NEW type \in {"indicate", "keepalive"}, Ctl!DeviceSpeaks(type) PROVE CtlInv'
    <2>1. PICK w : w = up'
        OBVIOUS
    <2>2. PICK r : r = [type |-> type, what |-> "none", id |-> 0, ok |-> TRUE, link |-> w]
        OBVIOUS
    <2>3. replies' = Append(replies, r) /\ w \in {"up", "down"}
        BY <1>2, <2>1, <2>2 DEF Ctl!DeviceSpeaks, CtlInv, CtlShape
    <2>4. r \in Reply /\ r.link = w /\ r.type = type /\ r.what = "none" /\ r.id = 0
        BY <2>2, <2>3 DEF Reply, Types, Whats
    <2>5. Ctl!DeviceSpeaks(r.type)
        BY <1>2, <2>4
    <2> QED  BY <2>1, <2>3, <2>4, <2>5, DeviceKeepsCtl
<1> QED  BY <1>1, <1>2

\* Nothing has been asked at first.
LEMMA CtlInitInv ==
    ASSUME Ctl!Init
    PROVE  CtlInv
<1>1. /\ ask = Ctl!NoAsk /\ nextId = 1 /\ owed = <<>> /\ replies = <<>> /\ up \in {"up", "down"}
      /\ ctlLink = "unknown" /\ connected = "unknown" /\ heard = "unknown"
      /\ taken = <<"none", "none">> /\ cPc \in {"init", "reset"}
    BY DEF Ctl!Init
<1>2. Len(owed) = 0 /\ Len(replies) = 0
    BY <1>1
<1>3. CtlShape
    BY <1>1 DEF CtlShape, Ctl!NoAsk, Question, Types, Whats
<1>4. PlainFits /\ AskFits /\ LinkShown /\ taken[1] = taken[2]
    BY <1>1 DEF PlainFits, AskFits, LinkShown
<1>5. QueuesFit /\ LinksFollow
    BY <1>1, <1>2 DEF QueuesFit, LinksFollow
<1> QED  BY <1>3, <1>4, <1>5 DEF CtlInv

\* A step of MCClasses while the control channel is the part at hand is one of it.
LEMMA CtlMoves == part = "control" /\ [Next]_vars => [Ctl!Next]_(Ctl!vars)
<1> SUFFICES ASSUME part = "control", [Next]_vars PROVE [Ctl!Next]_(Ctl!vars)
    OBVIOUS
<1>1. CASE UNCHANGED vars
    BY <1>1 DEF vars, networkVars, ctlVars, Ctl!vars
<1>2. CASE Next
    <2>1. NetworkNext \/ UNCHANGED networkVars
        BY <1>2 DEF Next
    <2>2. CASE NetworkNext
        BY <2>2 DEF NetworkNext
    <2>3. CASE UNCHANGED networkVars
        BY <2>3 DEF networkVars, ctlVars, Ctl!vars
    <2> QED  BY <2>1, <2>2, <2>3
<1> QED  BY <1>1, <1>2

\* The invariant holds throughout, whenever the part at hand is the control channel.
LEMMA CtlInvariant == Spec => [](part = "control" => CtlInv)
<1>1. Init => (part = "control" => CtlInv)
    BY CtlInitInv DEF Init
<1>2. (part = "control" => CtlInv) /\ [Next]_vars => (part = "control" => CtlInv)'
    <2>1. ASSUME part = "control", CtlInv, [Next]_vars PROVE CtlInv'
        <3>1. [Ctl!Next]_(Ctl!vars)
            BY <2>1, CtlMoves
        <3>2. CASE UNCHANGED Ctl!vars
            <4>1. UNCHANGED <<cKind, cPc, ask, nextId, owed, replies, up, ctlLink, connected, heard, taken>>
                BY <3>2 DEF Ctl!vars
            <4>2. (CtlShape /\ PlainFits /\ AskFits /\ LinkShown /\ LinksFollow)'
                BY <2>1, <4>1 DEF CtlInv, CtlShape, PlainFits, AskFits, LinkShown, LinksFollow, Follows
            <4>3. QueuesFit'
                BY <2>1, <4>1 DEF CtlInv, QueuesFit, OnItsWay
            <4> QED  BY <2>1, <4>1, <4>2, <4>3 DEF CtlInv
        <3>3. CASE Ctl!Next
            BY <2>1, <3>3, PollKeepsCtl, StepKeepsCtl, SendsKeepCtl DEF Ctl!Next
        <3> QED  BY <3>1, <3>2, <3>3
    <2>2. ASSUME part # "control", [Next]_vars PROVE part' # "control"
        BY <2>2 DEF Next, vars
    <2> QED  BY <2>1, <2>2
<1> QED  BY <1>1, <1>2, PTL DEF Spec

\* exchange() and open_interface(), however often it polls and however late the
\* device answers: what is taken for an answer is an answer to this question, and
\* the link shown once it was asked for is that of the last report read.
THEOREM AnswersAlwaysCurrent == Spec => []AnswersAreCurrent
<1>1. (part = "control" => CtlInv) => AnswersAreCurrent
    BY DEF CtlInv, LinkShown, AnswersAreCurrent, Ctl!AnswersAreCurrent
<1> QED  BY <1>1, CtlInvariant, PTL

(* The serial port *)

LineCall == [op : {"lines", "storeLines"}, line : {"dtr", "rts"}, dtr : BOOLEAN, rts : BOOLEAN]
ConfigCall == [op : {"coding", "baud", "data", "storeLine"}, config : Serial!Configs]
BreakCall == [op : {"break"}, on : BOOLEAN, word : {5, 8}]
BulkCall == [op : {"bulk"}, n : Nat, raw : Seq(Nat)]
TakeCall == [op : {"idle", "take"}]
SerialCall == LineCall \cup ConfigCall \cup BreakCall \cup BulkCall \cup TakeCall

SerialCache == [line : Serial!Configs \cup {Serial!NoLine}, dtr : BOOLEAN, rts : BOOLEAN, word : {5, 8}]
SerialDevice == [baud : {0, 1, 2}, bits : {5, 8}, dtr : BOOLEAN, rts : BOOLEAN, brk : BOOLEAN]
Lines == [dtr : BOOLEAN, rts : BOOLEAN]

SerialShape ==
    /\ kind \in {"acm", "ftdi"}
    /\ st \in SerialCache /\ sDev \in SerialDevice /\ asked \in Lines
    /\ sCall \in [Callers -> SerialCall]
    /\ contended \in BOOLEAN /\ failed \in Nat

Calm == ~contended /\ failed = 0

\* The cache and the device while k is the only control call, at the step it is at.
CallFits(k) ==
    /\ k.op # "storeLines" => sDev.dtr = st.dtr /\ sDev.rts = st.rts
    /\ k.op = "storeLines" => sDev.dtr = k.dtr /\ sDev.rts = k.rts
    /\ k.op = "lines" => (k.line = "rts" => k.dtr = st.dtr) /\ (k.line = "dtr" => k.rts = st.rts)
    /\ k.op = "break" => k.word = st.word
    /\ k.op \in {"baud", "data"} => kind = "ftdi"
    /\ k.op = "coding" => kind = "acm"
    /\ kind = "ftdi" /\ k.op \in {"baud", "data", "storeLine"} => st.word = k.config.bits
    /\ k.op \in {"data", "storeLine"} => sDev.baud = k.config.baud
    /\ k.op = "storeLine" => sDev.bits = k.config.bits
    /\ kind = "ftdi" /\ k.op \notin {"baud", "data"} => sDev.bits = st.word
    /\ st.line # Serial!NoLine =>
          /\ k.op \notin {"data", "storeLine"} => sDev.baud = st.line.baud
          /\ kind = "acm" /\ k.op # "storeLine" => sDev.bits = st.line.bits
          /\ kind = "ftdi" /\ k.op \notin {"baud", "data", "storeLine"} => st.line.bits = st.word

LinesAsAsked == sDev.dtr = asked.dtr /\ sDev.rts = asked.rts

ControlFits ==
    /\ kind = "ftdi" => LinesAsAsked
    /\ Calm =>
        /\ LinesAsAsked
        /\ \A c \in Callers : sCall[c].op \in Serial!Control => CallFits(sCall[c])
        /\ \A c, d \in Callers :
              sCall[c].op \in Serial!Control /\ sCall[d].op \in Serial!Control => c = d
        /\ Serial!Quiet => CallFits(Serial!Idle)

\* Bytes below n, in the order they were sent in, each one once.
Rising(s, n) ==
    /\ s \in Seq(1..(n - 1))
    /\ \A i, j \in 1..Len(s) : i < j => s[i] < s[j]

ByteIn(b, s) == \E i \in 1..Len(s) : s[i] = b

\* The bytes the host has taken in are those kept, those lost, and those of the
\* one transfer under way, which is the lock's, begun with the buffer empty.
BytesFit ==
    /\ next \in Nat \ {0} /\ sRx \in Seq(Nat) /\ got \in Seq(Nat)
    /\ Rising(got \o sRx, next)
    /\ sDropped \subseteq 1..(next - 1)
    /\ \A c \in Callers : sCall[c].op = "bulk" =>
          rxOwner = c /\ sRx = <<>> /\ Rising(got \o sCall[c].raw, next)
    /\ \A b \in 1..(next - 1) :
          \/ ByteIn(b, got \o sRx) \/ b \in sDropped
          \/ \E c \in Callers : sCall[c].op = "bulk" /\ ByteIn(b, sCall[c].raw)
    /\ unreported = latch /\ latch \in BOOLEAN

SerialInv == SerialShape /\ ControlFits /\ BytesFit

-----------------------------------------------------------------------------

\* A step of MCClasses while a serial port is the part at hand is a step of it.
LEMMA SerialMoves == part = "serial" /\ [Next]_vars => [Serial!Next]_(Serial!vars)
<1> SUFFICES ASSUME part = "serial", [Next]_vars PROVE [Serial!Next]_(Serial!vars)
    OBVIOUS
<1> USE DEF dataVars, serialVars, Serial!vars, Serial!data, Serial!ghosts
<1>1. CASE UNCHANGED vars
    BY <1>1 DEF vars
<1>2. CASE Next
    <2>1. DataNext \/ UNCHANGED dataVars
        BY <1>2 DEF Next
    <2>2. CASE DataNext
        BY <2>2 DEF DataNext
    <2>3. CASE UNCHANGED dataVars
        BY <2>3
    <2> QED  BY <2>1, <2>2, <2>3
<1> QED  BY <1>1, <1>2

\* What kind of call a call at some step is.
LEMMA SerialCallIs ==
    ASSUME NEW k \in SerialCall
    PROVE  /\ k.op \in {"lines", "storeLines"} => k \in LineCall
           /\ k.op \in {"coding", "baud", "data", "storeLine"} => k \in ConfigCall
           /\ k.op = "break" => k \in BreakCall
           /\ k.op = "bulk" => k \in BulkCall
           /\ k.op \in Serial!Control => k \in LineCall \cup ConfigCall \cup BreakCall
           /\ k.op \in Serial!Control <=> k.op \notin {"idle", "take", "bulk"}
<1>1. k \in LineCall => k.op \in {"lines", "storeLines"}
    BY DEF LineCall
<1>2. k \in ConfigCall => k.op \in {"coding", "baud", "data", "storeLine"}
    BY DEF ConfigCall
<1>3. k \in BreakCall => k.op = "break"
    BY DEF BreakCall
<1>4. k \in BulkCall => k.op = "bulk"
    BY DEF BulkCall
<1>5. k \in TakeCall => k.op \in {"idle", "take"}
    BY DEF TakeCall
<1> QED  BY <1>1, <1>2, <1>3, <1>4, <1>5 DEF SerialCall, Serial!Control

\* The call of one thread is another one.
LEMMA OneSerialCall ==
    ASSUME sCall \in [Callers -> SerialCall], NEW t \in Callers, NEW k \in SerialCall,
           sCall' = [sCall EXCEPT ![t] = k]
    PROVE  /\ sCall' \in [Callers -> SerialCall]
           /\ sCall'[t] = k /\ \A c \in Callers \ {t} : sCall'[c] = sCall[c]
OBVIOUS

\* A step that touches neither the settings nor a control call.
LEMMA ControlLeftAlone ==
    ASSUME SerialShape, ControlFits, UNCHANGED <<kind, st, sDev, asked, contended, failed>>,
           \/ UNCHANGED sCall
           \/ \E t \in Callers, k \in SerialCall :
                 /\ sCall' = [sCall EXCEPT ![t] = k]
                 /\ sCall[t].op \notin Serial!Control /\ k.op \notin Serial!Control
    PROVE  SerialShape' /\ ControlFits'
<1>1. CASE UNCHANGED sCall
    BY <1>1 DEF SerialShape, ControlFits, CallFits, LinesAsAsked, Calm, Serial!Quiet
<1>2. ASSUME NEW t \in Callers, NEW k \in SerialCall, sCall' = [sCall EXCEPT ![t] = k],
             sCall[t].op \notin Serial!Control, k.op \notin Serial!Control
      PROVE  SerialShape' /\ ControlFits'
    <2>1. /\ sCall' \in [Callers -> SerialCall]
          /\ sCall'[t] = k /\ \A c \in Callers \ {t} : sCall'[c] = sCall[c]
        BY <1>2, OneSerialCall DEF SerialShape
    <2>2. SerialShape'
        BY <2>1 DEF SerialShape
    <2>3. \A c \in Callers : sCall'[c].op \in Serial!Control =>
              c # t /\ sCall'[c] = sCall[c] /\ sCall[c].op \in Serial!Control
        BY <1>2, <2>1
    <2>4. Serial!Quiet' => Serial!Quiet
        BY <1>2, <2>1 DEF Serial!Quiet
    <2>5. Calm' => Calm
        BY DEF Calm
    <2>6. LinesAsAsked' <=> LinesAsAsked
        BY DEF LinesAsAsked
    <2>7. \A c \in Callers : sCall'[c].op \in Serial!Control /\ CallFits(sCall[c]) => CallFits(sCall[c])'
        <3>1. ASSUME NEW c \in Callers, sCall'[c].op \in Serial!Control, CallFits(sCall[c])
              PROVE  CallFits(sCall[c])'
            BY <2>3, <3>1 DEF CallFits
        <3> QED  BY <3>1
    <2>8. CallFits(Serial!Idle) => CallFits(Serial!Idle)'
        BY DEF CallFits
    <2> QED  BY <2>2, <2>3, <2>4, <2>5, <2>6, <2>7, <2>8 DEF ControlFits
<1> QED  BY <1>1, <1>2

\* A step that touches neither bytes nor a read.
LEMMA BytesLeftAlone ==
    ASSUME SerialShape, BytesFit, UNCHANGED <<next, sRx, got, sDropped, rxOwner>>,
           unreported' = latch', latch' \in BOOLEAN,
           \/ UNCHANGED sCall
           \/ \E t \in Callers, k \in SerialCall :
                 sCall' = [sCall EXCEPT ![t] = k] /\ sCall[t].op # "bulk" /\ k.op # "bulk"
    PROVE  BytesFit'
<1>1. CASE UNCHANGED sCall
    BY <1>1 DEF BytesFit
<1>2. ASSUME NEW t \in Callers, NEW k \in SerialCall, sCall' = [sCall EXCEPT ![t] = k],
             sCall[t].op # "bulk", k.op # "bulk"
      PROVE  BytesFit'
    <2>1. sCall'[t] = k /\ \A c \in Callers \ {t} : sCall'[c] = sCall[c]
        BY <1>2, OneSerialCall DEF SerialShape
    <2>2. \A c \in Callers : (sCall'[c].op = "bulk" <=> sCall[c].op = "bulk")
                             /\ (sCall[c].op = "bulk" => sCall'[c] = sCall[c])
        BY <1>2, <2>1
    <2>3. \A c \in Callers : sCall'[c].op = "bulk" =>
              rxOwner' = c /\ sRx' = <<>> /\ Rising(got' \o sCall'[c].raw, next') /\ sCall'[c] = sCall[c]
        BY <2>2 DEF BytesFit
    <2>4. \A b \in 1..(next - 1) :
              \/ ByteIn(b, got \o sRx) \/ b \in sDropped
              \/ \E c \in Callers : sCall'[c].op = "bulk" /\ ByteIn(b, sCall'[c].raw)
        BY <2>2 DEF BytesFit
    <2> QED  BY <2>3, <2>4 DEF BytesFit
<1> QED  BY <1>1, <1>2

\* SequencesExt!ToSet is the same operator for the port.
LEMMA BytesOf ==
    ASSUME NEW s \in Seq(Nat), NEW b
    PROVE  b \in Serial!ToSet(s) <=> ByteIn(b, s)
<1>1. DOMAIN s = 1..Len(s)
    OBVIOUS
<1> QED  BY <1>1 DEF Serial!ToSet, ByteIn

LEMMA ConcatBytes ==
    ASSUME NEW s \in Seq(Nat), NEW u \in Seq(Nat), NEW b
    PROVE  ByteIn(b, s \o u) <=> ByteIn(b, s) \/ ByteIn(b, u)
<1> USE ConcatProperties, LenProperties
<1>1. ASSUME NEW i \in 1..Len(s), s[i] = b PROVE ByteIn(b, s \o u)
    <2>1. i \in 1..Len(s \o u) /\ (s \o u)[i] = b
        BY <1>1
    <2> QED  BY <2>1 DEF ByteIn
<1>2. ASSUME NEW i \in 1..Len(u), u[i] = b PROVE ByteIn(b, s \o u)
    <2>1. i + Len(s) \in 1..Len(s \o u) /\ (s \o u)[i + Len(s)] = b
        BY <1>2
    <2> QED  BY <2>1 DEF ByteIn
<1>3. ASSUME NEW i \in 1..Len(s \o u), (s \o u)[i] = b PROVE ByteIn(b, s) \/ ByteIn(b, u)
    <2>1. CASE i <= Len(s)
        <3>1. i \in 1..Len(s) /\ s[i] = b
            BY <1>3, <2>1
        <3> QED  BY <3>1 DEF ByteIn
    <2>2. CASE i > Len(s)
        <3>1. i - Len(s) \in 1..Len(u) /\ u[i - Len(s)] = b
            BY <1>3, <2>2
        <3> QED  BY <3>1 DEF ByteIn
    <2> QED  BY <2>1, <2>2
<1> QED  BY <1>1, <1>2, <1>3 DEF ByteIn

LEMMA SeqInto ==
    ASSUME NEW S, NEW T, NEW s \in Seq(S), \A i \in 1..Len(s) : s[i] \in T
    PROVE  s \in Seq(T)
<1>1. s \in [1..Len(s) -> T] /\ Len(s) \in Nat
    BY LenProperties
<1> QED  BY <1>1, SeqDef

\* The front of what is in order is in order, and so is the next byte after it.
LEMMA RisingFront ==
    ASSUME NEW n \in Nat, NEW s \in Seq(Nat), NEW u \in Seq(Nat), Rising(s \o u, n)
    PROVE  Rising(s, n)
<1> USE ConcatProperties, LenProperties
<1>1. \A i \in 1..Len(s) : i \in 1..Len(s \o u) /\ s[i] = (s \o u)[i]
    OBVIOUS
<1>2. \A i \in 1..Len(s) : s[i] \in 1..(n - 1)
    BY <1>1, ElementOfSeq DEF Rising
<1>3. s \in Seq(1..(n - 1))
    BY <1>2, SeqInto
<1>4. \A i, j \in 1..Len(s) : i < j => s[i] < s[j]
    BY <1>1 DEF Rising
<1> QED  BY <1>3, <1>4 DEF Rising

LEMMA RisingMore ==
    ASSUME NEW n \in Nat \ {0}, NEW s, Rising(s, n)
    PROVE  Rising(s, n + 1)
<1>1. s \in Seq(1..(n + 1 - 1))
    BY SeqMonotonic DEF Rising
<1> QED  BY <1>1 DEF Rising

LEMMA RisingAppend ==
    ASSUME NEW n \in Nat \ {0}, NEW s \in Seq(Nat), NEW u \in Seq(Nat), Rising(s \o u, n)
    PROVE  /\ Rising(s \o Append(u, n), n + 1)
           /\ Append(u, n) \in Seq(Nat) /\ ByteIn(n, Append(u, n))
           /\ \A b : ByteIn(b, u) => ByteIn(b, Append(u, n))
<1> DEFINE w == s \o u
           v == s \o Append(u, n)
<1>1. Append(u, n) \in Seq(Nat) /\ Len(Append(u, n)) = Len(u) + 1 /\ Len(u) \in Nat /\ Len(s) \in Nat
    BY AppendProperties, LenProperties
<1>2. Append(u, n)[Len(u) + 1] = n /\ \A i \in 1..Len(u) : Append(u, n)[i] = u[i]
    BY AppendProperties, LenProperties
<1>3. /\ Len(w) \in Nat /\ Len(v) = Len(w) + 1 /\ v \in Seq(Nat)
      /\ v[Len(w) + 1] = n /\ \A i \in 1..Len(w) : v[i] = w[i]
    <2>1. Len(w) = Len(s) + Len(u) /\ w \in Seq(Nat)
        BY ConcatProperties
    <2>2. Len(v) = Len(s) + (Len(u) + 1) /\ v \in Seq(Nat)
        BY <1>1, ConcatProperties
    <2>3. v[Len(w) + 1] = n
        BY <1>1, <1>2, <2>1, <2>2, ConcatProperties
    <2>4. ASSUME NEW i \in 1..Len(w) PROVE v[i] = w[i]
        <3>1. CASE i <= Len(s)
            BY <1>1, <2>1, <3>1, ConcatProperties
        <3>2. CASE i > Len(s)
            <4>1. i - Len(s) \in 1..Len(u)
                BY <1>1, <2>1, <3>2
            <4>2. v[i] = Append(u, n)[i - Len(s)] /\ w[i] = u[i - Len(s)]
                BY <1>1, <2>1, <3>2, <4>1, ConcatProperties
            <4> QED  BY <1>2, <4>1, <4>2
        <3> QED  BY <1>1, <2>1, <3>1, <3>2
    <2> QED  BY <1>1, <2>1, <2>2, <2>3, <2>4
<1> HIDE DEF v, w
<1>4. \A i \in 1..Len(w) : w[i] \in 1..(n - 1)
    BY ElementOfSeq DEF Rising, w
<1>5. ASSUME NEW i \in 1..Len(v) PROVE v[i] \in 1..n
    <2>1. CASE i \in 1..Len(w)
        <3>1. v[i] = w[i] /\ w[i] \in 1..(n - 1)
            BY <1>3, <1>4, <2>1
        <3> QED  BY <3>1
    <2>2. CASE i = Len(w) + 1
        BY <1>3, <2>2
    <2> QED  BY <1>1, <1>3, <2>1, <2>2
<1>6. v \in Seq(1..(n + 1 - 1))
    <2>1. n + 1 - 1 = n /\ \A i \in 1..Len(v) : v[i] \in 1..n
        BY <1>5
    <2> QED  BY <1>3, <2>1, SeqInto
<1>7. ASSUME NEW i \in 1..Len(v), NEW j \in 1..Len(v), i < j PROVE v[i] < v[j]
    <2>1. i \in 1..Len(w) /\ v[i] = w[i] /\ w[i] \in 1..(n - 1)
        BY <1>1, <1>3, <1>4, <1>7
    <2>2. CASE j = Len(w) + 1
        BY <1>3, <2>1, <2>2
    <2>3. CASE j # Len(w) + 1
        <3>1. j \in 1..Len(w)
            BY <1>3, <2>3
        <3>2. v[j] = w[j]
            BY <1>3, <3>1
        <3> QED  BY <1>7, <2>1, <3>1, <3>2 DEF Rising, w
    <2> QED  BY <2>2, <2>3
<1>8. Rising(v, n + 1)
    BY <1>6, <1>7 DEF Rising
<1>9. ByteIn(n, Append(u, n)) /\ \A b : ByteIn(b, u) => ByteIn(b, Append(u, n))
    BY <1>1, <1>2 DEF ByteIn
<1> QED  BY <1>1, <1>8, <1>9 DEF v

\* Taking from the front of u to the end of s changes nothing in the whole.
LEMMA MoveOver ==
    ASSUME NEW S, NEW s \in Seq(S), NEW u \in Seq(S), NEW k \in 0..Len(u)
    PROVE  /\ s \o SubSeq(u, 1, k) \in Seq(S) /\ SubSeq(u, k + 1, Len(u)) \in Seq(S)
           /\ (s \o SubSeq(u, 1, k)) \o SubSeq(u, k + 1, Len(u)) = s \o u
<1>1. k \in Nat /\ Len(u) \in Nat /\ k <= Len(u)
    BY LenProperties
<1>2. PICK a \in Seq(S) : a = SubSeq(u, 1, k)
    <2>1. \A i \in 1..k : u[i] \in S
        BY <1>1, ElementOfSeq
    <2>2. 1 \in Int /\ k \in Int /\ k + 1 \in Int /\ Len(u) \in Int
        BY <1>1
    <2> QED  BY <2>1, <2>2, SubSeqProperties, Zenon
<1>3. PICK b \in Seq(S) : b = SubSeq(u, k + 1, Len(u))
    <2>1. \A i \in (k + 1)..Len(u) : u[i] \in S
        BY <1>1, ElementOfSeq
    <2>2. 1 \in Int /\ k \in Int /\ k + 1 \in Int /\ Len(u) \in Int
        BY <1>1
    <2> QED  BY <2>1, <2>2, SubSeqProperties, Zenon
<1>4. a \o b = u
    <2>1. 1 \in 1..Len(u) + 1 /\ k \in (1 - 1)..Len(u) /\ Len(u) \in k..Len(u)
        BY <1>1
    <2>2. SubSeq(u, 1, k) \o SubSeq(u, k + 1, Len(u)) = SubSeq(u, 1, Len(u))
        BY <2>1, ConcatAdjacentSubSeq, Zenon
    <2> QED  BY <1>2, <1>3, <2>2, SubSeqFull
<1>5. (s \o a) \o b = s \o (a \o b)
    BY ConcatAssociative, SMT
<1>6. s \o a \in Seq(S)
    BY ConcatProperties
<1> QED  BY <1>2, <1>3, <1>4, <1>5, <1>6, Zenon

\* drain() only moves bytes from the buffer's front to the end of what was read.
LEMMA DrainIs ==
    ASSUME got \in Seq(Nat), NEW bytes \in Seq(Nat), NEW n \in Nat, NEW t, Serial!Drain(t, n, bytes)
    PROVE  got' \in Seq(Nat) /\ sRx' \in Seq(Nat) /\ got' \o sRx' = got \o bytes
<1>1. PICK k : k = Serial!DrainN(n, bytes)
    OBVIOUS
<1>2. k \in 0..Len(bytes)
    BY <1>1, LenProperties DEF Serial!DrainN
<1>3. got' = got \o SubSeq(bytes, 1, k) /\ sRx' = SubSeq(bytes, k + 1, Len(bytes))
    BY <1>1 DEF Serial!Drain
<1> QED  BY <1>2, <1>3, MoveOver, Zenon

\* Nobody reads without the lock.
LEMMA OneReader ==
    ASSUME BytesFit
    PROVE  /\ rxOwner = "free" => \A c \in Callers : sCall[c].op # "bulk"
           /\ \A t \in Callers : sCall[t].op = "bulk" => \A c \in Callers \ {t} : sCall[c].op # "bulk"
BY ClassesAssumption DEF BytesFit

\* A step after which nobody is reading, and everything is kept or known as lost.
LEMMA BytesSettle ==
    ASSUME BytesFit, UNCHANGED next, \A c \in Callers : sCall'[c].op # "bulk",
           got' \in Seq(Nat), sRx' \in Seq(Nat), Rising(got' \o sRx', next),
           sDropped' \subseteq 1..(next - 1), unreported' = latch', latch' \in BOOLEAN,
           \A b \in 1..(next - 1) : ByteIn(b, got' \o sRx') \/ b \in sDropped'
    PROVE  BytesFit'
BY DEF BytesFit

\* A bulk read that ends leaves its thread idle.
LEMMA EndsIdle ==
    ASSUME SerialShape, NEW t \in Callers, sCall' = [sCall EXCEPT ![t] = Serial!Idle],
           \A c \in Callers \ {t} : sCall[c].op # "bulk"
    PROVE  /\ \A c \in Callers : sCall'[c].op # "bulk"
           /\ Serial!Idle \in SerialCall /\ Serial!Idle.op = "idle"
<1>1. Serial!Idle \in SerialCall /\ Serial!Idle.op = "idle"
    BY DEF Serial!Idle, SerialCall, TakeCall
<1>2. sCall'[t] = Serial!Idle /\ \A c \in Callers \ {t} : sCall'[c] = sCall[c]
    BY <1>1, OneSerialCall DEF SerialShape
<1> QED  BY <1>1, <1>2

\* read_with_timeout(): buffered bytes are taken, or the lock and a transfer.
LEMMA ReadKeeps ==
    ASSUME SerialInv, NEW t \in Callers, NEW n \in 1..2, Serial!ReadLocks(t, n)
    PROVE  SerialInv'
<1> USE DEF SerialInv
<1>1. /\ UNCHANGED <<kind, st, sDev, latch, next, sDropped, unreported, asked, contended, failed>>
      /\ sCall[t] = Serial!Idle /\ rxOwner = "free"
    BY DEF Serial!ReadLocks
<1>2. \A c \in Callers : sCall[c].op # "bulk"
    BY <1>1, OneReader
<1>3. Serial!Idle \in SerialCall /\ Serial!Idle.op = "idle"
    BY DEF Serial!Idle, SerialCall, TakeCall
<1>4. CASE sRx # <<>> /\ Serial!Drain(t, n, sRx)
    <2>1. sCall' = [sCall EXCEPT ![t] = Serial!Idle]
        BY <1>4 DEF Serial!Drain
    <2>2. got' \in Seq(Nat) /\ sRx' \in Seq(Nat) /\ got' \o sRx' = got \o sRx
        <3>1. PICK bytes : bytes = sRx
            OBVIOUS
        <3>2. Serial!Drain(t, n, bytes) /\ bytes \in Seq(Nat) /\ n \in Nat /\ got \in Seq(Nat)
            BY <1>4, <3>1 DEF BytesFit
        <3> QED  BY <3>1, <3>2, DrainIs
    <2>3. \A c \in Callers : sCall'[c].op # "bulk"
        BY <1>2, <2>1, EndsIdle
    <2>4. \A b \in 1..(next - 1) : ByteIn(b, got' \o sRx') \/ b \in sDropped'
        BY <1>1, <1>2, <2>2 DEF BytesFit
    <2>5. Rising(got' \o sRx', next) /\ sDropped' \subseteq 1..(next - 1)
          /\ unreported' = latch' /\ latch' \in BOOLEAN
        BY <1>1, <2>2 DEF BytesFit
    <2>6. BytesFit'
        BY <1>1, <2>2, <2>3, <2>4, <2>5, BytesSettle
    <2> QED  BY <1>1, <1>3, <2>1, <2>6, ControlLeftAlone DEF Serial!Control
<1>5. CASE /\ sRx = <<>> /\ rxOwner' = t /\ UNCHANGED <<sRx, got>>
           /\ sCall' = [sCall EXCEPT ![t] = [op |-> "bulk", n |-> n, raw |-> <<>>]]
    <2>1. PICK k : k = [op |-> "bulk", n |-> n, raw |-> <<>>]
        OBVIOUS
    <2>2. k \in SerialCall /\ k.op = "bulk" /\ k.raw = <<>>
        BY <2>1 DEF SerialCall, BulkCall
    <2>3. sCall'[t] = k /\ \A c \in Callers \ {t} : sCall'[c] = sCall[c]
        BY <1>5, <2>1, <2>2, OneSerialCall DEF SerialShape
    <2>4. Rising(got' \o <<>>, next)
        BY <1>5 DEF BytesFit
    <2>5. \A c \in Callers : sCall'[c].op = "bulk" => c = t
        BY <1>2, <2>3
    <2>6. \A b \in 1..(next - 1) : ByteIn(b, got' \o sRx') \/ b \in sDropped'
        BY <1>1, <1>2, <1>5 DEF BytesFit
    <2>7. BytesFit'
        BY <1>1, <1>5, <2>2, <2>3, <2>4, <2>5, <2>6 DEF BytesFit
    <2> QED  BY <1>1, <1>3, <1>5, <2>1, <2>2, <2>7, ControlLeftAlone DEF Serial!Control
<1> QED  BY <1>4, <1>5 DEF Serial!ReadLocks

\* A packet arrives in the transfer under way.
LEMMA PacketKeeps ==
    ASSUME SerialInv, NEW t \in Callers, Serial!Packet(t)
    PROVE  SerialInv'
<1> USE DEF SerialInv
<1>1. /\ UNCHANGED <<kind, st, sDev, sRx, rxOwner, latch, got, sDropped, unreported, asked, contended, failed>>
      /\ sCall[t].op = "bulk" /\ next' = next + 1
    BY DEF Serial!Packet, Serial!ghosts
<1>2. sCall[t] \in BulkCall /\ next \in Nat \ {0}
    BY <1>1, SerialCallIs DEF SerialShape, BytesFit
<1>3. PICK raw : raw = Append(sCall[t].raw, next)
    OBVIOUS
<1>4. /\ Rising(got \o raw, next + 1) /\ raw \in Seq(Nat) /\ ByteIn(next, raw)
      /\ \A b : ByteIn(b, sCall[t].raw) => ByteIn(b, raw)
    <2>1. got \in Seq(Nat) /\ sCall[t].raw \in Seq(Nat) /\ Rising(got \o sCall[t].raw, next)
        BY <1>1, <1>2 DEF BytesFit, BulkCall
    <2> QED  BY <1>2, <1>3, <2>1, RisingAppend
<1>5. PICK k : k = [sCall[t] EXCEPT !.raw = raw]
    OBVIOUS
<1>6. k \in BulkCall /\ k.op = "bulk" /\ k.raw = raw
    BY <1>2, <1>4, <1>5 DEF BulkCall
<1>7. sCall' = [sCall EXCEPT ![t] = k] /\ k \in SerialCall
    BY <1>3, <1>5, <1>6 DEF Serial!Packet, SerialShape, SerialCall
<1>8. sCall'[t] = k /\ \A c \in Callers \ {t} : sCall'[c] = sCall[c]
    BY <1>7, OneSerialCall DEF SerialShape
<1>9. \A c \in Callers \ {t} : sCall[c].op # "bulk"
    BY <1>1, OneReader
<1>10. BytesFit'
    <2>1. next' \in Nat \ {0} /\ Rising(got' \o sRx', next') /\ sDropped' \subseteq 1..(next' - 1)
        <3>1. Rising(got \o sRx, next + 1)
            BY <1>2, RisingMore DEF BytesFit
        <3>2. sDropped \subseteq 1..(next + 1 - 1)
            BY <1>2 DEF BytesFit
        <3> QED  BY <1>1, <1>2, <3>1, <3>2
    <2>2. \A c \in Callers : sCall'[c].op = "bulk" =>
              rxOwner' = c /\ sRx' = <<>> /\ Rising(got' \o sCall'[c].raw, next')
        <3>1. rxOwner = t /\ sRx = <<>>
            BY <1>1 DEF BytesFit
        <3> QED  BY <1>1, <1>4, <1>6, <1>8, <1>9, <3>1
    <2>3. ASSUME NEW b \in 1..(next' - 1)
          PROVE  \/ ByteIn(b, got' \o sRx') \/ b \in sDropped'
                 \/ \E c \in Callers : sCall'[c].op = "bulk" /\ ByteIn(b, sCall'[c].raw)
        <3>1. CASE b = next
            BY <1>4, <1>6, <1>8, <3>1
        <3>2. CASE b \in 1..(next - 1)
            <4>1. \/ ByteIn(b, got \o sRx) \/ b \in sDropped
                  \/ \E c \in Callers : sCall[c].op = "bulk" /\ ByteIn(b, sCall[c].raw)
                BY <3>2 DEF BytesFit
            <4>2. ASSUME NEW c \in Callers, sCall[c].op = "bulk", ByteIn(b, sCall[c].raw)
                  PROVE  sCall'[t].op = "bulk" /\ ByteIn(b, sCall'[t].raw)
                BY <1>4, <1>6, <1>8, <1>9, <4>2
            <4> QED  BY <1>1, <4>1, <4>2
        <3> QED  BY <1>1, <1>2, <3>1, <3>2
    <2> QED  BY <1>1, <2>1, <2>2, <2>3 DEF BytesFit
<1>11. sCall[t].op \notin Serial!Control /\ k.op \notin Serial!Control
    BY <1>1, <1>6 DEF Serial!Control
<1> QED  BY <1>1, <1>7, <1>10, <1>11, ControlLeftAlone

\* The transfer ends and its bytes are buffered, or there were none and it is
\* repeated; or it fails and its bytes are gone.
LEMMA BulkKeeps ==
    ASSUME SerialInv, NEW t \in Callers,
           \/ \E event \in BOOLEAN : Serial!BulkEnds(t, event)
           \/ \E why \in {"Timeout", "NoDevice"} : Serial!BulkFails(t, why)
    PROVE  SerialInv'
<1> USE DEF SerialInv
<1>1. /\ UNCHANGED <<kind, st, sDev, next, asked, contended, failed>>
      /\ sCall[t].op = "bulk"
    BY DEF Serial!BulkEnds, Serial!BulkFails
<1>2. PICK raw : raw = sCall[t].raw
    OBVIOUS
<1>3. /\ raw \in Seq(Nat) /\ got \in Seq(Nat) /\ sRx = <<>> /\ sCall[t].n \in Nat
      /\ Rising(got \o raw, next) /\ next \in Nat
    BY <1>1, <1>2, SerialCallIs DEF SerialShape, BytesFit, BulkCall
<1>4. \A c \in Callers \ {t} : sCall[c].op # "bulk"
    BY <1>1, OneReader
<1>5. \A b \in 1..(next - 1) : ByteIn(b, got) \/ ByteIn(b, raw) \/ b \in sDropped
    <2>1. \A b \in 1..(next - 1) : ByteIn(b, got \o sRx) \/ ByteIn(b, raw) \/ b \in sDropped
        BY <1>2, <1>4 DEF BytesFit
    <2>2. got \o sRx = got
        BY <1>3, ConcatEmptySeq
    <2> QED  BY <2>1, <2>2
<1>6. ASSUME sCall' = [sCall EXCEPT ![t] = Serial!Idle]
      PROVE  /\ \A c \in Callers : sCall'[c].op # "bulk"
             /\ SerialShape' /\ ControlFits'
    <2>1. \A c \in Callers : sCall'[c].op # "bulk" /\ Serial!Idle \in SerialCall /\ Serial!Idle.op = "idle"
        BY <1>4, <1>6, EndsIdle
    <2>2. sCall[t].op \notin Serial!Control /\ Serial!Idle.op \notin Serial!Control
        BY <1>1, <2>1 DEF Serial!Control
    <2> QED  BY <1>1, <1>6, <2>1, <2>2, ControlLeftAlone
<1>7. ASSUME NEW event \in BOOLEAN, Serial!BulkEnds(t, event)
      PROVE  SerialInv'
    <2>1. UNCHANGED sDropped /\ unreported' = latch' /\ latch' \in BOOLEAN
        BY <1>7 DEF Serial!BulkEnds, BytesFit
    <2>2. CASE UNCHANGED <<sRx, rxOwner, sCall, got>>
        BY <1>1, <2>1, <2>2, ControlLeftAlone, BytesLeftAlone
    <2>3. CASE Serial!Drain(t, sCall[t].n, sRx \o sCall[t].raw)
        <3>1. sRx \o sCall[t].raw = raw
            BY <1>2, <1>3, ConcatEmptySeq
        <3>2. PICK n \in Nat : n = sCall[t].n
            BY <1>3
        <3>3. Serial!Drain(t, n, raw)
            BY <2>3, <3>1, <3>2
        <3>4. got' \in Seq(Nat) /\ sRx' \in Seq(Nat) /\ got' \o sRx' = got \o raw
            BY <1>3, <3>2, <3>3, DrainIs
        <3>5. sCall' = [sCall EXCEPT ![t] = Serial!Idle]
            BY <3>3 DEF Serial!Drain
        <3>6. \A b \in 1..(next - 1) : ByteIn(b, got' \o sRx') \/ b \in sDropped'
            BY <1>3, <1>5, <2>1, <3>4, ConcatBytes
        <3>7. Rising(got' \o sRx', next) /\ sDropped' \subseteq 1..(next - 1)
            BY <1>3, <2>1, <3>4 DEF BytesFit
        <3> QED  BY <1>1, <1>6, <2>1, <3>4, <3>5, <3>6, <3>7, BytesSettle
    <2> QED  BY <1>7, <2>2, <2>3 DEF Serial!BulkEnds
<1>8. ASSUME NEW why \in {"Timeout", "NoDevice"}, Serial!BulkFails(t, why)
      PROVE  SerialInv'
    <2>1. /\ UNCHANGED <<sRx, got, latch, unreported>>
          /\ sCall' = [sCall EXCEPT ![t] = Serial!Idle]
          /\ sDropped' = sDropped \cup Serial!ToSet(raw)
        BY <1>2, <1>8 DEF Serial!BulkFails
    <2>2. got \o sRx = got
        BY <1>3, ConcatEmptySeq
    <2>3. \A b \in 1..(next - 1) : ByteIn(b, got' \o sRx') \/ b \in sDropped'
        BY <1>3, <1>5, <2>1, <2>2, BytesOf
    <2>4. \A b : ByteIn(b, raw) => b \in 1..(next - 1)
        <3>1. ASSUME NEW b, ByteIn(b, raw) PROVE b \in 1..(next - 1)
            <4>1. ByteIn(b, got \o raw)
                BY <1>3, <3>1, ConcatBytes
            <4> QED  BY <1>3, <4>1, ElementOfSeq DEF Rising, ByteIn
        <3> QED  BY <3>1
    <2>5. sDropped' \subseteq 1..(next - 1)
        BY <1>3, <2>1, <2>4, BytesOf DEF BytesFit
    <2>6. /\ got' \in Seq(Nat) /\ sRx' \in Seq(Nat) /\ Rising(got' \o sRx', next)
          /\ unreported' = latch' /\ latch' \in BOOLEAN
        BY <2>1 DEF BytesFit
    <2> QED  BY <1>1, <1>6, <2>1, <2>3, <2>5, <2>6, BytesSettle
<1> QED  BY <1>7, <1>8

\* purge(): what is buffered is thrown away.
LEMMA PurgeKeeps ==
    ASSUME SerialInv, NEW t \in Callers, Serial!Purge(t)
    PROVE  SerialInv'
<1> USE DEF SerialInv
<1>1. /\ UNCHANGED <<kind, st, sDev, sCall, next, got, latch, unreported, asked, contended, failed>>
      /\ sDropped' = sDropped \cup Serial!ToSet(sRx) /\ sRx' = <<>> /\ rxOwner = "free"
    BY DEF Serial!Purge
<1>2. SerialShape' /\ ControlFits'
    BY <1>1, ControlLeftAlone
<1>3. PICK old : old = sRx
    OBVIOUS
<1>4. PICK kept : kept = got
    OBVIOUS
<1>5. old \in Seq(Nat) /\ kept \in Seq(Nat) /\ next \in Nat /\ Rising(kept \o old, next)
    BY <1>3, <1>4 DEF BytesFit
<1>6. \A c \in Callers : sCall'[c].op # "bulk" /\ sCall[c].op # "bulk"
    BY <1>1, OneReader
<1>7. got' \o sRx' = kept
    BY <1>1, <1>4, <1>5, ConcatEmptySeq
<1>8. Rising(got' \o sRx', next)
    BY <1>5, <1>7, RisingFront
<1>9. sDropped' = sDropped \cup Serial!ToSet(old)
    BY <1>1, <1>3
<1>10. \A b \in 1..(next - 1) : ByteIn(b, got' \o sRx') \/ b \in sDropped'
    <2>1. \A b \in 1..(next - 1) : ByteIn(b, kept \o old) \/ b \in sDropped
        BY <1>3, <1>4, <1>6 DEF BytesFit
    <2> QED  BY <1>5, <1>7, <1>9, <2>1, ConcatBytes, BytesOf
<1>11. sDropped' \subseteq 1..(next - 1)
    <2>1. ASSUME NEW b, ByteIn(b, old) PROVE b \in 1..(next - 1)
        <3>1. ByteIn(b, kept \o old)
            BY <1>5, <2>1, ConcatBytes
        <3> QED  BY <1>5, <3>1, ElementOfSeq DEF Rising, ByteIn
    <2> QED  BY <1>5, <1>9, <2>1, BytesOf DEF BytesFit
<1>12. got' \in Seq(Nat) /\ sRx' \in Seq(Nat) /\ unreported' = latch' /\ latch' \in BOOLEAN
    BY <1>1 DEF BytesFit
<1> QED  BY <1>1, <1>2, <1>6, <1>8, <1>10, <1>11, <1>12, BytesSettle

\* Notifications and modem_status(): the latch, and who takes it.
LEMMA StatusKeeps ==
    ASSUME SerialInv,
           \/ \E event \in BOOLEAN : Serial!Notified(event)
           \/ \E t \in Callers, event \in BOOLEAN : Serial!ModemStatusAsk(t, event)
           \/ \E t \in Callers : Serial!TakeEvents(t)
    PROVE  SerialInv'
<1> USE DEF SerialInv
<1>1. UNCHANGED <<kind, st, sDev, sRx, rxOwner, next, got, sDropped, asked, contended, failed>>
    BY DEF Serial!Notified, Serial!ModemStatusAsk, Serial!TakeEvents
<1>2. unreported' = latch' /\ latch' \in BOOLEAN
    BY DEF Serial!Notified, Serial!ModemStatusAsk, Serial!TakeEvents, BytesFit
<1>3. \/ UNCHANGED sCall
      \/ \E t \in Callers, k \in SerialCall :
            /\ sCall' = [sCall EXCEPT ![t] = k]
            /\ sCall[t].op \in {"idle", "take"} /\ k.op \in {"idle", "take"}
    <2>1. ASSUME NEW t \in Callers, NEW event \in BOOLEAN, Serial!ModemStatusAsk(t, event)
          PROVE  \E k \in SerialCall : /\ sCall' = [sCall EXCEPT ![t] = k]
                                       /\ sCall[t].op \in {"idle", "take"} /\ k.op \in {"idle", "take"}
        <3>1. PICK k : k = [op |-> "take"]
            OBVIOUS
        <3>2. k \in SerialCall /\ k.op = "take"
            BY <3>1 DEF SerialCall, TakeCall
        <3>3. sCall[t].op = "idle" /\ sCall' = [sCall EXCEPT ![t] = k]
            BY <2>1, <3>1 DEF Serial!ModemStatusAsk, Serial!Idle
        <3> QED  BY <3>2, <3>3
    <2>2. ASSUME NEW t \in Callers, Serial!TakeEvents(t)
          PROVE  \E k \in SerialCall : /\ sCall' = [sCall EXCEPT ![t] = k]
                                       /\ sCall[t].op \in {"idle", "take"} /\ k.op \in {"idle", "take"}
        <3>1. Serial!Idle \in SerialCall /\ Serial!Idle.op = "idle"
            BY DEF Serial!Idle, SerialCall, TakeCall
        <3> QED  BY <2>2, <3>1 DEF Serial!TakeEvents
    <2> QED  BY <2>1, <2>2 DEF Serial!Notified
<1>4. \/ UNCHANGED sCall
      \/ \E t \in Callers, k \in SerialCall :
            /\ sCall' = [sCall EXCEPT ![t] = k]
            /\ sCall[t].op \notin Serial!Control /\ k.op \notin Serial!Control
            /\ sCall[t].op # "bulk" /\ k.op # "bulk"
    BY <1>3 DEF Serial!Control
<1> QED  BY <1>1, <1>2, <1>4, ControlLeftAlone, BytesLeftAlone

\* A control call begins.
LEMMA BeginKeeps ==
    ASSUME SerialInv, NEW t \in Callers, NEW k \in SerialCall, k.op \in Serial!Control,
           Serial!Begin(t, k), st' \in SerialCache, CallFits(Serial!Idle) => CallFits(k)'
    PROVE  SerialInv'
<1> USE DEF SerialInv
<1>1. /\ UNCHANGED <<kind, sDev, asked, failed, sRx, rxOwner, latch, next, got, sDropped, unreported>>
      /\ sCall[t] = Serial!Idle /\ sCall' = [sCall EXCEPT ![t] = k]
      /\ contended' = (contended \/ \E d \in Callers \ {t} : sCall[d].op \in Serial!Control)
    BY DEF Serial!Begin, Serial!data, Serial!ghosts
<1>2. sCall[t].op = "idle" /\ k.op # "bulk"
    BY <1>1 DEF Serial!Idle, Serial!Control
<1>3. sCall' \in [Callers -> SerialCall] /\ sCall'[t] = k /\ \A c \in Callers \ {t} : sCall'[c] = sCall[c]
    BY <1>1, OneSerialCall DEF SerialShape
<1>4. contended \in BOOLEAN /\ contended' \in BOOLEAN
    BY <1>1 DEF SerialShape
<1>5. SerialShape'
    BY <1>1, <1>3, <1>4 DEF SerialShape
<1>6. BytesFit'
    <2>1. sCall[t].op # "bulk" /\ unreported' = latch' /\ latch' \in BOOLEAN
        BY <1>1, <1>2 DEF BytesFit
    <2> QED  BY <1>1, <1>2, <2>1, BytesLeftAlone
<1>7. Calm' => Calm /\ \A d \in Callers \ {t} : sCall[d].op \notin Serial!Control
    BY <1>1, <1>4 DEF Calm
<1>8. ASSUME Calm' PROVE CallFits(k)' /\ LinesAsAsked'
    <2>1. Serial!Quiet
        BY <1>2, <1>7, <1>8 DEF Serial!Quiet, Serial!Control
    <2> QED  BY <1>1, <1>7, <1>8, <2>1 DEF ControlFits, LinesAsAsked
<1>9. ControlFits'
    <2>1. kind' = "ftdi" => LinesAsAsked'
        BY <1>1 DEF ControlFits, LinesAsAsked
    <2>2. ASSUME Calm', NEW c \in Callers, sCall'[c].op \in Serial!Control PROVE c = t
        BY <1>3, <1>7, <2>2
    <2>3. ~Serial!Quiet'
        BY <1>3 DEF Serial!Quiet
    <2>4. sCall[t]' = k
        BY <1>3
    <2>5. ASSUME Calm', NEW c \in Callers, sCall'[c].op \in Serial!Control PROVE CallFits(sCall[c])'
        <3>1. c = t
            BY <2>2, <2>5
        <3>2. sCall[c]' = k
            BY <2>4, <3>1
        <3> QED  BY <1>8, <2>5, <3>2 DEF CallFits
    <2> QED  BY <1>8, <2>1, <2>2, <2>3, <2>5 DEF ControlFits
<1> QED  BY <1>5, <1>6, <1>9

\* What the device and the call are once the request has run.
LEMMA ObeyIs ==
    ASSUME SerialShape, NEW k \in SerialCall, k.op \in Serial!Requests,
           sDev' = Serial!Obey(k), asked' = Serial!AskedBy(k), UNCHANGED <<kind, st>>
    PROVE  /\ sDev' \in SerialDevice /\ asked' \in Lines
           /\ kind = "ftdi" /\ LinesAsAsked => LinesAsAsked'
           /\ CallFits(k) /\ LinesAsAsked => LinesAsAsked' /\ CallFits(Serial!After(k))'
           /\ Serial!After(k) \in SerialCall
           /\ Serial!After(k).op \in Serial!Control \/ Serial!After(k) = Serial!Idle
<1>1. PICK a : a = Serial!After(k)
    OBVIOUS
<1>2. sDev \in SerialDevice /\ asked \in Lines /\ st \in SerialCache /\ kind \in {"acm", "ftdi"}
    BY DEF SerialShape
<1> DEFINE Goal ==
        /\ sDev' \in SerialDevice /\ asked' \in Lines
        /\ kind = "ftdi" /\ LinesAsAsked => LinesAsAsked'
        /\ CallFits(k) /\ LinesAsAsked => LinesAsAsked' /\ CallFits(a)'
        /\ a \in SerialCall
        /\ a.op \in Serial!Control \/ a = Serial!Idle
<1>3. ASSUME k.op = "lines" PROVE Goal
    <2>1. k \in LineCall
        BY <1>3, SerialCallIs
    <2>2. a = [k EXCEPT !.op = "storeLines"]
        BY <1>1, <1>3 DEF Serial!After
    <2>3. a \in LineCall /\ a.op = "storeLines" /\ a.dtr = k.dtr /\ a.rts = k.rts
        BY <2>1, <2>2 DEF LineCall
    <2>4. /\ asked' \in Lines
          /\ k.line = "dtr" => asked'.dtr = k.dtr /\ asked'.rts = asked.rts
          /\ k.line = "rts" => asked'.rts = k.rts /\ asked'.dtr = asked.dtr
        <3>1. CASE k.line = "dtr"
            <4>1. asked' = [asked EXCEPT !.dtr = k.dtr]
                BY <1>3, <3>1 DEF Serial!AskedBy
            <4> QED  BY <1>2, <2>1, <3>1, <4>1 DEF Lines, LineCall
        <3>2. CASE k.line = "rts"
            <4>1. asked' = [asked EXCEPT !.rts = k.rts]
                BY <1>3, <3>2 DEF Serial!AskedBy
            <4> QED  BY <1>2, <2>1, <3>2, <4>1 DEF Lines, LineCall
        <3> QED  BY <2>1, <3>1, <3>2 DEF LineCall
    <2>5. /\ sDev' \in SerialDevice /\ sDev'.baud = sDev.baud /\ sDev'.bits = sDev.bits
          /\ kind = "acm" => sDev'.dtr = k.dtr /\ sDev'.rts = k.rts
          /\ kind = "ftdi" /\ k.line = "dtr" => sDev'.dtr = k.dtr /\ sDev'.rts = sDev.rts
          /\ kind = "ftdi" /\ k.line = "rts" => sDev'.rts = k.rts /\ sDev'.dtr = sDev.dtr
        <3>1. CASE kind = "acm"
            <4>1. sDev' = [sDev EXCEPT !.dtr = k.dtr, !.rts = k.rts]
                BY <1>3, <3>1 DEF Serial!Obey
            <4> QED  BY <1>2, <2>1, <3>1, <4>1 DEF SerialDevice, LineCall
        <3>2. CASE kind = "ftdi" /\ k.line = "dtr"
            <4>1. sDev' = [sDev EXCEPT !.dtr = k.dtr]
                BY <1>3, <3>2 DEF Serial!Obey
            <4> QED  BY <1>2, <2>1, <3>2, <4>1 DEF SerialDevice, LineCall
        <3>3. CASE kind = "ftdi" /\ k.line = "rts"
            <4>1. sDev' = [sDev EXCEPT !.rts = k.rts]
                BY <1>3, <3>3 DEF Serial!Obey
            <4> QED  BY <1>2, <2>1, <3>3, <4>1 DEF SerialDevice, LineCall
        <3> QED  BY <1>2, <2>1, <3>1, <3>2, <3>3 DEF LineCall
    <2>6. k.line \in {"dtr", "rts"}
        BY <2>1 DEF LineCall
    <2>7. kind = "ftdi" /\ LinesAsAsked => LinesAsAsked'
        BY <2>4, <2>5, <2>6 DEF LinesAsAsked
    <2>8. ASSUME CallFits(k), LinesAsAsked PROVE LinesAsAsked' /\ CallFits(a)'
        <3>1. sDev'.dtr = k.dtr /\ sDev'.rts = k.rts
            BY <1>2, <1>3, <2>5, <2>6, <2>8 DEF CallFits
        <3>2. LinesAsAsked'
            BY <1>3, <2>4, <2>5, <2>6, <2>8, <3>1 DEF CallFits, LinesAsAsked
        <3>3. CallFits(a)'
            BY <1>3, <2>3, <2>5, <2>8, <3>1 DEF CallFits
        <3> QED  BY <3>2, <3>3
    <2> QED  BY <2>3, <2>4, <2>5, <2>7, <2>8 DEF SerialCall, Serial!Control
<1>4. ASSUME k.op # "lines", UNCHANGED asked, sDev'.dtr = sDev.dtr, sDev'.rts = sDev.rts
      PROVE  LinesAsAsked => LinesAsAsked'
    BY <1>4 DEF LinesAsAsked
<1>5. k.op # "lines" => UNCHANGED asked
    BY DEF Serial!AskedBy
<1>6. ASSUME k.op \in {"coding", "baud", "data"} PROVE Goal
    <2>1. k \in ConfigCall /\ k.config \in Serial!Configs
        BY <1>6, SerialCallIs DEF ConfigCall
    <2>2. k.config.baud \in {1, 2} /\ k.config.bits \in {5, 8}
        BY <2>1 DEF Serial!Configs
    <2>3. a = [k EXCEPT !.op = IF k.op = "baud" THEN "data" ELSE "storeLine"]
        BY <1>1, <1>6 DEF Serial!After
    <2>4. a \in ConfigCall /\ a.config = k.config /\ a.op = IF k.op = "baud" THEN "data" ELSE "storeLine"
        BY <2>1, <2>3 DEF ConfigCall
    <2>5. /\ sDev' \in SerialDevice /\ sDev'.dtr = sDev.dtr /\ sDev'.rts = sDev.rts
          /\ sDev'.baud = IF k.op = "data" THEN sDev.baud ELSE k.config.baud
          /\ sDev'.bits = IF k.op = "baud" THEN sDev.bits ELSE k.config.bits
        <3>1. CASE k.op = "coding"
            <4>1. sDev' = [sDev EXCEPT !.baud = k.config.baud, !.bits = k.config.bits]
                BY <3>1 DEF Serial!Obey
            <4> QED  BY <1>2, <2>2, <3>1, <4>1 DEF SerialDevice
        <3>2. CASE k.op = "baud"
            <4>1. sDev' = [sDev EXCEPT !.baud = k.config.baud]
                BY <3>2 DEF Serial!Obey
            <4> QED  BY <1>2, <2>2, <3>2, <4>1 DEF SerialDevice
        <3>3. CASE k.op = "data"
            <4>1. sDev' = [sDev EXCEPT !.bits = k.config.bits, !.brk = FALSE]
                BY <3>3 DEF Serial!Obey
            <4> QED  BY <1>2, <2>2, <3>3, <4>1 DEF SerialDevice
        <3> QED  BY <1>6, <3>1, <3>2, <3>3
    <2>6. UNCHANGED asked /\ (LinesAsAsked => LinesAsAsked')
        BY <1>4, <1>5, <1>6, <2>5
    <2>7. CallFits(k) => CallFits(a)'
        <3>1. CASE k.op = "coding"
            BY <1>2, <2>4, <2>5, <3>1 DEF CallFits
        <3>2. CASE k.op = "baud"
            BY <1>2, <2>4, <2>5, <3>2 DEF CallFits
        <3>3. CASE k.op = "data"
            BY <1>2, <2>4, <2>5, <3>3 DEF CallFits
        <3> QED  BY <1>6, <3>1, <3>2, <3>3
    <2> QED  BY <1>2, <2>4, <2>5, <2>6, <2>7 DEF SerialCall, Serial!Control
<1>7. ASSUME k.op = "break" PROVE Goal
    <2>1. k \in BreakCall
        BY <1>7, SerialCallIs
    <2>2. a = Serial!Idle /\ a \in SerialCall /\ a.op = "idle"
        BY <1>1, <1>7 DEF Serial!After, Serial!Idle, SerialCall, TakeCall
    <2>3. /\ sDev' \in SerialDevice /\ sDev'.dtr = sDev.dtr /\ sDev'.rts = sDev.rts
          /\ sDev'.baud = sDev.baud /\ sDev'.bits = IF kind = "ftdi" THEN k.word ELSE sDev.bits
        <3>1. CASE kind = "ftdi"
            <4>1. sDev' = [sDev EXCEPT !.bits = k.word, !.brk = k.on]
                BY <1>7, <3>1 DEF Serial!Obey
            <4> QED  BY <1>2, <2>1, <3>1, <4>1 DEF SerialDevice, BreakCall
        <3>2. CASE kind = "acm"
            <4>1. sDev' = [sDev EXCEPT !.brk = k.on]
                BY <1>7, <3>2 DEF Serial!Obey
            <4> QED  BY <1>2, <2>1, <3>2, <4>1 DEF SerialDevice, BreakCall
        <3> QED  BY <1>2, <3>1, <3>2
    <2>4. UNCHANGED asked /\ (LinesAsAsked => LinesAsAsked')
        BY <1>4, <1>5, <1>7, <2>3
    <2>5. CallFits(k) => CallFits(a)'
        BY <1>2, <1>7, <2>2, <2>3 DEF CallFits
    <2> QED  BY <1>2, <2>2, <2>3, <2>4, <2>5
<1>8. Goal
    BY <1>3, <1>6, <1>7 DEF Serial!Requests
<1>9. a = Serial!After(k) /\ (CallFits(a)' => CallFits(Serial!After(k))')
    BY <1>1 DEF CallFits
<1> QED  BY <1>8, <1>9

\* A control call moves on, or ends.
LEMMA MoveKeeps ==
    ASSUME SerialInv, NEW t \in Callers, NEW a \in SerialCall, sCall[t].op \in Serial!Control,
           sCall' = [sCall EXCEPT ![t] = a], a.op \in Serial!Control \/ a = Serial!Idle,
           UNCHANGED <<kind, contended, sRx, rxOwner, latch, next, got, sDropped, unreported>>,
           st' \in SerialCache, sDev' \in SerialDevice, asked' \in Lines, failed' \in Nat,
           kind = "ftdi" => LinesAsAsked',
           Calm' => Calm /\ (CallFits(sCall[t]) /\ LinesAsAsked => CallFits(a)' /\ LinesAsAsked')
    PROVE  SerialInv'
<1> USE DEF SerialInv
<1>1. sCall' \in [Callers -> SerialCall] /\ sCall'[t] = a /\ \A c \in Callers \ {t} : sCall'[c] = sCall[c]
    BY OneSerialCall DEF SerialShape
<1>2. Serial!Idle.op = "idle" /\ a.op # "bulk" /\ sCall[t].op # "bulk"
    BY DEF Serial!Idle, Serial!Control
<1>3. SerialShape'
    BY <1>1 DEF SerialShape
<1>4. BytesFit'
    <2>1. unreported' = latch' /\ latch' \in BOOLEAN
        BY DEF BytesFit
    <2> QED  BY <1>2, <2>1, BytesLeftAlone
<1>5. ControlFits'
    <2>1. ASSUME Calm' PROVE CallFits(a)' /\ LinesAsAsked'
        BY <2>1 DEF ControlFits
    <2>2. ASSUME Calm', NEW c \in Callers, sCall'[c].op \in Serial!Control PROVE c = t
        BY <1>1, <2>2 DEF ControlFits
    <2>3. ASSUME Calm', NEW c \in Callers, sCall'[c].op \in Serial!Control PROVE CallFits(sCall[c])'
        <3>1. sCall[c]' = a
            BY <1>1, <2>2, <2>3
        <3> QED  BY <2>1, <2>3, <3>1 DEF CallFits
    <2>4. ASSUME Calm', Serial!Quiet' PROVE CallFits(Serial!Idle)'
        <3>1. a = Serial!Idle
            BY <1>1, <2>4 DEF Serial!Quiet
        <3> QED  BY <2>1, <2>4, <3>1 DEF CallFits
    <2>5. kind' = "ftdi" => LinesAsAsked'
        OBVIOUS
    <2> QED  BY <2>1, <2>2, <2>3, <2>4, <2>5 DEF ControlFits
<1> QED  BY <1>3, <1>4, <1>5

\* set_dtr(), set_rts(), set_line_config(), set_baud_rate() and set_break() begin.
LEMMA CallsKeep ==
    ASSUME SerialInv, NEW t \in Callers,
           \/ \E line \in {"dtr", "rts"}, on \in BOOLEAN : Serial!SetLines(t, line, on)
           \/ \E config \in Serial!Configs : Serial!SetLineConfig(t, config)
           \/ \E baud \in {1, 2} : Serial!SetBaudRate(t, baud)
           \/ \E on \in BOOLEAN : Serial!SetBreak(t, on)
    PROVE  SerialInv'
<1>1. st \in SerialCache /\ kind \in {"acm", "ftdi"}
    BY DEF SerialInv, SerialShape
<1>2. Serial!Idle.op = "idle"
    BY DEF Serial!Idle
<1>3. ASSUME NEW line \in {"dtr", "rts"}, NEW on \in BOOLEAN, Serial!SetLines(t, line, on)
      PROVE  SerialInv'
    <2>1. PICK k : k = [op |-> "lines", line |-> line, dtr |-> IF line = "dtr" THEN on ELSE st.dtr,
                        rts |-> IF line = "rts" THEN on ELSE st.rts]
        OBVIOUS
    <2>2. st.dtr \in BOOLEAN /\ st.rts \in BOOLEAN
        BY <1>1 DEF SerialCache
    <2>3. /\ k \in LineCall /\ k.op = "lines"
          /\ k.line = "rts" => k.dtr = st.dtr
          /\ k.line = "dtr" => k.rts = st.rts
        BY <2>1, <2>2 DEF LineCall
    <2>4. Serial!Begin(t, k) /\ UNCHANGED st
        BY <1>3, <2>1 DEF Serial!SetLines
    <2>5. UNCHANGED <<kind, sDev>>
        BY <2>4 DEF Serial!Begin
    <2>6. CallFits(Serial!Idle) => CallFits(k)'
        BY <1>2, <2>3, <2>4, <2>5 DEF CallFits
    <2>7. k \in SerialCall /\ k.op \in Serial!Control
        BY <2>3 DEF SerialCall, Serial!Control
    <2> QED  BY <1>1, <2>4, <2>6, <2>7, BeginKeeps
<1>4. ASSUME NEW config \in Serial!Configs, Serial!SetLineConfig(t, config)
      PROVE  SerialInv'
    <2>1. config.bits \in {5, 8}
        BY DEF Serial!Configs
    <2>2. CASE kind = "acm" /\ Serial!Begin(t, [op |-> "coding", config |-> config]) /\ UNCHANGED st
        <3>1. PICK k : k = [op |-> "coding", config |-> config]
            OBVIOUS
        <3>2. k \in ConfigCall /\ k.op = "coding" /\ k.config = config /\ Serial!Begin(t, k)
            BY <2>2, <3>1 DEF ConfigCall
        <3>3. UNCHANGED <<kind, sDev>>
            BY <3>2 DEF Serial!Begin
        <3>4. CallFits(Serial!Idle) => CallFits(k)'
            BY <1>2, <2>2, <3>2, <3>3 DEF CallFits
        <3>5. k \in SerialCall /\ k.op \in Serial!Control
            BY <3>2 DEF SerialCall, Serial!Control
        <3> QED  BY <1>1, <2>2, <3>2, <3>4, <3>5, BeginKeeps
    <2>3. CASE /\ kind = "ftdi" /\ config.bits \in {7, 8}
               /\ Serial!Begin(t, [op |-> "baud", config |-> config])
               /\ st' = [st EXCEPT !.word = config.bits]
        <3>1. PICK k : k = [op |-> "baud", config |-> config]
            OBVIOUS
        <3>2. k \in ConfigCall /\ k.op = "baud" /\ k.config = config /\ Serial!Begin(t, k)
            BY <2>3, <3>1 DEF ConfigCall
        <3>3. UNCHANGED <<kind, sDev>>
            BY <3>2 DEF Serial!Begin
        <3>4. /\ st' \in SerialCache /\ st'.word = config.bits /\ st'.line = st.line
              /\ st'.dtr = st.dtr /\ st'.rts = st.rts
            BY <1>1, <2>1, <2>3 DEF SerialCache
        <3>5. CallFits(Serial!Idle) => CallFits(k)'
            BY <1>2, <2>3, <3>2, <3>3, <3>4 DEF CallFits
        <3>6. k \in SerialCall /\ k.op \in Serial!Control
            BY <3>2 DEF SerialCall, Serial!Control
        <3> QED  BY <3>2, <3>4, <3>5, <3>6, BeginKeeps
    <2> QED  BY <1>4, <2>2, <2>3 DEF Serial!SetLineConfig
<1>5. ASSUME NEW baud \in {1, 2}, Serial!SetBaudRate(t, baud)
      PROVE  SerialInv'
    <2>1. PICK line : line = IF st.line = Serial!NoLine THEN Serial!Default ELSE st.line
        OBVIOUS
    <2>2. line \in Serial!Configs
        BY <1>1, <2>1 DEF SerialCache, Serial!Default, Serial!Configs
    <2>3. PICK config : config = [line EXCEPT !.baud = baud]
        OBVIOUS
    <2>4. config \in Serial!Configs
        BY <2>2, <2>3 DEF Serial!Configs
    <2>5. Serial!SetLineConfig(t, config)
        BY <1>5, <2>1, <2>3 DEF Serial!SetBaudRate
    <2> QED  BY <1>4, <2>4, <2>5
<1>6. ASSUME NEW on \in BOOLEAN, Serial!SetBreak(t, on)
      PROVE  SerialInv'
    <2>1. PICK k : k = [op |-> "break", on |-> on, word |-> st.word]
        OBVIOUS
    <2>2. k \in BreakCall /\ k.op = "break" /\ k.word = st.word
        BY <1>1, <2>1 DEF BreakCall, SerialCache
    <2>3. Serial!Begin(t, k) /\ UNCHANGED st
        BY <1>6, <2>1 DEF Serial!SetBreak
    <2>4. UNCHANGED <<kind, sDev>>
        BY <2>3 DEF Serial!Begin
    <2>5. CallFits(Serial!Idle) => CallFits(k)'
        BY <1>2, <2>2, <2>3, <2>4 DEF CallFits
    <2>6. k \in SerialCall /\ k.op \in Serial!Control
        BY <2>2 DEF SerialCall, Serial!Control
    <2> QED  BY <1>1, <2>3, <2>5, <2>6, BeginKeeps
<1> QED  BY <1>3, <1>4, <1>5, <1>6

\* The device answers a request, or the request fails.
LEMMA RequestKeeps ==
    ASSUME SerialInv, NEW t \in Callers, Serial!Request(t) \/ Serial!RequestFails(t)
    PROVE  SerialInv'
<1>1. SerialShape /\ ControlFits /\ failed \in Nat
    BY DEF SerialInv, SerialShape
<1>2. /\ UNCHANGED <<kind, st, contended, sRx, rxOwner, latch, next, got, sDropped, unreported>>
      /\ sCall[t].op \in Serial!Requests
    BY DEF Serial!Request, Serial!RequestFails, Serial!data, Serial!ghosts
<1>3. PICK k : k = sCall[t]
    OBVIOUS
<1>4. /\ k \in SerialCall /\ k.op \in Serial!Requests /\ k.op \in Serial!Control
      /\ sCall[t].op \in Serial!Control
      /\ st' \in SerialCache
    BY <1>1, <1>2, <1>3 DEF SerialShape, Serial!Requests, Serial!Control
<1>5. /\ sDev' = Serial!Obey(k) /\ asked' = Serial!AskedBy(k) =>
          /\ sDev' \in SerialDevice /\ asked' \in Lines
          /\ kind = "ftdi" /\ LinesAsAsked => LinesAsAsked'
          /\ CallFits(k) /\ LinesAsAsked => LinesAsAsked' /\ CallFits(Serial!After(k))'
          /\ Serial!After(k) \in SerialCall
          /\ Serial!After(k).op \in Serial!Control \/ Serial!After(k) = Serial!Idle
    BY <1>1, <1>2, <1>4, ObeyIs
<1>6. CASE Serial!Request(t)
    <2>1. sDev' = Serial!Obey(k) /\ asked' = Serial!AskedBy(k) /\ UNCHANGED failed
          /\ sCall' = [sCall EXCEPT ![t] = Serial!After(k)]
        BY <1>3, <1>6 DEF Serial!Request
    <2>2. PICK a : a = Serial!After(k)
        OBVIOUS
    <2>3. a \in SerialCall /\ (a.op \in Serial!Control \/ a = Serial!Idle)
        BY <1>5, <2>1, <2>2
    <2>4. CallFits(k) /\ LinesAsAsked => LinesAsAsked' /\ CallFits(a)'
        BY <1>5, <2>1, <2>2 DEF CallFits
    <2>5. Calm' => Calm
        BY <1>2, <2>1 DEF Calm
    <2>6. kind = "ftdi" => LinesAsAsked'
        BY <1>1, <1>5, <2>1 DEF ControlFits
    <2>7. CallFits(sCall[t]) => CallFits(k)
        BY <1>3 DEF CallFits
    <2>8. sCall' = [sCall EXCEPT ![t] = a]
        BY <2>1, <2>2
    <2>9. sDev' \in SerialDevice /\ asked' \in Lines /\ failed' \in Nat
        BY <1>1, <1>5, <2>1
    <2>10. Calm' => Calm /\ (CallFits(sCall[t]) /\ LinesAsAsked => CallFits(a)' /\ LinesAsAsked')
        BY <2>4, <2>5, <2>7
    <2> QED  BY <1>2, <1>4, <2>3, <2>6, <2>8, <2>9, <2>10, MoveKeeps
<1>7. CASE Serial!RequestFails(t)
    <2>1. /\ failed' = failed + 1 /\ sCall' = [sCall EXCEPT ![t] = Serial!Idle]
          /\ \/ UNCHANGED <<sDev, asked>>
             \/ sDev' = Serial!Obey(k) /\ asked' = Serial!AskedBy(k)
        BY <1>3, <1>7 DEF Serial!RequestFails
    <2>2. ~Calm' /\ failed' \in Nat
        BY <1>1, <2>1 DEF Calm
    <2>3. sDev' \in SerialDevice /\ asked' \in Lines /\ (kind = "ftdi" => LinesAsAsked')
        <3>1. CASE UNCHANGED <<sDev, asked>>
            BY <1>1, <3>1 DEF SerialShape, ControlFits, LinesAsAsked
        <3>2. CASE sDev' = Serial!Obey(k) /\ asked' = Serial!AskedBy(k)
            BY <1>1, <1>5, <3>2 DEF ControlFits
        <3> QED  BY <2>1, <3>1, <3>2
    <2>4. Serial!Idle \in SerialCall
        BY DEF Serial!Idle, SerialCall, TakeCall
    <2>5. PICK a : a = Serial!Idle
        OBVIOUS
    <2> QED  BY <1>2, <1>4, <2>1, <2>2, <2>3, <2>4, <2>5, MoveKeeps
<1> QED  BY <1>6, <1>7

\* The cache is stored and the call returns.
LEMMA StoreKeeps ==
    ASSUME SerialInv, NEW t \in Callers, Serial!Store(t)
    PROVE  SerialInv'
<1>1. SerialShape /\ ControlFits /\ st \in SerialCache
    BY DEF SerialInv, SerialShape
<1>2. /\ UNCHANGED <<kind, sDev, asked, failed, contended, sRx, rxOwner, latch, next, got, sDropped, unreported>>
      /\ sCall' = [sCall EXCEPT ![t] = Serial!Idle]
    BY DEF Serial!Store, Serial!data, Serial!ghosts
<1>3. PICK k : k = sCall[t]
    OBVIOUS
<1>4. k \in SerialCall
    BY <1>1, <1>3 DEF SerialShape
<1>5. PICK a : a = Serial!Idle
    OBVIOUS
<1>6. a \in SerialCall /\ a.op = "idle"
    BY <1>5 DEF Serial!Idle, SerialCall, TakeCall
<1>7. k.op \in Serial!Control /\ st' \in SerialCache /\ (CallFits(k) => CallFits(a)')
    <2>1. CASE k.op = "storeLines" /\ st' = [st EXCEPT !.dtr = k.dtr, !.rts = k.rts]
        <3>1. k \in LineCall
            BY <1>4, <2>1, SerialCallIs
        <3>2. /\ st' \in SerialCache /\ st'.dtr = k.dtr /\ st'.rts = k.rts
              /\ st'.line = st.line /\ st'.word = st.word
            BY <1>1, <2>1, <3>1 DEF SerialCache, LineCall
        <3>3. CallFits(k) => CallFits(a)'
            BY <1>2, <1>6, <2>1, <3>2 DEF CallFits
        <3> QED  BY <2>1, <3>2, <3>3 DEF Serial!Control
    <2>2. CASE k.op = "storeLine" /\ st' = [st EXCEPT !.line = k.config]
        <3>1. k \in ConfigCall
            BY <1>4, <2>2, SerialCallIs
        <3>2. /\ st' \in SerialCache /\ st'.line = k.config
              /\ st'.dtr = st.dtr /\ st'.rts = st.rts /\ st'.word = st.word
            BY <1>1, <2>2, <3>1 DEF SerialCache, ConfigCall
        <3>3. CallFits(k) => CallFits(a)'
            BY <1>2, <1>6, <2>2, <3>2 DEF CallFits
        <3> QED  BY <2>2, <3>2, <3>3 DEF Serial!Control
    <2> QED  BY <1>3, <2>1, <2>2 DEF Serial!Store
<1>8. sDev' \in SerialDevice /\ asked' \in Lines /\ failed' \in Nat /\ (kind = "ftdi" => LinesAsAsked')
    BY <1>1, <1>2 DEF SerialShape, ControlFits, LinesAsAsked
<1>9. Calm' => Calm /\ (CallFits(sCall[t]) /\ LinesAsAsked => CallFits(a)' /\ LinesAsAsked')
    <2>1. Calm' => Calm
        BY <1>2 DEF Calm
    <2>2. LinesAsAsked => LinesAsAsked'
        BY <1>2 DEF LinesAsAsked
    <2>3. CallFits(sCall[t]) => CallFits(k)
        BY <1>3 DEF CallFits
    <2> QED  BY <1>7, <2>1, <2>2, <2>3
<1>10. sCall[t].op \in Serial!Control /\ sCall' = [sCall EXCEPT ![t] = a]
    BY <1>2, <1>3, <1>5, <1>7
<1> QED  BY <1>2, <1>5, <1>6, <1>7, <1>8, <1>9, <1>10, MoveKeeps

LEMMA SerialInitInv == Serial!Init => SerialInv
<1> SUFFICES ASSUME Serial!Init PROVE SerialInv
    OBVIOUS
<1>1. PICK k : k = Serial!Idle
    OBVIOUS
<1>2. k \in SerialCall /\ k.op = "idle"
    BY <1>1 DEF Serial!Idle, SerialCall, TakeCall
<1>3. sCall \in [Callers -> SerialCall] /\ \A c \in Callers : sCall[c] = k
    BY <1>1, <1>2 DEF Serial!Init
<1>4. /\ st \in SerialCache /\ st.line = Serial!NoLine /\ ~st.dtr /\ ~st.rts /\ st.word = 8
      /\ sDev \in SerialDevice /\ sDev.bits = 8 /\ ~sDev.dtr /\ ~sDev.rts
      /\ asked \in Lines /\ ~asked.dtr /\ ~asked.rts
      /\ kind \in {"acm", "ftdi"} /\ contended \in BOOLEAN /\ failed \in Nat
    BY DEF Serial!Init, SerialCache, SerialDevice, Lines
<1>5. SerialShape
    BY <1>3, <1>4 DEF SerialShape
<1>6. LinesAsAsked /\ sDev.dtr = st.dtr /\ sDev.rts = st.rts
    BY DEF Serial!Init, LinesAsAsked
<1>7. CallFits(k)
    BY <1>2, <1>4, <1>6 DEF CallFits
<1>8. ControlFits
    BY <1>1, <1>2, <1>3, <1>6, <1>7 DEF ControlFits, Serial!Control
<1>9. BytesFit
    <2>1. next = 1 /\ got = <<>> /\ sRx = <<>> /\ sDropped = {} /\ unreported = latch /\ latch \in BOOLEAN
        BY DEF Serial!Init
    <2>2. Rising(<<>> \o <<>>, 1)
        <3>1. \A S : <<>> \in Seq(S) /\ Len(<<>>) = 0 /\ <<>> \o <<>> = <<>>
            OBVIOUS
        <3> QED  BY <3>1 DEF Rising
    <2>3. 1..(next - 1) = {}
        BY <2>1
    <2> QED  BY <1>2, <1>3, <2>1, <2>2, <2>3 DEF BytesFit
<1> QED  BY <1>5, <1>8, <1>9 DEF SerialInv

\* The invariant holds throughout, whenever the part at hand is a serial port.
LEMMA SerialInvariant == Spec => [](part = "serial" => SerialInv)
<1>1. Init => (part = "serial" => SerialInv)
    BY SerialInitInv DEF Init
<1>2. (part = "serial" => SerialInv) /\ [Next]_vars => (part = "serial" => SerialInv)'
    <2>1. ASSUME part = "serial", SerialInv, [Next]_vars PROVE SerialInv'
        <3>1. [Serial!Next]_(Serial!vars)
            BY <2>1, SerialMoves
        <3>2. CASE UNCHANGED Serial!vars
            <4>1. UNCHANGED <<kind, st, sDev, sCall, sRx, rxOwner, latch, next, got, sDropped, unreported,
                              asked, contended, failed>>
                BY <3>2 DEF Serial!vars, Serial!data, Serial!ghosts
            <4>2. SerialShape /\ ControlFits /\ BytesFit /\ unreported' = latch' /\ latch' \in BOOLEAN
                BY <2>1, <4>1 DEF SerialInv, BytesFit
            <4> QED  BY <4>1, <4>2, ControlLeftAlone, BytesLeftAlone DEF SerialInv
        <3>3. CASE Serial!Next
            BY <2>1, <3>3, CallsKeep, RequestKeeps, StoreKeeps, ReadKeeps, PacketKeeps, BulkKeeps, PurgeKeeps,
               StatusKeeps DEF Serial!Next
        <3> QED  BY <3>1, <3>2, <3>3
    <2>2. ASSUME part # "serial", [Next]_vars PROVE part' # "serial"
        BY <2>2 DEF Next, vars
    <2> QED  BY <2>1, <2>2
<1> QED  BY <1>1, <1>2, PTL DEF Spec

\* set_dtr(), set_rts(), set_line_config() and set_break(), each in three steps
\* without the lock, run by any number of threads: until two of them overlap or
\* a request fails, cache, device and what was asked for agree between calls;
\* on an FTDI chip each line is where it was asked to be whatever happens.
THEOREM DeviceIsAlwaysAsAsked == Spec => []DeviceIsAsAsked
<1>1. ASSUME part = "serial", SerialInv PROVE Serial!DeviceIsAsAsked
    <2>1. Serial!Idle.op = "idle" /\ ControlFits /\ kind \in {"acm", "ftdi"}
        BY <1>1 DEF Serial!Idle, SerialInv, SerialShape
    <2>2. (kind = "ftdi" \/ Calm) => sDev.dtr = asked.dtr /\ sDev.rts = asked.rts
        BY <2>1 DEF ControlFits, LinesAsAsked
    <2>3. ASSUME Serial!Quiet, Calm
          PROVE  /\ sDev.dtr = st.dtr /\ sDev.rts = st.rts
                 /\ st.line # Serial!NoLine => sDev.baud = st.line.baud /\ sDev.bits = st.line.bits
                 /\ kind = "ftdi" => sDev.bits = st.word
        BY <2>1, <2>3 DEF ControlFits, CallFits
    <2> QED  BY <2>2, <2>3 DEF Serial!DeviceIsAsAsked, Calm
<1>2. (part = "serial" => SerialInv) => DeviceIsAsAsked
    BY <1>1 DEF DeviceIsAsAsked
<1> QED  BY <1>2, SerialInvariant, PTL

\* read_with_timeout() by any number of threads, with purge(), timeouts and
\* notifications: the bytes returned and buffered are in the order they were
\* sent, each once, every other one is accounted for, and no line error that
\* reached the host is forgotten.
THEOREM NothingEverReorderedOrLost == Spec => []NothingReorderedOrLost
<1>1. ASSUME part = "serial", SerialInv PROVE Serial!NothingReorderedOrLost
    <2>1. BytesFit /\ SerialShape
        BY <1>1 DEF SerialInv
    <2>2. PICK kept : kept = got \o sRx
        OBVIOUS
    <2>3. kept \in Seq(Nat) /\ Rising(kept, next) /\ next \in Nat
        BY <2>1, <2>2, ConcatProperties DEF BytesFit
    <2>4. \A i, j \in 1..Len(kept) : i < j => kept[i] < kept[j]
        BY <2>3 DEF Rising
    <2> DEFINE reading == {d \in Callers : sCall[d].op = "bulk"}
               flying == UNION {Serial!ToSet(sCall[c].raw) : c \in reading}
    <2>5. \A c \in reading : sCall[c].raw \in Seq(Nat) /\ Rising(got \o sCall[c].raw, next) /\ got \in Seq(Nat)
        BY <2>1, SerialCallIs DEF SerialShape, BytesFit, BulkCall
    <2>6. \A b : b \in flying <=> \E c \in reading : ByteIn(b, sCall[c].raw)
        <3>1. ASSUME NEW c \in reading, NEW b
              PROVE  b \in Serial!ToSet(sCall[c].raw) <=> ByteIn(b, sCall[c].raw)
            BY <2>5, BytesOf
        <3> QED  BY <3>1
    <2>7. \A b : ByteIn(b, kept) => b \in 1..(next - 1)
        BY <2>3, ElementOfSeq DEF Rising, ByteIn
    <2>8. \A b \in flying : b \in 1..(next - 1)
        <3>1. ASSUME NEW b, NEW c \in reading, ByteIn(b, sCall[c].raw) PROVE b \in 1..(next - 1)
            <4>1. PICK raw : raw = sCall[c].raw
                OBVIOUS
            <4>2. PICK old : old = got
                OBVIOUS
            <4>3. raw \in Seq(Nat) /\ old \in Seq(Nat) /\ Rising(old \o raw, next) /\ ByteIn(b, raw)
                BY <2>5, <3>1, <4>1, <4>2
            <4>4. ByteIn(b, old \o raw)
                BY <4>3, ConcatBytes
            <4> QED  BY <4>3, <4>4, ElementOfSeq DEF Rising, ByteIn
        <3> QED  BY <2>6, <3>1
    <2>9. \A b \in 1..(next - 1) : ByteIn(b, kept) \/ b \in sDropped \/ b \in flying
        <3>1. \A b \in 1..(next - 1) :
                  ByteIn(b, kept) \/ b \in sDropped \/ \E c \in reading : ByteIn(b, sCall[c].raw)
            BY <2>1, <2>2 DEF BytesFit
        <3> QED  BY <2>6, <3>1
    <2>10. \A b : b \in Serial!ToSet(kept) <=> ByteIn(b, kept)
        BY <2>3, BytesOf
    <2>11. sDropped \subseteq 1..(next - 1) /\ unreported = latch
        BY <2>1 DEF BytesFit
    <2> HIDE DEF flying
    <2>12. Serial!ToSet(kept) \cup sDropped \cup flying = 1..(next - 1)
        BY <2>7, <2>8, <2>9, <2>10, <2>11
    <2> QED  BY <2>2, <2>4, <2>11, <2>12 DEF Serial!NothingReorderedOrLost, flying
<1>2. (part = "serial" => SerialInv) => NothingReorderedOrLost
    BY <1>1 DEF NothingReorderedOrLost
<1> QED  BY <1>2, SerialInvariant, PTL

=============================================================================
