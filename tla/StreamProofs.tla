---------------------------- MODULE StreamProofs -----------------------------
(***************************************************************************)
(* Proofs about the drivers that keep transfers going round, a network     *)
(* function (Net) and a video stream (UvcStream), as MCClasses puts them   *)
(* beside the other class drivers: the transmit slots, the receivers that  *)
(* wait for a frame, the ring that does not die without a word, and what   *)
(* close() and stop() leave behind; the frames a stream hands out; how     *)
(* Camera::start() and the drop of a Stream leave the device (UvcStart);   *)
(* and that a network frame that was sent can be read (NetFraming).        *)
(***************************************************************************)
EXTENDS MCClasses, FiniteSetTheorems, SequenceTheorems, WellFoundedInduction,
        NaturalsInduction, TLAPS

(* The network function *)

RxState ==
    [at : {"flight", "done", "idle"}, status : {"Completed", "Error", "Cancelled", "NoDevice"},
     failures : Nat, stop : BOOLEAN, cancelling : BOOLEAN]

NetShape ==
    /\ nRx \in [Receives -> RxState]
    /\ queue \in Nat
    /\ recv \in [Callers -> {"idle", "waiting", "notified"}]
    /\ send \in [Callers -> {"idle", "checked", "slot", "full"}]
    /\ txInFlight \in Nat /\ tx \in Nat
    /\ nEvt # None => nEvt.t \in Receives

\* Senders between fetch_add and submit(), and those of them with a slot.
Busy == {s \in Callers : send[s] \in {"slot", "full"}}
Slots == {s \in Callers : send[s] = "slot"}

SlotCount ==
    /\ txInFlight = tx + Cardinality(Busy)
    /\ tx + Cardinality(Slots) <= TxQueue

Notified == {r \in Callers : recv[r] = "notified"}

WaitersWait ==
    (\E r \in Callers : recv[r] = "waiting") => ended = "none" /\ queue <= Cardinality(Notified)

\* The flag is set before the cancellation, and close() waits for both.
StopFirst ==
    /\ \A t \in Receives : nRx[t].cancelling => nRx[t].stop
    /\ closing = "closed" =>
          \A t \in Receives : nRx[t].stop /\ (nRx[t].at = "flight" => nRx[t].cancelling)

NetInv == NetShape /\ SlotCount /\ WaitersWait /\ StopFirst

\* The parts that are not at hand do not move, the one at hand as it does alone.
LEMMA NetMoves ==
    ASSUME part = "net", [Next]_vars
    PROVE  part' = "net" /\ [Net!Next]_(Net!vars)
<1> USE DEF vars, networkVars, netVars, Net!vars
<1>1. CASE UNCHANGED vars
    BY <1>1
<1>2. CASE Next
    BY <1>2 DEF Next, DataNext, NetworkNext, StorageNext, OtherNext
<1> QED  BY <1>1, <1>2

\* Threads are finitely many, and so are those in one place.
LEMMA CallersCount ==
    ASSUME NEW S, S \subseteq Callers
    PROVE  /\ IsFiniteSet(S) /\ Cardinality(S) \in Nat
           /\ \A c \in Callers \ S : Cardinality(S \cup {c}) = Cardinality(S) + 1
           /\ \A c \in S : Cardinality(S \ {c}) = Cardinality(S) - 1 /\ Cardinality(S) > 0
<1>1. IsFiniteSet(S) /\ Cardinality(S) \in Nat
    BY ClassesAssumption, FS_Subset, FS_CardinalityType
<1>2. ASSUME NEW c \in S PROVE Cardinality(S) > 0
    BY <1>1, FS_EmptySet
<1> QED  BY <1>1, <1>2, FS_AddElement, FS_RemoveElement

\* An opened function satisfies the invariant.
LEMMA NetInitInv == Net!Init => NetInv
<1> SUFFICES ASSUME Net!Init PROVE NetInv
    OBVIOUS
<1> USE DEF Net!Init
<1>1. /\ nRx \in [Receives -> RxState]
      /\ \A t \in Receives : ~nRx[t].cancelling
    BY DEF Net!Flying, RxState
<1>2. NetShape
    BY <1>1 DEF NetShape
<1>3. Busy = {} /\ Slots = {}
    BY DEF Busy, Slots
<1>4. SlotCount
    BY <1>3, FS_EmptySet, ClassesAssumption DEF SlotCount
<1>5. WaitersWait /\ StopFirst
    BY <1>1 DEF WaitersWait, StopFirst
<1> QED  BY <1>2, <1>4, <1>5 DEF NetInv

\* What a step leaves alone keeps its part of the invariant.
LEMMA NetLeftAlone ==
    ASSUME NetInv
    PROVE  /\ UNCHANGED <<send, txInFlight, tx>> => SlotCount'
           /\ UNCHANGED <<recv, queue, ended>> => WaitersWait'
           /\ UNCHANGED <<nRx, closing>> => StopFirst'
<1>1. ASSUME UNCHANGED <<send, txInFlight, tx>> PROVE SlotCount'
    <2>1. Busy' = Busy /\ Slots' = Slots
        BY <1>1 DEF Busy, Slots
    <2> QED  BY <1>1, <2>1 DEF NetInv, SlotCount
<1>2. ASSUME UNCHANGED <<recv, queue, ended>> PROVE WaitersWait'
    <2>1. Notified' = Notified
        BY <1>2 DEF Notified
    <2> QED  BY <1>2, <2>1 DEF NetInv, WaitersWait
<1>3. ASSUME UNCHANGED <<nRx, closing>> PROVE StopFirst'
    BY <1>3 DEF NetInv, StopFirst
<1> QED  BY <1>1, <1>2, <1>3

\* One receive transfer moves.  Nothing takes its stop flag back, it is
\* cancelled only after it, and with the flag set it does not take off again.
LEMMA OneReceive ==
    ASSUME NetInv, NEW t \in Receives, NEW r \in RxState, nRx' = [nRx EXCEPT ![t] = r],
           UNCHANGED closing,
           r.cancelling => r.stop,
           nRx[t].stop => r.stop,
           nRx[t].stop /\ (nRx[t].at = "flight" => nRx[t].cancelling) => (r.at = "flight" => r.cancelling)
    PROVE  nRx' \in [Receives -> RxState] /\ StopFirst'
<1>1. nRx' \in [Receives -> RxState] /\ nRx'[t] = r /\ \A u \in Receives \ {t} : nRx'[u] = nRx[u]
    BY DEF NetInv, NetShape
<1>2. ASSUME NEW u \in Receives
      PROVE  /\ nRx'[u].cancelling => nRx'[u].stop
             /\ closing' = "closed" => nRx'[u].stop /\ (nRx'[u].at = "flight" => nRx'[u].cancelling)
    <2>1. /\ nRx[u].cancelling => nRx[u].stop
          /\ closing = "closed" => nRx[u].stop /\ (nRx[u].at = "flight" => nRx[u].cancelling)
        BY DEF NetInv, StopFirst
    <2>2. CASE u = t
        BY <1>1, <2>1, <2>2
    <2>3. CASE u # t
        BY <1>1, <2>1, <2>3
    <2> QED  BY <2>2, <2>3
<1> QED  BY <1>1, <1>2 DEF StopFirst

\* The kernel ends a receive, and Repeating::drop.
LEMMA RxStepKeeps ==
    ASSUME NetInv, NEW t \in Receives, Net!Kernel(t) \/ Net!DropRepeating(t)
    PROVE  NetInv'
<1>1. nRx[t] \in RxState /\ nRx \in [Receives -> RxState] /\ (nRx[t].cancelling => nRx[t].stop)
    BY DEF NetInv, NetShape, StopFirst
<1>2. UNCHANGED <<queue, recv, send, txInFlight, tx, nEvt, ended, closing>>
    BY DEF Net!Kernel, Net!RxEnds, Net!DropRepeating, Net!txVars
<1>3. nRx' \in [Receives -> RxState] /\ StopFirst'
    <2>1. ASSUME NEW status \in {"Completed", "Error", "Cancelled", "NoDevice"}, Net!RxEnds(t, status)
          PROVE  nRx' \in [Receives -> RxState] /\ StopFirst'
        <3>1. PICK r : r = [nRx[t] EXCEPT !.at = "done", !.status = status]
            OBVIOUS
        <3>2. r \in RxState /\ r.at = "done" /\ r.stop = nRx[t].stop /\ r.cancelling = nRx[t].cancelling
            BY <1>1, <3>1 DEF RxState
        <3>3. nRx' = [nRx EXCEPT ![t] = r]
            BY <1>1, <2>1, <3>1 DEF Net!RxEnds
        <3> QED  BY <1>1, <1>2, <3>2, <3>3, OneReceive
    <2>2. CASE nRx' = [nRx EXCEPT ![t].stop = TRUE]
        <3>1. PICK r : r = [nRx[t] EXCEPT !.stop = TRUE]
            OBVIOUS
        <3>2. r \in RxState /\ r.at = nRx[t].at /\ r.stop /\ r.cancelling = nRx[t].cancelling
            BY <1>1, <3>1 DEF RxState
        <3>3. nRx' = [nRx EXCEPT ![t] = r]
            BY <1>1, <2>2, <3>1
        <3> QED  BY <1>1, <1>2, <3>2, <3>3, OneReceive
    <2>3. CASE nRx[t].stop /\ nRx' = [nRx EXCEPT ![t].cancelling = TRUE]
        <3>1. PICK r : r = [nRx[t] EXCEPT !.cancelling = TRUE]
            OBVIOUS
        <3>2. r \in RxState /\ r.stop = nRx[t].stop /\ r.cancelling
            BY <1>1, <3>1 DEF RxState
        <3>3. nRx' = [nRx EXCEPT ![t] = r]
            BY <1>1, <2>3, <3>1
        <3> QED  BY <1>1, <1>2, <2>3, <3>2, <3>3, OneReceive
    <2> QED  BY <2>1, <2>2, <2>3 DEF Net!Kernel, Net!DropRepeating
<1>4. NetShape'
    BY <1>2, <1>3 DEF NetInv, NetShape
<1> QED  BY <1>2, <1>3, <1>4, NetLeftAlone DEF NetInv

\* The callback of a Repeating submits its transfer again only while the flag,
\* looked at under the same lock, is not set.
LEMMA ResubmitKeeps ==
    ASSUME NetInv, Net!Resubmit
    PROVE  NetInv'
<1> USE DEF Net!Resubmit
<1>1. PICK t \in Receives : t = nEvt.t
    BY DEF NetInv, NetShape
<1>2. nRx[t] \in RxState /\ nRx \in [Receives -> RxState] /\ (nRx[t].cancelling => nRx[t].stop)
    BY DEF NetInv, NetShape, StopFirst
<1>3. UNCHANGED <<queue, recv, send, txInFlight, tx, ended, closing>> /\ nEvt' = None
    BY DEF Net!txVars
<1>4. nRx' \in [Receives -> RxState] /\ StopFirst'
    <2>1. CASE ~nRx[t].stop /\ nRx' = [nRx EXCEPT ![t].at = "flight", ![t].cancelling = FALSE]
        <3>1. PICK r : r = [nRx[t] EXCEPT !.at = "flight", !.cancelling = FALSE]
            OBVIOUS
        <3>2. r \in RxState /\ r.stop = nRx[t].stop /\ ~r.cancelling
            BY <1>2, <3>1 DEF RxState
        <3>3. nRx' = [nRx EXCEPT ![t] = r]
            BY <1>2, <2>1, <3>1
        <3> QED  BY <1>2, <1>3, <2>1, <3>2, <3>3, OneReceive
    <2>2. CASE nRx' = [nRx EXCEPT ![t].at = "idle"]
        <3>1. PICK r : r = [nRx[t] EXCEPT !.at = "idle"]
            OBVIOUS
        <3>2. r \in RxState /\ r.stop = nRx[t].stop /\ r.cancelling = nRx[t].cancelling /\ r.at = "idle"
            BY <1>2, <3>1 DEF RxState
        <3>3. nRx' = [nRx EXCEPT ![t] = r]
            BY <1>2, <2>2, <3>1
        <3> QED  BY <1>2, <1>3, <3>2, <3>3, OneReceive
    <2> QED  BY <1>1, <2>1, <2>2
<1>5. NetShape'
    BY <1>3, <1>4 DEF NetInv, NetShape
<1> QED  BY <1>3, <1>4, <1>5, NetLeftAlone DEF NetInv

\* end() wakes everyone who waits.
LEMMA EndWakesAll ==
    ASSUME NetInv, NEW why, Net!End(why)
    PROVE  recv' \in [Callers -> {"idle", "waiting", "notified"}] /\ WaitersWait'
<1>1. /\ recv' \in [Callers -> {"idle", "waiting", "notified"}]
      /\ \A r \in Callers : recv'[r] # "waiting"
    BY DEF NetInv, NetShape, Net!End, Net!NotifyAll
<1> QED  BY <1>1 DEF WaitersWait

\* deliver(): one more frame is one more thread that was told of it, unless
\* nobody waits.
LEMMA DeliverKeeps ==
    ASSUME NetInv, Net!Deliver, UNCHANGED ended
    PROVE  /\ recv' \in [Callers -> {"idle", "waiting", "notified"}]
           /\ queue' \in Nat /\ WaitersWait'
<1>1. recv \in [Callers -> {"idle", "waiting", "notified"}] /\ queue \in Nat /\ WaitersWait
    BY DEF NetInv, NetShape
<1>2. CASE UNCHANGED <<queue, recv>>
    BY <1>1, <1>2, NetLeftAlone
<1>3. ASSUME NEW r \in Callers, recv[r] = "waiting", recv' = [recv EXCEPT ![r] = "notified"],
             queue' = queue + 1
      PROVE  /\ recv' \in [Callers -> {"idle", "waiting", "notified"}]
             /\ queue' \in Nat /\ WaitersWait'
    <2>1. /\ recv' \in [Callers -> {"idle", "waiting", "notified"}]
          /\ Notified' = Notified \cup {r} /\ r \notin Notified
        BY <1>1, <1>3 DEF Notified
    <2>2. Cardinality(Notified') = Cardinality(Notified) + 1 /\ Cardinality(Notified) \in Nat
        <3>1. Notified \subseteq Callers
            BY DEF Notified
        <3> QED  BY <2>1, <3>1, CallersCount
    <2>3. ended = "none" /\ queue <= Cardinality(Notified)
        BY <1>1, <1>3 DEF WaitersWait
    <2> QED  BY <1>1, <1>3, <2>1, <2>2, <2>3 DEF WaitersWait
<1>4. CASE (\A r \in Callers : recv[r] # "waiting") /\ UNCHANGED recv /\ queue' = queue + 1
    BY <1>1, <1>4 DEF WaitersWait
<1> QED  BY <1>2, <1>3, <1>4 DEF Net!Deliver, Net!NotifyOne

\* on_complete of start_receiving().
LEMMA OnCompleteKeeps ==
    ASSUME NetInv, NEW t \in Receives, Net!OnComplete(t)
    PROVE  NetInv'
<1>1. nRx[t] \in RxState /\ nRx \in [Receives -> RxState] /\ (nRx[t].cancelling => nRx[t].stop)
    BY DEF NetInv, NetShape, StopFirst
<1>2. UNCHANGED <<send, txInFlight, tx, closing>>
    BY DEF Net!OnComplete, Net!txVars
<1>3. nEvt'.t \in Receives
    BY DEF Net!OnComplete
<1>4. nRx' \in [Receives -> RxState] /\ StopFirst'
    <2>1. ASSUME NEW n \in Nat, nRx' = [nRx EXCEPT ![t].failures = n]
          PROVE  nRx' \in [Receives -> RxState] /\ StopFirst'
        <3>1. PICK r : r = [nRx[t] EXCEPT !.failures = n]
            OBVIOUS
        <3>2. /\ r \in RxState /\ r.stop = nRx[t].stop /\ r.cancelling = nRx[t].cancelling
              /\ r.at = nRx[t].at
            BY <1>1, <3>1 DEF RxState
        <3>3. nRx' = [nRx EXCEPT ![t] = r]
            BY <1>1, <2>1, <3>1
        <3> QED  BY <1>1, <1>2, <3>2, <3>3, OneReceive
    <2>2. CASE nRx' = [nRx EXCEPT ![t].failures = 0]
        BY <2>1, <2>2
    <2>3. CASE nRx' = [nRx EXCEPT ![t].failures = @ + 1]
        <3>1. nRx[t].failures + 1 \in Nat
            BY <1>1 DEF RxState
        <3>2. nRx' = [nRx EXCEPT ![t].failures = nRx[t].failures + 1]
            BY <1>1, <2>3
        <3> QED  BY <2>1, <3>1, <3>2
    <2>4. CASE UNCHANGED nRx
        BY <1>1, <1>2, <2>4, NetLeftAlone
    <2> QED  BY <2>2, <2>3, <2>4 DEF Net!OnComplete
<1>5. /\ recv' \in [Callers -> {"idle", "waiting", "notified"}] /\ queue' \in Nat /\ WaitersWait'
    <2>1. CASE UNCHANGED <<recv, queue, ended>>
        BY <2>1, NetLeftAlone DEF NetInv, NetShape
    <2>2. ASSUME NEW why, Net!End(why), UNCHANGED queue
          PROVE  /\ recv' \in [Callers -> {"idle", "waiting", "notified"}] /\ queue' \in Nat
                 /\ WaitersWait'
        BY <2>2, EndWakesAll DEF NetInv, NetShape
    <2>3. CASE Net!Deliver /\ UNCHANGED ended
        BY <2>3, DeliverKeeps
    <2>4. \/ UNCHANGED <<recv, queue, ended>>
          \/ Net!Deliver /\ UNCHANGED ended
          \/ \E why : Net!End(why) /\ UNCHANGED queue
        BY DEF Net!OnComplete
    <2> QED  BY <2>1, <2>2, <2>3, <2>4
<1>6. NetShape'
    BY <1>2, <1>3, <1>4, <1>5 DEF NetInv, NetShape
<1> QED  BY <1>2, <1>4, <1>5, <1>6, NetLeftAlone DEF NetInv

\* The end of close(): every flag is set, every flying transfer cancelled.
LEMMA CloseEndsKeeps ==
    ASSUME NetInv, Net!CloseEnds
    PROVE  NetInv'
<1>1. /\ UNCHANGED <<nRx, queue, send, txInFlight, tx, nEvt>> /\ Net!End("NoDevice")
      /\ \A t \in Receives : /\ nRx[t].stop \/ nRx[t].cancelling
                             /\ nRx[t].at = "flight" => nRx[t].cancelling
    BY DEF Net!CloseEnds, Net!txVars
<1>2. StopFirst'
    BY <1>1 DEF NetInv, StopFirst
<1>3. recv' \in [Callers -> {"idle", "waiting", "notified"}] /\ WaitersWait'
    BY <1>1, EndWakesAll
<1>4. NetShape'
    BY <1>1, <1>3 DEF NetInv, NetShape
<1> QED  BY <1>1, <1>2, <1>3, <1>4, NetLeftAlone DEF NetInv

\* One pass of recv(): a frame that is taken is one that was counted for the
\* thread that takes it, or one that a woken thread will not find.
LEMMA RecvKeeps ==
    ASSUME NetInv, NEW r \in Callers, Net!RecvLooks(r)
    PROVE  NetInv'
<1>1. UNCHANGED <<nRx, ended, nEvt, send, txInFlight, tx, closing>>
    BY DEF Net!RecvLooks, Net!txVars
<1>2. /\ recv \in [Callers -> {"idle", "waiting", "notified"}] /\ queue \in Nat /\ WaitersWait
      /\ recv[r] \in {"idle", "notified"}
    BY DEF NetInv, NetShape, Net!RecvLooks
<1>3. Notified \subseteq Callers /\ Cardinality(Notified) \in Nat
    BY CallersCount DEF Notified
<1>4. CASE queue > 0 /\ queue' = queue - 1 /\ recv' = [recv EXCEPT ![r] = "idle"]
    <2>1. recv' \in [Callers -> {"idle", "waiting", "notified"}] /\ queue' \in Nat
        BY <1>2, <1>4
    <2>2. Notified' = Notified \ {r} /\ \A v \in Callers : recv'[v] = "waiting" => recv[v] = "waiting"
        BY <1>2, <1>4 DEF Notified
    <2>3. Cardinality(Notified') >= Cardinality(Notified) - 1
        <3>1. CASE r \in Notified
            BY <1>3, <2>2, <3>1, CallersCount
        <3>2. CASE r \notin Notified
            <4>1. Notified' = Notified
                BY <2>2, <3>2
            <4> QED  BY <1>3, <4>1
        <3> QED  BY <3>1, <3>2
    <2>4. Cardinality(Notified') \in Nat
        BY <1>3, <2>2, CallersCount
    <2>5. WaitersWait'
        BY <1>1, <1>2, <1>3, <1>4, <2>2, <2>3, <2>4 DEF WaitersWait
    <2> QED  BY <1>1, <2>1, <2>5, NetLeftAlone DEF NetInv, NetShape
<1>5. CASE queue = 0 /\ ended # "none" /\ recv' = [recv EXCEPT ![r] = "idle"] /\ UNCHANGED queue
    <2>1. /\ recv' \in [Callers -> {"idle", "waiting", "notified"}]
          /\ \A v \in Callers : recv'[v] = "waiting" => recv[v] = "waiting"
        BY <1>2, <1>5
    <2>2. WaitersWait'
        BY <1>1, <1>2, <1>5, <2>1 DEF WaitersWait
    <2> QED  BY <1>1, <1>5, <2>1, <2>2, NetLeftAlone DEF NetInv, NetShape
<1>6. CASE queue = 0 /\ ended = "none" /\ recv' = [recv EXCEPT ![r] = "waiting"] /\ UNCHANGED queue
    <2>1. recv' \in [Callers -> {"idle", "waiting", "notified"}]
        BY <1>2, <1>6
    <2>2. Notified' \subseteq Callers
        BY DEF Notified
    <2>3. Cardinality(Notified') \in Nat
        BY <2>2, CallersCount
    <2>4. WaitersWait'
        BY <1>1, <1>6, <2>3 DEF WaitersWait
    <2> QED  BY <1>1, <1>6, <2>1, <2>4, NetLeftAlone DEF NetInv, NetShape
<1> QED  BY <1>4, <1>5, <1>6 DEF Net!RecvLooks

\* send(): fetch_add decides who has a slot, and every slot that is taken is
\* passed on to a transfer or given back.
LEMMA SendKeeps ==
    ASSUME NetInv, NEW s \in Callers,
           Net!SendChecks(s) \/ Net!SendTakesSlot(s) \/ Net!SendSubmits(s)
    PROVE  NetInv'
<1>1. UNCHANGED <<nRx, queue, recv, nEvt, ended, closing>>
    BY DEF Net!SendChecks, Net!SendTakesSlot, Net!SendSubmits, Net!rxVars
<1>2. /\ send \in [Callers -> {"idle", "checked", "slot", "full"}] /\ txInFlight \in Nat /\ tx \in Nat
      /\ SlotCount
    BY DEF NetInv, NetShape
<1>3. /\ Busy \subseteq Callers /\ Slots \subseteq Callers
      /\ Cardinality(Busy) \in Nat /\ Cardinality(Slots) \in Nat /\ Cardinality(Slots) <= Cardinality(Busy)
    <2>1. Busy \subseteq Callers /\ Slots \subseteq Busy
        BY DEF Busy, Slots
    <2> QED  BY <2>1, CallersCount, FS_Subset
<1>4. /\ send' \in [Callers -> {"idle", "checked", "slot", "full"}]
      /\ txInFlight' \in Nat /\ tx' \in Nat /\ SlotCount'
    <2>1. CASE Net!SendChecks(s)
        <3>1. Busy' = Busy /\ Slots' = Slots /\ UNCHANGED <<txInFlight, tx>>
            BY <1>2, <2>1 DEF Net!SendChecks, Busy, Slots
        <3>2. send' \in [Callers -> {"idle", "checked", "slot", "full"}]
            BY <1>2, <2>1 DEF Net!SendChecks
        <3> QED  BY <1>2, <3>1, <3>2 DEF SlotCount
    <2>2. CASE Net!SendTakesSlot(s) /\ txInFlight >= TxQueue
        <3>1. Busy' = Busy \cup {s} /\ s \notin Busy /\ Slots' = Slots
            BY <1>2, <2>2 DEF Net!SendTakesSlot, Busy, Slots
        <3>2. /\ send' \in [Callers -> {"idle", "checked", "slot", "full"}]
              /\ txInFlight' = txInFlight + 1 /\ UNCHANGED tx
            BY <1>2, <2>2 DEF Net!SendTakesSlot
        <3>3. Cardinality(Busy') = Cardinality(Busy) + 1
            BY <1>3, <3>1, CallersCount
        <3> QED  BY <1>2, <1>3, <3>1, <3>2, <3>3 DEF SlotCount
    <2>3. CASE Net!SendTakesSlot(s) /\ ~(txInFlight >= TxQueue)
        <3>1. Busy' = Busy \cup {s} /\ s \notin Busy /\ Slots' = Slots \cup {s} /\ s \notin Slots
            BY <1>2, <2>3 DEF Net!SendTakesSlot, Busy, Slots
        <3>2. /\ send' \in [Callers -> {"idle", "checked", "slot", "full"}]
              /\ txInFlight' = txInFlight + 1 /\ UNCHANGED tx
            BY <1>2, <2>3 DEF Net!SendTakesSlot
        <3>3. Cardinality(Busy') = Cardinality(Busy) + 1 /\ Cardinality(Slots') = Cardinality(Slots) + 1
            BY <1>3, <3>1, CallersCount
        <3> QED  BY <1>2, <1>3, <2>3, <3>2, <3>3, ClassesAssumption DEF SlotCount
    <2>4. CASE Net!SendSubmits(s)
        <3>1. /\ Busy' = Busy \ {s} /\ s \in Busy /\ Slots' = Slots \ {s}
              /\ send' \in [Callers -> {"idle", "checked", "slot", "full"}]
            BY <1>2, <2>4 DEF Net!SendSubmits, Busy, Slots
        <3>2. Cardinality(Busy') = Cardinality(Busy) - 1 /\ Cardinality(Busy) > 0
            BY <1>3, <3>1, CallersCount
        <3>3. CASE s \in Slots /\ tx' = tx + 1 /\ UNCHANGED txInFlight
            <4>1. Cardinality(Slots') = Cardinality(Slots) - 1 /\ Cardinality(Slots) > 0
                BY <1>3, <3>1, <3>3, CallersCount
            <4> QED  BY <1>2, <1>3, <3>1, <3>2, <3>3, <4>1, ClassesAssumption DEF SlotCount
        <3>4. CASE txInFlight' = txInFlight - 1 /\ UNCHANGED tx
            <4>1. Cardinality(Slots') <= Cardinality(Slots) /\ Cardinality(Slots') \in Nat
                <5>1. CASE s \in Slots
                    BY <1>3, <3>1, <5>1, CallersCount
                <5>2. CASE s \notin Slots
                    <6>1. Slots' = Slots
                        BY <3>1, <5>2
                    <6> QED  BY <1>3, <6>1
                <5> QED  BY <5>1, <5>2
            <4> QED  BY <1>2, <1>3, <3>1, <3>2, <3>4, <4>1, ClassesAssumption DEF SlotCount
        <3>5. s \in Slots <=> send[s] = "slot"
            BY DEF Slots
        <3> QED  BY <2>4, <3>3, <3>4, <3>5 DEF Net!SendSubmits
    <2> QED  BY <2>1, <2>2, <2>3, <2>4
<1>5. NetShape'
    BY <1>1, <1>4 DEF NetInv, NetShape
<1> QED  BY <1>1, <1>4, <1>5, NetLeftAlone DEF NetInv

\* The callback of a transmit transfer.
LEMMA SendCompletesKeeps ==
    ASSUME NetInv, Net!SendCompletes
    PROVE  NetInv'
<1>1. /\ UNCHANGED <<nRx, queue, recv, nEvt, ended, closing, send>>
      /\ tx > 0 /\ tx' = tx - 1 /\ txInFlight' = txInFlight - 1
    BY DEF Net!SendCompletes, Net!rxVars
<1>2. Busy' = Busy /\ Slots' = Slots /\ Cardinality(Busy) \in Nat /\ Cardinality(Slots) \in Nat
    BY <1>1, CallersCount DEF Busy, Slots
<1>3. tx' \in Nat /\ txInFlight' \in Nat /\ SlotCount'
    BY <1>1, <1>2, ClassesAssumption DEF NetInv, NetShape, SlotCount
<1> QED  BY <1>1, <1>3, NetLeftAlone DEF NetInv, NetShape

\* Every step keeps the invariant.
LEMMA NetNextInv ==
    ASSUME NetInv, [Net!Next]_(Net!vars)
    PROVE  NetInv'
<1>1. CASE \/ UNCHANGED Net!vars \/ Net!Unplug \/ Net!CloseBegins
           \/ \E on \in BOOLEAN : Net!SetHandler(on)
    <2>1. UNCHANGED <<nRx, queue, recv, send, txInFlight, tx, nEvt, ended>>
        BY <1>1 DEF Net!vars, Net!Unplug, Net!CloseBegins, Net!SetHandler, Net!rxVars, Net!txVars
    <2>2. closing' # "closed" \/ UNCHANGED closing
        BY <1>1 DEF Net!vars, Net!Unplug, Net!CloseBegins, Net!SetHandler
    <2>3. StopFirst'
        BY <2>1, <2>2 DEF NetInv, StopFirst
    <2> QED  BY <2>1, <2>3, NetLeftAlone DEF NetInv, NetShape
<1> QED  BY <1>1, RxStepKeeps, ResubmitKeeps, OnCompleteKeeps, CloseEndsKeeps, RecvKeeps, SendKeeps,
            SendCompletesKeeps DEF Net!Next, Net!EventThread, Net!Closer

\* The invariant holds throughout, whenever the part at hand is the network function.
LEMMA NetInvariant == Spec => [](part = "net" => NetInv)
<1>1. Init => (part = "net" => NetInv)
    BY NetInitInv DEF Init
<1>2. (part = "net" => NetInv) /\ [Next]_vars => (part = "net" => NetInv)'
    <2>1. ASSUME part = "net", NetInv, [Next]_vars PROVE NetInv'
        BY <2>1, NetMoves, NetNextInv
    <2>2. ASSUME part # "net", [Next]_vars PROVE part' # "net"
        BY <2>2 DEF Next, vars
    <2> QED  BY <2>1, <2>2
<1> QED  BY <1>1, <1>2, PTL DEF Spec

\* The instance counts as the library does.
LEMMA NetCounts == \A S : Net!Cardinality(S) = Cardinality(S)
BY DEF Net!Cardinality, Cardinality

\* send() and its callbacks: for any number of senders, tx_in_flight is exact and
\* no more than TX_QUEUE transfers are ever let through.
THEOREM SlotsAreExact == Spec => []SlotsExact
<1>1. (part = "net" => NetInv) => SlotsExact
    BY NetCounts DEF NetInv, SlotCount, Busy, Slots, SlotsExact, Net!SlotsExact
<1> QED  BY <1>1, NetInvariant, PTL

\* recv(): for any number of threads, none sleeps on the condvar while a frame
\* nobody was told of is queued, or after the device has ended.
THEOREM NoReceiverIsStranded == Spec => []NoStrandedReceiver
<1>1. (part = "net" => NetInv) => NoStrandedReceiver
    BY NetCounts DEF NetInv, WaitersWait, Notified, NoStrandedReceiver, Net!NoStrandedReceiver
<1> QED  BY <1>1, NetInvariant, PTL

-----------------------------------------------------------------------------
(* The video stream *)

\* What a transfer is made of; what it carries is of no concern here.
IsTransfer(x) ==
    x = [at |-> x.at, status |-> x.status, payload |-> x.payload, cancelling |-> x.cancelling]

UvcShape ==
    /\ xfer = [t \in Ring |-> xfer[t]]
    /\ \A t \in Ring : IsTransfer(xfer[t])

\* stop() sets the flag before it cancels, and nothing else cancels; once it
\* waits, everything in flight has been cancelled.
StopsInOrder ==
    /\ user # "streaming" => stopped
    /\ user \in {"waiting", "gone"} => \A t \in Ring : xfer[t].at = "flight" => xfer[t].cancelling
    /\ ~stopped => \A t \in Ring : ~xfer[t].cancelling /\ xfer[t].status # "Cancelled"

RingLives == (~stopped /\ \A t \in Ring : xfer[t].at = "idle") => failure # "none"

UvcInv == UvcShape /\ StopsInOrder /\ RingLives

\* The parts that are not at hand do not move, the one at hand as it does alone.
LEMMA UvcMoves ==
    ASSUME part = "uvc", [Next]_vars
    PROVE  part' = "uvc" /\ [Uvc!Next]_(Uvc!vars)
<1> USE DEF vars, dataVars, uvcVars, Uvc!vars
<1>1. CASE UNCHANGED vars
    BY <1>1
<1>2. CASE Next
    BY <1>2 DEF Next, DataNext, NetworkNext, StorageNext, OtherNext
<1> QED  BY <1>1, <1>2

\* The records the stream puts into its ring.
LEMMA RingRecords ==
    /\ IsTransfer(Uvc!Idle) /\ Uvc!Idle.at = "idle" /\ ~Uvc!Idle.cancelling /\ Uvc!Idle.status # "Cancelled"
    /\ IsTransfer(Uvc!Flying) /\ Uvc!Flying.at = "flight" /\ ~Uvc!Flying.cancelling
    /\ Uvc!Flying.status # "Cancelled"
<1>1. IsTransfer(Uvc!Idle) /\ Uvc!Idle.at = "idle" /\ ~Uvc!Idle.cancelling /\ Uvc!Idle.status # "Cancelled"
    BY DEF Uvc!Idle, IsTransfer
<1>2. PICK i : i = Uvc!Idle
    OBVIOUS
<1>3. PICK f : f = [i EXCEPT !.at = "flight"]
    OBVIOUS
<1>4. f = Uvc!Flying
    BY <1>2, <1>3 DEF Uvc!Flying
<1>5. IsTransfer(f) /\ f.at = "flight" /\ f.cancelling = i.cancelling /\ f.status = i.status
    BY <1>1, <1>2, <1>3 DEF IsTransfer
<1> QED  BY <1>1, <1>2, <1>4, <1>5

\* A stream whose transfers have all been submitted satisfies the invariant.
LEMMA UvcInitInv == Uvc!Init => UvcInv
<1> SUFFICES ASSUME Uvc!Init PROVE UvcInv
    OBVIOUS
<1>1. /\ xfer = [t \in Ring |-> Uvc!Flying] /\ stopped = FALSE /\ user = "streaming"
    BY DEF Uvc!Init
<1>2. \A t \in Ring : xfer[t] = Uvc!Flying
    BY <1>1
<1>3. UvcShape
    BY <1>1, <1>2, RingRecords DEF UvcShape
<1>4. StopsInOrder
    BY <1>1, <1>2, RingRecords DEF StopsInOrder
<1>5. RingLives
    BY <1>2, RingRecords, ClassesAssumption DEF RingLives
<1> QED  BY <1>3, <1>4, <1>5 DEF UvcInv

\* One entry of the ring changes.
LEMMA OneTransfer ==
    ASSUME UvcInv, NEW t \in Ring, NEW x, IsTransfer(x), xfer' = [xfer EXCEPT ![t] = x]
    PROVE  UvcShape'
<1>1. xfer = [u \in Ring |-> xfer[u]]
    BY DEF UvcInv, UvcShape
<1>2. /\ xfer' = [u \in Ring |-> xfer'[u]]
      /\ \A u \in Ring : xfer'[u] = IF u = t THEN x ELSE xfer[u]
    BY <1>1
<1>3. \A u \in Ring : IsTransfer(xfer'[u])
    <2>1. \A u \in Ring : IsTransfer(xfer[u])
        BY DEF UvcInv, UvcShape
    <2> HIDE DEF IsTransfer
    <2> QED  BY <1>2, <2>1
<1> QED  BY <1>2, <1>3 DEF UvcShape

\* A transfer ends, with a result that says it was cancelled only if it was.
LEMMA EndsKeeps ==
    ASSUME UvcInv, NEW t, NEW status, NEW payload, Uvc!Ends(t, status, payload),
           t \in Ring => (status = "Cancelled" => xfer[t].cancelling)
    PROVE  UvcInv'
<1>1. UNCHANGED <<stopped, failure, user>>
    BY DEF Uvc!Ends
<1>2. CASE t \in Ring
    <2>1. IsTransfer(xfer[t])
        BY <1>2 DEF UvcInv, UvcShape
    <2>2. PICK x : x = [xfer[t] EXCEPT !.at = "done", !.status = status, !.payload = payload]
        OBVIOUS
    <2>3. IsTransfer(x) /\ x.at = "done" /\ x.status = status /\ x.cancelling = xfer[t].cancelling
        BY <2>1, <2>2 DEF IsTransfer
    <2>4. xfer' = [xfer EXCEPT ![t] = x]
        BY <1>2, <2>2 DEF Uvc!Ends, UvcInv, UvcShape
    <2>5. UvcShape'
        BY <1>2, <2>3, <2>4, OneTransfer
    <2>6. \A u \in Ring : xfer'[u] = IF u = t THEN x ELSE xfer[u]
        BY <1>2, <2>4 DEF UvcInv, UvcShape
    <2>7. StopsInOrder'
        BY <1>1, <1>2, <2>3, <2>6 DEF UvcInv, StopsInOrder
    <2>8. RingLives'
        BY <1>2, <2>3, <2>6 DEF RingLives
    <2> QED  BY <2>5, <2>7, <2>8 DEF UvcInv
<1>3. CASE t \notin Ring
    <2>1. xfer' = xfer
        BY <1>3 DEF Uvc!Ends, UvcInv, UvcShape
    <2> QED  BY <1>1, <2>1 DEF UvcInv, UvcShape, StopsInOrder, RingLives
<1> QED  BY <1>2, <1>3

\* The camera and the kernel.
LEMMA CameraKeeps ==
    ASSUME UvcInv,
           \/ \E eof, err, malformed \in BOOLEAN : Uvc!PayloadArrives(eof, err, malformed)
           \/ Uvc!LosesPayload \/ Uvc!EndpointFails \/ \E t \in Ring : Uvc!CancelTakesEffect(t)
    PROVE  UvcInv'
<1>1. ASSUME NEW t, NEW status, NEW payload, Uvc!Ends(t, status, payload), status # "Cancelled"
      PROVE  UvcInv'
    BY <1>1, EndsKeeps
<1>2. ASSUME NEW eof, NEW err, NEW malformed, Uvc!PayloadArrives(eof, err, malformed) PROVE UvcInv'
    BY <1>1, <1>2 DEF Uvc!PayloadArrives
<1>3. CASE Uvc!LosesPayload \/ Uvc!EndpointFails
    BY <1>1, <1>3 DEF Uvc!LosesPayload, Uvc!EndpointFails
<1>4. ASSUME NEW t \in Ring, Uvc!CancelTakesEffect(t) PROVE UvcInv'
    BY <1>4, EndsKeeps DEF Uvc!CancelTakesEffect
<1> QED  BY <1>2, <1>3, <1>4

\* on_complete(): a transfer stays out of the ring only because the stream was
\* stopped or because a failure was recorded.
LEMMA OnCompleteKeepsRing ==
    ASSUME UvcInv, NEW t \in Ring, Uvc!OnComplete(t)
    PROVE  UvcInv'
<1>1. UNCHANGED <<stopped, user>>
    BY DEF Uvc!OnComplete
<1>2. CASE ~stopped /\ xfer' = [xfer EXCEPT ![t] = Uvc!Flying] /\ UNCHANGED failure
    <2>1. UvcShape'
        BY <1>2, OneTransfer, RingRecords
    <2>2. \A u \in Ring : xfer'[u] = IF u = t THEN Uvc!Flying ELSE xfer[u]
        BY <1>2 DEF UvcInv, UvcShape
    <2>3. StopsInOrder' /\ RingLives'
        BY <1>1, <1>2, <2>2, RingRecords DEF UvcInv, StopsInOrder, RingLives
    <2> QED  BY <2>1, <2>3 DEF UvcInv
<1>3. CASE xfer' = [xfer EXCEPT ![t] = Uvc!Idle] /\ (stopped \/ failure' # "none")
    <2>1. UvcShape'
        BY <1>3, OneTransfer, RingRecords
    <2>2. \A u \in Ring : xfer'[u] = IF u = t THEN Uvc!Idle ELSE xfer[u]
        BY <1>3 DEF UvcInv, UvcShape
    <2>3. StopsInOrder' /\ RingLives'
        BY <1>1, <1>3, <2>2, RingRecords DEF UvcInv, StopsInOrder, RingLives
    <2> QED  BY <2>1, <2>3 DEF UvcInv
<1>4. \/ ~stopped /\ xfer' = [xfer EXCEPT ![t] = Uvc!Flying] /\ UNCHANGED failure
      \/ xfer' = [xfer EXCEPT ![t] = Uvc!Idle] /\ (stopped \/ failure' # "none")
    <2>1. xfer[t].status = "Cancelled" => stopped
        BY DEF UvcInv, StopsInOrder
    <2> QED  BY <2>1 DEF Uvc!OnComplete, Uvc!Resubmit
<1> QED  BY <1>2, <1>3, <1>4

\* The owner's calls.
LEMMA OwnerKeeps ==
    ASSUME UvcInv, Uvc!Stop \/ Uvc!StopCancels \/ Uvc!StopWaits \/ Uvc!NextFrame
                   \/ (\E t \in Ring : Uvc!OnCompleteIsochronous(t)) \/ UNCHANGED Uvc!vars
    PROVE  UvcInv'
<1>1. CASE UNCHANGED <<xfer, stopped, failure, user>>
    BY <1>1 DEF UvcInv, UvcShape, StopsInOrder, RingLives
<1>2. CASE Uvc!Stop
    BY <1>2 DEF Uvc!Stop, UvcInv, UvcShape, StopsInOrder, RingLives
<1>3. ASSUME NEW t \in Ring, user = "cancelling", xfer' = [xfer EXCEPT ![t].cancelling = TRUE],
             UNCHANGED <<user, stopped, failure>>
      PROVE  UvcInv'
    <2>1. IsTransfer(xfer[t])
        BY DEF UvcInv, UvcShape
    <2>2. PICK x : x = [xfer[t] EXCEPT !.cancelling = TRUE]
        OBVIOUS
    <2>3. IsTransfer(x) /\ x.at = xfer[t].at
        BY <2>1, <2>2 DEF IsTransfer
    <2>4. xfer' = [xfer EXCEPT ![t] = x]
        BY <1>3, <2>2 DEF UvcInv, UvcShape
    <2>5. UvcShape'
        BY <2>3, <2>4, OneTransfer
    <2>6. StopsInOrder' /\ RingLives'
        BY <1>3 DEF UvcInv, StopsInOrder, RingLives
    <2> QED  BY <2>5, <2>6 DEF UvcInv
<1>4. CASE Uvc!StopCancels
    <2>1. CASE /\ \A t \in Ring : xfer[t].at = "flight" => xfer[t].cancelling
               /\ user = "cancelling" /\ user' = "waiting" /\ UNCHANGED <<xfer, stopped, failure>>
        BY <2>1 DEF UvcInv, UvcShape, StopsInOrder, RingLives
    <2> QED  BY <1>3, <1>4, <2>1 DEF Uvc!StopCancels
<1>5. CASE Uvc!StopWaits
    BY <1>5 DEF Uvc!StopWaits, UvcInv, UvcShape, StopsInOrder, RingLives
<1> QED  BY <1>1, <1>2, <1>4, <1>5 DEF Uvc!NextFrame, Uvc!OnCompleteIsochronous, Uvc!vars

\* The invariant holds throughout, whenever the part at hand is the video stream.
LEMMA UvcInvariant == Spec => [](part = "uvc" => UvcInv)
<1>1. Init => (part = "uvc" => UvcInv)
    BY UvcInitInv DEF Init
<1>2. (part = "uvc" => UvcInv) /\ [Next]_vars => (part = "uvc" => UvcInv)'
    <2>1. ASSUME part = "uvc", UvcInv, [Next]_vars PROVE UvcInv'
        <3>1. [Uvc!Next]_(Uvc!vars)
            BY <2>1, UvcMoves
        <3> QED  BY <2>1, <3>1, CameraKeeps, OnCompleteKeepsRing, OwnerKeeps DEF Uvc!Next
    <2>2. ASSUME part # "uvc", [Next]_vars PROVE part' # "uvc"
        BY <2>2 DEF Next, vars
    <2> QED  BY <2>1, <2>2
<1> QED  BY <1>1, <1>2, PTL DEF Spec

\* on_complete(): for a ring of any size, a stream nobody stopped either has a
\* transfer on its way or a failure recorded for next().
THEOREM SilenceIsAlwaysExplained == Spec => []SilenceIsExplained
<1>1. (part = "uvc" => UvcInv) => SilenceIsExplained
    BY DEF UvcInv, RingLives, SilenceIsExplained, Uvc!SilenceIsExplained
<1> QED  BY <1>1, UvcInvariant, PTL

\* Pump::stop() and NetDevice::close(): what is still in flight when they return
\* has been cancelled, and no callback submits a transfer again.
THEOREM StoppedStaysQuiet == Spec => []StoppedIsQuiet
<1>1. (part = "uvc" => UvcInv) /\ (part = "net" => NetInv) => StoppedIsQuiet
    BY DEF UvcInv, StopsInOrder, NetInv, StopFirst, StoppedIsQuiet, Uvc!StoppedStaysStopped,
           Net!ClosedIsQuiet
<1> QED  BY <1>1, UvcInvariant, NetInvariant, PTL

(* Camera::start() *)

StreamState ==
    [pc : {"none", "probe", "commit", "alt", "pump", "streaming"}, control : Seq(Nat), len : Nat,
     alt : Nat, frame : Nat]
StreamDevice == [offered : Seq(Nat), committed : Seq(Nat), alt : Nat, reset : BOOLEAN]

StartShape ==
    /\ vIso \in BOOLEAN /\ version \in 3..5
    /\ vDev \in StreamDevice /\ vStrm \in [Callers -> StreamState]
    /\ crossed \in BOOLEAN
    /\ \A s \in Callers : /\ vStrm[s].pc \notin {"none", "probe"} => Len(vStrm[s].control) = 5
                          /\ vStrm[s].pc = "alt" => vIso

\* What a setting of size n is to a payload: the tightest fit, or else the largest.
BestFit(n, payload) ==
    \A a \in DOMAIN CamBandwidth :
        /\ n < payload => CamBandwidth[a] <= n
        /\ n >= payload /\ CamBandwidth[a] > 0 => CamBandwidth[a] >= n \/ CamBandwidth[a] < payload

\* A start() that is alone, or the stream it has become.
StreamFits(x) ==
    /\ x.pc \notin {"none", "probe"} =>
          /\ Len(vDev.offered) <= version
          /\ \A i \in 1..5 : x.control[i] = IF i <= Len(vDev.offered) THEN vDev.offered[i] ELSE 0
    /\ x.pc \in {"alt", "pump", "streaming"} =>
          /\ Len(vDev.committed) = version
          /\ \A i \in 1..version : vDev.committed[i] = x.control[i]
          /\ x.frame > 0
    /\ vIso /\ x.pc \in {"pump", "streaming"} =>
          /\ vDev.alt = x.alt /\ x.alt \in DOMAIN CamBandwidth /\ x.len = CamBandwidth[x.alt]
          /\ BestFit(x.len, x.control[3])
    /\ ~vIso /\ x.pc = "streaming" => x.len >= x.control[3] /\ x.len % CamPacket = 0

ResetFits ==
    /\ vDev.reset /\ vDev.alt # 0 => vIso /\ \E s \in Callers : vStrm[s].pc \in {"pump", "streaming"}
    /\ vIso /\ vDev.reset => orphans = 0

StartInv ==
    /\ StartShape /\ ResetFits
    /\ ~crossed =>
          /\ \A s \in Callers : StreamFits(vStrm[s])
          /\ \A s, o \in Callers : vStrm[s].pc # "none" /\ vStrm[o].pc # "none" => s = o

\* A step of MCClasses while a stream's start is the part at hand is a step of it.
LEMMA StartMoves == part = "start" /\ [Next]_vars => [Start!Next]_(Start!vars)
<1> SUFFICES ASSUME part = "start", [Next]_vars PROVE [Start!Next]_(Start!vars)
    OBVIOUS
<1> USE DEF otherVars, startVars, Start!vars
<1>1. CASE UNCHANGED vars
    BY <1>1 DEF vars
<1>2. CASE Next
    <2>1. OtherNext \/ UNCHANGED otherVars
        BY <1>2 DEF Next
    <2>2. CASE OtherNext
        BY <2>2 DEF OtherNext
    <2>3. CASE UNCHANGED otherVars
        BY <2>3
    <2> QED  BY <2>1, <2>2, <2>3
<1> QED  BY <1>1, <1>2

\* Whole packets: what the length is rounded up to.
LEMMA DivisionIs ==
    ASSUME NEW a \in Nat, NEW p \in Nat \ {0}
    PROVE  a \div p \in Nat /\ a % p \in 0..(p - 1) /\ a = p * (a \div p) + (a % p)
OBVIOUS

LEMMA MultipleIs ==
    ASSUME NEW q \in Nat, NEW p \in Nat \ {0}
    PROVE  (q * p) % p = 0
<1>1. PICK a \in Nat : a = q * p
    OBVIOUS
<1>2. PICK d \in Nat, r \in 0..(p - 1) : d = a \div p /\ r = a % p /\ a = p * d + r
    BY DivisionIs
<1>3. p * (q - d) = r
    BY <1>1, <1>2
<1>4. q - d = 0
    BY <1>3
<1>5. r = 0
    BY <1>3, <1>4
<1> QED  BY <1>1, <1>2, <1>5

LEMMA RoundedUp ==
    ASSUME NEW m \in Nat, NEW p \in Nat \ {0}, NEW n, n = ((m + p - 1) \div p) * p
    PROVE  n \in Nat /\ n >= m /\ n % p = 0
<1>1. PICK a \in Nat : a = m + p - 1
    OBVIOUS
<1>2. PICK q \in Nat : q = a \div p /\ a = p * q + (a % p) /\ a % p \in 0..(p - 1)
    BY DivisionIs
<1>3. n = q * p
    BY <1>1, <1>2
<1>4. q * p >= m /\ q * p \in Nat
    BY <1>1, <1>2
<1>5. (q * p) % p = 0
    BY MultipleIs
<1> QED  BY <1>3, <1>4, <1>5

\* A finite set has a first element in any total order.
LEMMA LeastNumber ==
    ASSUME NEW C \in SUBSET Nat, C # {}
    PROVE  \E x \in C : \A y \in C : x <= y
<1>1. PICK x \in C : \A y \in C : ~(<<y, x>> \in OpToRel(<, Nat))
    BY NatLessThanWellFounded, WFMin
<1>2. \A y \in C : x <= y
    <2> TAKE y \in C
    <2>1. <<y, x>> \in Nat \X Nat /\ <<y, x>>[1] = y /\ <<y, x>>[2] = x
        OBVIOUS
    <2>2. ~(y < x)
        BY <1>1, <2>1, Zenon DEF OpToRel
    <2> QED  BY <2>2
<1> QED  BY <1>2

LEMMA FirstOfFinite ==
    ASSUME NEW S, IsFiniteSet(S), S # {}, NEW R,
           \A a, b \in S : <<a, b>> \in R \/ <<b, a>> \in R,
           \A a, b, c \in S : <<a, b>> \in R /\ <<b, c>> \in R => <<a, c>> \in R
    PROVE  \E a \in S : \A b \in S : <<a, b>> \in R
<1> DEFINE Ahead(a) == {b \in S : <<a, b>> \notin R}
           Counts == {Cardinality(Ahead(a)) : a \in S}
<1>1. \A a \in S : IsFiniteSet(Ahead(a)) /\ Cardinality(Ahead(a)) \in Nat
    BY FS_Subset, FS_CardinalityType
<1>2. \A a \in S : Cardinality(Ahead(a)) \in Counts
    OBVIOUS
<1>3. \A x \in Counts : \E a \in S : x = Cardinality(Ahead(a))
    OBVIOUS
<1> HIDE DEF Counts, Ahead
<1>4. Counts \in SUBSET Nat /\ Counts # {}
    <2>1. \A x \in Counts : x \in Nat
        BY <1>1, <1>3
    <2> QED  BY <1>2, <2>1
<1> USE DEF Ahead
<1>5. PICK x \in Counts : \A y \in Counts : x <= y
    BY <1>4, LeastNumber
<1>6. PICK a \in S : x = Cardinality(Ahead(a))
    BY <1>3
<1>7. ASSUME NEW b \in S, <<a, b>> \notin R PROVE FALSE
    <2>1. <<b, a>> \in R /\ <<b, b>> \in R
        BY <1>7
    <2>2. Ahead(b) \subseteq Ahead(a) /\ b \in Ahead(a) /\ b \notin Ahead(b)
        BY <1>7, <2>1
    <2>3. Cardinality(Ahead(b)) <= Cardinality(Ahead(a)) /\ Cardinality(Ahead(b)) # Cardinality(Ahead(a))
        BY <1>1, <2>2, FS_Subset
    <2>4. Cardinality(Ahead(a)) <= Cardinality(Ahead(b))
        BY <1>2, <1>5, <1>6
    <2> QED  BY <1>1, <2>3, <2>4
<1> QED  BY <1>7

\* What ChooseAlt() picks is there, and fits as well as any setting can.
LEMMA ChooseAltIs ==
    ASSUME NEW payload \in Nat, Start!Candidates # {}, NEW alt, alt = Start!ChooseAlt(payload)
    PROVE  alt \in DOMAIN CamBandwidth /\ CamBandwidth[alt] \in Nat /\ BestFit(CamBandwidth[alt], payload)
<1>1. DOMAIN CamBandwidth = 1..Len(CamBandwidth) /\ Len(CamBandwidth) \in Nat
      /\ \A a \in DOMAIN CamBandwidth : CamBandwidth[a] \in Nat
    BY CameraAssumption, LenProperties
<1> DEFINE R == {p \in (DOMAIN CamBandwidth) \X (DOMAIN CamBandwidth) : Start!Before(p[1], p[2])}
           Q == {p \in (DOMAIN CamBandwidth) \X (DOMAIN CamBandwidth) : Start!Before(p[2], p[1])}
<1>2. \A a, b \in DOMAIN CamBandwidth : /\ <<a, b>> \in R <=> Start!Before(a, b)
                                        /\ <<a, b>> \in Q <=> Start!Before(b, a)
    OBVIOUS
<1>3. \A a, b \in DOMAIN CamBandwidth : Start!Before(a, b) \/ Start!Before(b, a)
    BY <1>1 DEF Start!Before
<1>4. \A a, b, c \in DOMAIN CamBandwidth : Start!Before(a, b) /\ Start!Before(b, c) => Start!Before(a, c)
    BY <1>1 DEF Start!Before
<1> HIDE DEF R, Q
<1>5. ASSUME NEW S, S \subseteq DOMAIN CamBandwidth, S # {}
      PROVE  /\ \E a \in S : \A b \in S : Start!Before(a, b)
             /\ \E a \in S : \A b \in S : Start!Before(b, a)
    <2>1. IsFiniteSet(S)
        <3>1. IsFiniteSet(1..Len(CamBandwidth))
            BY <1>1, FS_Interval
        <3> QED  BY <1>1, <1>5, <3>1, FS_Subset
    <2>2. \A a, b \in S : /\ <<a, b>> \in R <=> Start!Before(a, b)
                          /\ <<a, b>> \in Q <=> Start!Before(b, a)
        BY <1>2, <1>5
    <2>3. /\ \A a, b \in S : <<a, b>> \in R \/ <<b, a>> \in R
          /\ \A a, b \in S : <<a, b>> \in Q \/ <<b, a>> \in Q
        BY <1>3, <1>5, <2>2
    <2>4. /\ \A a, b, c \in S : <<a, b>> \in R /\ <<b, c>> \in R => <<a, c>> \in R
          /\ \A a, b, c \in S : <<a, b>> \in Q /\ <<b, c>> \in Q => <<a, c>> \in Q
        BY <1>4, <1>5, <2>2
    <2>5. \E a \in S : \A b \in S : <<a, b>> \in R
        BY <1>5, <2>1, <2>3, <2>4, FirstOfFinite
    <2>6. \E a \in S : \A b \in S : <<a, b>> \in Q
        BY <1>5, <2>1, <2>3, <2>4, FirstOfFinite
    <2> QED  BY <2>2, <2>5, <2>6
<1>6. CASE Start!Cover(payload) # {}
    <2>1. PICK S : S = Start!Cover(payload)
        OBVIOUS
    <2>2. S \subseteq DOMAIN CamBandwidth /\ S # {}
        BY <1>6, <2>1 DEF Start!Cover, Start!Candidates
    <2>3. alt = CHOOSE a \in S : \A b \in S : Start!Before(a, b)
        BY <1>6, <2>1 DEF Start!ChooseAlt
    <2>4. alt \in S /\ \A b \in S : Start!Before(alt, b)
        BY <1>5, <2>2, <2>3
    <2>5. alt \in DOMAIN CamBandwidth /\ CamBandwidth[alt] >= payload /\ CamBandwidth[alt] \in Nat
        BY <1>1, <2>1, <2>4 DEF Start!Cover, Start!Candidates
    <2>6. ASSUME NEW a \in DOMAIN CamBandwidth, CamBandwidth[a] > 0
          PROVE  CamBandwidth[a] >= CamBandwidth[alt] \/ CamBandwidth[a] < payload
        <3>1. CASE a \in S
            <4>1. Start!Before(alt, a)
                BY <2>4, <3>1
            <4> QED  BY <1>1, <2>5, <4>1 DEF Start!Before
        <3>2. CASE a \notin S
            BY <1>1, <2>1, <2>6, <3>2 DEF Start!Cover, Start!Candidates
        <3> QED  BY <3>1, <3>2
    <2>7. ~(CamBandwidth[alt] < payload)
        BY <2>5
    <2> QED  BY <2>5, <2>6, <2>7 DEF BestFit
<1>7. CASE Start!Cover(payload) = {}
    <2>1. PICK S : S = Start!Candidates
        OBVIOUS
    <2>2. S \subseteq DOMAIN CamBandwidth /\ S # {}
        BY <2>1 DEF Start!Candidates
    <2>3. alt = CHOOSE a \in S : \A b \in S : Start!Before(b, a)
        BY <1>7, <2>1 DEF Start!ChooseAlt
    <2>4. alt \in S /\ \A b \in S : Start!Before(b, alt)
        BY <1>5, <2>2, <2>3
    <2>5. alt \in DOMAIN CamBandwidth /\ CamBandwidth[alt] < payload /\ CamBandwidth[alt] \in Nat
        BY <1>1, <1>7, <2>1, <2>4 DEF Start!Cover, Start!Candidates
    <2>6. ASSUME NEW a \in DOMAIN CamBandwidth PROVE CamBandwidth[a] <= CamBandwidth[alt]
        <3>1. CASE a \in S
            <4>1. Start!Before(a, alt)
                BY <2>4, <3>1
            <4> QED  BY <1>1, <2>5, <4>1 DEF Start!Before
        <3>2. CASE a \notin S
            BY <1>1, <2>1, <2>5, <3>2 DEF Start!Candidates
        <3> QED  BY <3>1, <3>2
    <2>7. ~(CamBandwidth[alt] >= payload)
        BY <2>5
    <2> QED  BY <2>5, <2>6, <2>7 DEF BestFit
<1> QED  BY <1>6, <1>7

LEMMA NoStreamIs ==
    Start!NoStream \in StreamState /\ Start!NoStream.pc = "none" /\ StreamFits(Start!NoStream)
<1>1. /\ Start!NoStream \in StreamState /\ Start!NoStream.pc = "none"
    BY DEF Start!NoStream, StreamState
<1> QED  BY <1>1 DEF StreamFits

\* The first parts of a block.
LEMMA FrontIs ==
    ASSUME NEW s \in Seq(Nat), NEW n \in 1..Len(s), NEW u, u = SubSeq(s, 1, n)
    PROVE  u \in Seq(Nat) /\ Len(u) = n /\ \A i \in 1..n : u[i] = s[i]
<1>1. 1 \in Int /\ n \in Int /\ \A i \in 1..n : s[i] \in Nat
    BY LenProperties, ElementOfSeq
<1>2. u \in Seq(Nat)
    BY <1>1, SubSeqProperties, Zenon
<1> QED  BY <1>1, <1>2

\* One stream moves.  Unless it crossed another one, the others have no state.
LEMMA OneStream ==
    ASSUME StartInv, NEW t \in Callers, NEW x \in StreamState, vStrm' = [vStrm EXCEPT ![t] = x],
           UNCHANGED <<vIso, version>>, vDev' \in StreamDevice, crossed' \in BOOLEAN,
           x.pc \notin {"none", "probe"} => Len(x.control) = 5, x.pc = "alt" => vIso,
           ~crossed' => StreamFits(x)' /\ \A o \in Callers \ {t} : vStrm[o].pc = "none",
           vDev'.reset /\ vDev'.alt # 0 =>
              vIso /\ (x.pc \in {"pump", "streaming"} \/
                       (vDev.reset /\ vDev.alt # 0 /\ vStrm[t].pc \notin {"pump", "streaming"})),
           vIso /\ vDev'.reset => orphans' = 0
    PROVE  StartInv'
<1>1. vStrm \in [Callers -> StreamState]
    BY DEF StartInv, StartShape
<1>2. vStrm' \in [Callers -> StreamState] /\ vStrm'[t] = x /\ \A o \in Callers \ {t} : vStrm'[o] = vStrm[o]
    BY <1>1
<1>3. StartShape'
    <2>1. \A s \in Callers : /\ vStrm'[s].pc \notin {"none", "probe"} => Len(vStrm'[s].control) = 5
                             /\ vStrm'[s].pc = "alt" => vIso'
        BY <1>2 DEF StartInv, StartShape
    <2> QED  BY <1>2, <2>1 DEF StartInv, StartShape
<1>4. ResetFits'
    <2>1. ASSUME vDev'.reset, vDev'.alt # 0
          PROVE  vIso' /\ \E s \in Callers : vStrm'[s].pc \in {"pump", "streaming"}
        <3>1. CASE x.pc \in {"pump", "streaming"}
            BY <1>2, <2>1, <3>1
        <3>2. CASE vDev.reset /\ vDev.alt # 0 /\ vStrm[t].pc \notin {"pump", "streaming"}
            <4>1. PICK s \in Callers : vStrm[s].pc \in {"pump", "streaming"}
                BY <3>2 DEF StartInv, ResetFits
            <4>2. s # t /\ vStrm'[s] = vStrm[s]
                BY <1>2, <3>2, <4>1
            <4> QED  BY <2>1, <4>1, <4>2
        <3> QED  BY <2>1, <3>1, <3>2
    <2> QED  BY <2>1 DEF ResetFits
<1>5. ASSUME ~crossed'
      PROVE  /\ \A s \in Callers : StreamFits(vStrm[s])'
             /\ \A s, o \in Callers : vStrm'[s].pc # "none" /\ vStrm'[o].pc # "none" => s = o
    <2>1. \A o \in Callers \ {t} : vStrm'[o].pc = "none"
        BY <1>2, <1>5
    <2>2. ASSUME NEW s \in Callers PROVE StreamFits(vStrm[s])'
        <3>1. CASE s = t
            <4>1. vStrm[s]' = x
                BY <1>2, <3>1
            <4> QED  BY <1>5, <4>1 DEF StreamFits
        <3>2. CASE s # t
            <4>1. vStrm[s]'.pc = "none"
                BY <2>1, <3>2
            <4> QED  BY <4>1 DEF StreamFits
        <3> QED  BY <3>1, <3>2
    <2> QED  BY <2>1, <2>2
<1> QED  BY <1>3, <1>4, <1>5 DEF StartInv

\* What is known of a stream that is under way.
LEMMA StreamIs ==
    ASSUME StartInv, NEW t \in Callers
    PROVE  /\ vStrm[t] \in StreamState /\ vDev \in StreamDevice /\ vIso \in BOOLEAN
           /\ crossed \in BOOLEAN /\ version \in 3..5 /\ vStrm \in [Callers -> StreamState]
           /\ vStrm[t].pc \notin {"none", "probe"} => Len(vStrm[t].control) = 5
           /\ vStrm[t].pc = "alt" => vIso
           /\ ~crossed => StreamFits(vStrm[t])
           /\ ~crossed /\ vStrm[t].pc # "none" => \A o \in Callers \ {t} : vStrm[o].pc = "none"
           /\ vDev.reset /\ vDev.alt # 0 => vIso
           /\ vIso /\ vDev.reset => orphans = 0
BY DEF StartInv, StartShape, ResetFits

\* start() begins.
LEMMA StartKeeps ==
    ASSUME StartInv, NEW t \in Callers, Start!Start(t)
    PROVE  StartInv'
<1>1. PICK x : x = [vStrm[t] EXCEPT !.pc = "probe"]
    OBVIOUS
<1>2. x \in StreamState /\ x.pc = "probe"
    <2>1. vStrm[t] \in StreamState
        BY StreamIs
    <2> QED  BY <1>1, <2>1 DEF StreamState
<1>3. /\ vStrm' = [vStrm EXCEPT ![t] = x] /\ vStrm[t].pc = "none"
      /\ UNCHANGED <<vIso, version, vDev, orphans>>
      /\ crossed' = (crossed \/ Start!Others(t))
    BY <1>1, StreamIs DEF Start!Start
<1>4. crossed' \in BOOLEAN /\ (~crossed' => \A o \in Callers \ {t} : vStrm[o].pc = "none")
    BY <1>3, StreamIs DEF Start!Others
<1>5. StreamFits(x)'
    BY <1>2 DEF StreamFits
<1>6. vDev' \in StreamDevice
    BY <1>3, StreamIs
<1>7. vDev'.reset /\ vDev'.alt # 0 => vIso /\ vDev.reset /\ vDev.alt # 0 /\ vStrm[t].pc \notin {"pump", "streaming"}
    BY <1>3, StreamIs
<1>8. vIso /\ vDev'.reset => orphans' = 0
    BY <1>3, StreamIs
<1> QED  BY <1>2, <1>3, <1>4, <1>5, <1>6, <1>7, <1>8, OneStream

\* A request of start() is refused.
LEMMA FailsKeeps ==
    ASSUME StartInv, NEW t \in Callers, vStrm[t].pc \in {"probe", "commit", "alt"}, Start!Fails(t),
           UNCHANGED <<vIso, version, vDev, orphans, crossed>>
    PROVE  StartInv'
<1>1. PICK x : x = Start!NoStream
    OBVIOUS
<1>2. x \in StreamState /\ x.pc = "none" /\ vStrm' = [vStrm EXCEPT ![t] = x]
    BY <1>1, NoStreamIs DEF Start!Fails
<1>3. StreamFits(x)'
    BY <1>2 DEF StreamFits
<1>4. vDev' \in StreamDevice /\ crossed' \in BOOLEAN /\ (vIso /\ vDev'.reset => orphans' = 0)
    BY StreamIs
<1>5. ~crossed' => \A o \in Callers \ {t} : vStrm[o].pc = "none"
    BY StreamIs
<1>6. vDev'.reset /\ vDev'.alt # 0 => vIso /\ vDev.reset /\ vDev.alt # 0 /\ vStrm[t].pc \notin {"pump", "streaming"}
    BY StreamIs
<1> QED  BY <1>2, <1>3, <1>4, <1>5, <1>6, OneStream

\* probe(): what the device made of the request, missing parts read as zero.
LEMMA ProbeKeeps ==
    ASSUME StartInv, NEW t \in Callers, NEW ok \in BOOLEAN, NEW frame \in 0..1, NEW payload \in CamSizes,
           NEW n \in {2, version}, Start!Probe(t, ok, frame, payload, n)
    PROVE  StartInv'
<1>1. vStrm[t].pc = "probe" /\ UNCHANGED <<vIso, version, orphans, crossed>>
    BY DEF Start!Probe
<1>2. CASE ~ok
    BY <1>1, <1>2, FailsKeeps DEF Start!Probe
<1>3. CASE ok
    <2>1. PICK reply : reply = SubSeq(<<1, frame, payload, 7, 7>>, 1, n)
        OBVIOUS
    <2>2. n \in 2..5 /\ n <= version /\ payload \in Nat /\ version \in 3..5
        BY CameraAssumption, StreamIs
    <2>3. reply \in Seq(Nat) /\ Len(reply) = n
        <3>1. <<1, frame, payload, 7, 7>> \in Seq(Nat) /\ Len(<<1, frame, payload, 7, 7>>) = 5
            BY <2>2
        <3>2. PICK q \in Seq(Nat) : q = <<1, frame, payload, 7, 7>> /\ Len(q) = 5
            BY <3>1
        <3> QED  BY <2>1, <2>2, <3>2, FrontIs
    <2>4. PICK c : c = Start!FromBytes(reply)
        OBVIOUS
    <2>5. c \in Seq(Nat) /\ Len(c) = 5 /\ \A i \in 1..5 : c[i] = IF i <= Len(reply) THEN reply[i] ELSE 0
        <3>1. c = [i \in 1..5 |-> IF i <= Len(reply) THEN reply[i] ELSE 0]
            BY <2>4 DEF Start!FromBytes
        <3>2. c \in [1..5 -> Nat]
            BY <2>2, <2>3, <3>1, ElementOfSeq
        <3>3. c \in Seq(Nat)
            <4>1. 5 \in Nat
                OBVIOUS
            <4>2. \E m \in Nat : c \in [1..m -> Nat]
                BY <3>2, <4>1, Zenon
            <4>3. Seq(Nat) = UNION {[1..m -> Nat] : m \in Nat}
                BY SeqDef, Zenon
            <4> QED  BY <4>2, <4>3, Zenon
        <3> QED  BY <3>1, <3>2, <3>3
    <2>6. PICK x : x = [vStrm[t] EXCEPT !.pc = "commit", !.control = c]
        OBVIOUS
    <2>7. x \in StreamState /\ x.pc = "commit" /\ x.control = c
        <3>1. vStrm[t] \in StreamState /\ c \in Seq(Nat)
            BY <2>5, StreamIs
        <3> QED  BY <2>6, <3>1 DEF StreamState
    <2>8. vStrm' = [vStrm EXCEPT ![t] = x] /\ vDev' = [vDev EXCEPT !.offered = reply]
        BY <1>3, <2>1, <2>4, <2>6, StreamIs DEF Start!Probe
    <2>9. vDev' \in StreamDevice /\ vDev'.offered = reply /\ vDev'.alt = vDev.alt /\ vDev'.reset = vDev.reset
        BY <2>3, <2>8, StreamIs DEF StreamDevice
    <2>10. StreamFits(x)'
        BY <1>1, <2>2, <2>3, <2>5, <2>7, <2>9 DEF StreamFits
    <2>11. crossed' \in BOOLEAN /\ (~crossed' => \A o \in Callers \ {t} : vStrm[o].pc = "none")
        BY <1>1, StreamIs
    <2>12. vDev'.reset /\ vDev'.alt # 0 => vIso /\ vDev.reset /\ vDev.alt # 0 /\ vStrm[t].pc \notin {"pump", "streaming"}
        BY <1>1, <2>9, StreamIs
    <2>13. vIso /\ vDev'.reset => orphans' = 0
        BY <1>1, <2>9, StreamIs
    <2>14. x.pc # "alt" /\ Len(x.control) = 5 /\ UNCHANGED <<vIso, version>>
        BY <1>1, <2>5, <2>7
    <2> QED  BY <2>7, <2>8, <2>9, <2>10, <2>11, <2>12, <2>13, <2>14, OneStream
<1> QED  BY <1>2, <1>3

\* The commit: the device is told what was negotiated.
LEMMA CommitKeeps ==
    ASSUME StartInv, NEW t \in Callers, NEW ok \in BOOLEAN, Start!Commit(t, ok)
    PROVE  StartInv'
<1>1. vStrm[t].pc = "commit" /\ UNCHANGED <<vIso, version, orphans, crossed>>
    BY DEF Start!Commit
<1>2. CASE ~ok
    BY <1>1, <1>2, FailsKeeps DEF Start!Commit
<1>3. CASE ok
    <2>1. PICK c : c = vStrm[t].control
        OBVIOUS
    <2>2. PICK told : told = Start!ToBytes(c)
        OBVIOUS
    <2>3. PICK x : x = [vStrm[t] EXCEPT !.pc = IF vIso THEN "alt" ELSE "pump",
                                        !.frame = IF c[2] # 0 THEN c[2] ELSE 1]
        OBVIOUS
    <2>4. vStrm' = [vStrm EXCEPT ![t] = x] /\ vDev' = [vDev EXCEPT !.committed = told]
        BY <1>3, <2>1, <2>2, <2>3, StreamIs DEF Start!Commit
    <2>5. crossed' \in BOOLEAN /\ (~crossed' => \A o \in Callers \ {t} : vStrm[o].pc = "none")
        BY <1>1, StreamIs
    <2>6. c \in Seq(Nat) /\ Len(c) = 5 /\ version \in 3..5
        BY <1>1, <2>1, StreamIs DEF StreamState
    <2>7. \A i \in 1..5 : c[i] \in Nat
        BY <2>6, ElementOfSeq
    <2>8. told \in Seq(Nat) /\ Len(told) = version /\ \A i \in 1..version : told[i] = c[i]
        <3>1. PICK v \in 1..Len(c) : v = version
            BY <2>6
        <3>2. told = SubSeq(c, 1, v)
            BY <2>2, <3>1 DEF Start!ToBytes
        <3> QED  BY <2>6, <3>1, <3>2, FrontIs
    <2>9. /\ x \in StreamState /\ x.pc = (IF vIso THEN "alt" ELSE "pump") /\ x.control = c
          /\ x.frame > 0
        <3>1. PICK f \in Nat : f = (IF c[2] # 0 THEN c[2] ELSE 1) /\ f > 0
            BY <2>7
        <3>2. PICK q \in {"alt", "pump"} : q = IF vIso THEN "alt" ELSE "pump"
            BY StreamIs
        <3>3. x = [vStrm[t] EXCEPT !.pc = q, !.frame = f] /\ vStrm[t] \in StreamState
            BY <2>3, <3>1, <3>2, StreamIs
        <3> QED  BY <2>1, <3>1, <3>2, <3>3 DEF StreamState
    <2>10. /\ vDev' \in StreamDevice /\ vDev'.committed = told /\ vDev'.offered = vDev.offered
           /\ vDev'.alt = vDev.alt /\ vDev'.reset = vDev.reset
        <3>1. vDev \in StreamDevice
            BY StreamIs
        <3> QED  BY <2>4, <2>8, <3>1 DEF StreamDevice
    <2>11. ~crossed => StreamFits(x)'
        <3>1. vIso \in BOOLEAN /\ (~crossed => StreamFits(vStrm[t]))
            BY StreamIs
        <3> QED  BY <1>1, <2>1, <2>8, <2>9, <2>10, <3>1 DEF StreamFits
    <2>12. vDev'.reset /\ vDev'.alt # 0 => vIso /\ vDev.reset /\ vDev.alt # 0 /\ vStrm[t].pc \notin {"pump", "streaming"}
        BY <1>1, <2>10, StreamIs
    <2>13. vIso /\ vDev'.reset => orphans' = 0
        BY <1>1, <2>10, StreamIs
    <2> QED  BY <1>1, <2>4, <2>5, <2>6, <2>9, <2>10, <2>11, <2>12, <2>13, OneStream
<1> QED  BY <1>2, <1>3

\* The alternate setting is chosen and set.
LEMMA SetAltKeeps ==
    ASSUME StartInv, NEW t \in Callers, NEW ok \in BOOLEAN, Start!SetAlt(t, ok)
    PROVE  StartInv'
<1>1. vStrm[t].pc = "alt" /\ UNCHANGED <<vIso, version, orphans, crossed>>
    BY DEF Start!SetAlt
<1>2. CASE Start!Candidates = {} \/ ~ok
    BY <1>1, <1>2, FailsKeeps DEF Start!SetAlt
<1>3. CASE Start!Candidates # {} /\ ok
    <2>1. vStrm[t] \in StreamState /\ vStrm[t].control \in Seq(Nat) /\ Len(vStrm[t].control) = 5
        BY <1>1, StreamIs DEF StreamState
    <2>2. PICK payload \in Nat : payload = vStrm[t].control[3]
        BY <2>1, ElementOfSeq
    <2>3. PICK a : a = Start!ChooseAlt(payload)
        OBVIOUS
    <2>4. a \in DOMAIN CamBandwidth /\ CamBandwidth[a] \in Nat /\ BestFit(CamBandwidth[a], payload)
        BY <1>3, <2>3, ChooseAltIs
    <2>5. a \in Nat /\ a # 0
        BY <2>4, CameraAssumption, LenProperties
    <2>6. PICK x : x = [vStrm[t] EXCEPT !.pc = "pump", !.alt = a, !.len = CamBandwidth[a]]
        OBVIOUS
    <2>7. /\ x \in StreamState /\ x.pc = "pump" /\ x.alt = a /\ x.len = CamBandwidth[a]
          /\ x.control = vStrm[t].control /\ x.frame = vStrm[t].frame
        <3>1. PICK n \in Nat : n = CamBandwidth[a]
            BY <2>4
        <3> QED  BY <2>1, <2>5, <2>6, <3>1 DEF StreamState
    <2>8. vStrm' = [vStrm EXCEPT ![t] = x] /\ vDev' = [vDev EXCEPT !.alt = a]
        BY <1>3, <2>2, <2>3, <2>6, StreamIs DEF Start!SetAlt
    <2>9. /\ vDev' \in StreamDevice /\ vDev'.alt = a /\ vDev'.offered = vDev.offered
          /\ vDev'.committed = vDev.committed /\ vDev'.reset = vDev.reset
        <3>1. vDev \in StreamDevice
            BY StreamIs
        <3> QED  BY <2>5, <2>8, <3>1 DEF StreamDevice
    <2>10. ~crossed => StreamFits(x)'
        <3>1. ~crossed => StreamFits(vStrm[t])
            BY StreamIs
        <3>2. vIso' = vIso /\ version' = version
            BY <1>1
        <3>3. BestFit(x.len, x.control[3])
            BY <2>2, <2>4, <2>7
        <3> QED  BY <1>1, <2>4, <2>7, <2>9, <3>1, <3>2, <3>3 DEF StreamFits
    <2>11. crossed' \in BOOLEAN /\ (~crossed' => \A o \in Callers \ {t} : vStrm[o].pc = "none")
        BY <1>1, StreamIs
    <2>12. vIso /\ vDev'.reset => orphans' = 0
        BY <1>1, <2>9, StreamIs
    <2>13. vIso
        BY <1>1, StreamIs
    <2> QED  BY <1>1, <2>1, <2>7, <2>8, <2>9, <2>10, <2>11, <2>12, <2>13, OneStream
<1> QED  BY <1>2, <1>3

LEMMA ResetDevice ==
    ASSUME NEW d \in StreamDevice, NEW e, e = [d EXCEPT !.alt = 0]
    PROVE  e \in StreamDevice /\ e.alt = 0 /\ e.reset = d.reset
BY DEF StreamDevice

\* The transfers cannot be started, or a stream is dropped: the setting goes back.
LEMMA EndKeeps ==
    ASSUME StartInv, NEW t \in Callers, vStrm[t].pc \in {"pump", "streaming"}, Start!Fails(t),
           NEW ok \in BOOLEAN, UNCHANGED <<vIso, version>>,
           vDev' = IF ~vIso THEN vDev
                   ELSE IF ok THEN [vDev EXCEPT !.alt = 0] ELSE [vDev EXCEPT !.reset = FALSE],
           vIso /\ ok => orphans' = orphans,
           crossed' \in BOOLEAN, ~crossed' => ~crossed
    PROVE  StartInv'
<1>1. PICK x : x = Start!NoStream
    OBVIOUS
<1>2. x \in StreamState /\ x.pc = "none" /\ vStrm' = [vStrm EXCEPT ![t] = x]
    BY <1>1, NoStreamIs DEF Start!Fails
<1>3. StreamFits(x)'
    BY <1>2 DEF StreamFits
<1>4. /\ vDev \in StreamDevice /\ vIso \in BOOLEAN
      /\ vDev.reset /\ vDev.alt # 0 => vIso
      /\ vIso /\ vDev.reset => orphans = 0
      /\ ~crossed => \A o \in Callers \ {t} : vStrm[o].pc = "none"
    BY StreamIs
<1>5. /\ vDev' \in StreamDevice
      /\ vDev'.reset => ~vIso \/ (ok /\ vDev.reset)
      /\ vDev'.reset => vDev'.alt = 0
    <2>1. CASE ~vIso
        BY <1>4, <2>1
    <2>2. CASE vIso /\ ok
        <3>1. vDev' = [vDev EXCEPT !.alt = 0]
            BY <2>2
        <3>2. vDev' \in StreamDevice /\ vDev'.alt = 0 /\ vDev'.reset = vDev.reset
            <4>1. vDev \in StreamDevice
                BY <1>4
            <4> QED  BY <3>1, <4>1, ResetDevice
        <3> QED  BY <2>2, <3>2
    <2>3. CASE vIso /\ ~ok
        <3>1. vDev' = [vDev EXCEPT !.reset = FALSE]
            BY <2>3
        <3> QED  BY <1>4, <3>1 DEF StreamDevice
    <2> QED  BY <1>4, <2>1, <2>2, <2>3
<1>6. vIso /\ vDev'.reset => orphans' = 0
    BY <1>4, <1>5
<1>7. ~crossed' => \A o \in Callers \ {t} : vStrm[o].pc = "none"
    BY <1>4
<1> QED  BY <1>2, <1>3, <1>5, <1>6, <1>7, OneStream

LEMMA PumpFailsKeeps ==
    ASSUME StartInv, NEW t \in Callers, NEW k, NEW ok \in BOOLEAN, Start!PumpFails(t, k, ok)
    PROVE  StartInv'
<1>1. /\ vStrm[t].pc \in {"pump", "streaming"} /\ Start!Fails(t) /\ UNCHANGED <<vIso, version, crossed>>
      /\ vDev' = IF ~vIso THEN vDev
                 ELSE IF ok THEN [vDev EXCEPT !.alt = 0] ELSE [vDev EXCEPT !.reset = FALSE]
      /\ vIso /\ ok => orphans' = orphans
    BY DEF Start!PumpFails
<1>2. crossed' \in BOOLEAN /\ (~crossed' => ~crossed)
    BY <1>1, StreamIs
<1> QED  BY <1>1, <1>2, EndKeeps

LEMMA DropKeeps ==
    ASSUME StartInv, NEW t \in Callers, NEW ok \in BOOLEAN, Start!Drop(t, ok)
    PROVE  StartInv'
<1>1. /\ vStrm[t].pc \in {"pump", "streaming"} /\ Start!Fails(t) /\ UNCHANGED <<vIso, version, orphans>>
      /\ vDev' = IF ~vIso THEN vDev
                 ELSE IF ok THEN [vDev EXCEPT !.alt = 0] ELSE [vDev EXCEPT !.reset = FALSE]
      /\ crossed' = (crossed \/ Start!Others(t))
    BY DEF Start!Drop
<1>2. crossed' \in BOOLEAN /\ (~crossed' => ~crossed)
    BY <1>1, StreamIs DEF Start!Others
<1> QED  BY <1>1, <1>2, EndKeeps

\* The transfers are started.
LEMMA PumpStartsKeeps ==
    ASSUME StartInv, NEW t \in Callers, Start!PumpStarts(t)
    PROVE  StartInv'
<1>1. /\ vStrm[t].pc = "pump" /\ UNCHANGED <<vIso, version, vDev, orphans, crossed>>
    BY DEF Start!PumpStarts
<1>2. /\ vStrm[t] \in StreamState /\ vIso \in BOOLEAN /\ (~crossed => StreamFits(vStrm[t]))
      /\ vStrm[t].control \in Seq(Nat) /\ Len(vStrm[t].control) = 5 /\ vStrm[t].len \in Nat
    <2>1. vStrm[t] \in StreamState
        BY StreamIs
    <2>2. vStrm[t].control \in Seq(Nat) /\ vStrm[t].len \in Nat
        BY <2>1 DEF StreamState
    <2> QED  BY <1>1, <2>1, <2>2, StreamIs
<1>3. PICK payload \in Nat : payload = vStrm[t].control[3]
    BY <1>2, ElementOfSeq
<1>4. PICK m \in Nat : m = (IF payload > CamPacket THEN payload ELSE CamPacket) /\ m >= payload
    BY CameraAssumption
<1>5. PICK r : r = ((m + CamPacket - 1) \div CamPacket) * CamPacket
    OBVIOUS
<1>6. r \in Nat /\ r >= m /\ r % CamPacket = 0
    BY <1>5, CameraAssumption, RoundedUp
<1>7. PICK n \in Nat : n = IF vIso THEN vStrm[t].len ELSE r
    BY <1>2, <1>6
<1>8. PICK x : x = [vStrm[t] EXCEPT !.pc = "streaming", !.len = n]
    OBVIOUS
<1>9. /\ x \in StreamState /\ x.pc = "streaming" /\ x.len = n /\ x.control = vStrm[t].control
      /\ x.alt = vStrm[t].alt /\ x.frame = vStrm[t].frame
    BY <1>2, <1>8 DEF StreamState
<1>10. vStrm' = [vStrm EXCEPT ![t] = x]
    <2>1. vStrm' = [vStrm EXCEPT ![t].pc = "streaming",
                                 ![t].len = IF vIso THEN @ ELSE ((m + CamPacket - 1) \div CamPacket) * CamPacket]
        BY <1>3, <1>4 DEF Start!PumpStarts
    <2>2. vStrm \in [Callers -> StreamState]
        BY StreamIs
    <2>3. vStrm' = [vStrm EXCEPT ![t].pc = "streaming", ![t].len = IF vIso THEN @ ELSE r]
        BY <2>1, <1>5
    <2> QED  BY <1>2, <1>7, <1>8, <2>2, <2>3
<1>11. ~crossed => StreamFits(x)'
    <2>1. vIso' = vIso /\ version' = version /\ vDev' = vDev
        BY <1>1
    <2>2. ~vIso => x.len >= x.control[3] /\ x.len % CamPacket = 0
        BY <1>3, <1>4, <1>6, <1>7, <1>9
    <2>3. vIso => x.len = vStrm[t].len
        BY <1>7, <1>9
    <2> QED  BY <1>1, <1>2, <1>9, <2>1, <2>2, <2>3 DEF StreamFits
<1>12. crossed' \in BOOLEAN /\ vDev' \in StreamDevice /\ (~crossed' => \A o \in Callers \ {t} : vStrm[o].pc = "none")
    BY <1>1, StreamIs
<1>13. vDev'.reset /\ vDev'.alt # 0 => vIso
    BY <1>1, StreamIs
<1>14. vIso /\ vDev'.reset => orphans' = 0
    BY <1>1, StreamIs
<1> QED  BY <1>1, <1>2, <1>9, <1>10, <1>11, <1>12, <1>13, <1>14, OneStream

LEMMA StartInitInv == Start!Init => StartInv
<1> SUFFICES ASSUME Start!Init PROVE StartInv
    OBVIOUS
<1>1. /\ vIso \in BOOLEAN /\ version \in 3..5 /\ crossed = FALSE /\ orphans = 0
      /\ vDev = [offered |-> <<>>, committed |-> <<>>, alt |-> 0, reset |-> TRUE]
      /\ vStrm = [s \in Callers |-> Start!NoStream]
    BY DEF Start!Init
<1>2. vDev \in StreamDevice /\ vDev.alt = 0
    BY <1>1 DEF StreamDevice
<1>3. vStrm \in [Callers -> StreamState]
    BY <1>1, NoStreamIs
<1>4. \A s \in Callers : vStrm[s].pc = "none" /\ StreamFits(vStrm[s])
    BY <1>1, NoStreamIs
<1> QED  BY <1>1, <1>2, <1>3, <1>4 DEF StartInv, StartShape, ResetFits

LEMMA StartInvariant == Spec => [](part = "start" => StartInv)
<1>1. Init => (part = "start" => StartInv)
    BY StartInitInv DEF Init
<1>2. (part = "start" => StartInv) /\ [Next]_vars => (part = "start" => StartInv)'
    <2> SUFFICES ASSUME part = "start" => StartInv, [Next]_vars, part' = "start" PROVE StartInv'
        OBVIOUS
    <2>1. part = "start" /\ StartInv
        BY DEF Next, vars
    <2>2. [Start!Next]_(Start!vars)
        BY <2>1, StartMoves
    <2>3. CASE UNCHANGED Start!vars
        BY <2>1, <2>3 DEF Start!vars, StartInv, StartShape, ResetFits, StreamFits
    <2>4. CASE Start!Next
        <3>1. PICK t \in Callers :
                 \/ Start!Start(t) \/ Start!PumpStarts(t)
                 \/ \E ok \in BOOLEAN :
                       \/ Start!Commit(t, ok) \/ Start!SetAlt(t, ok) \/ Start!Drop(t, ok)
                       \/ \E frame \in 0..1, payload \in CamSizes, n \in {2, version} :
                             Start!Probe(t, ok, frame, payload, n)
                       \/ \E k \in 0..CamTransfers - 1 : Start!PumpFails(t, k, ok)
            BY <2>4 DEF Start!Next
        <3>2. CASE Start!Start(t) \/ Start!PumpStarts(t)
            BY <2>1, <3>2, StartKeeps, PumpStartsKeeps
        <3>3. CASE \E ok \in BOOLEAN : Start!Commit(t, ok) \/ Start!SetAlt(t, ok) \/ Start!Drop(t, ok)
            BY <2>1, <3>3, CommitKeeps, SetAltKeeps, DropKeeps
        <3>4. CASE \E ok \in BOOLEAN : \E frame \in 0..1, payload \in CamSizes, n \in {2, version} :
                       Start!Probe(t, ok, frame, payload, n)
            BY <2>1, <3>4, ProbeKeeps
        <3>5. CASE \E ok \in BOOLEAN : \E k \in 0..CamTransfers - 1 : Start!PumpFails(t, k, ok)
            BY <2>1, <3>5, PumpFailsKeeps
        <3> QED  BY <3>1, <3>2, <3>3, <3>4, <3>5
    <2> QED  BY <2>2, <2>3, <2>4
<1> QED  BY <1>1, <1>2, PTL DEF Spec

\* A camera's stream is what was negotiated (UvcStart!StreamIsAsNegotiated), for
\* every set of alternate settings, payload sizes and streams.
THEOREM StreamIsAlwaysAsNegotiated == Spec => []StreamIsAsNegotiated
<1>1. (part = "start" => StartInv) => StreamIsAsNegotiated
    <2> SUFFICES ASSUME part = "start", StartInv PROVE Start!StreamIsAsNegotiated
        BY DEF StreamIsAsNegotiated
    <2>1. /\ (\A s \in Callers : vStrm[s].pc # "pump" /\ vStrm[s].pc # "streaming") /\ vDev.reset => vDev.alt = 0
          /\ vIso /\ vDev.reset => orphans = 0
        BY DEF StartInv, ResetFits
    <2>2. ASSUME ~crossed, NEW s \in Callers, vStrm[s].pc = "streaming"
          PROVE  /\ vStrm[s].frame > 0
                 /\ Start!IsPrefix(vDev.offered, vDev.committed)
                 /\ \A i \in DOMAIN vDev.committed : i > Len(vDev.offered) => vDev.committed[i] = 0
                 /\ ~vIso => vStrm[s].len >= vStrm[s].control[3] /\ vStrm[s].len % CamPacket = 0
                 /\ vIso => /\ vDev.alt = vStrm[s].alt /\ vStrm[s].len = CamBandwidth[vDev.alt]
                            /\ BestFit(vStrm[s].len, vStrm[s].control[3])
        <3>1. StreamFits(vStrm[s]) /\ vDev \in StreamDevice /\ version \in 3..5
            BY <2>2, StreamIs
        <3>2. PICK off, com : off = vDev.offered /\ com = vDev.committed
            OBVIOUS
        <3>3. off \in Seq(Nat) /\ com \in Seq(Nat)
            BY <3>1, <3>2 DEF StreamDevice
        <3>4. /\ Len(off) <= Len(com) /\ Len(com) \in 3..5 /\ Len(off) \in Nat
              /\ \A i \in 1..Len(com) : com[i] = IF i <= Len(off) THEN off[i] ELSE 0
            <4>1. /\ Len(off) <= version /\ Len(com) = version
                  /\ \A i \in 1..5 : vStrm[s].control[i] = IF i <= Len(off) THEN off[i] ELSE 0
                  /\ \A i \in 1..version : com[i] = vStrm[s].control[i]
                BY <2>2, <3>1, <3>2 DEF StreamFits
            <4>2. Len(off) \in Nat
                BY <3>3, LenProperties
            <4> QED  BY <3>1, <4>1, <4>2
        <3>5. Start!IsPrefix(off, com)
            <4>1. \A i \in 1..Len(off) : off[i] = com[i]
                BY <3>4
            <4>2. SubSeq(off, 1, Len(off)) = SubSeq(com, 1, Len(off))
                BY <3>3, <3>4, <4>1
            <4> QED  BY <3>4, <4>2 DEF Start!IsPrefix
        <3>6. \A i \in DOMAIN com : i > Len(off) => com[i] = 0
            BY <3>3, <3>4, LenProperties
        <3> QED  BY <2>2, <3>1, <3>2, <3>5, <3>6 DEF StreamFits
    <2> QED  BY <2>1, <2>2 DEF Start!StreamIsAsNegotiated, BestFit
<1> QED  BY <1>1, StartInvariant, PTL

(* The frames of a video stream *)

\* The payloads of a stretch of data follow each other within one frame.
OneFrame(s) ==
    \A i \in 1..Len(s) - 1 : s[i + 1] = s[i] + 1 /\ s[i + 1] \div Parts = s[i] \div Parts

Frame == {f \in [data : Seq(Nat), error : BOOLEAN, sequence : Nat] : ~f.error => OneFrame(f.data)}

Built == [data : Seq(Nat), error : BOOLEAN, whole : BOOLEAN]

Assembler ==
    [current : Built \cup {None}, lastFid : {0, 1, None}, atBoundary : BOOLEAN, afterEof : BOOLEAN,
     sequence : Nat, out : Seq(Frame)]

Fid(n) == (n \div Parts) % 2

\* What has been built, when payload n is next: without the error flag it goes
\* right up to n.
BuiltFits(c, fid, n) ==
    ~c.error => /\ c.data # <<>> /\ OneFrame(c.data)
                /\ c.data[Len(c.data)] + 1 = n /\ fid = Fid(c.data[Len(c.data)])

AsmFits(a, n) ==
    /\ a \in Assembler
    /\ a.afterEof => a.current = None
    /\ a.current # None => BuiltFits(a.current, a.lastFid, n)

PayloadFits(p, n) ==
    /\ p \in [number : Nat, fid : {0, 1}, eof : BOOLEAN, err : BOOLEAN, malformed : BOOLEAN, empty : BOOLEAN]
    /\ p.number = n /\ p.fid = Fid(n)

\* A transfer that has ended stands for the payloads from m to n - 1: one that it
\* carries, one that was lost, or none.
Accounts(x, m, n) ==
    \/ x.status = "Completed" /\ PayloadFits(x.payload, m) /\ n = IF x.payload.empty THEN m ELSE m + 1
    \/ x.status \in Uvc!Transient /\ n = m + 1
    \/ x.status \in {"Cancelled", "Stall", "NoDevice"} /\ n = m

Apart(s) == \A i, j \in 1..Len(s) : s[i] = s[j] => i = j

\* Who is in flight and who is waiting to be reaped.
RingFits ==
    /\ order \in Seq(Ring) /\ Apart(order) /\ \A i \in 1..Len(order) : xfer[order[i]].at = "flight"
    /\ done \in Seq(Ring) /\ Apart(done) /\ \A i \in 1..Len(done) : xfer[done[i]].at = "done"

\* What has ended and what has been assembled account for all that was sent.
Numbering(num) ==
    /\ num[Len(done) + 1] = sent
    /\ \A i \in 1..Len(done) : Accounts(xfer[done[i]], num[i], num[i + 1])
    /\ AsmFits(asm, num[1])

FrameInv ==
    /\ RingFits /\ sent \in Nat /\ frames \in Seq(Frame)
    /\ \E num \in [1..Len(done) + 1 -> Nat] : Numbering(num)

LEMMA SameFrame ==
    ASSUME NEW n \in Nat, Fid(n + 1) = Fid(n)
    PROVE  (n + 1) \div Parts = n \div Parts
<1>1. PICK p \in Nat \ {0} : p = Parts
    BY StreamAssumption
<1>2. PICK q \in Nat, r \in 0..(p - 1) : q = n \div p /\ n = p * q + r
    BY DivisionIs
<1>3. PICK s \in Nat, u \in 0..(p - 1) : s = (n + 1) \div p /\ n + 1 = p * s + u
    <2>1. PICK m \in Nat : m = n + 1
        OBVIOUS
    <2>2. PICK s \in Nat, u \in 0..(p - 1) : s = m \div p /\ m = p * s + u
        BY DivisionIs
    <2> QED  BY <2>1, <2>2
<1>4. p * (s - q) = 1 + r - u
    <2>1. p * (s - q) = p * s - p * q
        OBVIOUS
    <2>2. PICK x \in Int, y \in Int : x = p * s /\ y = p * q
        OBVIOUS
    <2>3. x - y = 1 + r - u
        BY <1>2, <1>3, <2>2
    <2> QED  BY <2>1, <2>2, <2>3
<1>5. s - q \in {0, 1}
    <2>1. ASSUME s - q >= 2 PROVE FALSE
        <3>1. p * (s - q) >= p * 2
            BY <2>1
        <3> QED  BY <1>4, <3>1
    <2>2. ASSUME s - q <= 0 - 1 PROVE FALSE
        <3>1. p * (s - q) <= 0 - p
            BY <2>2
        <3> QED  BY <1>4, <3>1
    <2> QED  BY <2>1, <2>2
<1>6. q % 2 = s % 2
    BY <1>1, <1>2, <1>3 DEF Fid
<1>7. s = q
    BY <1>5, <1>6
<1> QED  BY <1>1, <1>2, <1>3, <1>7

LEMMA FidIs == \A n \in Nat : Fid(n) \in {0, 1} /\ Fid(n) # None
<1> TAKE n \in Nat
<1>1. PICK q \in Nat : q = n \div Parts
    BY StreamAssumption, DivisionIs
<1>2. q % 2 \in {0, 1}
    OBVIOUS
<1>3. Fid(n) = q % 2
    BY <1>1 DEF Fid
<1> QED  BY <1>2, <1>3, StreamAssumption

LEMMA AssemblerIs ==
    ASSUME NEW a \in Assembler
    PROVE  /\ a.current \in Built \cup {None} /\ a.lastFid \in {0, 1, None}
           /\ a.atBoundary \in BOOLEAN /\ a.afterEof \in BOOLEAN /\ a.sequence \in Nat /\ a.out \in Seq(Frame)
BY DEF Assembler

\* One field of the assembler is set.
LEMMA SetCurrent ==
    ASSUME NEW a \in Assembler, NEW c \in Built \cup {None}, NEW b, b = [a EXCEPT !.current = c]
    PROVE  /\ b \in Assembler /\ b.current = c /\ b.lastFid = a.lastFid /\ b.afterEof = a.afterEof
           /\ b.atBoundary = a.atBoundary
BY DEF Assembler

LEMMA SetFid ==
    ASSUME NEW a \in Assembler, NEW x \in {0, 1}, NEW b, b = [a EXCEPT !.lastFid = x]
    PROVE  /\ b \in Assembler /\ b.current = a.current /\ b.lastFid = x /\ b.afterEof = a.afterEof
           /\ b.atBoundary = a.atBoundary
BY DEF Assembler

LEMMA SetFlags ==
    ASSUME NEW a \in Assembler, NEW x \in BOOLEAN, NEW b, b = [a EXCEPT !.atBoundary = TRUE, !.afterEof = x]
    PROVE  b \in Assembler /\ b.current = a.current /\ b.lastFid = a.lastFid /\ b.afterEof = x
BY DEF Assembler

LEMMA FlagError ==
    ASSUME NEW c \in Built, NEW b, b = [c EXCEPT !.error = TRUE]
    PROVE  b \in Built /\ b.error
BY DEF Built

\* lost(): a frame with a gap is flagged, whatever comes next.
LEMMA LostFits ==
    ASSUME NEW a, NEW n, AsmFits(a, n), NEW m
    PROVE  AsmFits(Uvc!Lost(a), m)
<1>1. CASE a.current = None
    BY <1>1 DEF Uvc!Lost, AsmFits
<1>2. CASE a.current # None
    <2>1. PICK c : c = a.current
        OBVIOUS
    <2>2. PICK e : e = [c EXCEPT !.error = TRUE]
        OBVIOUS
    <2>3. PICK b : b = [a EXCEPT !.current = e]
        OBVIOUS
    <2>4. c \in Built /\ a \in Assembler /\ (a.afterEof => c = None) /\ c # None
        BY <1>2, <2>1, AssemblerIs DEF AsmFits
    <2>5. e \in Built /\ e.error
        BY <2>2, <2>4, FlagError
    <2>6. b \in Assembler /\ b.current = e /\ b.afterEof = a.afterEof
        BY <2>3, <2>4, <2>5, SetCurrent
    <2>7. Uvc!Lost(a) = b
        BY <1>2, <2>1, <2>2, <2>3 DEF Uvc!Lost
    <2>8. AsmFits(b, m)
        BY <2>4, <2>5, <2>6 DEF AsmFits, BuiltFits
    <2> QED  BY <2>7, <2>8
<1> QED  BY <1>1, <1>2

\* finish(): what is handed out without the flag is a stretch of one frame.
LEMMA FinishFits ==
    ASSUME NEW a, NEW n, AsmFits(a, n)
    PROVE  /\ Uvc!Finish(a) \in Assembler /\ Uvc!Finish(a).current = None
           /\ Uvc!Finish(a).lastFid = a.lastFid /\ Uvc!Finish(a).afterEof = a.afterEof
<1>1. a \in Assembler /\ (a.current # None => BuiltFits(a.current, a.lastFid, n))
    BY DEF AsmFits
<1>2. CASE a.current # None /\ a.current.whole /\ a.current.data # <<>>
    <2>1. PICK f : f = [data |-> a.current.data, error |-> a.current.error, sequence |-> a.sequence]
        OBVIOUS
    <2>2. f \in Frame
        <3>1. a.current \in Built /\ a.sequence \in Nat
            BY <1>1, <1>2, AssemblerIs
        <3>2. f \in [data : Seq(Nat), error : BOOLEAN, sequence : Nat]
              /\ f.data = a.current.data /\ f.error = a.current.error
            BY <2>1, <3>1 DEF Built
        <3>3. ~f.error => OneFrame(f.data)
            BY <1>1, <1>2, <3>2 DEF BuiltFits
        <3> QED  BY <3>2, <3>3 DEF Frame
    <2>3. PICK o : o = Append(a.out, f)
        OBVIOUS
    <2>4. o \in Seq(Frame)
        <3>1. a.out \in Seq(Frame)
            BY <1>1, AssemblerIs
        <3> HIDE DEF Frame
        <3> QED  BY <2>2, <2>3, <3>1, AppendProperties
    <2>5. PICK b : b = [a EXCEPT !.current = None, !.sequence = a.sequence + 1, !.out = o]
        OBVIOUS
    <2>6. b \in Assembler /\ b.current = None /\ b.lastFid = a.lastFid /\ b.afterEof = a.afterEof
        <3>1. a.sequence + 1 \in Nat
            BY <1>1, AssemblerIs
        <3> HIDE DEF Frame
        <3> QED  BY <1>1, <2>4, <2>5, <3>1 DEF Assembler
    <2>7. Uvc!Finish(a) = b
        BY <1>2, <2>1, <2>3, <2>5 DEF Uvc!Finish
    <2> QED  BY <2>6, <2>7
<1>3. CASE ~(a.current # None /\ a.current.whole /\ a.current.data # <<>>)
    <2>1. PICK b : b = [a EXCEPT !.current = None]
        OBVIOUS
    <2>2. b \in Assembler /\ b.current = None /\ b.lastFid = a.lastFid /\ b.afterEof = a.afterEof
        BY <1>1, <2>1, SetCurrent
    <2>3. Uvc!Finish(a) = b
        BY <1>3, <2>1 DEF Uvc!Finish
    <2> QED  BY <2>2, <2>3
<1> QED  BY <1>2, <1>3

\* What the assembler has built can take payload n.
Takes(c, n) ==
    ~c.error => /\ OneFrame(c.data) /\ c.data # <<>>
                /\ c.data[Len(c.data)] + 1 = n /\ n \div Parts = c.data[Len(c.data)] \div Parts

\* A stretch of one frame grows by its next payload.
LEMMA GrowsByOne ==
    ASSUME NEW s \in Seq(Nat), NEW n \in Nat, OneFrame(s),
           s # <<>> => s[Len(s)] + 1 = n /\ n \div Parts = s[Len(s)] \div Parts
    PROVE  /\ Append(s, n) \in Seq(Nat) /\ Append(s, n) # <<>> /\ OneFrame(Append(s, n))
           /\ Append(s, n)[Len(Append(s, n))] = n
<1>1. PICK u : u = Append(s, n)
    OBVIOUS
<1>2. /\ u \in Seq(Nat) /\ Len(u) = Len(s) + 1 /\ u[Len(s) + 1] = n /\ Len(s) \in Nat
      /\ \A i \in 1..Len(s) : u[i] = s[i]
    BY <1>1, AppendProperties, LenProperties
<1>3. u # <<>>
    BY <1>2
<1>4. ASSUME NEW i \in 1..Len(u) - 1
      PROVE  u[i + 1] = u[i] + 1 /\ u[i + 1] \div Parts = u[i] \div Parts
    <2>1. CASE i < Len(s)
        <3>1. i \in 1..Len(s) - 1 /\ i + 1 \in 1..Len(s) /\ i \in 1..Len(s)
            BY <1>2, <2>1
        <3>2. s[i + 1] = s[i] + 1 /\ s[i + 1] \div Parts = s[i] \div Parts
            BY <3>1 DEF OneFrame
        <3>3. u[i + 1] = s[i + 1] /\ u[i] = s[i]
            BY <1>2, <3>1
        <3> QED  BY <3>2, <3>3
    <2>2. CASE i = Len(s)
        <3>1. s # <<>> /\ i \in 1..Len(s)
            BY <1>2, <2>2
        <3>2. u[i] = s[Len(s)] /\ u[i + 1] = n
            BY <1>2, <2>2, <3>1
        <3> QED  BY <3>1, <3>2
    <2> QED  BY <1>2, <2>1, <2>2
<1>5. OneFrame(u)
    BY <1>4 DEF OneFrame
<1> QED  BY <1>1, <1>2, <1>3, <1>5

\* The frame being built takes a payload, or is flagged.
LEMMA GrowFits ==
    ASSUME NEW a \in Assembler, a.afterEof = FALSE, NEW n \in Nat, NEW p, PayloadFits(p, n), a.lastFid = p.fid,
           a.current # None => Takes(a.current, n)
    PROVE  AsmFits(Uvc!Grow(a, p), n + 1)
<1>1. PICK c : c = IF a.current = None THEN [data |-> <<>>, error |-> FALSE, whole |-> a.atBoundary]
                   ELSE a.current
    OBVIOUS
<1> DEFINE full == Len(c.data) + 1 > 2 * Parts
<1> HIDE DEF full
<1>3. c \in Built
    <2>1. CASE a.current = None
        <3>1. a.atBoundary \in BOOLEAN /\ <<>> \in Seq(Nat)
            BY AssemblerIs
        <3> QED  BY <1>1, <2>1, <3>1 DEF Built
    <2>2. CASE a.current # None
        BY <1>1, <2>2, AssemblerIs
    <2> QED  BY <2>1, <2>2
<1>4. ~c.error => OneFrame(c.data) /\ (c.data # <<>> => c.data[Len(c.data)] + 1 = n
                                          /\ n \div Parts = c.data[Len(c.data)] \div Parts)
    <2>1. CASE a.current = None
        <3>1. c.data = <<>>
            BY <1>1, <2>1
        <3>2. OneFrame(c.data)
            BY <3>1 DEF OneFrame
        <3> QED  BY <3>1, <3>2
    <2>2. CASE a.current # None
        BY <1>1, <2>2 DEF Takes
    <2> QED  BY <2>1, <2>2
<1>5. c.data \in Seq(Nat) /\ c.error \in BOOLEAN /\ p.err \in BOOLEAN /\ p.number = n /\ p.fid = Fid(n)
    BY <1>3 DEF Built, PayloadFits
<1>2. PICK e \in BOOLEAN : e = (c.error \/ p.err \/ full)
    OBVIOUS
<1>6. PICK d : d = IF full THEN c.data ELSE Append(c.data, p.number)
    OBVIOUS
<1>7. d \in Seq(Nat) /\ (~e => d # <<>> /\ OneFrame(d) /\ d[Len(d)] = n)
    <2>1. CASE full
        BY <1>2, <1>5, <1>6, <2>1
    <2>2. CASE ~full
        <3>1. d = Append(c.data, n) /\ Append(c.data, n) \in Seq(Nat)
            BY <1>5, <1>6, <2>2, AppendProperties
        <3>2. ASSUME ~e PROVE d # <<>> /\ OneFrame(d) /\ d[Len(d)] = n
            <4>1. OneFrame(c.data) /\ (c.data # <<>> => c.data[Len(c.data)] + 1 = n
                                          /\ n \div Parts = c.data[Len(c.data)] \div Parts)
                BY <1>2, <1>4, <3>2
            <4> HIDE DEF OneFrame
            <4> QED  BY <1>5, <3>1, <4>1, GrowsByOne
        <3> QED  BY <3>1, <3>2
    <2> QED  BY <2>1, <2>2
<1>8. PICK k : k = [c EXCEPT !.error = e, !.data = d]
    OBVIOUS
<1>9. k \in Built /\ k.error = e /\ k.data = d
    BY <1>3, <1>7, <1>8 DEF Built
<1>10. PICK b : b = [a EXCEPT !.current = k]
    OBVIOUS
<1>11. b \in Assembler /\ b.current = k /\ b.lastFid = a.lastFid /\ b.afterEof = a.afterEof
    BY <1>9, <1>10, SetCurrent
<1>12. Uvc!Grow(a, p) = b
    BY <1>1, <1>2, <1>6, <1>8, <1>10 DEF Uvc!Grow, full
<1>13. BuiltFits(b.current, b.lastFid, n + 1)
    BY <1>5, <1>7, <1>9, <1>11 DEF BuiltFits
<1>14. AsmFits(b, n + 1)
    BY <1>11, <1>13 DEF AsmFits
<1> QED  BY <1>12, <1>14

\* payload(): whatever it is given, what is built goes right up to the next one.
LEMMA PayloadIsTaken ==
    ASSUME NEW a, NEW n \in Nat, AsmFits(a, n), NEW p, PayloadFits(p, n)
    PROVE  AsmFits(Uvc!Payload(a, p), IF p.empty THEN n ELSE n + 1)
<1>1. PICK b : b = IF a.lastFid \in {None, p.fid} THEN a ELSE Uvc!OnToggle(a)
    OBVIOUS
<1>2. PICK c : c = [b EXCEPT !.lastFid = p.fid]
    OBVIOUS
<1>3. /\ a \in Assembler /\ p.fid = Fid(n) /\ p.fid \in {0, 1} /\ p.eof \in BOOLEAN
      /\ a.afterEof \in BOOLEAN
    BY FidIs, AssemblerIs DEF AsmFits, PayloadFits
<1>4. CASE p.empty
    BY <1>4 DEF Uvc!Payload
<1>5. CASE ~p.empty /\ p.malformed
    <2>1. Uvc!Payload(a, p) = Uvc!Lost(a)
        BY <1>5 DEF Uvc!Payload
    <2> QED  BY <1>5, <2>1, LostFits
<1>6. CASE ~p.empty /\ ~p.malformed
    <2>1. b \in Assembler /\ ((b = a /\ a.lastFid \in {None, p.fid}) \/ (b.current = None /\ b.afterEof = FALSE))
        <3>1. CASE a.lastFid \in {None, p.fid}
            BY <1>1, <1>3, <3>1
        <3>2. CASE a.lastFid \notin {None, p.fid}
            <4>1. PICK e : e = Uvc!Finish(a)
                OBVIOUS
            <4>2. e \in Assembler /\ e.current = None
                BY <4>1, FinishFits
            <4>3. b = [e EXCEPT !.atBoundary = TRUE, !.afterEof = FALSE]
                BY <1>1, <3>2, <4>1 DEF Uvc!OnToggle
            <4>4. b \in Assembler /\ b.current = e.current /\ b.afterEof = FALSE
                BY <4>2, <4>3, SetFlags
            <4> QED  BY <4>2, <4>4
        <3> QED  BY <3>1, <3>2
    <2>2. c \in Assembler /\ c.current = b.current /\ c.lastFid = p.fid /\ c.afterEof = b.afterEof
        BY <1>2, <1>3, <2>1, SetFid
    <2>3. b.current # None => Takes(b.current, n) /\ b = a
        <3> SUFFICES ASSUME b.current # None PROVE Takes(b.current, n) /\ b = a
            OBVIOUS
        <3>1. b = a /\ BuiltFits(a.current, a.lastFid, n) /\ a.lastFid \in {None, p.fid}
            <4>1. b = a /\ a.lastFid \in {None, p.fid}
                BY <2>1
            <4> QED  BY <4>1 DEF AsmFits
        <3>2. ASSUME ~b.current.error
              PROVE  b.current.data[Len(b.current.data)] + 1 = n
                     /\ n \div Parts = b.current.data[Len(b.current.data)] \div Parts
            <4>1. PICK d : d = b.current.data
                OBVIOUS
            <4>2. d \in Seq(Nat)
                <5>1. b.current \in Built
                    BY <2>1, AssemblerIs
                <5> QED  BY <4>1, <5>1 DEF Built
            <4>3. d # <<>> /\ d[Len(d)] + 1 = n /\ a.lastFid = Fid(d[Len(d)])
                BY <3>1, <3>2, <4>1 DEF BuiltFits
            <4>4. PICK m \in Nat : m = d[Len(d)]
                BY <4>2, <4>3, ElementOfSeq, EmptySeq, LenProperties
            <4>5. a.lastFid = Fid(m) /\ Fid(m) # None /\ n = m + 1
                BY <4>3, <4>4, FidIs
            <4>6. Fid(m + 1) = Fid(m)
                BY <1>3, <3>1, <4>5
            <4> QED  BY <4>1, <4>4, <4>5, <4>6, SameFrame
        <3> QED  BY <3>1, <3>2 DEF Takes, BuiltFits
    <2>4. CASE c.afterEof
        <3>1. c.current = None
            BY <2>1, <2>2, <2>4 DEF AsmFits
        <3>2. Uvc!Payload(a, p) = c
            BY <1>1, <1>2, <1>6, <2>4 DEF Uvc!Payload
        <3> QED  BY <1>6, <2>2, <3>1, <3>2 DEF AsmFits
    <2>5. CASE ~c.afterEof
        <3>1. PICK h : h = Uvc!Grow(c, p)
            OBVIOUS
        <3>2. c.afterEof = FALSE
            BY <2>2, <2>5, AssemblerIs
        <3>3. AsmFits(h, n + 1)
            BY <2>2, <2>3, <3>1, <3>2, GrowFits
        <3>4. CASE ~p.eof
            <4>1. Uvc!Payload(a, p) = h
                BY <1>1, <1>2, <1>6, <2>5, <3>1, <3>4 DEF Uvc!Payload
            <4> QED  BY <1>6, <3>3, <4>1
        <3>5. CASE p.eof
            <4>1. PICK e : e = Uvc!Finish(h)
                OBVIOUS
            <4>2. PICK r : r = [e EXCEPT !.atBoundary = TRUE, !.afterEof = TRUE]
                OBVIOUS
            <4>3. Uvc!Payload(a, p) = r
                BY <1>1, <1>2, <1>6, <2>5, <3>1, <3>5, <4>1, <4>2 DEF Uvc!Payload
            <4>4. e \in Assembler /\ e.current = None
                BY <3>3, <4>1, FinishFits
            <4>5. r \in Assembler /\ r.current = None
                BY <4>2, <4>4, SetFlags
            <4> QED  BY <1>6, <4>3, <4>5 DEF AsmFits
        <3> QED  BY <3>4, <3>5
    <2> QED  BY <2>4, <2>5
<1> QED  BY <1>4, <1>5, <1>6

\* The frames a callback hands out go to the queue, as far as there is room.
LEMMA DeliverFits ==
    ASSUME NEW a, NEW n, AsmFits(a, n), Uvc!Deliver(a), frames \in Seq(Frame)
    PROVE  frames' \in Seq(Frame) /\ AsmFits(asm', n)
<1>1. a \in Assembler /\ a.out \in Seq(Frame)
    BY AssemblerIs DEF AsmFits
<1>2. PICK b : b = [a EXCEPT !.out = <<>>]
    OBVIOUS
<1>3. b \in Assembler /\ b.current = a.current /\ b.lastFid = a.lastFid /\ b.afterEof = a.afterEof
    <2>1. <<>> \in Seq(Frame)
        OBVIOUS
    <2> QED  BY <1>1, <1>2, <2>1 DEF Assembler
<1>4. AsmFits(b, n) /\ asm' = b
    BY <1>2, <1>3 DEF AsmFits, Uvc!Deliver
<1>5. PICK o, q : o = a.out /\ q = frames
    OBVIOUS
<1>6. PICK k \in Int : k = (IF Len(o) < FrameQueue - Len(q) THEN Len(o) ELSE FrameQueue - Len(q)) /\ k <= Len(o)
    <2>1. Len(o) \in Nat /\ Len(q) \in Nat
        BY <1>1, <1>5, LenProperties
    <2> QED  BY <2>1, StreamAssumption
<1>7. PICK u : u = SubSeq(o, 1, k)
    OBVIOUS
<1>8. u \in Seq(Frame)
    <2>1. o \in Seq(Frame) /\ Len(o) \in Nat
        BY <1>1, <1>5, LenProperties
    <2>2. \A i \in 1..k : o[i] \in Frame
        BY <1>6, <2>1, ElementOfSeq
    <2>3. 1 \in Int /\ k \in Int
        BY <1>6
    <2> QED  BY <1>7, <2>2, <2>3, SubSeqProperties, Zenon
<1>9. frames' = q \o u
    BY <1>5, <1>6, <1>7 DEF Uvc!Deliver, Uvc!Room
<1>10. q \o u \in Seq(Frame)
    BY <1>5, <1>8, ConcatProperties
<1> QED  BY <1>4, <1>9, <1>10

\* A sequence without one of its elements.
LEMMA RemoveAtIs ==
    ASSUME NEW S, NEW s \in Seq(S), NEW i \in 1..Len(s), NEW u, u = Uvc!RemoveAt(s, i)
    PROVE  /\ u \in Seq(S) /\ Len(u) = Len(s) - 1
           /\ \A j \in 1..Len(u) : u[j] = IF j < i THEN s[j] ELSE s[j + 1]
<1>1. PICK n \in Nat : n = Len(s)
    BY LenProperties
<1>2. PICK v, w : v = SubSeq(s, 1, i - 1) /\ w = SubSeq(s, i + 1, n)
    OBVIOUS
<1>3. /\ v \in Seq(S) /\ Len(v) = i - 1 /\ \A j \in 1..(i - 1) : v[j] = s[j]
    <2>1. \A j \in 1..(i - 1) : s[j] \in S
        BY <1>1, ElementOfSeq
    <2>2. 1 \in Int /\ i - 1 \in Int
        BY <1>1
    <2>3. v \in Seq(S)
        BY <1>2, <2>1, <2>2, SubSeqProperties, Zenon
    <2> QED  BY <1>1, <1>2, <2>3
<1>4. /\ w \in Seq(S) /\ Len(w) = n - i /\ \A j \in 1..(n - i) : w[j] = s[j + i]
    <2>1. \A j \in (i + 1)..n : s[j] \in S
        BY <1>1, ElementOfSeq
    <2>2. i + 1 \in Int /\ n \in Int
        BY <1>1
    <2>3. w \in Seq(S)
        BY <1>2, <2>1, <2>2, SubSeqProperties, Zenon
    <2> QED  BY <1>1, <1>2, <2>3
<1>5. u = v \o w
    BY <1>1, <1>2 DEF Uvc!RemoveAt
<1>6. u \in Seq(S) /\ Len(u) = n - 1
    BY <1>1, <1>3, <1>4, <1>5, ConcatProperties
<1>7. ASSUME NEW j \in 1..Len(u) PROVE u[j] = IF j < i THEN s[j] ELSE s[j + 1]
    <2>1. CASE j < i
        <3>1. u[j] = v[j]
            BY <1>3, <1>4, <1>5, <1>6, <2>1
        <3> QED  BY <1>1, <1>3, <1>6, <2>1, <3>1
    <2>2. CASE j >= i
        <3>1. u[j] = w[j - (i - 1)]
            BY <1>1, <1>3, <1>4, <1>5, <1>6, <2>2
        <3>2. j - (i - 1) \in 1..(n - i) /\ (j - (i - 1)) + i = j + 1
            BY <1>1, <1>6, <2>2
        <3> QED  BY <1>4, <2>2, <3>1, <3>2
    <2> QED  BY <1>1, <1>6, <2>1, <2>2
<1> QED  BY <1>1, <1>6, <1>7

\* The ring when the transfer at the i-th place ends.
LEMMA EndMovesOver ==
    ASSUME RingFits, NEW i \in 1..Len(order), NEW t, t = order[i], NEW x, x.at = "done",
           order' = Uvc!RemoveAt(order, i), done' = Append(done, t),
           \A u \in Ring : xfer'[u] = IF u = t THEN x ELSE xfer[u]
    PROVE  /\ RingFits' /\ t \in Ring /\ Len(done') = Len(done) + 1 /\ Len(done) \in Nat
           /\ done'[Len(done) + 1] = t
           /\ \A k \in 1..Len(done) : done'[k] = done[k] /\ xfer'[done[k]] = xfer[done[k]]
<1>1. PICK s, d, u, e : s = order /\ d = done /\ u = order' /\ e = done'
    OBVIOUS
<1>2. /\ s \in Seq(Ring) /\ Apart(s) /\ \A k \in 1..Len(s) : xfer[s[k]].at = "flight"
      /\ d \in Seq(Ring) /\ Apart(d) /\ \A k \in 1..Len(d) : xfer[d[k]].at = "done"
    BY <1>1 DEF RingFits
<1>3. Len(s) \in Nat /\ Len(d) \in Nat /\ i \in 1..Len(s) /\ t = s[i] /\ t \in Ring
    BY <1>1, <1>2, LenProperties, ElementOfSeq
<1>4. /\ u \in Seq(Ring) /\ Len(u) = Len(s) - 1
      /\ \A j \in 1..Len(u) : u[j] = IF j < i THEN s[j] ELSE s[j + 1]
    <2>1. u = Uvc!RemoveAt(s, i)
        BY <1>1
    <2> QED  BY <1>2, <1>3, <2>1, RemoveAtIs
<1>5. e \in Seq(Ring) /\ Len(e) = Len(d) + 1 /\ e[Len(d) + 1] = t /\ \A k \in 1..Len(d) : e[k] = d[k]
    BY <1>1, <1>2, <1>3, AppendProperties
<1>6. \A j \in 1..Len(u) : \E k \in 1..Len(s) : k # i /\ u[j] = s[k]
    <2> TAKE j \in 1..Len(u)
    <2>1. CASE j < i
        BY <1>3, <1>4, <2>1
    <2>2. CASE j >= i
        <3>1. j + 1 \in 1..Len(s) /\ j + 1 # i
            BY <1>3, <1>4, <2>2
        <3>2. u[j] = s[j + 1]
            BY <1>3, <1>4, <2>2
        <3> QED  BY <3>1, <3>2
    <2> QED  BY <1>3, <1>4, <2>1, <2>2
<1>7. ASSUME NEW j \in 1..Len(u), NEW k \in 1..Len(u), u[j] = u[k] PROVE j = k
    <2>1. PICK y \in 1..Len(s) : y = IF j < i THEN j ELSE j + 1
        BY <1>3, <1>4
    <2>2. PICK z \in 1..Len(s) : z = IF k < i THEN k ELSE k + 1
        BY <1>3, <1>4
    <2>3. u[j] = s[y] /\ u[k] = s[z]
        BY <1>4, <2>1, <2>2
    <2>4. s[y] = s[z]
        BY <1>7, <2>3
    <2>5. y = z
        BY <1>2, <2>4, Zenon DEF Apart
    <2> QED  BY <1>3, <1>4, <2>1, <2>2, <2>5
<1>8. \A j \in 1..Len(u) : xfer'[u[j]].at = "flight"
    <2> TAKE j \in 1..Len(u)
    <2>1. PICK k \in 1..Len(s) : k # i /\ u[j] = s[k]
        BY <1>6
    <2>2. s[k] # t /\ s[k] \in Ring
        BY <1>2, <1>3, <2>1, ElementOfSeq DEF Apart
    <2> QED  BY <1>2, <2>1, <2>2
<1>9. \A k \in 1..Len(d) : d[k] \in Ring /\ d[k] # t /\ xfer'[d[k]] = xfer[d[k]]
    <2> TAKE k \in 1..Len(d)
    <2>1. d[k] \in Ring /\ xfer[d[k]].at = "done" /\ xfer[t].at = "flight"
        BY <1>2, <1>3, ElementOfSeq
    <2> QED  BY <2>1
<1>10. \A k \in 1..Len(e) : xfer'[e[k]].at = "done"
    <2> TAKE k \in 1..Len(e)
    <2>1. CASE k = Len(d) + 1
        BY <1>3, <1>5, <2>1
    <2>2. CASE k \in 1..Len(d)
        BY <1>2, <1>5, <1>9, <2>2
    <2> QED  BY <1>3, <1>5, <2>1, <2>2
<1>11. Apart(e)
    <2> SUFFICES ASSUME NEW j \in 1..Len(e), NEW k \in 1..Len(e), e[j] = e[k] PROVE j = k
        BY DEF Apart
    <2>1. CASE j \in 1..Len(d) /\ k \in 1..Len(d)
        BY <1>2, <1>5, <2>1 DEF Apart
    <2>2. CASE j = Len(d) + 1 \/ k = Len(d) + 1
        BY <1>3, <1>5, <1>9, <2>2
    <2> QED  BY <1>3, <1>5, <2>1, <2>2
<1>12. Apart(u)
    BY <1>7 DEF Apart
<1>13. RingFits'
    BY <1>1, <1>4, <1>5, <1>8, <1>10, <1>11, <1>12 DEF RingFits, Apart
<1> QED  BY <1>1, <1>3, <1>5, <1>9, <1>13

\* A transfer ends: what it carries, or has lost, is the next number.
LEMMA EndIsCounted ==
    ASSUME UvcInv, FrameInv, NEW t, NEW status, NEW payload, Uvc!Ends(t, status, payload), sent' \in Nat,
           \A x : x.status = status /\ x.payload = payload => Accounts(x, sent, sent')
    PROVE  FrameInv'
<1>1. /\ xfer' = [xfer EXCEPT ![t] = [xfer[t] EXCEPT !.at = "done", !.status = status, !.payload = payload]]
      /\ UNCHANGED <<asm, frames>> /\ done' = Append(done, t)
    BY DEF Uvc!Ends
<1>2. PICK i \in 1..Len(order) : t = order[i] /\ order' = Uvc!RemoveAt(order, i)
    <2>1. DOMAIN order = 1..Len(order)
        BY LenProperties DEF FrameInv, RingFits
    <2> QED  BY <2>1 DEF Uvc!Ends
<1>3. RingFits /\ t \in Ring /\ IsTransfer(xfer[t])
    <2>1. RingFits /\ t \in Ring
        BY <1>2, ElementOfSeq DEF FrameInv, RingFits
    <2> QED  BY <2>1 DEF UvcInv, UvcShape
<1>4. PICK x : x = [xfer[t] EXCEPT !.at = "done", !.status = status, !.payload = payload]
    OBVIOUS
<1>5. x.at = "done" /\ x.status = status /\ x.payload = payload
    BY <1>3, <1>4 DEF IsTransfer
<1>6. \A u \in Ring : xfer'[u] = IF u = t THEN x ELSE xfer[u]
    BY <1>1, <1>3, <1>4 DEF UvcInv, UvcShape
<1>7. /\ RingFits' /\ Len(done') = Len(done) + 1 /\ Len(done) \in Nat
      /\ done'[Len(done) + 1] = t
      /\ \A k \in 1..Len(done) : done'[k] = done[k] /\ xfer'[done[k]] = xfer[done[k]]
    BY <1>1, <1>2, <1>3, <1>5, <1>6, EndMovesOver
<1>8. PICK num \in [1..Len(done) + 1 -> Nat] : Numbering(num)
    BY DEF FrameInv
<1>9. PICK m \in Nat, n \in Nat, len \in Nat : m = sent /\ n = sent' /\ len = Len(done)
    BY <1>7 DEF FrameInv
<1>10. PICK new : new = [k \in 1..len + 2 |-> IF k <= len + 1 THEN num[k] ELSE n]
    OBVIOUS
<1>11. /\ new \in [1..Len(done') + 1 -> Nat] /\ new[len + 2] = n /\ new[len + 1] = m /\ new[1] = num[1]
       /\ \A k \in 1..len + 1 : new[k] = num[k]
    <2>1. num \in [1..len + 1 -> Nat] /\ num[len + 1] = m
        BY <1>8, <1>9 DEF Numbering
    <2>2. new \in [1..len + 2 -> Nat]
        BY <1>9, <1>10, <2>1
    <2>3. Len(done') + 1 = len + 2
        BY <1>7, <1>9
    <2> QED  BY <1>9, <1>10, <2>1, <2>2, <2>3
<1>12. Numbering(new)'
    <2>1. new[Len(done') + 1] = sent'
        BY <1>7, <1>9, <1>11
    <2>2. ASSUME NEW k \in 1..Len(done') PROVE Accounts(xfer[done[k]], new[k], new[k + 1])'
        <3>1. CASE k \in 1..len
            <4>1. new[k] = num[k] /\ new[k + 1] = num[k + 1]
                <5>1. k \in 1..len + 1 /\ k + 1 \in 1..len + 1
                    BY <1>9, <3>1
                <5> QED  BY <1>11, <5>1
            <4>2. xfer'[done'[k]] = xfer[done[k]]
                BY <1>7, <1>9, <3>1
            <4>3. Accounts(xfer[done[k]], num[k], num[k + 1])
                BY <1>8, <1>9, <3>1 DEF Numbering
            <4> QED  BY <4>1, <4>2, <4>3 DEF Accounts
        <3>2. CASE k = len + 1
            <4>1. xfer'[done'[k]] = x
                BY <1>3, <1>6, <1>7, <1>9, <3>2
            <4>2. Accounts(x, m, n)
                BY <1>5, <1>9
            <4>3. new[k] = m /\ new[k + 1] = n
                BY <1>9, <1>11, <3>2
            <4> QED  BY <4>1, <4>2, <4>3 DEF Accounts
        <3> QED  BY <1>7, <1>9, <3>1, <3>2
    <2>3. AsmFits(asm, new[1])'
        <3>1. AsmFits(asm, num[1])
            BY <1>8 DEF Numbering
        <3> QED  BY <1>1, <1>11, <3>1 DEF AsmFits
    <2> QED  BY <2>1, <2>2, <2>3 DEF Numbering
<1>13. \E k \in [1..Len(done') + 1 -> Nat] : Numbering(k)'
    BY <1>11, <1>12
<1> QED  BY <1>1, <1>7, <1>13 DEF FrameInv

\* The camera and the kernel.
LEMMA CameraIsCounted ==
    ASSUME UvcInv, FrameInv,
           \/ \E eof, err, malformed \in BOOLEAN : Uvc!PayloadArrives(eof, err, malformed)
           \/ Uvc!LosesPayload \/ Uvc!EndpointFails \/ \E t \in Ring : Uvc!CancelTakesEffect(t)
    PROVE  FrameInv'
<1>1. PICK m \in Nat : m = sent
    BY DEF FrameInv
<1>2. ASSUME NEW eof \in BOOLEAN, NEW err \in BOOLEAN, NEW malformed \in BOOLEAN,
             Uvc!PayloadArrives(eof, err, malformed)
      PROVE  FrameInv'
    <2>1. ASSUME NEW e \in BOOLEAN, NEW b \in BOOLEAN, NEW c \in BOOLEAN, NEW d \in BOOLEAN
          PROVE  /\ PayloadFits(Uvc!Sends(m, e, b, c, d), m)
                 /\ Uvc!Sends(m, e, b, c, d).empty = d
        <3>1. PICK z \in BOOLEAN : z = (e /\ m % Parts = Parts - 1)
            OBVIOUS
        <3>2. Uvc!Sends(m, e, b, c, d) =
                 [number |-> m, fid |-> Fid(m), eof |-> z, err |-> b, malformed |-> c, empty |-> d]
            BY <3>1 DEF Uvc!Sends, Fid
        <3>3. Fid(m) \in {0, 1}
            BY FidIs
        <3> QED  BY <3>2, <3>3 DEF PayloadFits
    <2>2. CASE /\ Uvc!Ends(Head(order), "Completed", Uvc!Sends(sent, eof, err, malformed, FALSE))
               /\ sent' = sent + 1
        <3>1. PICK p : p = Uvc!Sends(m, eof, err, malformed, FALSE)
            OBVIOUS
        <3>2. PayloadFits(p, m) /\ p.empty = FALSE
            BY <2>1, <3>1
        <3>3. Uvc!Ends(Head(order), "Completed", p)
            BY <1>1, <2>2, <3>1
        <3>4. \A x : x.status = "Completed" /\ x.payload = p => Accounts(x, m, m + 1)
            BY <3>2 DEF Accounts
        <3> QED  BY <1>1, <2>2, <3>3, <3>4, EndIsCounted
    <2>3. CASE /\ Uvc!Ends(Head(order), "Completed", Uvc!Sends(sent, FALSE, FALSE, FALSE, TRUE))
               /\ UNCHANGED sent
        <3>1. PICK p : p = Uvc!Sends(m, FALSE, FALSE, FALSE, TRUE)
            OBVIOUS
        <3>2. PayloadFits(p, m) /\ p.empty = TRUE
            BY <2>1, <3>1
        <3>3. Uvc!Ends(Head(order), "Completed", p)
            BY <1>1, <2>3, <3>1
        <3>4. \A x : x.status = "Completed" /\ x.payload = p => Accounts(x, m, m)
            BY <3>2 DEF Accounts
        <3> QED  BY <1>1, <2>3, <3>3, <3>4, EndIsCounted
    <2> QED  BY <1>2, <2>2, <2>3 DEF Uvc!PayloadArrives
<1>3. CASE Uvc!LosesPayload
    <2>1. PICK s \in {"Error", "Overflow", "TimedOut"} : Uvc!Ends(Head(order), s, None)
        BY <1>3 DEF Uvc!LosesPayload
    <2>2. sent' = m + 1 /\ \A x : x.status = s /\ x.payload = None => Accounts(x, m, m + 1)
        BY <1>1, <1>3 DEF Uvc!LosesPayload, Accounts, Uvc!Transient
    <2> QED  BY <1>1, <2>1, <2>2, EndIsCounted
<1>4. CASE Uvc!EndpointFails
    <2>1. PICK s \in {"Stall", "NoDevice"} : Uvc!Ends(Head(order), s, None)
        BY <1>4 DEF Uvc!EndpointFails
    <2>2. sent' = m /\ \A x : x.status = s /\ x.payload = None => Accounts(x, m, m)
        BY <1>1, <1>4 DEF Uvc!EndpointFails, Accounts
    <2> QED  BY <1>1, <2>1, <2>2, EndIsCounted
<1>5. ASSUME NEW t \in Ring, Uvc!CancelTakesEffect(t) PROVE FrameInv'
    <2>1. Uvc!Ends(t, "Cancelled", None) /\ sent' = m
        BY <1>1, <1>5 DEF Uvc!CancelTakesEffect
    <2>2. \A x : x.status = "Cancelled" /\ x.payload = None => Accounts(x, m, m)
        BY DEF Accounts
    <2> QED  BY <1>1, <2>1, <2>2, EndIsCounted
<1> QED  BY <1>2, <1>3, <1>4, <1>5

\* The ring when the first transfer that has ended is reaped.
LEMMA ReapMovesOver ==
    ASSUME RingFits, done # <<>>, NEW t, t = Head(done), done' = Tail(done), NEW x,
           \A u \in Ring : xfer'[u] = IF u = t THEN x ELSE xfer[u],
           UNCHANGED order \/ (order' = Append(order, t) /\ x.at = "flight")
    PROVE  /\ RingFits' /\ t \in Ring /\ Len(done) \in Nat \ {0} /\ Len(done') = Len(done) - 1 /\ t = done[1]
           /\ \A k \in 1..Len(done') : done'[k] = done[k + 1] /\ xfer'[done'[k]] = xfer[done[k + 1]]
<1>1. PICK s, d, u, e : s = order /\ d = done /\ u = order' /\ e = done'
    OBVIOUS
<1>2. /\ s \in Seq(Ring) /\ Apart(s) /\ \A k \in 1..Len(s) : xfer[s[k]].at = "flight"
      /\ d \in Seq(Ring) /\ Apart(d) /\ \A k \in 1..Len(d) : xfer[d[k]].at = "done"
    BY <1>1 DEF RingFits
<1>3. Len(s) \in Nat /\ Len(d) \in Nat \ {0}
    BY <1>1, <1>2, LenProperties, EmptySeq
<1>4. t = d[1] /\ t \in Ring /\ xfer[t].at = "done"
    <2>1. t = d[1] /\ 1 \in 1..Len(d)
        BY <1>1, <1>2, <1>3
    <2> QED  BY <1>2, <2>1, ElementOfSeq
<1>5. e \in Seq(Ring) /\ Len(e) = Len(d) - 1 /\ \A k \in 1..Len(e) : e[k] = d[k + 1]
    <2>1. d # <<>> /\ e = Tail(d)
        BY <1>1
    <2> QED  BY <1>2, <2>1, HeadTailProperties
<1>6. \A k \in 1..Len(e) : e[k] \in Ring /\ e[k] # t /\ xfer'[e[k]] = xfer[d[k + 1]] /\ xfer'[e[k]].at = "done"
    <2> TAKE k \in 1..Len(e)
    <2>1. k + 1 \in 1..Len(d) /\ k + 1 # 1 /\ 1 \in 1..Len(d)
        BY <1>3, <1>5
    <2>2. d[k + 1] # d[1]
        BY <1>2, <2>1, Zenon DEF Apart
    <2>3. d[k + 1] \in Ring /\ e[k] = d[k + 1] /\ xfer[d[k + 1]].at = "done"
        BY <1>2, <1>5, <2>1, ElementOfSeq
    <2> QED  BY <1>4, <2>2, <2>3
<1>7. Apart(e)
    <2> SUFFICES ASSUME NEW j \in 1..Len(e), NEW k \in 1..Len(e), e[j] = e[k] PROVE j = k
        BY DEF Apart
    <2>1. j + 1 \in 1..Len(d) /\ k + 1 \in 1..Len(d) /\ d[j + 1] = d[k + 1]
        BY <1>3, <1>5
    <2>2. j + 1 = k + 1
        BY <1>2, <2>1, Zenon DEF Apart
    <2> QED  BY <1>3, <1>5, <2>2
<1>8. \A k \in 1..Len(s) : s[k] \in Ring /\ s[k] # t /\ xfer'[s[k]].at = "flight"
    <2> TAKE k \in 1..Len(s)
    <2>1. s[k] \in Ring /\ xfer[s[k]].at = "flight"
        BY <1>2, ElementOfSeq
    <2> QED  BY <1>4, <2>1
<1>9. u \in Seq(Ring) /\ Apart(u) /\ \A k \in 1..Len(u) : xfer'[u[k]].at = "flight"
    <2>1. CASE u = s
        BY <1>2, <1>8, <2>1
    <2>2. CASE u = Append(s, t) /\ x.at = "flight"
        <3>1. u \in Seq(Ring) /\ Len(u) = Len(s) + 1 /\ u[Len(s) + 1] = t /\ \A k \in 1..Len(s) : u[k] = s[k]
            BY <1>2, <1>3, <1>4, <2>2, AppendProperties
        <3>2. ASSUME NEW k \in 1..Len(u) PROVE xfer'[u[k]].at = "flight"
            <4>1. CASE k \in 1..Len(s)
                BY <1>8, <3>1, <4>1
            <4>2. CASE k = Len(s) + 1
                BY <1>4, <2>2, <3>1, <4>2
            <4> QED  BY <1>3, <3>1, <4>1, <4>2
        <3>3. ASSUME NEW j \in 1..Len(u), NEW k \in 1..Len(u), u[j] = u[k] PROVE j = k
            <4>1. CASE j \in 1..Len(s) /\ k \in 1..Len(s)
                <5>1. s[j] = s[k]
                    BY <3>1, <3>3, <4>1
                <5> QED  BY <1>2, <4>1, <5>1, Zenon DEF Apart
            <4>2. CASE j = Len(s) + 1 \/ k = Len(s) + 1
                BY <1>3, <1>8, <3>1, <3>3, <4>2
            <4> QED  BY <1>3, <3>1, <4>1, <4>2
        <3> QED  BY <3>1, <3>2, <3>3 DEF Apart
    <2> QED  BY <1>1, <2>1, <2>2
<1>10. RingFits'
    BY <1>1, <1>5, <1>6, <1>7, <1>9 DEF RingFits, Apart
<1> QED  BY <1>1, <1>3, <1>4, <1>5, <1>6, <1>10

\* on_complete(): the assembler is given what the first transfer stands for.
LEMMA ReapIsCounted ==
    ASSUME UvcInv, FrameInv, NEW t \in Ring, Uvc!OnComplete(t)
    PROVE  FrameInv'
<1>1. /\ done # <<>> /\ t = Head(done) /\ done' = Tail(done) /\ UNCHANGED sent
    BY DEF Uvc!OnComplete
<1>2. PICK x \in {Uvc!Idle, Uvc!Flying} :
         /\ xfer' = [xfer EXCEPT ![t] = x]
         /\ UNCHANGED order \/ (order' = Append(order, t) /\ x.at = "flight")
    <2>1. Uvc!Flying.at = "flight"
        BY RingRecords
    <2> QED  BY <2>1 DEF Uvc!OnComplete, Uvc!Resubmit
<1>3. \A u \in Ring : xfer'[u] = IF u = t THEN x ELSE xfer[u]
    BY <1>2 DEF UvcInv, UvcShape
<1>4. /\ RingFits' /\ Len(done) \in Nat \ {0} /\ Len(done') = Len(done) - 1 /\ t = done[1]
      /\ \A k \in 1..Len(done') : done'[k] = done[k + 1] /\ xfer'[done'[k]] = xfer[done[k + 1]]
    <2>1. RingFits
        BY DEF FrameInv
    <2> QED  BY <1>1, <1>2, <1>3, <2>1, ReapMovesOver
<1>5. PICK num \in [1..Len(done) + 1 -> Nat] : Numbering(num)
    BY DEF FrameInv
<1>6. PICK len \in Nat \ {0} : len = Len(done)
    BY <1>4
<1>7. PICK m \in Nat, n \in Nat : m = num[1] /\ n = num[2]
    BY <1>5, <1>6
<1>8. Accounts(xfer[t], m, n) /\ AsmFits(asm, m) /\ frames \in Seq(Frame)
    <2>1. Accounts(xfer[done[1]], num[1], num[1 + 1])
        BY <1>5, <1>6 DEF Numbering
    <2>2. num[1 + 1] = n
        BY <1>7
    <2> QED  BY <1>4, <1>5, <1>7, <2>1, <2>2 DEF Numbering, FrameInv
<1>9. AsmFits(asm', n) /\ frames' \in Seq(Frame)
    <2>1. CASE xfer[t].status = "Completed" /\ Uvc!Deliver(Uvc!Payload(asm, xfer[t].payload))
        <3>1. PICK a, p : a = asm /\ p = xfer[t].payload
            OBVIOUS
        <3>2. PayloadFits(p, m) /\ n = IF p.empty THEN m ELSE m + 1
            BY <1>8, <2>1, <3>1 DEF Accounts, Uvc!Transient
        <3>3. AsmFits(a, m)
            BY <1>8, <3>1
        <3>4. AsmFits(Uvc!Payload(a, p), n)
            BY <3>2, <3>3, PayloadIsTaken
        <3>5. Uvc!Deliver(Uvc!Payload(a, p))
            BY <2>1, <3>1
        <3> QED  BY <1>8, <3>4, <3>5, DeliverFits
    <2>2. CASE Uvc!Deliver(Uvc!Lost(asm))
        <3>1. PICK a : a = asm
            OBVIOUS
        <3>2. AsmFits(Uvc!Lost(a), n) /\ Uvc!Deliver(Uvc!Lost(a))
            BY <1>8, <2>2, <3>1, LostFits
        <3> QED  BY <1>8, <3>2, DeliverFits
    <2>3. CASE xfer[t].status \in {"Cancelled", "Stall", "NoDevice"} /\ UNCHANGED <<asm, frames>>
        <3>1. n = m
            BY <1>8, <2>3 DEF Accounts, Uvc!Transient
        <3> QED  BY <1>8, <2>3, <3>1
    <2> QED  BY <2>1, <2>2, <2>3 DEF Uvc!OnComplete
<1>10. PICK new : new = [k \in 1..len |-> num[k + 1]]
    OBVIOUS
<1>11. new \in [1..Len(done') + 1 -> Nat] /\ \A k \in 1..len : new[k] = num[k + 1]
    <2>1. \A k \in 1..len : num[k + 1] \in Nat
        BY <1>5, <1>6
    <2>2. Len(done') + 1 = len
        BY <1>4, <1>6
    <2>3. new \in [1..len -> Nat]
        BY <1>10, <2>1
    <2> QED  BY <1>10, <2>2, <2>3
<1>12. Numbering(new)'
    <2>1. new[Len(done') + 1] = sent'
        <3>1. Len(done') + 1 = len /\ len \in 1..len /\ num[len + 1] = sent
            BY <1>4, <1>5, <1>6 DEF Numbering
        <3> QED  BY <1>1, <1>11, <3>1
    <2>2. ASSUME NEW k \in 1..Len(done') PROVE Accounts(xfer[done[k]], new[k], new[k + 1])'
        <3>1. k \in 1..len /\ k + 1 \in 1..len /\ k + 1 \in 1..Len(done)
            BY <1>4, <1>6
        <3>2. new[k] = num[k + 1] /\ new[k + 1] = num[(k + 1) + 1]
            BY <1>11, <3>1
        <3>3. Accounts(xfer[done[k + 1]], num[k + 1], num[(k + 1) + 1])
            BY <1>5, <3>1 DEF Numbering
        <3>4. xfer'[done'[k]] = xfer[done[k + 1]]
            BY <1>4
        <3> QED  BY <3>2, <3>3, <3>4 DEF Accounts
    <2>3. AsmFits(asm, new[1])'
        <3>1. new[1] = n
            BY <1>6, <1>7, <1>11
        <3> QED  BY <1>9, <3>1
    <2> QED  BY <2>1, <2>2, <2>3 DEF Numbering
<1>13. \E k \in [1..Len(done') + 1 -> Nat] : Numbering(k)'
    BY <1>11, <1>12
<1>14. sent' \in Nat
    BY <1>1 DEF FrameInv
<1> QED  BY <1>4, <1>9, <1>13, <1>14 DEF FrameInv

\* The owner's calls carry nothing.
LEMMA OwnerIsCounted ==
    ASSUME UvcInv, FrameInv, Uvc!Stop \/ Uvc!StopCancels \/ Uvc!StopWaits \/ Uvc!NextFrame
                   \/ (\E t \in Ring : Uvc!OnCompleteIsochronous(t)) \/ UNCHANGED Uvc!vars
    PROVE  FrameInv'
<1>1. /\ UNCHANGED <<order, done, sent, asm>>
      /\ frames' = frames \/ (frames # <<>> /\ frames' = Tail(frames))
    BY DEF Uvc!Stop, Uvc!StopCancels, Uvc!StopWaits, Uvc!NextFrame, Uvc!OnCompleteIsochronous, Uvc!vars
<1>2. \A t \in Ring : xfer'[t].at = xfer[t].at /\ xfer'[t].status = xfer[t].status
                      /\ xfer'[t].payload = xfer[t].payload
    <2>1. CASE UNCHANGED xfer
        BY <2>1
    <2>2. ASSUME NEW u \in Ring, xfer' = [xfer EXCEPT ![u].cancelling = TRUE]
          PROVE  \A t \in Ring : xfer'[t].at = xfer[t].at /\ xfer'[t].status = xfer[t].status
                                 /\ xfer'[t].payload = xfer[t].payload
        <3> TAKE t \in Ring
        <3>1. CASE t # u
            BY <2>2, <3>1 DEF UvcInv, UvcShape
        <3>2. CASE t = u
            <4>1. PICK x : x = [xfer[u] EXCEPT !.cancelling = TRUE]
                OBVIOUS
            <4>2. IsTransfer(xfer[u]) /\ xfer'[t] = x
                BY <2>2, <3>2, <4>1 DEF UvcInv, UvcShape
            <4> QED  BY <3>2, <4>1, <4>2 DEF IsTransfer
        <3> QED  BY <3>1, <3>2
    <2> QED  BY <2>1, <2>2 DEF Uvc!Stop, Uvc!StopCancels, Uvc!StopWaits, Uvc!NextFrame,
                               Uvc!OnCompleteIsochronous, Uvc!vars
<1>3. frames' \in Seq(Frame)
    <2>1. PICK q, r : q = frames /\ r = frames'
        OBVIOUS
    <2>2. q \in Seq(Frame) /\ (r = q \/ (q # <<>> /\ r = Tail(q)))
        BY <1>1, <2>1 DEF FrameInv
    <2>3. r \in Seq(Frame)
        BY <2>2, HeadTailProperties
    <2> QED  BY <2>1, <2>3
<1>4. RingFits'
    <2>1. /\ \A i \in 1..Len(order) : order[i] \in Ring
          /\ \A i \in 1..Len(done) : done[i] \in Ring
        BY ElementOfSeq DEF FrameInv, RingFits
    <2> QED  BY <1>1, <1>2, <2>1 DEF FrameInv, RingFits, Apart
<1>5. PICK num \in [1..Len(done) + 1 -> Nat] : Numbering(num)
    BY DEF FrameInv
<1>6. Numbering(num)'
    <2>1. ASSUME NEW i \in 1..Len(done) PROVE Accounts(xfer[done[i]], num[i], num[i + 1])'
        <3>1. done[i] \in Ring /\ done'[i] = done[i]
            BY <1>1, ElementOfSeq DEF FrameInv, RingFits
        <3>2. Accounts(xfer[done[i]], num[i], num[i + 1])
            BY <1>5 DEF Numbering
        <3> QED  BY <1>2, <3>1, <3>2 DEF Accounts
    <2>2. AsmFits(asm, num[1])'
        BY <1>1, <1>5 DEF Numbering, AsmFits
    <2> QED  BY <1>1, <1>5, <2>1, <2>2 DEF Numbering
<1>7. \E k \in [1..Len(done') + 1 -> Nat] : Numbering(k)'
    BY <1>1, <1>5, <1>6
<1>8. sent' \in Nat
    BY <1>1 DEF FrameInv
<1> QED  BY <1>3, <1>4, <1>7, <1>8 DEF FrameInv

LEMMA FrameInitInv == Uvc!Init => FrameInv
<1> SUFFICES ASSUME Uvc!Init PROVE FrameInv
    OBVIOUS
<1>1. /\ xfer = [t \in Ring |-> Uvc!Flying] /\ order \in Uvc!SetToSeqs(Ring) /\ done = <<>> /\ sent = 0
      /\ asm = Uvc!NewAssembler /\ frames = <<>>
    BY DEF Uvc!Init
<1>2. order \in Seq(Ring) /\ Apart(order)
    <2>1. PICK n \in Nat : n = Uvc!Cardinality(Ring)
        <3>1. Uvc!Cardinality(Ring) = Cardinality(Ring)
            BY DEF Uvc!Cardinality, Cardinality
        <3> QED  BY <3>1, StreamAssumption, FS_CardinalityType
    <2>2. PICK s : s = order
        OBVIOUS
    <2>3. s \in [1..n -> Ring] /\ \A i, j \in 1..n : i # j => s[i] # s[j]
        BY <1>1, <2>1, <2>2 DEF Uvc!SetToSeqs
    <2>4. s \in Seq(Ring)
        BY <2>3, SeqDef
    <2>5. Len(s) = n
        BY <2>3, <2>4, LenProperties
    <2> QED  BY <2>2, <2>3, <2>4, <2>5 DEF Apart
<1>3. RingFits
    <2>1. \A i \in 1..Len(order) : xfer[order[i]].at = "flight"
        BY <1>1, <1>2, ElementOfSeq, RingRecords
    <2>2. done \in Seq(Ring) /\ Len(done) = 0
        BY <1>1
    <2> QED  BY <1>2, <2>1, <2>2 DEF RingFits, Apart
<1>4. AsmFits(asm, 0)
    <2>1. <<>> \in Seq(Frame)
        OBVIOUS
    <2>2. asm \in Assembler /\ asm.current = None
        BY <1>1, <2>1 DEF Uvc!NewAssembler, Assembler
    <2> QED  BY <2>2 DEF AsmFits
<1>5. PICK num : num = [i \in 1..1 |-> 0]
    OBVIOUS
<1>6. Len(done) = 0 /\ num \in [1..Len(done) + 1 -> Nat] /\ num[1] = 0
    BY <1>1, <1>5
<1>7. Numbering(num)
    BY <1>1, <1>4, <1>6 DEF Numbering
<1>8. frames \in Seq(Frame) /\ sent \in Nat
    BY <1>1
<1> QED  BY <1>3, <1>6, <1>7, <1>8 DEF FrameInv

LEMMA FrameInvariant == Spec => [](part = "uvc" => FrameInv)
<1>1. Init => (part = "uvc" => FrameInv)
    BY FrameInitInv DEF Init
<1>2. (part = "uvc" => UvcInv) /\ (part = "uvc" => FrameInv) /\ [Next]_vars => (part = "uvc" => FrameInv)'
    <2>1. ASSUME part = "uvc", UvcInv, FrameInv, [Next]_vars PROVE FrameInv'
        <3>1. [Uvc!Next]_(Uvc!vars)
            BY <2>1, UvcMoves
        <3> QED  BY <2>1, <3>1, CameraIsCounted, ReapIsCounted, OwnerIsCounted DEF Uvc!Next
    <2>2. ASSUME part # "uvc", [Next]_vars PROVE part' # "uvc"
        BY <2>2 DEF Next, vars
    <2> QED  BY <2>1, <2>2
<1> QED  BY <1>1, <1>2, UvcInvariant, PTL DEF Spec

\* Assembler::payload(): for frames of any length, a ring of any size and any
\* sequence of lost, malformed and empty payloads, a frame in the queue without the
\* error flag is a stretch of one of the camera's frames without a gap.
THEOREM UnflaggedIsAlwaysOneFrame == Spec => []UnflaggedIsOneFrame
<1>1. (part = "uvc" => FrameInv) => UnflaggedIsOneFrame
    <2> SUFFICES ASSUME FrameInv, NEW f \in Uvc!Frames, ~f.error PROVE OneFrame(f.data)
        BY DEF UnflaggedIsOneFrame, Uvc!UnflaggedIsOneFrame, OneFrame
    <2>1. PICK i \in DOMAIN frames : f = frames[i]
        BY DEF Uvc!Frames, Uvc!Range
    <2>2. f \in Frame
        BY <2>1, ElementOfSeq, LenProperties DEF FrameInv
    <2> QED  BY <2>2 DEF Frame
<1> QED  BY <1>1, FrameInvariant, PTL

(* The frames on a network function's wire *)

\* What send() puts on the wire; NTB parameters are of use to parse_ntb16() only if
\* they put the NDP at a multiple of four.
SentNtb(b, n, p, packet) ==
    /\ n \in FrmLengths /\ p \in FrmParams /\ packet \in FrmPackets
    /\ p.align < 4 \/ p.align % 4 = 0
    /\ b = Framing!BuildNtb16(n, p, packet) /\ b.format = "ntb16"

\* A new transfer starts the parser from nothing, whatever the transfer is.
LEMMA BeginIs ==
    ASSUME NEW b, NEW cut, "format" \in DOMAIN b, b = [x \in DOMAIN b |-> b[x]], Framing!Begin(b, cut)
    PROVE  /\ pos' = 0 /\ walked' = 0 /\ fGot' = <<>>
           /\ wire'.format = b.format
           /\ verdict' = IF wire'.format = "refused" THEN "none" ELSE "parsing"
<1>1. wire'.format = b.format
    BY DEF Framing!Begin
<1> QED  BY <1>1 DEF Framing!Begin

\* Every transfer, of either end, is a record with a format.
LEMMA TransferIs ==
    ASSUME NEW format, NEW len, NEW f, NEW at, NEW lens
    PROVE  LET b == Framing!Transfer(format, len, f, at, lens)
           IN  "format" \in DOMAIN b /\ b = [x \in DOMAIN b |-> b[x]]
BY DEF Framing!Transfer

LEMMA DeviceNtbIs ==
    ASSUME NEW batch, NEW crc
    PROVE  LET b == Framing!DeviceNtb16(batch, crc)
           IN  "format" \in DOMAIN b /\ b = [x \in DOMAIN b |-> b[x]]
BY TransferIs DEF Framing!DeviceNtb16

LEMMA DevicePacketsIs ==
    ASSUME NEW lens, NEW zeros
    PROVE  LET b == Framing!DevicePackets(lens, zeros)
           IN  "format" \in DOMAIN b /\ b = [x \in DOMAIN b |-> b[x]]
BY TransferIs DEF Framing!DevicePackets
\* Division leaves a remainder, and only one.
LEMMA QuotientIs ==
    ASSUME NEW a \in Nat, NEW p \in Nat \ {0}
    PROVE  a \div p \in Nat /\ a % p \in 0..(p - 1) /\ a = (a \div p) * p + (a % p)
BY SMT

LEMMA AtLeastOnce ==
    ASSUME NEW k \in Nat \ {0}, NEW p \in Nat
    PROVE  k * p >= p
BY SMT

LEMMA RemainderIs ==
    ASSUME NEW k \in Nat, NEW p \in Nat \ {0}, NEW r \in 0..(p - 1)
    PROVE  k * p + r \in Nat /\ (k * p + r) % p = r
<1>1. k * p \in Nat
    BY SMT
<1>2. PICK a \in Nat : a = k * p + r
    BY <1>1, SMT
<1>3. a \div p \in Nat /\ a % p \in 0..(p - 1) /\ a = (a \div p) * p + (a % p)
    BY QuotientIs
<1>4. PICK q \in Nat, s \in Nat : q = a \div p /\ s = a % p
    BY <1>3, SMT
<1>5. k * p + r = q * p + s /\ s < p /\ r < p /\ r >= 0
    BY <1>2, <1>3, <1>4, SMT
<1>6. q = k
    <2>1. ~ k < q
        <3> SUFFICES ASSUME k < q PROVE FALSE  OBVIOUS
        <3>1. PICK d \in Nat \ {0} : q = k + d
            BY SMT
        <3>2. q * p = k * p + d * p /\ d * p \in Nat
            BY <3>1, SMT
        <3>3. d * p >= p
            BY AtLeastOnce
        <3> QED  BY <1>1, <1>5, <3>2, <3>3, SMT
    <2>2. ~ q < k
        <3> SUFFICES ASSUME q < k PROVE FALSE  OBVIOUS
        <3>1. PICK d \in Nat \ {0} : k = q + d
            BY SMT
        <3>2. k * p = q * p + d * p /\ d * p \in Nat /\ q * p \in Nat
            BY <3>1, SMT
        <3>3. d * p >= p
            BY AtLeastOnce
        <3> QED  BY <1>5, <3>2, <3>3, SMT
    <2> QED  BY <2>1, <2>2, SMT
<1>7. s = r
    BY <1>1, <1>5, <1>6, SMT
<1> QED  BY <1>2, <1>4, <1>7, SMT

\* align_up(v, to) is the first multiple of `to` from v on.
LEMMA AlignUpIs ==
    ASSUME NEW v \in Nat, NEW to \in Nat \ {0}
    PROVE  \E k \in Nat : Framing!AlignUp(v, to) = k * to /\ k * to >= v
<1>1. CASE to = 1
    BY <1>1, SMT DEF Framing!AlignUp
<1>2. CASE to # 1
    <2>1. PICK a \in Nat : a = v + to - 1
        BY SMT
    <2>2. PICK k \in Nat : k = a \div to
        BY QuotientIs
    <2>3. a = k * to + (a % to) /\ a % to \in 0..(to - 1)
        BY <2>2, QuotientIs
    <2>4. PICK m \in Nat : m = k * to
        BY SMT
    <2>5. m >= v
        BY <2>1, <2>3, <2>4, SMT
    <2>6. Framing!AlignUp(v, to) = (a \div to) * to
        BY <1>2, <2>1, SMT DEF Framing!AlignUp
    <2> QED  BY <2>2, <2>4, <2>5, <2>6
<1> QED  BY <1>1, <1>2

\* DataOffset() is where the device wants datagrams: behind the NDP, at a multiple of
\* the divisor plus the remainder.
LEMMA DataOffsetIs ==
    ASSUME NEW ndp \in Nat, NEW p \in [align : Nat, divisor : Nat, remainder : Nat, max : Nat]
    PROVE  LET divisor == Framing!Max2(p.divisor, 1)
               data == Framing!DataOffset(ndp, p)
           IN  /\ divisor \in Nat \ {0} /\ data \in Nat /\ data >= ndp + 16
               /\ data % divisor = p.remainder % divisor
<1>1. PICK d \in Nat \ {0} : d = Framing!Max2(p.divisor, 1)
    BY SMT DEF Framing!Max2
<1>2. PICK r \in 0..(d - 1) : r = p.remainder % d
    BY QuotientIs
<1>3. PICK v \in Nat : v = ndp + 16
    BY SMT
<1>4. PICK k \in Nat : Framing!AlignUp(v, d) = k * d /\ k * d >= v
    BY AlignUpIs
<1>5. k * d + r \in Nat /\ (k * d + r) % d = r
    BY RemainderIs
<1>6. Framing!DataOffset(ndp, p) = k * d + r
    BY <1>1, <1>2, <1>3, <1>4 DEF Framing!DataOffset, Framing!NdpOne
<1>7. PICK m \in Nat : m = k * d
    BY SMT
<1>8. k * d + r >= ndp + 16
    BY <1>3, <1>4, <1>7, SMT
<1> QED  BY <1>1, <1>2, <1>5, <1>6, <1>8

\* The NDP is behind the NTH, at a multiple of four.
LEMMA NdpIs ==
    ASSUME NEW align \in Nat, align < 4 \/ align % 4 = 0
    PROVE  LET ndp == Framing!AlignUp(Framing!Nth, Framing!Max2(align, 4))
           IN  ndp \in Nat /\ ndp >= 12 /\ ndp % 4 = 0
<1>1. PICK to \in Nat \ {0} : to = Framing!Max2(align, 4) /\ to % 4 = 0
    BY SMT DEF Framing!Max2
<1>2. PICK m \in Nat : to = m * 4
    BY <1>1, SMT
<1>3. PICK k \in Nat : Framing!AlignUp(12, to) = k * to /\ k * to >= 12
    BY AlignUpIs, 12 \in Nat
<1>4. PICK km \in Nat : km = k * m
    BY SMT
<1>5. k * to = km * 4
    BY <1>2, <1>4, SMT
<1>6. (km * 4) % 4 = 0
    BY SMT
<1> QED  BY <1>1, <1>3, <1>5, <1>6, SMT DEF Framing!Nth

\* One byte more where the total would end with a full packet.
LEMMA PadIs ==
    ASSUME NEW total \in Nat, NEW packet \in Nat \ {0}
    PROVE  LET t == Framing!Pad(total, packet)
           IN  t \in Nat /\ t >= total /\ t <= total + 1 /\ (packet > 1 => t % packet # 0)
BY SMT DEF Framing!Pad
Carries(b, f, at, n) ==
    /\ \A i \in DOMAIN f : Framing!Field(b, i) = f[i]
    /\ \A i \in 1..n : Framing!Field(b, at + i - 1) = <<1, i - 1>>

\* A transfer of one frame of n bytes at offset `at`, among header fields f that are
\* all before it.
LEMMA FrameIsCarried ==
    ASSUME NEW format, NEW len \in Nat, NEW f, NEW at \in Nat, NEW n \in Nat,
           at + n <= len, DOMAIN f \subseteq 0..(at - 1)
    PROVE  Carries(Framing!Transfer(format, len, f, <<at>>, <<n>>), f, at, n)
<1> DEFINE b == Framing!Transfer(format, len, f, <<at>>, <<n>>)
           here(i) == {k \in DOMAIN <<at>> : <<at>>[k] <= i /\ i < <<at>>[k] + <<n>>[k]}
<1>1. b.len = len /\ b.cell = Framing!Cells(len, f, <<at>>, <<n>>)
    BY DEF Framing!Transfer
<1>2. ASSUME NEW i \in 0..(len - 1)
      PROVE  Framing!Field(b, i) = IF i \in DOMAIN f THEN f[i]
                                   ELSE IF here(i) = {} THEN 0
                                   ELSE <<Framing!SmallestOf(here(i)), i - <<at>>[Framing!SmallestOf(here(i))]>>
    BY <1>1 DEF Framing!Field, Framing!Cells
<1>3. \A i \in DOMAIN f : Framing!Field(b, i) = f[i]
    <2> SUFFICES ASSUME NEW i \in DOMAIN f PROVE Framing!Field(b, i) = f[i]  OBVIOUS
    <2>1. i \in 0..(len - 1)
        BY SMT
    <2> QED  BY <1>2, <2>1
<1>4. \A i \in 1..n : Framing!Field(b, at + i - 1) = <<1, i - 1>>
    <2> SUFFICES ASSUME NEW i \in 1..n PROVE Framing!Field(b, at + i - 1) = <<1, i - 1>>  OBVIOUS
    <2>1. PICK j \in 0..(len - 1) : j = at + i - 1 /\ j \notin DOMAIN f /\ j - at = i - 1
        BY SMT
    <2>2. here(j) = {1}
        BY <2>1, SMT
    <2>3. Framing!SmallestOf({1}) = 1
        BY SMT DEF Framing!SmallestOf
    <2>4. Framing!Field(b, j) = <<1, j - <<at>>[1]>>
        BY <1>2, <2>1, <2>2, <2>3
    <2> QED  BY <2>1, <2>4
<1> QED  BY <1>3, <1>4 DEF Carries

\* A block as build_ntb16() makes it: the frame, and every field parse_ntb16() reads.
FramedNtb(b, n, ndp, data) ==
    /\ b.format = "ntb16" /\ b.cut = 0 /\ b.frames = <<n>> /\ b.at = <<data>>
    /\ ndp \in Nat /\ ndp >= 12 /\ ndp % 4 = 0
    /\ data \in Nat /\ data >= ndp + 16 /\ b.len \in Nat /\ b.len >= data + n
    /\ Framing!Field(b, 0) = Framing!NCMH /\ Framing!Field(b, 4) = 12
    /\ Framing!Field(b, 8) = b.len /\ Framing!Field(b, 10) = ndp
    /\ Framing!Field(b, ndp) = Framing!NCM0 /\ Framing!Field(b, ndp + 4) = 16
    /\ Framing!Field(b, ndp + 6) = 0
    /\ Framing!Field(b, ndp + 8) = data /\ Framing!Field(b, ndp + 10) = n
    /\ Framing!Field(b, ndp + 12) = 0 /\ Framing!Field(b, ndp + 14) = 0
    /\ \A i \in 1..n : Framing!Field(b, data + i - 1) = <<1, i - 1>>

RulesKept(b) ==
    b.rules.packet > 0 =>
      /\ b.at[1] % b.rules.divisor = b.rules.remainder
      /\ b.len % b.rules.packet # 0 /\ b.len <= b.rules.max

NtbFieldsAre(f, ndp, data, n, total) ==
    /\ DOMAIN f = {0, 4, 8, 10, ndp, ndp + 4, ndp + 6, ndp + 8, ndp + 10, ndp + 12, ndp + 14}
    /\ f[0] = Framing!NCMH /\ f[4] = 12 /\ f[8] = total /\ f[10] = ndp
    /\ f[ndp] = Framing!NCM0 /\ f[ndp + 4] = 16 /\ f[ndp + 6] = 0 /\ f[ndp + 8] = data
    /\ f[ndp + 10] = n /\ f[ndp + 12] = 0 /\ f[ndp + 14] = 0

\* The fields of build_ntb16() do not overlap.
LEMMA NtbFieldsIs ==
    ASSUME NEW ndp \in Nat, ndp >= 12, NEW data, NEW n, NEW total
    PROVE  NtbFieldsAre(Framing!NtbFields(ndp, data, n, total), ndp, data, n, total)
BY SMT DEF NtbFieldsAre, Framing!NtbFields, Framing!Nth, Framing!NdpOne

\* EXCEPT .rules leaves the rest of a block alone.
Ruled(b, format, len, f, at, lens, rules) ==
    b = [Framing!Transfer(format, len, f, at, lens) EXCEPT !.rules = rules]

LEMMA WithRules ==
    ASSUME NEW format, NEW len, NEW f, NEW at, NEW lens, NEW rules, NEW b,
           Ruled(b, format, len, f, at, lens, rules)
    PROVE  /\ b.format = format /\ b.cut = 0 /\ b.frames = lens /\ b.at = at /\ b.len = len
           /\ b.rules = rules
           /\ \A i : Framing!Field(b, i) = Framing!Field(Framing!Transfer(format, len, f, at, lens), i)
BY DEF Ruled, Framing!Transfer, Framing!Field

\* What build_ntb16() does not refuse is a frame parse_ntb16() finds, by the device's rules.
LEMMA SentNtbIs ==
    ASSUME FramingAssumption, NEW b, NEW n, NEW p, NEW packet, SentNtb(b, n, p, packet)
    PROVE  /\ n \in Nat /\ n >= 14 /\ RulesKept(b)
           /\ \E ndp \in Nat, data \in Nat : FramedNtb(b, n, ndp, data)
<1> DEFINE ndp == Framing!AlignUp(Framing!Nth, Framing!Max2(p.align, 4))
           data == Framing!DataOffset(ndp, p)
           total == Framing!Pad(data + n, packet)
           divisor == Framing!Max2(p.divisor, 1)
           f == Framing!NtbFields(ndp, data, n, total)
           rules == [divisor |-> divisor, remainder |-> p.remainder % divisor,
                     max |-> p.max, packet |-> packet]
           t == Framing!Transfer("ntb16", total, f, <<data>>, <<n>>)
<1>0. /\ n \in Nat /\ n >= 14 /\ packet \in Nat \ {0} /\ packet > 1
      /\ p \in [align : Nat, divisor : Nat, remainder : Nat, max : Nat] /\ p.align \in Nat
      /\ p.align < 4 \/ p.align % 4 = 0
    BY SMT DEF FramingAssumption, SentNtb
<1>1. ndp \in Nat /\ ndp >= 12 /\ ndp % 4 = 0
    BY <1>0, NdpIs
<1>2. b = [t EXCEPT !.rules = rules] /\ ~ total > p.max
    <2>1. Framing!BuildNtb16(n, p, packet)
            = IF total > p.max \/ total > FrmMax THEN Framing!Refused ELSE [t EXCEPT !.rules = rules]
        BY DEF Framing!BuildNtb16
    <2>2. Framing!Refused.format # "ntb16"
        BY DEF Framing!Refused, Framing!Transfer
    <2>3. b = Framing!BuildNtb16(n, p, packet) /\ b.format = "ntb16"
        BY DEF SentNtb
    <2> HIDE DEF t, rules, total
    <2> QED  BY <2>1, <2>2, <2>3
<1>3. /\ b.format = "ntb16" /\ b.cut = 0 /\ b.frames = <<n>> /\ b.at = <<data>> /\ b.len = total
      /\ b.rules = rules /\ \A i : Framing!Field(b, i) = Framing!Field(t, i)
    <2> HIDE DEF f, data, total, rules
    <2>1. Ruled(b, "ntb16", total, f, <<data>>, <<n>>, rules)
        BY <1>2 DEF Ruled
    <2> QED  BY <2>1, WithRules
<1> HIDE DEF ndp
<1>4. divisor \in Nat \ {0} /\ data \in Nat /\ data >= ndp + 16 /\ data % divisor = p.remainder % divisor
    BY <1>0, <1>1, DataOffsetIs
<1> HIDE DEF data, divisor
<1>5. total \in Nat /\ total >= data + n /\ total % packet # 0
    <2>1. PICK sum \in Nat : sum = data + n
        BY <1>0, <1>4, SMT
    <2>2. PICK tt \in Nat : tt = Framing!Pad(sum, packet) /\ tt >= sum /\ tt % packet # 0
        BY <1>0, PadIs
    <2> QED  BY <2>1, <2>2
<1> HIDE DEF total
<1>6. NtbFieldsAre(f, ndp, data, n, total)
    BY <1>1, NtbFieldsIs
<1> HIDE DEF f
<1>7. DOMAIN f \subseteq 0..(data - 1)
    <2>1. DOMAIN f = {0, 4, 8, 10, ndp, ndp + 4, ndp + 6, ndp + 8, ndp + 10, ndp + 12, ndp + 14}
        BY <1>6 DEF NtbFieldsAre
    <2>2. SUFFICES ASSUME NEW i \in DOMAIN f PROVE i \in 0..(data - 1)  OBVIOUS
    <2>3. ndp \in Nat /\ data \in Nat /\ data >= ndp + 16 /\ ndp >= 12
        BY <1>1, <1>4
    <2>4. i \in {0, 4, 8, 10, ndp, ndp + 4, ndp + 6, ndp + 8, ndp + 10, ndp + 12, ndp + 14}
        BY <2>1
    <2> QED  BY <2>3, <2>4, SMT
<1>8. Carries(t, f, data, n)
    <2>1. total \in Nat /\ data \in Nat /\ n \in Nat /\ data + n <= total
        BY <1>0, <1>4, <1>5, SMT
    <2> QED  BY <2>1, <1>7, FrameIsCarried
<1> HIDE DEF t
<1>9. FramedNtb(b, n, ndp, data)
    <2>1. /\ Framing!Field(b, 0) = f[0] /\ Framing!Field(b, 4) = f[4] /\ Framing!Field(b, 8) = f[8]
          /\ Framing!Field(b, 10) = f[10] /\ Framing!Field(b, ndp) = f[ndp]
          /\ Framing!Field(b, ndp + 4) = f[ndp + 4] /\ Framing!Field(b, ndp + 6) = f[ndp + 6]
          /\ Framing!Field(b, ndp + 8) = f[ndp + 8] /\ Framing!Field(b, ndp + 10) = f[ndp + 10]
          /\ Framing!Field(b, ndp + 12) = f[ndp + 12] /\ Framing!Field(b, ndp + 14) = f[ndp + 14]
        BY <1>3, <1>6, <1>8 DEF Carries, NtbFieldsAre
    <2> QED  BY <1>1, <1>3, <1>4, <1>5, <1>6, <1>8, <2>1 DEF Carries, FramedNtb, NtbFieldsAre
<1>10. RulesKept(b)
    <2>1. /\ b.rules.packet = packet /\ b.rules.divisor = divisor /\ b.rules.max = p.max
          /\ b.rules.remainder = p.remainder % divisor /\ b.at[1] = data
        BY <1>3
    <2>2. total <= p.max
        BY <1>0, <1>2, <1>5, SMT
    <2> QED  BY <1>3, <1>4, <1>5, <2>1, <2>2 DEF RulesKept
<1> QED  BY <1>0, <1>1, <1>4, <1>9, <1>10
\* A PACKET message of one frame, as build_packet() makes it and parse_packets() reads it.
FramedPacket(b, n) ==
    /\ b.format = "rndis" /\ b.cut = 0 /\ b.frames = <<n>>
    /\ b.len \in Nat /\ b.len >= 44 + n /\ b.len <= 45 + n
    /\ Framing!Field(b, 0) = Framing!PACKET /\ Framing!Field(b, 4) = 44 + n
    /\ Framing!Field(b, 8) = 36 /\ Framing!Field(b, 12) = n
    /\ \A i \in 1..n : Framing!Field(b, 44 + i - 1) = <<1, i - 1>>

\* An ECM frame, and the byte of padding it may have.
FramedEcm(b, n) ==
    /\ b.format = "ecm" /\ b.frames = <<n>>
    /\ b.len \in Nat /\ b.len >= n /\ b.len <= n + 1
    /\ \A i \in 1..n : Framing!Field(b, 0 + i - 1) = <<1, i - 1>>

\* A transfer without rules keeps them.
LEMMA TransferFields ==
    ASSUME NEW format, NEW len, NEW f, NEW at, NEW lens, NEW b, b = Framing!Transfer(format, len, f, at, lens)
    PROVE  /\ b.format = format /\ b.cut = 0 /\ b.frames = lens /\ b.at = at /\ b.len = len
           /\ b.rules.packet = 0 /\ RulesKept(b)
<1>1. b.rules = [divisor |-> 1, remainder |-> 0, max |-> FrmMax, packet |-> 0]
    BY DEF Framing!Transfer
<1>2. b.rules.packet = 0
    BY <1>1
<1>3. RulesKept(b)
    BY <1>2, ~ 0 > 0 DEF RulesKept
<1> QED  BY <1>2, <1>3 DEF Framing!Transfer

\* What build_packet() makes is a message parse_packets() finds.
LEMMA SentPacketIs ==
    ASSUME FramingAssumption, NEW n \in FrmLengths, NEW packet \in FrmPackets, NEW b,
           b = Framing!BuildPacket(n, packet)
    PROVE  n \in Nat /\ RulesKept(b) /\ FramedPacket(b, n)
<1> DEFINE f == Framing!PacketFields(0, n)
           total == Framing!Pad(44 + n, packet)
           t == Framing!Transfer("rndis", total, f, <<44>>, <<n>>)
<1>1. n \in Nat /\ packet \in Nat \ {0}
    BY DEF FramingAssumption
<1>2. b = t
    BY DEF Framing!BuildPacket, Framing!Header
<1>3. total \in Nat /\ total >= 44 + n /\ total <= 45 + n
    <2>1. PICK sum \in Nat : sum = 44 + n
        BY <1>1, SMT
    <2>2. /\ Framing!Pad(sum, packet) \in Nat /\ Framing!Pad(sum, packet) >= sum
          /\ Framing!Pad(sum, packet) <= sum + 1
        BY <1>1, PadIs
    <2> QED  BY <1>1, <2>1, <2>2, SMT
<1>4. /\ DOMAIN f = {0, 4, 8, 12}
      /\ f[0] = Framing!PACKET /\ f[4] = 44 + n /\ f[8] = 36 /\ f[12] = n
    BY <1>1, SMT DEF Framing!PacketFields, Framing!Header
<1> HIDE DEF f, total
<1>5. Carries(t, f, 44, n)
    <2>1. total \in Nat /\ 44 \in Nat /\ n \in Nat /\ 44 + n <= total
        BY <1>1, <1>3, SMT
    <2>2. DOMAIN f \subseteq 0..(44 - 1)
        BY <1>4, SMT
    <2> QED  BY <2>1, <2>2, FrameIsCarried
<1>6. /\ b.format = "rndis" /\ b.cut = 0 /\ b.frames = <<n>> /\ b.len = total /\ RulesKept(b)
    BY <1>2, TransferFields
<1>7. Carries(b, f, 44, n)
    BY <1>2, <1>5
<1> HIDE DEF t
<1>8. /\ Framing!Field(b, 0) = f[0] /\ Framing!Field(b, 4) = f[4] /\ Framing!Field(b, 8) = f[8]
      /\ Framing!Field(b, 12) = f[12]
    BY <1>4, <1>7 DEF Carries
<1> QED  BY <1>1, <1>3, <1>4, <1>6, <1>7, <1>8 DEF Carries, FramedPacket

\* An ECM frame is on the wire as it is, and a byte of padding with it.
LEMMA SentEcmIs ==
    ASSUME FramingAssumption, NEW n \in FrmLengths, NEW packet \in FrmPackets, NEW b,
           b = Framing!BuildEcm(n, packet)
    PROVE  n \in Nat /\ RulesKept(b) /\ FramedEcm(b, n)
<1> DEFINE total == Framing!Pad(n, packet)
           t == Framing!Transfer("ecm", total, <<>>, <<0>>, <<n>>)
<1>1. n \in Nat /\ packet \in Nat \ {0}
    BY DEF FramingAssumption
<1>2. b = t
    BY DEF Framing!BuildEcm
<1>3. total \in Nat /\ total >= n /\ total <= n + 1
    BY <1>1, PadIs
<1> HIDE DEF total
<1>4. Carries(t, <<>>, 0, n)
    <2>1. total \in Nat /\ 0 \in Nat /\ n \in Nat /\ 0 + n <= total
        BY <1>1, <1>3, SMT
    <2>2. DOMAIN <<>> \subseteq 0..(0 - 1)
        BY SMT
    <2> QED  BY <2>1, <2>2, FrameIsCarried
<1>5. b.format = "ecm" /\ b.frames = <<n>> /\ b.len = total /\ RulesKept(b)
    BY <1>2, TransferFields
<1>6. Carries(b, <<>>, 0, n)
    BY <1>2, <1>4
<1> HIDE DEF t
<1> QED  BY <1>1, <1>3, <1>5, <1>6 DEF Carries, FramedEcm
\* Where a parser can be in a block of one frame: it has yet to begin, has found the
\* NDP, has the frame, or has returned.
NtbWalk ==
    \A n \in Nat, ndp \in Nat, data \in Nat : n >= 14 /\ FramedNtb(wire, n, ndp, data) =>
        \/ verdict = "parsing" /\ pos = 0 /\ walked = 0 /\ fGot = <<>>
        \/ verdict = "parsing" /\ pos = ndp /\ walked = 1 /\ fGot = <<>>
        \/ verdict = "parsing" /\ pos = 0 /\ walked = 2 /\ fGot = Framing!Whole
        \/ verdict = "ok" /\ fGot = Framing!Whole

PacketWalk ==
    \A n \in Nat : FramedPacket(wire, n) =>
        \/ verdict = "parsing" /\ pos = 0 /\ fGot = <<>>
        \/ verdict = "parsing" /\ pos = 44 + n /\ fGot = Framing!Whole
        \/ verdict = "ok" /\ fGot = Framing!Whole

EcmRead ==
    \A n \in Nat : FramedEcm(wire, n) =>
        \/ verdict = "parsing" /\ fGot = <<>>
        \/ verdict = "ok" /\ fGot = <<Framing!Emit(0, wire.len)>>

FramingInv == NtbWalk /\ PacketWalk /\ EcmRead

\* The frame read at its place is the frame that went in.
LEMMA FrameIsWhole ==
    ASSUME NEW n \in Nat, NEW at \in Nat, wire.frames = <<n>>,
           \A i \in 1..n : Framing!Field(wire, at + i - 1) = <<1, i - 1>>
    PROVE  Framing!Whole = <<Framing!Emit(at, n)>>
<1>1. Framing!Emit(at, n) = Framing!Frame(1)
    BY DEF Framing!Emit, Framing!Frame
<1>2. Framing!Whole = [k \in {1} |-> Framing!Frame(k)]
    BY SMT DEF Framing!Whole
<1>3. <<Framing!Emit(at, n)>> = [k \in {1} |-> Framing!Emit(at, n)]
    BY SMT
<1> QED  BY <1>1, <1>2, <1>3

\* The NDP of a block that was sent: one entry, in range, and the terminator.
LEMMA NdpIsRead ==
    ASSUME NEW n \in Nat, NEW ndp \in Nat, NEW data \in Nat, n >= 14, FramedNtb(wire, n, ndp, data),
           pos = ndp, walked = 1, Framing!ParseNdp
    PROVE  /\ fGot' = fGot \o <<Framing!Emit(data, n)>> /\ pos' = 0 /\ walked' = 2
           /\ wire' = wire /\ verdict' = verdict
<1> DEFINE len == Framing!Field(wire, pos + 4)
           crc == Framing!Field(wire, pos) = Framing!NCM1
           entry(i) == pos + 8 + 4 * i
           index(i) == Framing!Field(wire, entry(i))
           length(i) == IF crc THEN Framing!Max2(Framing!Field(wire, entry(i) + 2) - 4, 0)
                        ELSE Framing!Field(wire, entry(i) + 2)
           count == (len - 8) \div 4
           ends == {i \in 0 .. count - 1 : index(i) = 0 \/ Framing!Field(wire, entry(i) + 2) = 0} \cup {count}
           bad == {i \in 0 .. Framing!SmallestOf(ends) - 1 :
                       index(i) < Framing!Nth \/ index(i) + length(i) > Framing!Block \/ length(i) < 14}
           m == Framing!SmallestOf(ends \cup bad)
<1>1. IF pos = 0 THEN verdict' = "ok" /\ UNCHANGED <<wire, pos, walked>> /\ UNCHANGED fGot
      ELSE IF \/ walked > Framing!MaxNdps
              \/ pos < Framing!Nth \/ pos % 4 # 0 \/ pos + 8 > Framing!Block
              \/ Framing!Field(wire, pos) \notin {Framing!NCM0, Framing!NCM1}
              \/ len < 16 \/ pos + len > Framing!Block
      THEN verdict' = "malformed" /\ UNCHANGED <<wire, pos, walked>> /\ UNCHANGED fGot
      ELSE /\ fGot' = fGot \o [i \in 1 .. m |-> Framing!Emit(index(i - 1), length(i - 1))]
           /\ IF m \in bad THEN verdict' = "malformed" /\ UNCHANGED <<wire, pos, walked>>
              ELSE /\ pos' = Framing!Field(wire, pos + 6) /\ walked' = walked + 1
                   /\ UNCHANGED <<wire, verdict>>
    BY DEF Framing!ParseNdp, Framing!Return
<1>2. len = 16 /\ count = 2
    <2>1. len = 16
        BY DEF FramedNtb
    <2> QED  BY <2>1, SMT
<1>3. ~ crc
    <2>1. Framing!NCM0 # Framing!NCM1
        BY SMT DEF Framing!NCM0, Framing!NCM1
    <2> QED  BY <2>1 DEF FramedNtb
<1>4. /\ index(0) = data /\ Framing!Field(wire, entry(0) + 2) = n
      /\ index(1) = 0 /\ Framing!Field(wire, entry(1) + 2) = 0
    <2>1. /\ entry(0) = ndp + 8 /\ entry(0) + 2 = ndp + 10
          /\ entry(1) = ndp + 12 /\ entry(1) + 2 = ndp + 14
        BY SMT
    <2> QED  BY <2>1 DEF FramedNtb
<1>5. length(0) = n
    BY <1>3, <1>4
<1>6. Framing!Block = wire.len /\ wire.len \in Nat /\ wire.len >= data + n /\ data >= ndp + 16
    BY DEF Framing!Block, FramedNtb
<1> HIDE DEF len, crc, entry, index, length
<1>7. data # 0 /\ n # 0
    BY <1>6, SMT
<1>8. ends = {1, 2}
    <2>1. ends = {i \in 0 .. 1 : index(i) = 0 \/ Framing!Field(wire, entry(i) + 2) = 0} \cup {2}
        BY <1>2
    <2>2. 0 .. 1 = {0, 1}
        BY SMT
    <2> QED  BY <1>4, <1>7, <2>1, <2>2
<1> HIDE DEF ends
<1>9. Framing!SmallestOf({1, 2}) = 1
    BY SMT DEF Framing!SmallestOf
<1>10. bad = {}
    <2>1. bad = {i \in 0 .. 0 : \/ index(i) < Framing!Nth
                                \/ index(i) + length(i) > Framing!Block \/ length(i) < 14}
        <3>1. Framing!SmallestOf(ends) - 1 = 0
            BY <1>8, <1>9, SMT
        <3> QED  BY <3>1
    <2>2. 0 .. 0 = {0}
        BY SMT
    <2>3. ~ (\/ index(0) < Framing!Nth \/ index(0) + length(0) > Framing!Block \/ length(0) < 14)
        BY <1>4, <1>5, <1>6, SMT DEF Framing!Nth, FramedNtb
    <2> QED  BY <2>1, <2>2, <2>3
<1>11. m = 1
    <2>1. ends \cup bad = {1, 2}
        BY <1>8, <1>10
    <2> QED  BY <1>9, <2>1
<1> HIDE DEF bad, count, m
<1>12. [i \in 1 .. m |-> Framing!Emit(index(i - 1), length(i - 1))] = <<Framing!Emit(data, n)>>
    <2>1. [i \in 1 .. m |-> Framing!Emit(index(i - 1), length(i - 1))]
            = [i \in 1 .. 1 |-> Framing!Emit(data, n)]
        <3>1. \A i \in 1 .. 1 : i - 1 = 0
            BY SMT
        <3> QED  BY <1>4, <1>5, <1>11, <3>1
    <2>2. <<Framing!Emit(data, n)>> = [i \in 1 .. 1 |-> Framing!Emit(data, n)]
        BY SMT
    <2> QED  BY <2>1, <2>2
<1>13. pos # 0 /\ ~ (\/ walked > Framing!MaxNdps
                     \/ pos < Framing!Nth \/ pos % 4 # 0 \/ pos + 8 > Framing!Block
                     \/ Framing!Field(wire, pos) \notin {Framing!NCM0, Framing!NCM1}
                     \/ len < 16 \/ pos + len > Framing!Block)
    <2>1. pos \in Nat /\ pos >= 12 /\ pos % 4 = 0 /\ Framing!Field(wire, pos) = Framing!NCM0
        BY DEF FramedNtb
    <2>2. ~ walked > Framing!MaxNdps
        BY SMT DEF Framing!MaxNdps
    <2>3. pos # 0 /\ ~ pos < Framing!Nth /\ ~ pos + 8 > Framing!Block /\ ~ len < 16 /\ ~ pos + len > Framing!Block
        BY <1>2, <1>6, <2>1, SMT DEF Framing!Nth
    <2> QED  BY <2>1, <2>2, <2>3
<1>14. Framing!Field(wire, pos + 6) = 0 /\ walked + 1 = 2
    <2>1. walked + 1 = 2
        BY SMT
    <2> QED  BY <2>1 DEF FramedNtb
<1> QED  BY <1>1, <1>10, <1>12, <1>13, <1>14 DEF bad
\* Whatever is put on the wire, the parser has yet to begin.
LEMMA BeginFramed ==
    ASSUME NEW b, NEW cut, "format" \in DOMAIN b, b = [x \in DOMAIN b |-> b[x]], Framing!Begin(b, cut)
    PROVE  FramingInv'
<1>1. /\ pos' = 0 /\ walked' = 0 /\ fGot' = <<>>
      /\ verdict' = IF wire'.format = "refused" THEN "none" ELSE "parsing"
    BY BeginIs
<1>2. \A n, ndp, data : FramedNtb(wire, n, ndp, data)' => wire'.format = "ntb16"
    BY DEF FramedNtb
<1>3. \A n : FramedPacket(wire, n)' => wire'.format = "rndis"
    BY DEF FramedPacket
<1>4. \A n : FramedEcm(wire, n)' => wire'.format = "ecm"
    BY DEF FramedEcm
<1> QED  BY <1>1, <1>2, <1>3, <1>4 DEF FramingInv, NtbWalk, PacketWalk, EcmRead

LEMMA SendFramed ==
    ASSUME NEW n, NEW p, NEW packet, Framing!Send(n, p, packet)
    PROVE  FramingInv'
<1>1. CASE Framing!Begin(Framing!BuildNtb16(n, p, packet), 0)
    <2>1. /\ "format" \in DOMAIN Framing!BuildNtb16(n, p, packet)
          /\ Framing!BuildNtb16(n, p, packet)
               = [x \in DOMAIN Framing!BuildNtb16(n, p, packet) |-> Framing!BuildNtb16(n, p, packet)[x]]
        BY DEF Framing!BuildNtb16, Framing!Refused, Framing!Transfer
    <2> QED  BY <1>1, <2>1, BeginFramed
<1>2. CASE Framing!Begin(Framing!BuildPacket(n, packet), 0)
    <2>1. /\ "format" \in DOMAIN Framing!BuildPacket(n, packet)
          /\ Framing!BuildPacket(n, packet)
               = [x \in DOMAIN Framing!BuildPacket(n, packet) |-> Framing!BuildPacket(n, packet)[x]]
        BY DEF Framing!BuildPacket, Framing!Transfer
    <2> QED  BY <1>2, <2>1, BeginFramed
<1>3. CASE Framing!Begin(Framing!BuildEcm(n, packet), 0)
    <2>1. /\ "format" \in DOMAIN Framing!BuildEcm(n, packet)
          /\ Framing!BuildEcm(n, packet)
               = [x \in DOMAIN Framing!BuildEcm(n, packet) |-> Framing!BuildEcm(n, packet)[x]]
        BY DEF Framing!BuildEcm, Framing!Transfer
    <2> QED  BY <1>3, <2>1, BeginFramed
<1> QED  BY <1>1, <1>2, <1>3 DEF Framing!Send

LEMMA ReceiveFramed ==
    ASSUME NEW batch, NEW crc, NEW cut, Framing!Receive(batch, crc, cut)
    PROVE  FramingInv'
<1>1. CASE Framing!Begin(Framing!DeviceNtb16(batch, crc), cut)
    <2>1. /\ "format" \in DOMAIN Framing!DeviceNtb16(batch, crc)
          /\ Framing!DeviceNtb16(batch, crc)
               = [x \in DOMAIN Framing!DeviceNtb16(batch, crc) |-> Framing!DeviceNtb16(batch, crc)[x]]
        BY DeviceNtbIs
    <2> QED  BY <1>1, <2>1, BeginFramed
<1>2. CASE \E lens, zeros : Framing!Begin(Framing!DevicePackets(lens, zeros), cut)
    <2>1. PICK lens, zeros : Framing!Begin(Framing!DevicePackets(lens, zeros), cut)
        BY <1>2
    <2>2. /\ "format" \in DOMAIN Framing!DevicePackets(lens, zeros)
          /\ Framing!DevicePackets(lens, zeros)
               = [x \in DOMAIN Framing!DevicePackets(lens, zeros) |-> Framing!DevicePackets(lens, zeros)[x]]
        BY DevicePacketsIs
    <2> QED  BY <2>1, <2>2, BeginFramed
<1> QED  BY <1>1, <1>2 DEF Framing!Receive

\* A block that stays as it is stays framed as it is.
LEMMA SameWire ==
    ASSUME UNCHANGED wire
    PROVE  \A n, ndp, data : FramedNtb(wire, n, ndp, data)' <=> FramedNtb(wire, n, ndp, data)
BY DEF FramedNtb, Framing!Field

\* One step of each parser.
LEMMA ParseNthFramed ==
    ASSUME FramingInv, Framing!ParseNth
    PROVE  FramingInv'
<1>1. verdict = "parsing" /\ wire.format = "ntb16" /\ walked = 0 /\ pos = 0 /\ UNCHANGED <<fGot, wire>>
    BY DEF Framing!ParseNth, Framing!Return
<1>2. ASSUME NEW n \in Nat, NEW ndp \in Nat, NEW data \in Nat, n >= 14, FramedNtb(wire, n, ndp, data)
      PROVE  verdict' = "parsing" /\ pos' = ndp /\ walked' = 1 /\ fGot' = <<>>
    <2>1. ndp # 0
        BY <1>2, SMT DEF FramedNtb
    <2>2. fGot = <<>>
        BY <1>1, <1>2, <2>1, 0 # 2 DEF FramingInv, NtbWalk
    <2>3. /\ ~ wire.len < Framing!Nth /\ Framing!Field(wire, 0) = Framing!NCMH
          /\ Framing!Field(wire, 4) = Framing!Nth /\ Framing!Field(wire, 10) = ndp
        BY <1>2, SMT DEF FramedNtb, Framing!Nth
    <2> QED  BY <1>1, <2>2, <2>3 DEF Framing!ParseNth
<1>3. NtbWalk'
    BY <1>1, <1>2, SameWire DEF NtbWalk
<1>4. PacketWalk' /\ EcmRead'
    BY <1>1 DEF PacketWalk, EcmRead, FramedPacket, FramedEcm
<1> QED  BY <1>3, <1>4 DEF FramingInv

LEMMA ParseNdpFramed ==
    ASSUME FramingInv, Framing!ParseNdp
    PROVE  FramingInv'
<1>1. verdict = "parsing" /\ wire.format = "ntb16" /\ walked > 0 /\ UNCHANGED wire
    BY DEF Framing!ParseNdp, Framing!Return
<1>2. ASSUME NEW n \in Nat, NEW ndp \in Nat, NEW data \in Nat, n >= 14, FramedNtb(wire, n, ndp, data)
      PROVE  \/ verdict' = "parsing" /\ pos' = 0 /\ walked' = 2 /\ fGot' = Framing!Whole
             \/ verdict' = "ok" /\ fGot' = Framing!Whole
    <2>1. walked # 0 /\ verdict # "ok"
        BY <1>1, SMT
    <2>2. CASE pos = ndp /\ walked = 1 /\ fGot = <<>>
        <3>1. /\ fGot' = fGot \o <<Framing!Emit(data, n)>> /\ pos' = 0 /\ walked' = 2
              /\ verdict' = verdict
            BY <1>2, <2>2, NdpIsRead
        <3>2. <<>> \o <<Framing!Emit(data, n)>> = <<Framing!Emit(data, n)>>
            BY SMT
        <3>3. Framing!Whole = <<Framing!Emit(data, n)>>
            BY <1>2, FrameIsWhole DEF FramedNtb
        <3> QED  BY <1>1, <2>2, <3>1, <3>2, <3>3
    <2>3. CASE pos = 0 /\ walked = 2 /\ fGot = Framing!Whole
        <3>1. verdict' = "ok" /\ UNCHANGED fGot
            BY <2>3 DEF Framing!ParseNdp, Framing!Return
        <3> QED  BY <2>3, <3>1
    <2> QED  BY <1>2, <2>1, <2>2, <2>3 DEF FramingInv, NtbWalk
<1>3. Framing!Whole' = Framing!Whole
    BY <1>1 DEF Framing!Whole, Framing!Frame
<1>4. NtbWalk'
    BY <1>1, <1>2, <1>3, SameWire DEF NtbWalk
<1>5. PacketWalk' /\ EcmRead'
    BY <1>1 DEF PacketWalk, EcmRead, FramedPacket, FramedEcm
<1> QED  BY <1>4, <1>5 DEF FramingInv

LEMMA ParsePacketFramed ==
    ASSUME FramingInv, Framing!ParsePacket
    PROVE  FramingInv'
<1>1. verdict = "parsing" /\ wire.format = "rndis" /\ UNCHANGED wire
    BY DEF Framing!ParsePacket, Framing!Return
<1>2. ASSUME NEW n \in Nat, FramedPacket(wire, n)
      PROVE  \/ verdict' = "parsing" /\ pos' = 44 + n /\ fGot' = Framing!Whole
             \/ verdict' = "ok" /\ fGot' = Framing!Whole
    <2>1. verdict # "ok"
        BY <1>1
    <2>2. CASE pos = 0 /\ fGot = <<>>
        <3>1. /\ ~ (wire.len - pos < 8 \/ (Framing!Field(wire, pos) = 0 /\ Framing!Field(wire, pos + 4) = 0))
              /\ ~ \/ Framing!Field(wire, pos) # Framing!PACKET \/ Framing!Field(wire, pos + 4) < Framing!Header
                   \/ Framing!Field(wire, pos + 4) > wire.len - pos
                   \/ 8 + Framing!Field(wire, pos + 8) < Framing!Header
                   \/ 8 + Framing!Field(wire, pos + 8) + Framing!Field(wire, pos + 12) > Framing!Field(wire, pos + 4)
            BY <1>2, <2>2, SMT DEF FramedPacket, Framing!PACKET, Framing!Header
        <3>2. /\ fGot' = Append(fGot, Framing!Emit(pos + (8 + Framing!Field(wire, pos + 8)), Framing!Field(wire, pos + 12)))
              /\ pos' = pos + Framing!Field(wire, pos + 4) /\ UNCHANGED verdict
            BY <3>1 DEF Framing!ParsePacket
        <3>3. /\ pos + (8 + Framing!Field(wire, pos + 8)) = 44 /\ Framing!Field(wire, pos + 12) = n
              /\ pos + Framing!Field(wire, pos + 4) = 44 + n
            BY <1>2, <2>2, SMT DEF FramedPacket
        <3>4. fGot' = Append(<<>>, Framing!Emit(44, n)) /\ pos' = 44 + n
            BY <2>2, <3>2, <3>3
        <3>5. Append(<<>>, Framing!Emit(44, n)) = <<Framing!Emit(44, n)>>
            BY SMT
        <3>6. Framing!Whole = <<Framing!Emit(44, n)>>
            BY <1>2, FrameIsWhole, 44 \in Nat DEF FramedPacket
        <3> QED  BY <1>1, <3>2, <3>4, <3>5, <3>6
    <2>3. CASE pos = 44 + n /\ fGot = Framing!Whole
        <3>1. wire.len - pos < 8
            BY <1>2, <2>3, SMT DEF FramedPacket
        <3> QED  BY <2>3, <3>1 DEF Framing!ParsePacket, Framing!Return
    <2> QED  BY <1>2, <2>1, <2>2, <2>3 DEF FramingInv, PacketWalk
<1>3. Framing!Whole' = Framing!Whole
    BY <1>1 DEF Framing!Whole, Framing!Frame
<1>4. PacketWalk'
    BY <1>1, <1>2, <1>3 DEF PacketWalk, FramedPacket, Framing!Field
<1>5. NtbWalk' /\ EcmRead'
    BY <1>1 DEF NtbWalk, EcmRead, FramedNtb, FramedEcm
<1> QED  BY <1>4, <1>5 DEF FramingInv

LEMMA ParseEcmFramed ==
    ASSUME FramingInv, Framing!ParseEcm
    PROVE  FramingInv'
<1>1. /\ verdict = "parsing" /\ wire.format = "ecm" /\ UNCHANGED wire
      /\ fGot' = <<Framing!Emit(0, wire.len)>> /\ verdict' = "ok"
    BY DEF Framing!ParseEcm, Framing!Return
<1>2. Framing!Emit(0, wire.len)' = Framing!Emit(0, wire.len)
    BY <1>1 DEF Framing!Emit, Framing!Field
<1>3. EcmRead'
    BY <1>1, <1>2 DEF EcmRead
<1>4. NtbWalk' /\ PacketWalk'
    BY <1>1 DEF NtbWalk, PacketWalk, FramedNtb, FramedPacket
<1> QED  BY <1>3, <1>4 DEF FramingInv
LEMMA SamePacket ==
    ASSUME UNCHANGED wire
    PROVE  \A n : FramedPacket(wire, n)' <=> FramedPacket(wire, n)
BY DEF FramedPacket, Framing!Field

LEMMA SameEcm ==
    ASSUME UNCHANGED wire
    PROVE  \A n : FramedEcm(wire, n)' <=> FramedEcm(wire, n)
BY DEF FramedEcm, Framing!Field

\* The parts that are not at hand do not move, the one at hand as it does alone.
LEMMA FramingMoves ==
    ASSUME part = "framing", [Next]_vars
    PROVE  part' = "framing" /\ [Framing!Next]_(Framing!vars)
<1> USE DEF vars, networkVars, framingVars, Framing!vars
<1>1. CASE UNCHANGED vars
    BY <1>1
<1>2. CASE Next
    BY <1>2 DEF Next, DataNext, NetworkNext, StorageNext, OtherNext
<1> QED  BY <1>1, <1>2

LEMMA FramingInvariant == Spec => [](part = "framing" => FramingInv)
<1>1. Init => (part = "framing" => FramingInv)
    <2> SUFFICES ASSUME Framing!Init PROVE FramingInv
        BY DEF Init
    <2>1. wire.format = "refused"
        BY DEF Framing!Init, Framing!Refused, Framing!Transfer
    <2> QED  BY <2>1 DEF FramingInv, NtbWalk, PacketWalk, EcmRead, FramedNtb, FramedPacket, FramedEcm
<1>2. (part = "framing" => FramingInv) /\ [Next]_vars => (part = "framing" => FramingInv)'
    <2> SUFFICES ASSUME part = "framing" => FramingInv, [Next]_vars, part' = "framing" PROVE FramingInv'
        OBVIOUS
    <2>1. part = "framing" /\ FramingInv
        BY DEF Next, vars
    <2>2. [Framing!Next]_(Framing!vars)
        BY <2>1, FramingMoves
    <2>3. CASE UNCHANGED Framing!vars
        <3>1. UNCHANGED <<wire, pos, walked, fGot, verdict>>
            BY <2>3 DEF Framing!vars
        <3>2. Framing!Whole' = Framing!Whole
            BY <3>1 DEF Framing!Whole, Framing!Frame
        <3>3. Framing!Emit(0, wire.len)' = Framing!Emit(0, wire.len)
            BY <3>1 DEF Framing!Emit, Framing!Field
        <3>4. NtbWalk'
            BY <2>1, <3>1, <3>2, SameWire DEF FramingInv, NtbWalk
        <3>5. PacketWalk'
            BY <2>1, <3>1, <3>2, SamePacket DEF FramingInv, PacketWalk
        <3>6. EcmRead'
            BY <2>1, <3>1, <3>3, SameEcm DEF FramingInv, EcmRead
        <3> QED  BY <3>4, <3>5, <3>6 DEF FramingInv
    <2>4. CASE Framing!Next
        BY <2>1, <2>4, SendFramed, ReceiveFramed, ParseNthFramed, ParseNdpFramed, ParsePacketFramed,
           ParseEcmFramed, Zenon DEF Framing!Next
    <2> QED  BY <2>2, <2>3, <2>4
<1> QED  BY <1>1, <1>2, PTL DEF Spec

BeginsWith(b, a, S, n, m) ==
    a \in [1..n -> S] /\ b \in [1..m -> S] /\ \A i \in 1..n : a[i] = b[i]

LEMMA PrefixIs ==
    ASSUME NEW n \in Nat, NEW m \in Nat, n <= m, NEW S, NEW a, NEW b, BeginsWith(b, a, S, n, m)
    PROVE  Framing!IsPrefix(a, b) /\ Len(b) = m
<1> USE DEF BeginsWith
<1>1. a \in Seq(S) /\ b \in Seq(S) /\ Len(a) = n /\ Len(b) = m
    BY SeqDef, SMT
<1>2. SubSeq(a, 1, n) = SubSeq(b, 1, n)
    <2>1. n - 1 + 1 = n /\ 1 \in Int /\ n \in Int /\ \A i \in 1..n : 1 + i - 1 = i /\ i \in 1..m
        BY SMT
    <2>2. \A i \in 1..n : a[i] \in S /\ b[i] \in S
        BY <2>1
    <2>3. /\ SubSeq(a, 1, n) \in Seq(S) /\ Len(SubSeq(a, 1, n)) = n
          /\ \A i \in 1..n : SubSeq(a, 1, n)[i] = a[i]
        BY <2>2, SubSeqProperties, SMT
    <2>4. /\ SubSeq(b, 1, n) \in Seq(S) /\ Len(SubSeq(b, 1, n)) = n
          /\ \A i \in 1..n : SubSeq(b, 1, n)[i] = b[i]
        BY <2>2, SubSeqProperties, SMT
    <2> QED  BY <2>3, <2>4, SeqEqual, Zenon
<1> QED  BY <1>1, <1>2 DEF Framing!IsPrefix

LEMMA NothingOrAll == Framing!IsPrefix(<<>>, Framing!Whole) /\ Framing!IsPrefix(Framing!Whole, Framing!Whole)
<1> QED  BY SMT DEF Framing!IsPrefix, Framing!Whole

\* The transfer on the wire is one that send() put there.
IsSent(b) ==
    \E n \in FrmLengths, packet \in FrmPackets :
        \/ \E p \in FrmParams : SentNtb(b, n, p, packet)
        \/ b = Framing!BuildPacket(n, packet)
        \/ b = Framing!BuildEcm(n, packet)

\* build_ntb16(), build_packet() and the ECM path of send() make what parse_ntb16(),
\* parse_packets() and the ECM path of the receiver undo: a frame that was sent comes
\* out byte for byte, of a block that keeps the device's rules, for frames of any
\* length, any packet size and any alignment, divisor and remainder.
THEOREM SentFramesSurvive == Spec => [](IsSent(wire) => FramesSurvive)
<1>1. (part = "framing" => FramingInv) => (IsSent(wire) => FramesSurvive)
    <2> SUFFICES ASSUME FramingInv, IsSent(wire) PROVE Framing!FramesSurvive
        BY DEF FramesSurvive
    <2>0. "ntb16" # "ecm" /\ "ntb16" # "rndis" /\ "rndis" # "ecm" /\ "ok" # "parsing"
        OBVIOUS
    <2>1. PICK n \in FrmLengths, packet \in FrmPackets :
              \/ \E p \in FrmParams : SentNtb(wire, n, p, packet)
              \/ wire = Framing!BuildPacket(n, packet)
              \/ wire = Framing!BuildEcm(n, packet)
        BY DEF IsSent
    <2>2. CASE \E p \in FrmParams : SentNtb(wire, n, p, packet)
        <3>1. PICK p \in FrmParams : SentNtb(wire, n, p, packet)
            BY <2>2
        <3>2. n \in Nat /\ n >= 14 /\ RulesKept(wire)
            BY <3>1, FramingAssumption, SentNtbIs
        <3>3. PICK ndp \in Nat, data \in Nat : FramedNtb(wire, n, ndp, data)
            BY <3>1, FramingAssumption, SentNtbIs
        <3>4. \/ verdict = "parsing" /\ fGot \in {<<>>, Framing!Whole}
              \/ verdict = "ok" /\ fGot = Framing!Whole
            BY <3>2, <3>3 DEF FramingInv, NtbWalk
        <3>5. wire.format = "ntb16"
            BY <3>3 DEF FramedNtb
        <3>6. Framing!IsPrefix(fGot, Framing!Whole)
            BY <3>4, NothingOrAll
        <3> QED  BY <2>0, <3>2, <3>4, <3>5, <3>6, Zenon DEF RulesKept, Framing!FramesSurvive
    <2>3. CASE wire = Framing!BuildPacket(n, packet)
        <3>1. n \in Nat /\ RulesKept(wire) /\ FramedPacket(wire, n)
            BY <2>3, FramingAssumption, SentPacketIs
        <3>2. \/ verdict = "parsing" /\ fGot \in {<<>>, Framing!Whole}
              \/ verdict = "ok" /\ fGot = Framing!Whole
            BY <3>1 DEF FramingInv, PacketWalk
        <3>3. wire.format = "rndis"
            BY <3>1 DEF FramedPacket
        <3>4. Framing!IsPrefix(fGot, Framing!Whole)
            BY <3>2, NothingOrAll
        <3> QED  BY <2>0, <3>1, <3>2, <3>3, <3>4, Zenon DEF RulesKept, Framing!FramesSurvive
    <2>4. CASE wire = Framing!BuildEcm(n, packet)
        <3>1. n \in Nat /\ RulesKept(wire) /\ FramedEcm(wire, n)
            BY <2>4, FramingAssumption, SentEcmIs
        <3>2. verdict = "ok" => fGot = <<Framing!Emit(0, wire.len)>>
            BY <2>0, <3>1 DEF FramingInv, EcmRead
        <3>3. wire.format = "ecm" /\ wire.frames[1] = n
            BY <3>1, SMT DEF FramedEcm
        <3>4. /\ Framing!IsPrefix(Framing!Frame(1), Framing!Emit(0, wire.len))
              /\ Len(Framing!Emit(0, wire.len)) <= n + 1
            <4>1. wire.len \in Nat /\ n <= wire.len /\ wire.len <= n + 1
                BY <3>1, SMT DEF FramedEcm
            <4>2. PICK a, e : a = Framing!Frame(1) /\ e = Framing!Emit(0, wire.len)
                OBVIOUS
            <4>3. a = [i \in 1..n |-> <<1, i - 1>>]
                BY <3>3, <4>2 DEF Framing!Frame
            <4>4. e = [i \in 1..wire.len |-> e[i]]
                BY <4>2 DEF Framing!Emit
            <4>5. \A i \in 1..n : e[i] = <<1, i - 1>>
                <5>1. \A i \in 1..n : i \in 1..wire.len /\ Framing!Field(wire, 0 + i - 1) = <<1, i - 1>>
                    BY <3>1, <4>1, SMT DEF FramedEcm
                <5> QED  BY <4>2, <5>1 DEF Framing!Emit
            <4> DEFINE S == {a[i] : i \in 1..n} \cup {e[i] : i \in 1..wire.len}
            <4>6. a \in [1..n -> S]
                BY <4>3
            <4>7. e \in [1..wire.len -> S]
                BY <4>4
            <4>8. \A i \in 1..n : a[i] = e[i]
                BY <4>3, <4>5
            <4> HIDE DEF S
            <4>9. PICK m \in Nat : m = wire.len /\ n <= m
                BY <4>1
            <4>10. n \in Nat /\ e \in [1..m -> S]
                BY <3>1, <4>7, <4>9
            <4>11. Framing!IsPrefix(a, e) /\ Len(e) = wire.len
                <5>1. BeginsWith(e, a, S, n, m)
                    BY <4>6, <4>8, <4>10 DEF BeginsWith
                <5>2. Framing!IsPrefix(a, e) /\ Len(e) = m
                    BY <4>9, <4>10, <5>1, PrefixIs, Zenon
                <5> QED  BY <4>9, <5>2
            <4> QED  BY <4>1, <4>2, <4>11
        <3>5. verdict = "ok" => fGot[1] = Framing!Emit(0, wire.len)
            BY <3>2
        <3> QED  BY <2>0, <3>1, <3>3, <3>4, <3>5, Zenon DEF RulesKept, Framing!FramesSurvive
    <2> QED  BY <2>1, <2>2, <2>3, <2>4
<1> QED  BY <1>1, FramingInvariant, PTL

=============================================================================
