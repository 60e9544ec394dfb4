-------------------------------- MODULE Net --------------------------------
(***************************************************************************)
(* An open network function (src/net/mod.rs) with its receive transfers    *)
(* (class::Repeating), the queue that recv() takes frames from, send()     *)
(* with its bounded number of transfers, and close().  User threads, the   *)
(* event thread and the kernel interleave at every lock and atomic.        *)
(***************************************************************************)
EXTENDS Naturals, FiniteSets

CONSTANTS Receives,     \* the receive transfers (RX_TRANSFERS of them)
          Receivers,    \* threads in recv()
          Senders,      \* threads in send()
          RxQueue,      \* RX_QUEUE
          TxQueue,      \* TX_QUEUE
          MaxRxErrors,  \* MAX_RX_ERRORS
          MaxFrames,    \* bound on received and sent frames
          None

VARIABLES rx,        \* each Repeating: its transfer, failures and stop flag
          queue,     \* Sink.queue: how many frames
          handler,   \* Sink.handler is set
          ended,     \* Sink.ended
          recv,      \* each thread in recv()
          send,      \* each thread in send()
          txInFlight,\* Shared.tx_in_flight
          tx,        \* transmit transfers in flight
          evt,       \* the receive callback under way
          closing,   \* close(): not called, the Repeatings left to drop, or done
          gone,      \* the device was unplugged
          left       \* frames left within the bound

rxVars == <<rx, queue, handler, recv, evt>>
txVars == <<send, txInFlight, tx>>
vars == <<rx, queue, handler, ended, recv, send, txInFlight, tx, evt, closing, gone, left>>

Flying == [at |-> "flight", status |-> "Completed", failures |-> 0, stop |-> FALSE,
           cancelling |-> FALSE]

\* open_interface(): start_receiving() has submitted every transfer.
Init ==
    /\ rx = [t \in Receives |-> Flying]
    /\ queue = 0 /\ handler = FALSE /\ ended = "none"
    /\ recv = [r \in Receivers |-> "idle"]
    /\ send = [s \in Senders |-> "idle"] /\ txInFlight = 0 /\ tx = 0
    /\ evt = None /\ closing = "open" /\ gone = FALSE /\ left = MaxFrames

-----------------------------------------------------------------------------
(* The kernel and the device *)

RxEnds(t, status) ==
    /\ rx[t].at = "flight"
    /\ status = "Cancelled" => rx[t].cancelling
    /\ status = "NoDevice" <=> gone
    /\ IF status \in {"Cancelled", "NoDevice"} THEN UNCHANGED left
       ELSE left > 0 /\ left' = left - 1
    /\ rx' = [rx EXCEPT ![t].at = "done", ![t].status = status]
    /\ UNCHANGED <<queue, handler, ended, recv, txVars, evt, closing, gone>>

Unplug ==
    /\ ~gone
    /\ gone' = TRUE
    /\ UNCHANGED <<rxVars, ended, txVars, closing, left>>

-----------------------------------------------------------------------------
(* The receive callback on the event thread *)

\* Condvar: a waiting thread is notified, or all of them.
NotifyOne ==
    \/ \E r \in Receivers : recv[r] = "waiting" /\ recv' = [recv EXCEPT ![r] = "notified"]
    \/ (\A r \in Receivers : recv[r] # "waiting") /\ UNCHANGED recv

NotifyAll == recv' = [r \in Receivers |-> IF recv[r] = "waiting" THEN "notified" ELSE recv[r]]

\* Mutant: the waiters of recv() are not told.
EndSilent(why) ==
    /\ ended' = IF ended = "none" THEN why ELSE ended
    /\ UNCHANGED recv

\* end(): the first reason is kept.
End(why) ==
    /\ ended' = IF ended = "none" THEN why ELSE ended
    /\ NotifyAll

\* deliver(): to the handler, to the queue, or dropped; not every completed
\* transfer holds a frame.
Deliver ==
    \/ UNCHANGED <<queue, recv>>
    \/ ~handler /\ queue < RxQueue /\ queue' = queue + 1 /\ NotifyOne

\* on_complete of start_receiving(): what becomes of the result, and whether
\* the transfer is to go on.
OnComplete(t) ==
    LET again(b) == evt' = [t |-> t, again |-> b] IN
    /\ evt = None /\ rx[t].at = "done"
    /\ CASE rx[t].status = "Completed" ->
              /\ rx' = [rx EXCEPT ![t].failures = 0] /\ Deliver
              /\ again(TRUE) /\ UNCHANGED ended
         [] rx[t].status = "Cancelled" ->
              again(FALSE) /\ UNCHANGED <<rx, queue, recv, ended>>
         [] rx[t].status = "NoDevice" ->
              End("NoDevice") /\ again(FALSE) /\ UNCHANGED <<rx, queue>>
         [] OTHER ->
              /\ rx' = [rx EXCEPT ![t].failures = @ + 1]
              /\ IF rx[t].failures + 1 >= MaxRxErrors THEN End("Io") /\ again(FALSE)
                 ELSE again(TRUE) /\ UNCHANGED <<recv, ended>>
              /\ UNCHANGED queue
    /\ UNCHANGED <<handler, txVars, closing, gone, left>>

\* The callback of Repeating: flag and submission are one step under the lock
\* of `stop`; a failing submission is ignored.
Resubmit ==
    LET t == evt.t IN
    /\ evt # None
    /\ \/ /\ evt.again /\ ~rx[t].stop /\ ~gone
          /\ rx' = [rx EXCEPT ![t].at = "flight", ![t].cancelling = FALSE]
       \/ /\ ~evt.again \/ rx[t].stop \/ gone
          /\ rx' = [rx EXCEPT ![t].at = "idle"]
    /\ evt' = None
    /\ UNCHANGED <<queue, handler, ended, recv, txVars, closing, gone, left>>

-----------------------------------------------------------------------------
(* recv() *)

SetHandler(on) ==
    /\ handler # on /\ closing = "open"
    /\ handler' = on
    /\ UNCHANGED <<rx, queue, ended, recv, evt, txVars, closing, gone, left>>

\* One pass of the loop under the lock of the sink.
RecvLooks(r) ==
    /\ recv[r] \in {"idle", "notified"}
    /\ \/ queue > 0 /\ queue' = queue - 1 /\ recv' = [recv EXCEPT ![r] = "idle"]
       \/ queue = 0 /\ ended # "none" /\ recv' = [recv EXCEPT ![r] = "idle"] /\ UNCHANGED queue
       \/ queue = 0 /\ ended = "none" /\ recv' = [recv EXCEPT ![r] = "waiting"] /\ UNCHANGED queue
    /\ UNCHANGED <<rx, handler, ended, evt, txVars, closing, gone, left>>

-----------------------------------------------------------------------------
(* send() *)

\* A device that has ended is not written to.
SendChecks(s) ==
    /\ send[s] = "idle" /\ ended = "none" /\ left > 0
    /\ left' = left - 1
    /\ send' = [send EXCEPT ![s] = "checked"]
    /\ UNCHANGED <<rxVars, ended, txInFlight, tx, closing, gone>>

\* Mutant: the limit is exceeded by one.
SendTakesSlotLate(s) ==
    /\ send[s] = "checked"
    /\ txInFlight' = txInFlight + 1
    /\ send' = [send EXCEPT ![s] = IF txInFlight > TxQueue THEN "full" ELSE "slot"]
    /\ UNCHANGED <<rxVars, ended, tx, closing, gone, left>>

\* fetch_add decides ...
SendTakesSlot(s) ==
    /\ send[s] = "checked"
    /\ txInFlight' = txInFlight + 1
    /\ send' = [send EXCEPT ![s] = IF txInFlight >= TxQueue THEN "full" ELSE "slot"]
    /\ UNCHANGED <<rxVars, ended, tx, closing, gone, left>>

\* Mutant: a failing submission keeps the slot.
SendSubmitsLeaks(s) ==
    /\ send[s] \in {"full", "slot"}
    /\ send' = [send EXCEPT ![s] = "idle"]
    /\ \/ send[s] = "slot" /\ ~gone /\ tx' = tx + 1 /\ UNCHANGED txInFlight
       \/ send[s] = "slot" /\ UNCHANGED <<tx, txInFlight>>
       \/ send[s] = "full" /\ txInFlight' = txInFlight - 1 /\ UNCHANGED tx
    /\ UNCHANGED <<rxVars, ended, closing, gone, left>>

\* ... and the slot is given back if the queue was full or submit() fails.
SendSubmits(s) ==
    /\ send[s] \in {"full", "slot"}
    /\ send' = [send EXCEPT ![s] = "idle"]
    /\ \/ send[s] = "slot" /\ ~gone /\ tx' = tx + 1 /\ UNCHANGED txInFlight
       \/ txInFlight' = txInFlight - 1 /\ UNCHANGED tx
    /\ UNCHANGED <<rxVars, ended, closing, gone, left>>

\* The callback of a transmit transfer, whatever its status.
SendCompletes ==
    /\ tx > 0 /\ evt = None
    /\ tx' = tx - 1 /\ txInFlight' = txInFlight - 1
    /\ UNCHANGED <<rxVars, ended, send, closing, gone, left>>

-----------------------------------------------------------------------------
(* close(), and NetDevice::drop *)

CloseBegins ==
    /\ closing = "open"
    /\ closing' = "closing"
    /\ UNCHANGED <<rxVars, ended, txVars, gone, left>>

\* Mutant: Repeating::drop cancels before it sets the flag, and sees nothing to
\* cancel while the callback runs.
DropRepeatingLate(t) ==
    /\ closing = "closing" /\ ~rx[t].stop /\ ~rx[t].cancelling
    /\ rx' = [rx EXCEPT ![t].cancelling = TRUE, ![t].stop = (rx[t].at = "flight")]
    /\ UNCHANGED <<queue, handler, ended, recv, evt, txVars, closing, gone, left>>

\* Repeating::drop: the flag first, then the cancellation.
DropRepeating(t) ==
    /\ closing = "closing"
    /\ \/ ~rx[t].stop /\ rx' = [rx EXCEPT ![t].stop = TRUE]
       \/ rx[t].stop /\ rx[t].at = "flight" /\ ~rx[t].cancelling
          /\ rx' = [rx EXCEPT ![t].cancelling = TRUE]
    /\ UNCHANGED <<queue, handler, ended, recv, evt, txVars, closing, gone, left>>

\* wait() of the last transfer has returned, after a second at the latest:
\* end() wakes every recv().
CloseEnds ==
    /\ closing = "closing"
    /\ \A t \in Receives :
          (rx[t].stop \/ rx[t].cancelling) /\ (rx[t].at = "flight" => rx[t].cancelling)
    /\ closing' = "closed"
    /\ End("NoDevice")
    /\ UNCHANGED <<rx, queue, handler, evt, txVars, gone, left>>

Kernel(t) ==
    \E status \in {"Completed", "Error", "Cancelled", "NoDevice"} : RxEnds(t, status)

EventThread ==
    (\E t \in Receives : OnComplete(t)) \/ Resubmit \/ SendCompletes

Closer == CloseEnds \/ \E t \in Receives : DropRepeating(t)

Next ==
    \/ \E t \in Receives : Kernel(t)
    \/ Unplug \/ EventThread \/ CloseBegins \/ Closer
    \/ \E on \in BOOLEAN : SetHandler(on)
    \/ \E r \in Receivers : RecvLooks(r)
    \/ \E s \in Senders : SendChecks(s) \/ SendTakesSlot(s) \/ SendSubmits(s)

Spec == Init /\ [][Next]_vars

-----------------------------------------------------------------------------

\* send() and its callback: tx_in_flight counts the transfers in flight and the
\* senders that are about to submit or to give back a slot, and no interleaving
\* lets more than TX_QUEUE transfers through or loses a slot for good.
SlotsExact ==
    /\ txInFlight = tx + Cardinality({s \in Senders : send[s] \in {"slot", "full"}})
    /\ tx + Cardinality({s \in Senders : send[s] = "slot"}) <= TxQueue

\* close() and Repeating::drop: once close() has returned, a receive transfer
\* that is still in flight has been cancelled, and no callback that was under way
\* has submitted one again.
ClosedIsQuiet ==
    closing = "closed" => \A t \in Receives : rx[t].at = "flight" => rx[t].cancelling

\* recv(): a thread waits on the condvar only while there is nothing to take and
\* the device has not ended, unless another thread was notified for that frame.
NoStrandedReceiver ==
    (\E r \in Receivers : recv[r] = "waiting") =>
        /\ ended = "none"
        /\ queue <= Cardinality({r \in Receivers : recv[r] = "notified"})
=============================================================================
