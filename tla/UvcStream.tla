----------------------------- MODULE UvcStream -----------------------------
(***************************************************************************)
(* A running video stream (src/uvc/stream.rs): a ring of transfers whose   *)
(* callbacks, on the event thread, feed payloads to the frame assembler    *)
(* and submit the transfer again; a bounded queue of frames; a reader, and *)
(* stop() racing with the callbacks.  The camera sends frames of Parts     *)
(* payloads; a payload is its number, so that a frame's data shows where   *)
(* it comes from.                                                          *)
(***************************************************************************)
EXTENDS Naturals, Sequences, SequencesExt

CONSTANTS Ring,        \* the transfers (TRANSFERS of them)
          Parts,       \* payloads of one frame
          MaxPayloads, \* bound on what the camera sends
          FrameQueue,  \* FRAME_QUEUE
          None

VARIABLES isochronous, \* the kind of the endpoint
          xfer,     \* each transfer: idle, in flight or completed, with its result
          order,    \* the transfers with the kernel, in the order it serves them
          done,     \* those it has completed, in the order they are reaped
          sent,     \* payloads the camera has sent
          asm,      \* Assembler
          queue,    \* the sync_channel of frames
          dropped,  \* Shared.dropped
          received, \* frames the reader has taken
          stopped,  \* Shared.stopped
          failure,  \* Shared.failure
          user,     \* the owner of the Stream: streaming, or how far stop() is
          evt       \* the event thread: free, or blocked for good

vars == <<isochronous, xfer, order, done, sent, asm, queue, dropped, received, stopped, failure, user, evt>>

Idle == [at |-> "idle", status |-> "Completed", payload |-> None, cancelling |-> FALSE]
Flying == [Idle EXCEPT !.at = "flight"]

\* Assembler::new(); out stands for the frames passed to emit().
NewAssembler == [current |-> None, lastFid |-> None, atBoundary |-> FALSE, afterEof |-> FALSE,
                 sequence |-> 0, out |-> <<>>]

\* Pump::start() has submitted every transfer.
Init ==
    /\ isochronous \in BOOLEAN
    /\ xfer = [t \in Ring |-> Flying]
    /\ order \in SetToSeqs(Ring)
    /\ done = <<>> /\ sent = 0 /\ asm = NewAssembler
    /\ queue = <<>> /\ dropped = 0 /\ received = 0
    /\ stopped = FALSE /\ failure = "none" /\ user = "streaming" /\ evt = "free"

-----------------------------------------------------------------------------
(* Assembler *)

\* lost()
Lost(a) == IF a.current = None THEN a ELSE [a EXCEPT !.current.error = TRUE]

\* finish(): hands out the frame being built if its start was seen.
Finish(a) ==
    IF a.current # None /\ a.current.whole /\ a.current.data # <<>>
    THEN [a EXCEPT !.current = None, !.sequence = @ + 1,
                   !.out = Append(@, [data |-> a.current.data, error |-> a.current.error,
                                      sequence |-> a.sequence])]
    ELSE [a EXCEPT !.current = None]

\* The frame being built takes the payload, unless it has run away.
Grow(a, p) ==
    LET c == IF a.current = None THEN [data |-> <<>>, error |-> FALSE, whole |-> a.atBoundary]
             ELSE a.current
        full == Len(c.data) + 1 > 2 * Parts
    IN  [a EXCEPT !.current = [c EXCEPT !.error = @ \/ p.err \/ full,
                                        !.data = IF full THEN @ ELSE Append(@, p.number)]]

\* Mutant: a frame without EOF is not closed when the FID toggles.
OnToggleKeepsOpen(a) == [a EXCEPT !.atBoundary = TRUE, !.afterEof = FALSE]

\* The FID differs from that of the payload before.
OnToggle(a) == [Finish(a) EXCEPT !.atBoundary = TRUE, !.afterEof = FALSE]

\* payload()
Payload(a, p) ==
    LET b == IF a.lastFid \in {None, p.fid} THEN a ELSE OnToggle(a)
        c == [b EXCEPT !.lastFid = p.fid]
    IN  IF p.empty THEN a
        ELSE IF p.malformed THEN Lost(a)
        ELSE IF c.afterEof THEN c
        ELSE IF ~p.eof THEN Grow(c, p)
        ELSE [Finish(Grow(c, p)) EXCEPT !.atBoundary = TRUE, !.afterEof = TRUE]

-----------------------------------------------------------------------------
(* The camera and the kernel *)

\* Whether a payload is the last one of its frame may be marked or not.
Sends(n, eof, err, malformed, empty) ==
    [number |-> n, fid |-> (n \div Parts) % 2, eof |-> eof /\ n % Parts = Parts - 1,
     err |-> err, malformed |-> malformed, empty |-> empty]

Ends(t, status, payload) ==
    /\ xfer' = [xfer EXCEPT ![t] = [@ EXCEPT !.at = "done", !.status = status, !.payload = payload]]
    /\ \E i \in DOMAIN order : order[i] = t /\ order' = RemoveAt(order, i)
    /\ done' = Append(done, t)
    /\ UNCHANGED <<isochronous, asm, queue, dropped, received, stopped, failure, user, evt>>

\* The next transfer receives a payload, or an interval without one.
PayloadArrives(eof, err, malformed) ==
    /\ order # <<>> /\ sent < MaxPayloads
    /\ \/ /\ Ends(Head(order), "Completed", Sends(sent, eof, err, malformed, FALSE))
          /\ sent' = sent + 1
       \/ /\ ~eof /\ ~err /\ ~malformed
          /\ Ends(Head(order), "Completed", Sends(sent, FALSE, FALSE, FALSE, TRUE))
          /\ UNCHANGED sent

\* A transient error loses what the camera sends meanwhile.
LosesPayload ==
    /\ order # <<>> /\ sent < MaxPayloads
    /\ sent' = sent + 1
    /\ \E status \in {"Error", "Overflow", "TimedOut"} : Ends(Head(order), status, None)

EndpointFails ==
    /\ order # <<>>
    /\ \E status \in {"Stall", "NoDevice"} : Ends(Head(order), status, None)
    /\ UNCHANGED sent

CancelTakesEffect(t) ==
    /\ xfer[t].at = "flight" /\ xfer[t].cancelling
    /\ Ends(t, "Cancelled", None)
    /\ UNCHANGED sent

-----------------------------------------------------------------------------
(* on_complete(), which holds the lock of Shared throughout *)

Transient == {"Error", "Overflow", "TimedOut"}

\* try_send() of every frame that was emitted; a full queue drops it.
Room == FrameQueue - Len(queue)
Deliver(a) ==
    /\ asm' = [a EXCEPT !.out = <<>>]
    /\ queue' = queue \o SubSeq(a.out, 1, IF Len(a.out) < Room THEN Len(a.out) ELSE Room)
    /\ dropped' = dropped + (IF Len(a.out) < Room THEN 0 ELSE Len(a.out) - Room)

\* Mutant: an error of submit() is not kept.
ResubmitForgets(t) ==
    \/ stopped /\ xfer' = [xfer EXCEPT ![t] = Idle] /\ UNCHANGED <<order, failure>>
    \/ ~stopped /\ xfer' = [xfer EXCEPT ![t] = Flying] /\ order' = Append(order, t) /\ UNCHANGED failure
    \/ ~stopped /\ xfer' = [xfer EXCEPT ![t] = Idle] /\ UNCHANGED <<order, failure>>

\* The transfer goes round once more, unless the stream is stopped; a failing
\* submission is recorded.
Resubmit(t) ==
    \/ stopped /\ xfer' = [xfer EXCEPT ![t] = Idle] /\ UNCHANGED <<order, failure>>
    \/ ~stopped /\ xfer' = [xfer EXCEPT ![t] = Flying] /\ order' = Append(order, t) /\ UNCHANGED failure
    \/ ~stopped /\ xfer' = [xfer EXCEPT ![t] = Idle] /\ UNCHANGED order
       /\ failure' \in {"NoDevice", "Error"}

OnComplete(t) ==
    /\ evt = "free" /\ done # <<>> /\ t = Head(done)
    /\ done' = Tail(done)
    /\ \/ /\ xfer[t].status = "Completed" /\ ~isochronous
          /\ Deliver(Payload(asm, xfer[t].payload)) /\ Resubmit(t)
       \/ /\ xfer[t].status \in Transient
          /\ Deliver(Lost(asm)) /\ Resubmit(t)
       \/ /\ xfer[t].status = "Cancelled"
          /\ xfer' = [xfer EXCEPT ![t] = Idle] /\ UNCHANGED <<order, asm, queue, dropped, failure>>
       \/ /\ xfer[t].status \in {"Stall", "NoDevice"}
          /\ xfer' = [xfer EXCEPT ![t] = Idle] /\ failure' = xfer[t].status
          /\ UNCHANGED <<order, asm, queue, dropped>>
    /\ UNCHANGED <<isochronous, sent, received, stopped, user, evt>>

\* An isochronous transfer: iso_packets() locks the state of the transfer that
\* the guard of buffer() has locked already.
OnCompleteIsochronous(t) ==
    /\ evt = "free" /\ done # <<>> /\ t = Head(done)
    /\ xfer[t].status = "Completed" /\ isochronous
    /\ evt' = "blocked"
    /\ UNCHANGED <<isochronous, xfer, order, done, sent, asm, queue, dropped, received, stopped, failure, user>>

-----------------------------------------------------------------------------
(* The owner of the Stream *)

\* Pump::next() takes a frame.
NextFrame ==
    /\ user = "streaming" /\ queue # <<>>
    /\ queue' = Tail(queue) /\ received' = received + 1
    /\ UNCHANGED <<isochronous, xfer, order, done, sent, asm, dropped, stopped, failure, user, evt>>

\* Mutant: stop() cancels first and sets the flag afterwards.
StopCancelsFirst ==
    /\ user = "streaming"
    /\ user' = "waiting"
    /\ xfer' = [t \in Ring |-> [xfer[t] EXCEPT !.cancelling = (xfer[t].at = "flight")]]
    /\ UNCHANGED <<isochronous, order, done, sent, asm, queue, dropped, received, stopped, failure, evt>>

\* stop(): the flag is set under the lock of Shared ...
Stop ==
    /\ user = "streaming"
    /\ stopped' = TRUE /\ user' = "cancelling"
    /\ UNCHANGED <<isochronous, xfer, order, done, sent, asm, queue, dropped, received, failure, evt>>

\* ... then what is in flight is cancelled, transfer by transfer ...
StopCancels ==
    /\ user = "cancelling"
    /\ \/ \E t \in Ring :
             /\ xfer[t].at = "flight" /\ ~xfer[t].cancelling
             /\ xfer' = [xfer EXCEPT ![t].cancelling = TRUE]
             /\ UNCHANGED user
       \/ /\ \A t \in Ring : xfer[t].at = "flight" => xfer[t].cancelling
          /\ user' = "waiting" /\ UNCHANGED xfer
    /\ UNCHANGED <<isochronous, order, done, sent, asm, queue, dropped, received, stopped, failure, evt>>

\* ... and awaited, each for a second at most.
StopWaits ==
    /\ user = "waiting"
    /\ user' = "gone"
    /\ UNCHANGED <<isochronous, xfer, order, done, sent, asm, queue, dropped, received, stopped, failure, evt>>

Next ==
    \/ \E eof, err, malformed \in BOOLEAN : PayloadArrives(eof, err, malformed)
    \/ LosesPayload \/ EndpointFails
    \/ \E t \in Ring : CancelTakesEffect(t) \/ OnComplete(t) \/ OnCompleteIsochronous(t)
    \/ NextFrame \/ Stop \/ StopCancels \/ StopWaits

Spec == Init /\ [][Next]_vars

-----------------------------------------------------------------------------

Frames == Range(queue)

\* Assembler: the data of a frame without the error flag comes from one frame
\* of the camera, without gaps and to its end or to a payload marked as such.
UnflaggedIsOneFrame ==
    \A f \in Frames :
        ~f.error =>
            \A i \in 1..Len(f.data) - 1 :
                /\ f.data[i + 1] = f.data[i] + 1
                /\ f.data[i + 1] \div Parts = f.data[i] \div Parts

\* on_complete(): the ring never dies without a word; as long as nobody stopped
\* the stream, a transfer is in flight or a failure is recorded for next().
SilenceIsExplained ==
    (~stopped /\ \A t \in Ring : xfer[t].at = "idle") => failure # "none"

\* Pump::stop(): once it has returned, what is still in flight has been
\* cancelled, and no callback that was under way has submitted a transfer again.
StoppedStaysStopped ==
    user = "gone" => \A t \in Ring : xfer[t].at = "flight" => xfer[t].cancelling

\* "Mutable access to a transfer's buffer, held while the guard lives": the event
\* thread never waits for a guard of its own.
EventThreadLives == evt # "blocked"
=============================================================================
