------------------------------- MODULE Serial -------------------------------
(***************************************************************************)
(* An open SerialPort (src/serial/mod.rs), CDC-ACM or FTDI: the state it   *)
(* caches of the device, the control requests that change both, the bulk   *)
(* reads with the receive buffer, and the latched modem status.  The state *)
(* mutex is not held over a control request, so a call is three steps:     *)
(* read the cache, have the request run, store the cache.                  *)
(***************************************************************************)
EXTENDS Naturals, Sequences, SequencesExt

CONSTANTS Callers,    \* the application's threads
          MaxCalls,   \* bound on control calls
          MaxBytes,   \* bound on the bytes the device sends
          MaxFaults   \* bound on failed control requests

VARIABLES kind,       \* SerialKind: "acm" or "ftdi"
          st,         \* State: line, dtr, rts, and Backend::Ftdi's data_word
          dev,        \* the same as the device has it, with the break condition
          call,       \* each thread's call under way
          rx,         \* the receive buffer
          rxOwner,    \* the thread that holds the rx mutex, or "free"
          latch,      \* ModemStatus: a line error is latched
          next,       \* the next byte the device sends
          got,        \* ghost: the bytes read() returned, in order
          dropped,    \* ghost: bytes thrown away by purge() or with a failed read
          timedOut,   \* ghost: bytes thrown away by a read that said Timeout
          unreported, \* ghost: a line error reached the host since the last modem_status()
          asked,      \* ghost: what the requests that named a line asked of it
          contended,  \* ghost: two control calls have overlapped
          failed,     \* ghost: how many control requests failed
          left        \* control calls left within the bound

ghosts == <<got, dropped, timedOut, unreported>>
data == <<rx, rxOwner, latch, next>>
vars == <<kind, st, dev, call, data, ghosts, asked, contended, failed, left>>

\* Framing is a data-bits count: 7 and 8 fit an FTDI chip, 5 does not.
Configs == [baud : {1, 2}, bits : {5, 8}]
Default == [baud |-> 1, bits |-> 8]
NoLine == [baud |-> 0, bits |-> 8]
Idle == [op |-> "idle"]

Init ==
    /\ kind \in {"acm", "ftdi"}
    /\ st = [line |-> NoLine, dtr |-> FALSE, rts |-> FALSE, word |-> 8]
    /\ dev = [baud |-> 0, bits |-> 8, dtr |-> FALSE, rts |-> FALSE, brk |-> FALSE]
    /\ call = [c \in Callers |-> Idle]
    /\ rx = <<>> /\ rxOwner = "free" /\ latch = FALSE /\ next = 1
    /\ got = <<>> /\ dropped = {} /\ timedOut = {} /\ unreported = FALSE
    /\ asked = [dtr |-> FALSE, rts |-> FALSE]
    /\ contended = FALSE /\ failed = 0 /\ left = MaxCalls

Control == {"lines", "baud", "data", "coding", "break", "storeLines", "storeLine"}

Begin(c, new) ==
    /\ call[c] = Idle /\ left > 0 /\ left' = left - 1
    /\ call' = [call EXCEPT ![c] = new]
    /\ contended' = (contended \/ \E d \in Callers \ {c} : call[d].op \in Control)
    /\ UNCHANGED <<kind, dev, data, ghosts, asked, failed>>

-----------------------------------------------------------------------------
(* Control: modem lines, line settings, break *)

\* Mutant: set_lines() sends false for the line it was not asked about.
SetLinesAlone(c, line, on) ==
    /\ Begin(c, [op |-> "lines", line |-> line, dtr |-> line = "dtr" /\ on, rts |-> line = "rts" /\ on])
    /\ UNCHANGED st

\* set_dtr() and set_rts(): set_lines() reads the other line from the cache
\* and lets go of the state lock before the request.
SetLines(c, line, on) ==
    /\ Begin(c, [op |-> "lines", line |-> line,
                 dtr |-> IF line = "dtr" THEN on ELSE st.dtr,
                 rts |-> IF line = "rts" THEN on ELSE st.rts])
    /\ UNCHANGED st

\* set_line_config(): FTDI framing is checked, then the word is stored first.
SetLineConfig(c, config) ==
    \/ /\ kind = "acm" /\ Begin(c, [op |-> "coding", config |-> config]) /\ UNCHANGED st
    \/ /\ kind = "ftdi" /\ config.bits \in {7, 8}
       /\ Begin(c, [op |-> "baud", config |-> config])
       /\ st' = [st EXCEPT !.word = config.bits]

\* set_baud_rate(): the cached settings with another rate.
SetBaudRate(c, baud) ==
    LET line == IF st.line = NoLine THEN Default ELSE st.line
    IN  SetLineConfig(c, [line EXCEPT !.baud = baud])

\* set_break(): on an FTDI chip the break bit travels with the cached word.
SetBreak(c, on) == Begin(c, [op |-> "break", on |-> on, word |-> st.word]) /\ UNCHANGED st

\* What the device does with the request of call k.
Obey(k) ==
    CASE k.op = "lines" /\ kind = "ftdi" -> [dev EXCEPT ![k.line] = k[k.line]]
      [] k.op = "lines" /\ kind = "acm"  -> [dev EXCEPT !.dtr = k.dtr, !.rts = k.rts]
      [] k.op = "coding"                 -> [dev EXCEPT !.baud = k.config.baud, !.bits = k.config.bits]
      [] k.op = "baud"                   -> [dev EXCEPT !.baud = k.config.baud]
      [] k.op = "data"                   -> [dev EXCEPT !.bits = k.config.bits, !.brk = FALSE]
      [] k.op = "break" /\ kind = "ftdi" -> [dev EXCEPT !.bits = k.word, !.brk = k.on]
      [] k.op = "break" /\ kind = "acm"  -> [dev EXCEPT !.brk = k.on]

AskedBy(k) == IF k.op = "lines" THEN [asked EXCEPT ![k.line] = k[k.line]] ELSE asked

\* The call's next step once its request has succeeded.
After(k) == CASE k.op = "lines"              -> [k EXCEPT !.op = "storeLines"]
              [] k.op = "baud"               -> [k EXCEPT !.op = "data"]
              [] k.op \in {"data", "coding"} -> [k EXCEPT !.op = "storeLine"]
              [] OTHER                       -> Idle

Requests == {"lines", "baud", "data", "coding", "break"}

\* acm_request() and ftdi_request().
Request(c) ==
    /\ call[c].op \in Requests
    /\ dev' = Obey(call[c]) /\ asked' = AskedBy(call[c])
    /\ call' = [call EXCEPT ![c] = After(call[c])]
    /\ UNCHANGED <<kind, st, data, ghosts, contended, failed, left>>

\* A request that failed; the device may have obeyed before a timeout.
RequestFails(c) ==
    /\ call[c].op \in Requests /\ failed < MaxFaults /\ failed' = failed + 1
    /\ \/ UNCHANGED <<dev, asked>>
       \/ dev' = Obey(call[c]) /\ asked' = AskedBy(call[c])
    /\ call' = [call EXCEPT ![c] = Idle]
    /\ UNCHANGED <<kind, st, data, ghosts, contended, left>>

Store(c) ==
    /\ \/ /\ call[c].op = "storeLines"
          /\ st' = [st EXCEPT !.dtr = call[c].dtr, !.rts = call[c].rts]
       \/ /\ call[c].op = "storeLine"
          /\ st' = [st EXCEPT !.line = call[c].config]
    /\ call' = [call EXCEPT ![c] = Idle]
    /\ UNCHANGED <<kind, dev, data, ghosts, asked, contended, failed, left>>

-----------------------------------------------------------------------------
(* Data and status.  A full packet carries one byte, a short one none. *)

\* drain(): what a buffer of n bytes takes.
DrainN(n, bytes) == IF n < Len(bytes) THEN n ELSE Len(bytes)

Drain(c, n, bytes) ==
    LET k == DrainN(n, bytes)
    IN  /\ got' = got \o SubSeq(bytes, 1, k)
        /\ rx' = SubSeq(bytes, k + 1, Len(bytes))
        /\ rxOwner' = "free" /\ call' = [call EXCEPT ![c] = Idle]

\* Mutant: The rx lock is not held over the bulk read.
ReadUnlocked(c, n) ==
    /\ call[c] = Idle /\ rxOwner = "free"
    /\ \/ rx # <<>> /\ Drain(c, n, rx)
       \/ /\ rx = <<>> /\ call' = [call EXCEPT ![c] = [op |-> "bulk", n |-> n, raw |-> <<>>]]
          /\ UNCHANGED <<rx, got, rxOwner>>
    /\ UNCHANGED <<kind, st, dev, latch, next, dropped, timedOut, unreported, asked, contended, failed, left>>

\* read_with_timeout() takes the rx lock and keeps it until it returns.
ReadLocks(c, n) ==
    /\ call[c] = Idle /\ rxOwner = "free"
    /\ \/ rx # <<>> /\ Drain(c, n, rx)
       \/ /\ rx = <<>> /\ rxOwner' = c /\ call' = [call EXCEPT ![c] = [op |-> "bulk", n |-> n, raw |-> <<>>]]
          /\ UNCHANGED <<rx, got>>
    /\ UNCHANGED <<kind, st, dev, latch, next, dropped, timedOut, unreported, asked, contended, failed, left>>

\* A full packet arrives in the bulk transfer; it ends when its buffer is full.
Packet(c) ==
    /\ call[c].op = "bulk" /\ Len(call[c].raw) < call[c].n /\ next <= MaxBytes
    /\ next' = next + 1
    /\ call' = [call EXCEPT ![c].raw = Append(@, next)]
    /\ UNCHANGED <<kind, st, dev, rx, rxOwner, latch, ghosts, asked, contended, failed, left>>

\* The transfer ends, full or with a short packet.  On FTDI every packet has
\* brought status bytes; without data the loop goes on.
BulkEnds(c, event) ==
    /\ call[c].op = "bulk" /\ (event => kind = "ftdi")
    /\ latch' = (latch \/ event) /\ unreported' = (unreported \/ event)
    /\ \/ /\ rx \o call[c].raw = <<>> /\ UNCHANGED <<rx, rxOwner, call, got>>
       \/ /\ rx \o call[c].raw # <<>> /\ Drain(c, call[c].n, rx \o call[c].raw)
    /\ UNCHANGED <<kind, st, dev, next, dropped, timedOut, asked, contended, failed, left>>

\* bulk_read() fails: the packets that came before the deadline or the error
\* go with the transfer's buffer.
BulkFails(c, why) ==
    /\ call[c].op = "bulk"
    /\ dropped' = dropped \cup ToSet(call[c].raw)
    /\ timedOut' = IF why = "Timeout" THEN timedOut \cup ToSet(call[c].raw) ELSE timedOut
    /\ call' = [call EXCEPT ![c] = Idle] /\ rxOwner' = "free"
    /\ UNCHANGED <<kind, st, dev, rx, latch, next, got, unreported, asked, contended, failed, left>>

\* purge(input): waits for the rx lock; an FTDI chip is told to flush too.
Purge(c) ==
    /\ call[c] = Idle /\ rxOwner = "free" /\ left > 0 /\ left' = left - 1
    /\ dropped' = dropped \cup ToSet(rx) /\ rx' = <<>>
    /\ UNCHANGED <<kind, st, dev, call, rxOwner, latch, next, got, timedOut, unreported, asked,
                   contended, failed>>

\* start_notifications(): the callback folds a SERIAL_STATE in.
Notified(event) ==
    /\ kind = "acm" /\ latch' = (latch \/ event) /\ unreported' = (unreported \/ event)
    /\ UNCHANGED <<kind, st, dev, call, rx, rxOwner, next, got, dropped, timedOut, asked, contended,
                   failed, left>>

\* modem_status(): an FTDI chip is asked; then the latched events are taken.
ModemStatusAsk(c, event) ==
    /\ call[c] = Idle /\ left > 0 /\ left' = left - 1
    /\ event => kind = "ftdi"
    /\ latch' = (latch \/ event) /\ unreported' = (unreported \/ event)
    /\ call' = [call EXCEPT ![c] = [op |-> "take"]]
    /\ UNCHANGED <<kind, st, dev, rx, rxOwner, next, got, dropped, timedOut, asked, contended, failed>>

TakeEvents(c) ==
    /\ call[c].op = "take"
    /\ latch' = FALSE /\ unreported' = (unreported /\ ~latch)
    /\ call' = [call EXCEPT ![c] = Idle]
    /\ UNCHANGED <<kind, st, dev, rx, rxOwner, next, got, dropped, timedOut, asked, contended, failed, left>>

Next ==
    \/ \E c \in Callers :
        \/ \E line \in {"dtr", "rts"}, on \in BOOLEAN : SetLines(c, line, on)
        \/ \E config \in Configs : SetLineConfig(c, config)
        \/ \E baud \in {1, 2} : SetBaudRate(c, baud)
        \/ \E on \in BOOLEAN : SetBreak(c, on)
        \/ Request(c) \/ RequestFails(c) \/ Store(c)
        \/ \E n \in 1..2 : ReadLocks(c, n)
        \/ Packet(c) \/ Purge(c) \/ TakeEvents(c)
        \/ \E event \in BOOLEAN : BulkEnds(c, event) \/ ModemStatusAsk(c, event)
        \/ \E why \in {"Timeout", "NoDevice"} : BulkFails(c, why)
    \/ \E event \in BOOLEAN : Notified(event)

Spec == Init /\ [][Next]_vars

-----------------------------------------------------------------------------
(* Properties *)

Quiet == \A c \in Callers : call[c].op \notin Control

\* As long as no two control calls have overlapped and no request has failed,
\* the cache and the device agree between calls on the modem lines, the
\* settings and the framing word, and each line is where the last request that
\* named it left it (set_lines, set_line_config, set_break).  An FTDI chip
\* takes requests by line, so there the lines are right whatever overlaps or
\* fails.
DeviceIsAsAsked ==
    /\ (kind = "ftdi" \/ (~contended /\ failed = 0)) => dev.dtr = asked.dtr /\ dev.rts = asked.rts
    /\ (Quiet /\ ~contended /\ failed = 0) =>
        /\ dev.dtr = st.dtr /\ dev.rts = st.rts
        /\ st.line # NoLine => dev.baud = st.line.baud /\ dev.bits = st.line.bits
        /\ kind = "ftdi" => dev.bits = st.word

\* Whatever threads read, purge or time out, the bytes read() has returned and
\* those still buffered are in the order the device sent them, each one once,
\* and any byte missing was purged or lost with a failed transfer
\* (read_with_timeout holds the rx lock over bulk_read); a line error that
\* reached the host stays latched until modem_status() returns it.
NothingReorderedOrLost ==
    LET kept == got \o rx
    IN  /\ \A i, j \in 1..Len(kept) : i < j => kept[i] < kept[j]
        /\ ToSet(kept) \cup dropped \cup UNION {ToSet(call[c].raw) : c \in {d \in Callers : call[d].op = "bulk"}}
             = 1..(next - 1)
        /\ unreported = latch

\* The documentation of read_with_timeout(): it fails with Timeout only if
\* nothing arrived.
TimeoutMeansNothingArrived == timedOut = {}
=============================================================================
