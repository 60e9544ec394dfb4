------------------------------ MODULE UvcStart -----------------------------
(***************************************************************************)
(* Camera::start() and the drop of a Stream (src/uvc/mod.rs): probe and    *)
(* commit, the choice of an alternate setting, the transfers and their     *)
(* end, with requests that fail and streams of one interface that overlap. *)
(* A control block is the sequence of its parts: what is asked for, the    *)
(* frame size, the payload size, and what UVC 1.1 and 1.5 added.           *)
(***************************************************************************)
EXTENDS Naturals, Sequences, SequencesExt, FiniteSetsExt

CONSTANTS Streams,      \* streams of the interface
          Bandwidth,    \* what each alternate setting with the endpoint moves
          Sizes,        \* payload sizes the device may ask for
          Packet,       \* packet size of a bulk endpoint
          Transfers,    \* TRANSFERS
          MaxStarts, MaxFaults

VARIABLES isochronous, \* the kind of the endpoint
          version,     \* parts of a block on the wire: 3, 4 or 5
          dev,         \* the device: what it offered, what it was told, its setting
          strm,        \* each stream: how far start() is, and what it found
          orphans,     \* transfers of a start() that failed, still in flight
          crossed,     \* another stream came or went during a start() or a stream
          left         \* calls and failures left within the bounds

vars == <<isochronous, version, dev, strm, orphans, crossed, left>>

NoStream == [pc |-> "none", control |-> <<>>, len |-> 0, alt |-> 0, frame |-> 0]

\* wire_size(), to_bytes() and from_bytes(): missing parts read as zero.
ToBytes(c) == SubSeq(c, 1, version)
FromBytes(b) == [i \in 1 .. 5 |-> IF i <= Len(b) THEN b[i] ELSE 0]

Init ==
    /\ isochronous \in BOOLEAN /\ version \in 3 .. 5
    /\ dev = [offered |-> <<>>, committed |-> <<>>, alt |-> 0, reset |-> TRUE]
    /\ strm = [s \in Streams |-> NoStream]
    /\ orphans = 0 /\ crossed = FALSE
    /\ left = [starts |-> MaxStarts, faults |-> MaxFaults]

Spend(ok) ==
    /\ ok \/ left.faults > 0
    /\ left' = IF ok THEN left ELSE [left EXCEPT !.faults = @ - 1]

Fails(s) == strm' = [strm EXCEPT ![s] = NoStream]

\* The interface has another user.
Others(s) == \E o \in Streams \ {s} : strm[o].pc # "none"

-----------------------------------------------------------------------------
(* start() *)

Start(s) ==
    /\ strm[s].pc = "none" /\ left.starts > 0
    /\ left' = [left EXCEPT !.starts = @ - 1]
    /\ strm' = [strm EXCEPT ![s].pc = "probe"]
    /\ crossed' = (crossed \/ Others(s))
    /\ UNCHANGED <<isochronous, version, dev, orphans>>

\* probe(): SET_CUR with the request, GET_CUR with what the device makes of it,
\* which may be shorter than asked for.
Probe(s, ok, frame, payload, n) ==
    /\ strm[s].pc = "probe" /\ Spend(ok) /\ n <= version
    /\ LET reply == SubSeq(<<1, frame, payload, 7, 7>>, 1, n) IN
       IF ok THEN /\ dev' = [dev EXCEPT !.offered = reply]
                  /\ strm' = [strm EXCEPT ![s].pc = "commit", ![s].control = FromBytes(reply)]
       ELSE Fails(s) /\ UNCHANGED dev
    /\ UNCHANGED <<isochronous, version, orphans, crossed>>

\* SET_CUR of the commit control with what was negotiated.  The largest frame is
\* the one negotiated, else the descriptor's (1).
Commit(s, ok) ==
    /\ strm[s].pc = "commit" /\ Spend(ok)
    /\ LET c == strm[s].control IN
       IF ok THEN /\ dev' = [dev EXCEPT !.committed = ToBytes(c)]
                  /\ strm' = [strm EXCEPT ![s].pc = IF isochronous THEN "alt" ELSE "pump",
                                          ![s].frame = IF c[2] # 0 THEN c[2] ELSE 1]
       ELSE Fails(s) /\ UNCHANGED dev
    /\ UNCHANGED <<isochronous, version, orphans, crossed>>

\* The smallest setting that covers the payload, else the largest.
Candidates == {a \in DOMAIN Bandwidth : Bandwidth[a] > 0}
Cover(payload) == {a \in Candidates : Bandwidth[a] >= payload}
Before(a, b) == Bandwidth[a] < Bandwidth[b] \/ (Bandwidth[a] = Bandwidth[b] /\ a <= b)
ChooseAlt(payload) ==
    IF Cover(payload) # {} THEN CHOOSE a \in Cover(payload) : \A b \in Cover(payload) : Before(a, b)
    ELSE CHOOSE a \in Candidates : \A b \in Candidates : Before(b, a)

SetAlt(s, ok) ==
    /\ strm[s].pc = "alt" /\ Spend(ok)
    /\ IF Candidates = {} \/ ~ok THEN Fails(s) /\ UNCHANGED dev
       ELSE LET alt == ChooseAlt(strm[s].control[3]) IN
            /\ dev' = [dev EXCEPT !.alt = alt]
            /\ strm' = [strm EXCEPT ![s].pc = "pump", ![s].alt = alt, ![s].len = Bandwidth[alt]]
    /\ UNCHANGED <<isochronous, version, orphans, crossed>>

\* Mutant: the alternate setting stays when the transfers cannot be started.
PumpFailsInPlace(s, k, reset) ==
    /\ strm[s].pc = "pump" /\ left.faults > 0
    /\ left' = [left EXCEPT !.faults = @ - 1]
    /\ Fails(s)
    /\ orphans' = IF isochronous /\ reset THEN orphans ELSE orphans + k
    /\ UNCHANGED <<isochronous, version, dev, crossed>>

\* Pump::start() fails at transfer k + 1.  The setting goes back to 0, which ends
\* the k transfers already in flight; those of a bulk endpoint stay.
PumpFails(s, k, reset) ==
    /\ strm[s].pc = "pump" /\ left.faults > 0
    /\ left' = [left EXCEPT !.faults = @ - 1]
    /\ Fails(s)
    /\ dev' = IF ~isochronous THEN dev
              ELSE IF reset THEN [dev EXCEPT !.alt = 0] ELSE [dev EXCEPT !.reset = FALSE]
    /\ orphans' = IF isochronous /\ reset THEN orphans ELSE orphans + k
    /\ UNCHANGED <<isochronous, version, crossed>>

\* Bulk: one payload per transfer, rounded up to whole packets.
PumpStarts(s) ==
    LET payload == strm[s].control[3]
        most == IF payload > Packet THEN payload ELSE Packet
    IN
    /\ strm[s].pc = "pump"
    /\ strm' = [strm EXCEPT ![s].pc = "streaming",
                            ![s].len = IF isochronous THEN @ ELSE ((most + Packet - 1) \div Packet) * Packet]
    /\ UNCHANGED <<isochronous, version, dev, orphans, crossed, left>>

\* Stream::drop(): the pump stops, then alternate setting 0 or clear_halt(),
\* whose failure is ignored.
Drop(s, ok) ==
    /\ strm[s].pc = "streaming" /\ Spend(ok)
    /\ Fails(s)
    /\ dev' = IF ~isochronous THEN dev
              ELSE IF ok THEN [dev EXCEPT !.alt = 0] ELSE [dev EXCEPT !.reset = FALSE]
    /\ crossed' = (crossed \/ Others(s))
    /\ UNCHANGED <<isochronous, version, orphans>>

Next == \E s \in Streams :
    \/ Start(s) \/ PumpStarts(s)
    \/ \E ok \in BOOLEAN :
          \/ Commit(s, ok) \/ SetAlt(s, ok) \/ Drop(s, ok)
          \/ \E frame \in 0 .. 1, payload \in Sizes, n \in {2, version} : Probe(s, ok, frame, payload, n)
          \/ \E k \in 0 .. Transfers - 1 : PumpFails(s, k, ok)

Spec == Init /\ [][Next]_vars

-----------------------------------------------------------------------------

\* A stream that nobody interfered with runs as negotiated: the device was told
\* what it offered, part for part, its alternate setting is the stream's, the
\* transfers hold a payload unless no setting is large enough, and no smaller
\* setting would do.  When nothing streams the interface is back at setting 0,
\* whatever start() failed at, unless the device refused that, and that ends the
\* transfers of a start() that failed; those of a bulk endpoint are left behind.
\* (A stream dropped after the next one has started takes that one's setting with
\* it; the crossed streams are exempt.)
StreamIsAsNegotiated ==
    /\ (\A s \in Streams : strm[s].pc # "pump" /\ strm[s].pc # "streaming") /\ dev.reset => dev.alt = 0
    /\ isochronous /\ dev.reset => orphans = 0
    /\ ~crossed => \A s \in Streams : LET x == strm[s] IN
         x.pc = "streaming" =>
           /\ x.frame > 0
           /\ IsPrefix(dev.offered, dev.committed)
           /\ \A i \in DOMAIN dev.committed : i > Len(dev.offered) => dev.committed[i] = 0
           /\ ~isochronous => x.len >= x.control[3] /\ x.len % Packet = 0
           /\ isochronous =>
                /\ dev.alt = x.alt /\ x.len = Bandwidth[dev.alt]
                /\ \A a \in DOMAIN Bandwidth :
                     /\ x.len < x.control[3] => Bandwidth[a] <= x.len
                     /\ x.len >= x.control[3] /\ Bandwidth[a] > 0 => Bandwidth[a] >= x.len \/ Bandwidth[a] < x.control[3]
=============================================================================
