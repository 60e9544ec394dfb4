---------------------------- MODULE NetFraming ----------------------------
(***************************************************************************)
(* The framing of the bulk endpoints of a network function: NCM transfer   *)
(* blocks (src/net/cdc.rs), RNDIS PACKET messages (src/net/rndis.rs) and   *)
(* bare ECM frames.  A transfer is a function from offsets to cells: a     *)
(* header field is one cell at its offset, a byte of frame f is <<f, i>>,  *)
(* and everything else is zero.  Offsets and lengths are real; only the    *)
(* limit of 16-bit fields is scaled down.                                  *)
(***************************************************************************)
EXTENDS Integers, Sequences, SequencesExt

CONSTANTS Lengths,   \* lengths of the frames the host sends
          Params,    \* NTB parameters: align, divisor, remainder and max
          Packets,   \* bulk OUT packet sizes
          Batches,   \* what a device puts into one transfer: for NCM a sequence
                     \* of NDPs, each a sequence of frame lengths
          U16Max     \* the largest value of a 16-bit field, scaled

VARIABLES wire,    \* the transfer: format, length, cells, the frames in it and where
                   \* they are, and the rules of the device it is sent to
          pos,     \* where the parser is: the next NDP or PACKET message
          walked,  \* NDPs visited
          got,     \* the frames emitted so far
          verdict  \* "none", "parsing", or what the parser returned

vars == <<wire, pos, walked, got, verdict>>

Nth == 12      \* NTH16_LEN
NdpOne == 16   \* NDP16_ONE_LEN
Header == 44   \* PACKET_HEADER
MaxNdps == 16

\* The signatures NTH16_SIGNATURE, NDP16_NO_CRC, NDP16_CRC and MSG_PACKET.
NCMH == 1001
NCM0 == 1002
NCM1 == 1003
PACKET == 1

Sum(s) == FoldLeft(LAMBDA a, b : a + b, 0, s)
SmallestOf(S) == CHOOSE x \in S : \A y \in S : x <= y
Max2(a, b) == IF a > b THEN a ELSE b
AlignUp(v, to) == IF to <= 1 THEN v ELSE ((v + to - 1) \div to) * to
Pad(total, multiple) == IF total % multiple = 0 THEN total + 1 ELSE total

\* Frame k of length lens[k] at offset at[k], among the header fields f.
Cells(len, f, at, lens) ==
    [i \in 0 .. len - 1 |->
        IF i \in DOMAIN f THEN f[i]
        ELSE LET here == {k \in DOMAIN at : at[k] <= i /\ i < at[k] + lens[k]}
             IN  IF here = {} THEN 0 ELSE LET k == SmallestOf(here) IN <<k, i - at[k]>>]

Transfer(format, len, f, at, lens) ==
    [format |-> format, cut |-> 0, len |-> len, cell |-> Cells(len, f, at, lens), frames |-> lens, at |-> at,
     rules |-> [divisor |-> 1, remainder |-> 0, max |-> U16Max, packet |-> 0]]

\* le16() and le32() read 0 past the end.
Field(b, i) == IF i \in 0 .. b.len - 1 THEN b.cell[i] ELSE 0

Refused == Transfer("refused", 0, <<>>, <<>>, <<>>)

Init == wire = Refused /\ pos = 0 /\ walked = 0 /\ got = <<>> /\ verdict = "none"

-----------------------------------------------------------------------------
(* Building: send() and the functions it calls *)

\* Mutant: the remainder is added to an offset that was not rounded up.
DataOffsetUnrounded(ndp, p) == ndp + NdpOne + (p.remainder % Max2(p.divisor, 1))

\* The datagram starts where offset % divisor = remainder.
DataOffset(ndp, p) ==
    LET divisor == Max2(p.divisor, 1)
    IN  AlignUp(ndp + NdpOne, divisor) + (p.remainder % divisor)

\* The NTH, and one NDP with one entry and the terminator.
NtbFields(ndp, data, n, total) ==
    [i \in {0, 4, 8, 10} \cup {ndp, ndp + 4, ndp + 6, ndp + 8, ndp + 10, ndp + 12, ndp + 14} |->
        IF i = 0 THEN NCMH ELSE IF i = 4 THEN Nth ELSE IF i = 8 THEN total ELSE IF i = 10 THEN ndp
        ELSE IF i = ndp THEN NCM0 ELSE IF i = ndp + 4 THEN NdpOne
        ELSE IF i = ndp + 8 THEN data ELSE IF i = ndp + 10 THEN n ELSE 0]

BuildNtb16(n, p, packet) ==
    LET ndp == AlignUp(Nth, Max2(p.align, 4))
        data == DataOffset(ndp, p)
        total == Pad(data + n, packet)
    IN  IF total > p.max \/ total > U16Max THEN Refused
        ELSE [Transfer("ntb16", total, NtbFields(ndp, data, n, total), <<data>>, <<n>>) EXCEPT
                  !.rules = [divisor |-> Max2(p.divisor, 1), remainder |-> p.remainder % Max2(p.divisor, 1),
                             max |-> p.max, packet |-> packet]]

PacketFields(at, n) ==
    [i \in {at, at + 4, at + 8, at + 12} |->
        IF i = at THEN PACKET ELSE IF i = at + 4 THEN Header + n ELSE IF i = at + 8 THEN Header - 8 ELSE n]

BuildPacket(n, packet) ==
    Transfer("rndis", Pad(Header + n, packet), PacketFields(0, n), <<Header>>, <<n>>)

BuildEcm(n, packet) == Transfer("ecm", Pad(n, packet), <<>>, <<0>>, <<n>>)

\* A device's NTB16: its NDPs one behind the other, then the datagrams, each with
\* four bytes of CRC if the NDPs say so.
DeviceNtb16(batch, crc) ==
    LET lens == FlattenSeq(batch)
        extra == IF crc THEN 4 ELSE 0
        ndp == [k \in DOMAIN batch |-> Nth + Sum([j \in 1 .. k - 1 |-> 12 + 4 * Len(batch[j])])]
        data == Nth + Sum([j \in DOMAIN batch |-> 12 + 4 * Len(batch[j])])
        at == [i \in DOMAIN lens |-> data + Sum([j \in 1 .. i - 1 |-> lens[j] + extra])]
        total == data + Sum([j \in DOMAIN lens |-> lens[j] + extra])
        first(k) == Sum([j \in 1 .. k - 1 |-> Len(batch[j])])
        entries(k) == FoldLeft(LAMBDA f, i : f @@ (ndp[k] + 4 + 4 * i :> at[first(k) + i])
                                               @@ (ndp[k] + 6 + 4 * i :> lens[first(k) + i] + extra),
                               <<>>, [i \in DOMAIN batch[k] |-> i])
        head(k) == (ndp[k] :> IF crc THEN NCM1 ELSE NCM0) @@ (ndp[k] + 4 :> 12 + 4 * Len(batch[k]))
                   @@ (ndp[k] + 6 :> IF k < Len(batch) THEN ndp[k + 1] ELSE 0)
    IN  Transfer("ntb16", total,
                 FoldLeft(LAMBDA f, k : f @@ head(k) @@ entries(k),
                          (0 :> NCMH) @@ (4 :> Nth) @@ (8 :> total)
                              @@ (10 :> IF batch = <<>> THEN 0 ELSE Nth),
                          [k \in DOMAIN batch |-> k]),
                 at, lens)

\* A device's PACKET messages in one transfer, and zeros to fill it up.
DevicePackets(lens, zeros) ==
    LET start(k) == Sum([j \in 1 .. k - 1 |-> Header + lens[j]])
    IN  Transfer("rndis", start(Len(lens) + 1) + zeros,
                 FoldLeft(LAMBDA f, k : f @@ PacketFields(start(k), lens[k]), <<>>, [k \in DOMAIN lens |-> k]),
                 [k \in DOMAIN lens |-> start(k) + Header], lens)

Begin(b, cut) ==
    /\ verdict = "none"
    /\ wire' = [b EXCEPT !.len = Max2(@ - cut, 0), !.cut = cut]
    /\ pos' = 0 /\ walked' = 0 /\ got' = <<>>
    /\ verdict' = IF b.format = "refused" THEN "none" ELSE "parsing"

\* send(): one frame, framed for the protocol at hand.
Send(n, p, packet) ==
    Begin(BuildNtb16(n, p, packet), 0) \/ Begin(BuildPacket(n, packet), 0) \/ Begin(BuildEcm(n, packet), 0)

\* A receive transfer of a device's frames, possibly cut short.
Receive(batch, crc, cut) ==
    \/ Begin(DeviceNtb16(batch, crc), cut)
    \/ Begin(DevicePackets(FlattenSeq(batch), IF crc THEN 8 ELSE 0), cut)

-----------------------------------------------------------------------------
(* Parsing: on_complete of start_receiving(); emit() is deliver() *)

Emit(at, len) == [i \in 1 .. len |-> Field(wire, at + i - 1)]
Return(v) == verdict' = v /\ UNCHANGED <<wire, pos, walked>>

ParseEcm ==
    /\ verdict = "parsing" /\ wire.format = "ecm"
    /\ got' = <<Emit(0, wire.len)>> /\ Return("ok")

Block == IF Field(wire, 8) < wire.len THEN Field(wire, 8) ELSE wire.len

\* The header of an NTB16.
ParseNth ==
    /\ verdict = "parsing" /\ wire.format = "ntb16" /\ walked = 0 /\ pos = 0
    /\ UNCHANGED got
    /\ IF wire.len < Nth \/ Field(wire, 0) # NCMH \/ Field(wire, 4) # Nth THEN Return("malformed")
       ELSE pos' = Field(wire, 10) /\ walked' = 1 /\ UNCHANGED <<wire, verdict>>

\* One NDP of the walk: its entries up to a zero one or one that is out of range.
ParseNdp ==
    LET len == Field(wire, pos + 4)
        crc == Field(wire, pos) = NCM1
        entry(i) == pos + 8 + 4 * i
        index(i) == Field(wire, entry(i))
        length(i) == IF crc THEN Max2(Field(wire, entry(i) + 2) - 4, 0) ELSE Field(wire, entry(i) + 2)
        count == (len - 8) \div 4
        ends == {i \in 0 .. count - 1 : index(i) = 0 \/ Field(wire, entry(i) + 2) = 0} \cup {count}
        bad == {i \in 0 .. SmallestOf(ends) - 1 :
                    index(i) < Nth \/ index(i) + length(i) > Block \/ length(i) < 14}
        n == SmallestOf(ends \cup bad)
    IN
    /\ verdict = "parsing" /\ wire.format = "ntb16" /\ walked > 0
    /\ IF pos = 0 THEN Return("ok") /\ UNCHANGED got
       ELSE IF \/ walked > MaxNdps
               \/ pos < Nth \/ pos % 4 # 0 \/ pos + 8 > Block
               \/ Field(wire, pos) \notin {NCM0, NCM1}
               \/ len < 16 \/ pos + len > Block
       THEN Return("malformed") /\ UNCHANGED got
       ELSE /\ got' = got \o [i \in 1 .. n |-> Emit(index(i - 1), length(i - 1))]
            /\ IF n \in bad THEN Return("malformed")
               ELSE /\ pos' = Field(wire, pos + 6) /\ walked' = walked + 1
                    /\ UNCHANGED <<wire, verdict>>

\* One PACKET message of the transfer; less than 8 bytes, or zeros, end it.
ParsePacket ==
    LET rest == wire.len - pos
        len == Field(wire, pos + 4)
        offset == 8 + Field(wire, pos + 8)
        end == offset + Field(wire, pos + 12)
    IN
    /\ verdict = "parsing" /\ wire.format = "rndis"
    /\ IF rest < 8 \/ (Field(wire, pos) = 0 /\ len = 0) THEN Return("ok") /\ UNCHANGED got
       ELSE IF \/ Field(wire, pos) # PACKET \/ len < Header \/ len > rest
               \/ offset < Header \/ end > len
       THEN Return("malformed") /\ UNCHANGED got
       ELSE /\ got' = Append(got, Emit(pos + offset, Field(wire, pos + 12)))
            /\ pos' = pos + len /\ UNCHANGED <<wire, walked, verdict>>

Next ==
    \/ \E n \in Lengths, p \in Params, packet \in Packets : Send(n, p, packet)
    \/ \E batch \in Batches, crc \in BOOLEAN, cut \in {0, 1, 20} : Receive(batch, crc, cut)
    \/ ParseEcm \/ ParseNth \/ ParseNdp \/ ParsePacket

Spec == Init /\ [][Next]_vars

-----------------------------------------------------------------------------

Frame(k) == [i \in 1 .. wire.frames[k] |-> <<k, i - 1>>]
Whole == [k \in DOMAIN wire.frames |-> Frame(k)]

\* What one end puts into a transfer comes out at the other, in order and byte
\* for byte: parse_ntb16() and parse_packets() emit the frames that went in and
\* nothing else, whatever the alignment rules, CRC mode, number of NDPs and
\* padding, and of a transfer that was cut short the frames before the cut.  A
\* block sent keeps the device's rules and ends with a short packet.  (An ECM frame
\* has no length of its own and keeps its byte of padding.)
FramesSurvive ==
    /\ wire.format \in {"ntb16", "rndis"} => IsPrefix(got, Whole)
    /\ wire.format \in {"ntb16", "rndis"} /\ wire.cut = 0 /\ verdict # "parsing" =>
         verdict = "ok" /\ got = Whole
    /\ wire.rules.packet > 0 =>
         /\ wire.at[1] % wire.rules.divisor = wire.rules.remainder
         /\ wire.len % wire.rules.packet # 0 /\ wire.len <= wire.rules.max
    /\ wire.format = "ecm" /\ verdict = "ok" => IsPrefix(Frame(1), got[1]) /\ Len(got[1]) <= wire.frames[1] + 1
=============================================================================
