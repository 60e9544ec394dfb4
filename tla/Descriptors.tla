---------------------------- MODULE Descriptors ----------------------------
(***************************************************************************)
(* ConfigDescriptor::from_bytes() of src/descriptors.rs, one descriptor of *)
(* the device's data at a time, and what the video class makes of it:      *)
(* the video formats of src/uvc/descriptors.rs.  A descriptor is its type  *)
(* and the fields the parsers look at; one that is too short for its type  *)
(* has full = FALSE.                                                       *)
(***************************************************************************)
EXTENDS Naturals, Sequences, SequencesExt

CONSTANTS Descs,    \* descriptors a device may send: [ty, sub, no, alt, full]
          MaxDescs  \* bound on how many

VARIABLES seen,      \* the descriptors read so far
          cfg,       \* cfg: interfaces, in order, and extra
          curIface,  \* cur_iface: the interface descriptor being filled, or none
          curEp,     \* cur_ep: the endpoint descriptor being filled, or none
          done       \* from_bytes() has returned

vars == <<seen, cfg, curIface, curEp, done>>

Init ==
    /\ seen = <<>> /\ cfg = [interfaces |-> <<>>, extra |-> <<>>]
    /\ curIface = <<>> /\ curEp = <<>> /\ done = FALSE

-----------------------------------------------------------------------------
(* from_bytes() *)

\* push_interface(): alternate settings are grouped by interface number.
PushInterface(c, alt) ==
    LET same == {i \in DOMAIN c.interfaces : c.interfaces[i].number = alt.number}
    IN  IF same # {} THEN [c EXCEPT !.interfaces[CHOOSE i \in same : TRUE].alts = Append(@, alt)]
        ELSE [c EXCEPT !.interfaces = Append(@, [number |-> alt.number, alts |-> <<alt>>])]

\* The endpoint under construction, if any, goes to the interface.
WithEp(iface) ==
    IF curEp = <<>> THEN iface ELSE <<[iface[1] EXCEPT !.endpoints = Append(@, curEp[1])]>>

Flushed == IF curIface = <<>> THEN cfg ELSE PushInterface(cfg, WithEp(curIface)[1])

\* Mutant: the last endpoint of an interface is forgotten when the next begins.
ReadInterfaceEarly(d, i) ==
    /\ cfg' = IF curIface = <<>> THEN cfg ELSE PushInterface(cfg, curIface[1])
    /\ curIface' = <<[number |-> d.no, alternate |-> d.alt, pos |-> i, endpoints |-> <<>>, extra |-> <<>>]>>
    /\ curEp' = <<>>

ReadInterface(d, i) ==
    /\ cfg' = Flushed
    /\ curIface' = <<[number |-> d.no, alternate |-> d.alt, pos |-> i, endpoints |-> <<>>, extra |-> <<>>]>>
    /\ curEp' = <<>>

ReadEndpoint(d, i) ==
    /\ curIface' = WithEp(curIface)
    /\ curEp' = <<[address |-> d.no, pos |-> i, companion |-> 0, extra |-> <<>>]>>
    /\ UNCHANGED cfg

ReadCompanion(i) ==
    /\ curEp' = <<[curEp[1] EXCEPT !.companion = i, !.extra = Append(@, i)]>>
    /\ UNCHANGED <<cfg, curIface>>

\* Anything else belongs to the innermost descriptor under construction.
ReadOther(i) ==
    IF curEp # <<>> THEN curEp' = <<[curEp[1] EXCEPT !.extra = Append(@, i)]>> /\ UNCHANGED <<cfg, curIface>>
    ELSE IF curIface # <<>>
    THEN curIface' = <<[curIface[1] EXCEPT !.extra = Append(@, i)]>> /\ UNCHANGED <<cfg, curEp>>
    ELSE cfg' = [cfg EXCEPT !.extra = Append(@, i)] /\ UNCHANGED <<curIface, curEp>>

Read(d) ==
    LET i == Len(seen) + 1 IN
    /\ ~done /\ Len(seen) < MaxDescs
    /\ seen' = Append(seen, d)
    /\ CASE d.ty = "INTERFACE" /\ d.full                   -> ReadInterface(d, i)
         [] d.ty = "ENDPOINT" /\ d.full /\ curIface # <<>> -> ReadEndpoint(d, i)
         [] d.ty = "COMPANION" /\ d.full /\ curEp # <<>>   -> ReadCompanion(i)
         [] OTHER                                          -> ReadOther(i)
    /\ UNCHANGED done

\* The end of the data, or a malformed tail: what was read is kept.
Finish ==
    /\ ~done
    /\ done' = TRUE /\ cfg' = Flushed /\ curIface' = <<>> /\ curEp' = <<>>
    /\ UNCHANGED seen

Next == (\E d \in Descs : Read(d)) \/ Finish

Spec == Init /\ [][Next]_vars

-----------------------------------------------------------------------------
(* What the video class reads off an alternate setting *)

\* cs_interface(): the class-specific descriptors of an alternate setting, those
\* that follow its endpoints too.
CsInterface(alt) ==
    SelectSeq(alt.extra \o FlattenSeq([e \in DOMAIN alt.endpoints |-> alt.endpoints[e].extra]),
              LAMBDA i : seen[i].ty = "CS")

\* StreamingInterface::parse(): nothing counts before the input header; a frame
\* belongs to the format before it, and is dropped if it or that is malformed.
StreamingParse(alt) ==
    FoldLeft(LAMBDA out, i :
                LET d == seen[i] IN
                CASE d.sub = "header" /\ d.full /\ out = <<>> -> <<[endpoint |-> d.no, formats |-> <<>>]>>
                  [] d.sub = "format" /\ d.full /\ out # <<>> ->
                       <<[out[1] EXCEPT !.formats = Append(@, [index |-> d.no, frames |-> <<>>])]>>
                  [] d.sub = "frame" /\ d.full /\ out # <<>> /\ out[1].formats # <<>> ->
                       <<[out[1] EXCEPT !.formats[Len(out[1].formats)].frames = Append(@, d.no)]>>
                  [] OTHER -> out,
             <<>>, CsInterface(alt))

-----------------------------------------------------------------------------
(* The reference: where descriptor i belongs, told from its place in the data *)

LastOf(S) == IF S = {} THEN 0 ELSE CHOOSE x \in S : \A y \in S : y <= x
IsInterface(i) == seen[i].ty = "INTERFACE" /\ seen[i].full
Home(i) == LastOf({k \in 1 .. i - 1 : IsInterface(k)})
IsEndpoint(i) == seen[i].ty = "ENDPOINT" /\ seen[i].full /\ Home(i) # 0
EpHome(i) == LastOf({k \in Home(i) + 1 .. i - 1 : IsEndpoint(k)})
InOrder(S) == SetToSortSeq(S, <)
Here(P(_)) == InOrder({i \in DOMAIN seen : ~IsInterface(i) /\ P(i)})

RefEndpoint(e) ==
    LET mine == {i \in DOMAIN seen : ~IsInterface(i) /\ ~IsEndpoint(i) /\ Home(i) # 0 /\ EpHome(i) = e}
    IN  [address |-> seen[e].no, pos |-> e, extra |-> InOrder(mine),
         companion |-> LastOf({i \in mine : seen[i].ty = "COMPANION" /\ seen[i].full})]

RefAlt(k) ==
    LET eps == Here(LAMBDA i : IsEndpoint(i) /\ Home(i) = k)
    IN  [number |-> seen[k].no, alternate |-> seen[k].alt, pos |-> k,
         endpoints |-> [e \in DOMAIN eps |-> RefEndpoint(eps[e])],
         extra |-> Here(LAMBDA i : Home(i) = k /\ ~IsEndpoint(i) /\ EpHome(i) = 0)]

RefInterface(n) ==
    LET alts == InOrder({i \in DOMAIN seen : IsInterface(i) /\ seen[i].no = n})
    IN  [number |-> n, alts |-> [a \in DOMAIN alts |-> RefAlt(alts[a])]]

\* The video formats of the interface descriptor at k: for each format after the
\* first header, the frames up to the next format.
RefStreaming(k) ==
    LET cs(sub) == {i \in DOMAIN seen : Home(i) = k /\ seen[i].ty = "CS" /\ seen[i].sub = sub /\ seen[i].full}
        header == IF cs("header") = {} THEN 0 ELSE CHOOSE h \in cs("header") : \A g \in cs("header") : h <= g
        formats == InOrder({f \in cs("format") : f > header})
        frames(f) == InOrder({i \in cs("frame") : i > f /\ ~ \E g \in cs("format") : f < g /\ g < i})
    IN  IF header = 0 THEN <<>>
        ELSE <<[endpoint |-> seen[header].no,
                formats |-> [j \in DOMAIN formats |->
                    [index |-> seen[formats[j]].no,
                     frames |-> [x \in DOMAIN frames(formats[j]) |-> seen[frames(formats[j])[x]].no]]]]>>

\* Nothing a device sends is lost, invented or put in the wrong place: the tree of
\* from_bytes() is the one the order of the descriptors stands for, with every
\* alternate setting under its interface, every endpoint under its alternate
\* setting and everything else kept as `extra` where it stood, also for
\* interleaved alternate settings and short descriptors; and the formats and
\* frames a camera offers are those of its descriptors.
TreeIsFaithful ==
    done =>
      /\ \A i \in DOMAIN cfg.interfaces : cfg.interfaces[i] = RefInterface(cfg.interfaces[i].number)
      /\ {cfg.interfaces[i].number : i \in DOMAIN cfg.interfaces} =
            {seen[i].no : i \in {j \in DOMAIN seen : IsInterface(j)}}
      /\ cfg.extra = Here(LAMBDA i : Home(i) = 0)
      /\ \A i \in DOMAIN cfg.interfaces : \A a \in DOMAIN cfg.interfaces[i].alts :
            LET alt == cfg.interfaces[i].alts[a] IN StreamingParse(alt) = RefStreaming(alt.pos)
=============================================================================
