----------------------------- MODULE HidReport -----------------------------
(***************************************************************************)
(* ReportDescriptor::parse() of src/hid/report.rs, one item at a time, and *)
(* the reading of a report.  An item is its tag, its value and its length  *)
(* in bytes; a usage of four bytes carries its page.  Sizes are bounded by *)
(* MaxBits instead of 32 bits, a usage is page * UsageSpan + id with a     *)
(* small UsageSpan instead of 2^16, and of the global items those that     *)
(* only travel with a field (physical range, unit) are one.                *)
(***************************************************************************)
EXTENDS Integers, Sequences, SequencesExt, FiniteSetsExt

CONSTANTS Items,    \* items a device may send: [tag, val, len]
          Prefix,   \* items every descriptor starts with
          MaxItems, \* bound on the items after these
          MaxBits,  \* u32::MAX
          UsageSpan \* usages of a page

VARIABLES seen,    \* the items read so far
          g,       \* Globals
          stack,   \* pushed Globals
          locals,  \* raw_usages, raw_min and raw_max
          fields,  \* ReportDescriptor.fields
          bits,    \* ReportDescriptor.reports: the size of each report
          depth,   \* open collections
          apps,    \* application_usages
          status   \* "parsing", "ok" or "error"

vars == <<seen, g, stack, locals, fields, bits, depth, apps, status>>

NoGlobals == [page |-> 0, unit |-> 0, min |-> 0, max |-> 0, maxlen |-> 0,
              size |-> 0, count |-> 0, id |-> 0]
NoLocals == [usages |-> <<>>, min |-> <<>>, max |-> <<>>]
Globals == DOMAIN NoGlobals
Types == {"Input", "Output", "Feature"}

-----------------------------------------------------------------------------

\* A usage takes the page that is current at the main item, unless it has its own.
Resolve(u, page) == IF u.len = 4 THEN u.val ELSE page * UsageSpan + u.val
ResolveAll(s, page) == [i \in DOMAIN s |-> Resolve(s[i], page)]

\* Usages: a range, if both ends and no list were given.
UsagesOf(l, page) ==
    IF l.min # <<>> /\ l.max # <<>> /\ l.usages = <<>>
    THEN [range |-> TRUE, list |-> ResolveAll(l.min \o l.max, page)]
    ELSE [range |-> FALSE, list |-> ResolveAll(l.usages, page)]

\* The size of the report so far; report_bits_mut() starts a new one at 0.
BitsOf(type, id) == IF <<type, id>> \in DOMAIN bits THEN bits[<<type, id>>] ELSE 0

Fails == status' = "error" /\ UNCHANGED <<g, stack, locals, fields, bits, depth, apps>>

LocalKey(i) == CASE i.tag = "usage" -> "usages" [] i.tag = "usage_min" -> "min" [] OTHER -> "max"

\* Mutant: a usage is resolved with the page that is current when it is read.
ReadLocalEarly(i) ==
    /\ i.tag \in {"usage", "usage_min", "usage_max"}
    /\ LET u == [i EXCEPT !.val = Resolve(i, g.page), !.len = 4] IN
       locals' = [locals EXCEPT ![LocalKey(i)] = IF i.tag = "usage" THEN Append(@, u) ELSE <<u>>]
    /\ UNCHANGED <<g, stack, fields, bits, depth, apps, status>>

\* A usage waits for the main item.
ReadLocal(i) ==
    /\ i.tag \in {"usage", "usage_min", "usage_max"}
    /\ locals' = [locals EXCEPT ![LocalKey(i)] = IF i.tag = "usage" THEN Append(@, i) ELSE <<i>>]
    /\ UNCHANGED <<g, stack, fields, bits, depth, apps, status>>

\* A global item stays in force until it is changed; report ID 0 is refused.
ReadGlobal(i) ==
    /\ i.tag \in Globals
    /\ IF i.tag = "id" /\ i.val = 0 THEN Fails
       ELSE g' = [g EXCEPT ![i.tag] = i.val, !.maxlen = IF i.tag = "max" THEN i.len ELSE @]
            /\ UNCHANGED <<stack, locals, fields, bits, depth, apps, status>>

Push(i) ==
    /\ i.tag = "push"
    /\ stack' = Append(stack, g) /\ UNCHANGED <<g, locals, fields, bits, depth, apps, status>>

Pop(i) ==
    /\ i.tag = "pop"
    /\ IF stack = <<>> THEN Fails
       ELSE g' = Last(stack) /\ stack' = Front(stack) /\ UNCHANGED <<locals, fields, bits, depth, apps, status>>

\* Logical Maximum is unsigned when Logical Minimum is not negative.
LogicalMax == IF g.min >= 0 /\ g.max < 0 THEN g.max + 256 ^ g.maxlen ELSE g.max

\* Input, Output or Feature: a field behind the earlier ones of its report.  The
\* locals end with every main item.
ReadField(i) ==
    LET total == g.size * g.count
        at == BitsOf(i.tag, g.id)
    IN
    /\ i.tag \in Types
    /\ IF total > MaxBits \/ at + total > MaxBits THEN Fails
       ELSE /\ fields' = Append(fields, [type |-> i.tag, id |-> g.id, offset |-> at, size |-> g.size,
                                         count |-> g.count, min |-> g.min, max |-> LogicalMax, unit |-> g.unit,
                                         usages |-> UsagesOf(locals, g.page), item |-> Len(seen) + 1])
            /\ bits' = (<<i.tag, g.id>> :> at + total) @@ bits
            /\ locals' = NoLocals /\ UNCHANGED <<g, stack, depth, apps, status>>

\* The usage of an outermost application collection (value 1) says what it is.
ReadCollection(i) ==
    LET u == ResolveAll(IF locals.usages # <<>> THEN locals.usages ELSE locals.min, g.page) IN
    /\ i.tag = "collection"
    /\ apps' = IF depth = 0 /\ i.val = 1 /\ u # <<>> THEN Append(apps, u[1]) ELSE apps
    /\ depth' = depth + 1 /\ locals' = NoLocals
    /\ UNCHANGED <<g, stack, fields, bits, status>>

EndCollection(i) ==
    /\ i.tag = "end"
    /\ IF depth = 0 THEN Fails
       ELSE depth' = depth - 1 /\ locals' = NoLocals /\ UNCHANGED <<g, stack, fields, bits, apps, status>>

\* An unknown main item ends the locals too; other unknown items are skipped.
ReadUnknown(i) ==
    /\ i.tag \in {"main", "other"}
    /\ locals' = IF i.tag = "main" THEN NoLocals ELSE locals
    /\ UNCHANGED <<g, stack, fields, bits, depth, apps, status>>

Read(i) ==
    /\ status = "parsing" /\ Len(seen) < Len(Prefix) + MaxItems
    /\ seen' = Append(seen, i)
    /\ \/ ReadLocal(i) \/ ReadGlobal(i) \/ Push(i) \/ Pop(i)
       \/ ReadField(i) \/ ReadCollection(i) \/ EndCollection(i) \/ ReadUnknown(i)

\* The end of the descriptor, or a truncated item.
Finish ==
    /\ status = "parsing" /\ status' = "ok"
    /\ UNCHANGED <<seen, g, stack, locals, fields, bits, depth, apps>>

\* Prefix holds global items only.
Init ==
    /\ seen = Prefix
    /\ g = FoldLeft(LAMBDA h, i : [h EXCEPT ![i.tag] = i.val], NoGlobals, Prefix)
    /\ stack = <<>> /\ locals = NoLocals /\ fields = <<>> /\ bits = <<>>
    /\ depth = 0 /\ apps = <<>> /\ status = "parsing"

Next == (\E i \in Items : Read(i)) \/ Finish

Spec == Init /\ [][Next]_vars

-----------------------------------------------------------------------------
(* Reading a report *)

Absent == -1

\* uses_report_ids(), and strip_id() of a report given as its bytes.
UsesIds == \E k \in DOMAIN seen : seen[k].tag = "id"
StripId(report) == IF UsesIds /\ report # <<>> THEN <<report[1], Tail(report)>> ELSE <<0, report>>

\* Usages::get(): the last usage of a list repeats, a range ends.
Usage(u, index) ==
    IF ~u.range
    THEN IF u.list = <<>> THEN Absent ELSE IF index < Len(u.list) THEN u.list[index + 1] ELSE Last(u.list)
    ELSE IF u.list[1] + index <= u.list[2] THEN u.list[1] + index ELSE Absent

\* array_usage(): the usage a value of an array field selects.
ArrayUsage(f, value) ==
    IF value < f.min \/ value > f.max \/ (~f.usages.range /\ value - f.min >= Len(f.usages.list)) THEN Absent
    ELSE Usage(f.usages, value - f.min)

\* Field::value() of a payload given as its set of one bits: element `index`,
\* sign-extended when the logical minimum is negative.
Value(f, report, index) ==
    LET start == f.offset + index * f.size
        raw == SumSet({2 ^ k : k \in {j \in 0 .. f.size - 1 : start + j \in report}})
    IN  IF f.min < 0 /\ start + f.size - 1 \in report THEN raw - 2 ^ f.size ELSE raw

-----------------------------------------------------------------------------
(* The reference: what is in force at item i, told from its place *)

Tags(a, b, t) == Cardinality({k \in a .. b : seen[k].tag = t})

\* The Push at p and the Pop at q belong together.
Paired(p, q) ==
    /\ seen[p].tag = "push" /\ seen[q].tag = "pop" /\ p < q
    /\ Tags(p, q, "push") = Tags(p, q, "pop")
    /\ \A k \in p .. q - 1 : Tags(p, k, "push") > Tags(p, k, "pop")

\* The last setting before i that no Pop has undone.
InForce(t, i) ==
    LET set == {k \in 1 .. i - 1 : /\ seen[k].tag = t
                                   /\ ~ \E p, q \in 1 .. i - 1 : p < k /\ k < q /\ Paired(p, q)}
    IN  IF set = {} THEN NoGlobals[t] ELSE seen[Max(set)].val

IsMain(k) == seen[k].tag \in Types \cup {"collection", "end", "main"}

\* The usage items since the main item before i.
Own(t, i) ==
    LET from == Max({0} \cup {k \in 1 .. i - 1 : IsMain(k)})
    IN  SelectSeq(SubSeq(seen, from + 1, i - 1), LAMBDA x : x.tag = t)

RefOffset(i) ==
    LET same == {k \in 1 .. i - 1 : seen[k].tag = seen[i].tag /\ InForce("id", k) = InForce("id", i)}
    IN  MapThenSumSet(LAMBDA k : InForce("size", k) * InForce("count", k), same)

\* Every field is what the items before it say: each global is the last one set
\* that no Pop has undone, a usage is of the page in force at the main item and
\* of that main item alone, the fields of a report lie side by side in order and
\* fill it, an array field maps its values one to one to its usages, and a value
\* is decoded from the element's own bits.
FieldsAsDeclared ==
    status = "ok" =>
      /\ Len(fields) = Cardinality({k \in DOMAIN seen : seen[k].tag \in Types})
      /\ \A j \in DOMAIN fields : LET f == fields[j] i == f.item IN
           /\ f.type = seen[i].tag /\ f.offset = RefOffset(i)
           /\ \A t \in {"id", "size", "count", "min", "unit"} : f[t] = InForce(t, i)
           /\ (f.max - InForce("max", i)) % 256 = 0 /\ (f.min >= 0 => f.max >= 0)
           /\ f.usages.range => /\ Own("usage", i) = <<>>
                               /\ f.usages.list = ResolveAll(<<Last(Own("usage_min", i)), Last(Own("usage_max", i))>>,
                                                             InForce("page", i))
           /\ \A v, w \in f.min .. f.min + 3 :
                LET a == ArrayUsage(f, v) b == ArrayUsage(f, w) IN
                (a # Absent /\ a = b /\ (f.usages.range \/ IsInjective(f.usages.list))) => v = w
           /\ ~f.usages.range => f.usages.list = ResolveAll(Own("usage", i), InForce("page", i))
           /\ \A e \in 0 .. f.count - 1 : f.size > 0 =>
                LET own == f.offset + e * f.size .. f.offset + (e + 1) * f.size - 1
                IN  /\ own \subseteq 0 .. bits[<<f.type, f.id>>] - 1
                    /\ \A report \in SUBSET own :
                         LET v == Value(f, report, e) IN
                         /\ Value(f, report \cup ((0 .. bits[<<f.type, f.id>>] - 1) \ own), e) = v
                         /\ v \in IF f.min < 0 THEN -(2 ^ (f.size - 1)) .. 2 ^ (f.size - 1) - 1
                                  ELSE 0 .. 2 ^ f.size - 1
=============================================================================
