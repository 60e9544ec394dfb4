----------------------------- MODULE NetControl -----------------------------
(***************************************************************************)
(* Opening a network function (open_interface() of src/net/mod.rs) and its *)
(* control channel.  For RNDIS (src/net/rndis.rs) every question is an     *)
(* encapsulated command whose answer is polled for, among late answers to  *)
(* earlier questions, link indications and keepalives; ECM and NCM use     *)
(* plain control requests and a notification endpoint.                     *)
(***************************************************************************)
EXTENDS Naturals, Sequences

CONSTANTS Tries,       \* how often exchange() polls for an answer (20)
          MaxChanges,  \* bound on link changes
          MaxFaults,   \* bound on failed requests and refused commands
          MaxCalls     \* bound on set_promiscuous() calls

VARIABLES kind,       \* NetKind
          caps,       \* what the device declared: packet filter, large blocks
          pc,         \* the step of open_interface(), "open" or how it failed
          ask,        \* the question exchange() is waiting on
          nextId,     \* Control.next_id
          ctlLink,    \* Control.link
          connected,  \* LinkState.connected
          alt,        \* the data interface's alternate setting
          filter,     \* the packet filter the device has
          owed,       \* commands the device has not answered
          replies,    \* what the device has queued for the host
          up,         \* the device's link
          heard,      \* the link in the last report the host has read
          taken,      \* what was asked last and what was taken for the answer
          halted,     \* close() has sent HALT
          left        \* link changes, faults and calls left within the bounds

vars == <<kind, caps, pc, ask, nextId, ctlLink, connected, alt, filter, owed, replies, up,
          heard, taken, halted, left>>
device == <<owed, replies, up, halted>>
opening == <<kind, caps, alt>>

NoAsk == [type |-> "none", what |-> "none", id |-> 0, tries |-> 0]

\* Functional::parse() and NtbParameters::parse(): whether the packet filter is
\* supported and whether blocks larger than RX_BLOCK are offered.
Init ==
    /\ kind \in {"Ecm", "Ncm", "Rndis"}
    /\ caps \in [filter : BOOLEAN, large : BOOLEAN]
    /\ kind = "Ecm" => caps.filter
    /\ kind # "Ncm" => ~caps.large
    /\ kind = "Rndis" => caps.filter
    /\ pc = IF kind = "Rndis" THEN "init" ELSE "reset"
    /\ ask = NoAsk /\ nextId = 1
    /\ ctlLink = "unknown" /\ connected = "unknown" /\ heard = "unknown"
    /\ alt = "data" /\ filter = "none" /\ halted = FALSE
    /\ owed = <<>> /\ replies = <<>> /\ up \in {"up", "down"} /\ taken = <<"none", "none">>
    /\ left = [changes |-> MaxChanges, faults |-> MaxFaults, calls |-> MaxCalls]

-----------------------------------------------------------------------------
(* The RNDIS device *)

\* The first unanswered command is answered; it may be refused.
DeviceAnswers(ok) ==
    /\ owed # <<>>
    /\ ok \/ left.faults > 0
    /\ left' = IF ok THEN left ELSE [left EXCEPT !.faults = @ - 1]
    /\ LET c == Head(owed) IN
       replies' = Append(replies, [type |-> c.type, what |-> c.what, id |-> c.id, ok |-> ok, link |-> up])
    /\ owed' = Tail(owed)
    /\ filter' = IF ok /\ Head(owed).type = "set" THEN Head(owed).what ELSE filter
    /\ UNCHANGED <<opening, pc, ask, nextId, ctlLink, connected, up, heard, taken, halted>>

\* A link change is indicated; a keepalive asks for an acknowledgement.
DeviceSpeaks(type) ==
    /\ kind = "Rndis" /\ left.changes > 0
    /\ left' = [left EXCEPT !.changes = @ - 1]
    /\ up' = IF type = "indicate" THEN (IF up = "up" THEN "down" ELSE "up") ELSE up
    /\ replies' = Append(replies, [type |-> type, what |-> "none", id |-> 0, ok |-> TRUE, link |-> up'])
    /\ UNCHANGED <<opening, pc, ask, nextId, ctlLink, connected, filter, owed, heard, taken, halted>>

-----------------------------------------------------------------------------
(* exchange() *)

Type(what) == CASE what = "init" -> "init"
                [] what \in {"directed", "promiscuous", "off"} -> "set"
                [] OTHER -> "query"

Ask(what) ==
    /\ ask' = [type |-> Type(what), what |-> what, id |-> nextId, tries |-> 0]
    /\ nextId' = nextId + 1
    /\ owed' = Append(owed, [type |-> Type(what), what |-> what, id |-> nextId])

\* After init and mac, open_interface() puts up with a question that fails.
Then(what) ==
    CASE what = "init" -> "mac" [] what = "mac" -> "frame" [] what = "frame" -> "status"
      [] what = "status" -> "speed" [] what = "speed" -> "filter" [] what = "off" -> "halt"
      [] OTHER -> IF pc = "filter" THEN "stream" ELSE "open"

Fatal(what) == what \in {"init", "mac", "directed"}

\* The question is over.  The answer to "status" is the link, unless one was
\* indicated while waiting: "An indication seen while waiting for replies is newer."
EndAsk(ok, link) ==
    /\ ask' = NoAsk
    /\ pc' = IF ~ok /\ Fatal(ask.what) /\ pc # "open" THEN "failed" ELSE Then(ask.what)
    /\ connected' = IF ask.what # "status" THEN connected
                    ELSE IF ctlLink' # "unknown" THEN ctlLink'
                    ELSE IF ok THEN link ELSE connected

\* Mutant: any completion of the same kind of command is taken.
IsAnswerByType(r) == r.type = ask.type

\* A completion of this command with this id.
IsAnswer(r) == r.type = ask.type /\ r.id = ask.id

NothingYet ==
    IF ask.tries + 1 = Tries THEN EndAsk(FALSE, "unknown")
    ELSE ask' = [ask EXCEPT !.tries = @ + 1] /\ UNCHANGED <<pc, connected>>

\* One round of exchange(): a stall (nothing queued), the answer, an indication,
\* a keepalive, or something else that is passed over.
Poll ==
    /\ ask # NoAsk
    /\ IF replies = <<>>
       THEN UNCHANGED <<replies, ctlLink, heard, taken>> /\ NothingYet
       ELSE LET r == Head(replies) IN
            /\ replies' = Tail(replies)
            /\ heard' = IF r.type = "indicate" \/ (r.what = "status" /\ r.ok) THEN r.link ELSE heard
            /\ ctlLink' = IF r.type = "indicate" THEN r.link ELSE ctlLink
            /\ IF IsAnswer(r)
               THEN EndAsk(r.ok, r.link) /\ taken' = <<ask.what, r.what>>
               ELSE NothingYet /\ UNCHANGED taken
    /\ UNCHANGED <<opening, nextId, filter, owed, up, halted, left>>

\* A control transfer of the exchange fails: the device is gone or broken.
PollFails ==
    /\ ask # NoAsk /\ left.faults > 0
    /\ left' = [left EXCEPT !.faults = @ - 1]
    /\ UNCHANGED ctlLink /\ EndAsk(FALSE, "unknown")
    /\ UNCHANGED <<opening, nextId, filter, device, heard, taken>>

-----------------------------------------------------------------------------
(* open_interface(), set_filter(), close() *)

\* initialize(), query() and, in set_filter(), set().
RndisStep ==
    /\ kind = "Rndis" /\ ask = NoAsk
    /\ pc \in {"init", "mac", "frame", "status", "speed", "filter"}
    /\ Ask(IF pc = "filter" THEN "directed" ELSE pc)
    /\ UNCHANGED <<opening, pc, ctlLink, connected, filter, replies, up, heard, taken, halted, left>>

CdcThen ==
    CASE pc = "reset"  -> IF kind = "Ncm" THEN "params" ELSE "mac"
      [] pc = "params" -> IF caps.large THEN "size" ELSE "mac"
      [] pc = "size"   -> "mac"
      [] pc = "mac"    -> "filter"
      [] pc = "filter" -> "stream"

\* ECM and NCM: alternate setting 0, the NTB parameters and input size, the MAC
\* address and the filter, which is not sent without support for it and whose
\* stall is forgiven.
CdcStep(ok) ==
    /\ kind # "Rndis" /\ pc \in {"reset", "params", "size", "mac", "filter"}
    /\ ok \/ (left.faults > 0 /\ (pc = "filter" => caps.filter))
    /\ left' = IF ok THEN left ELSE [left EXCEPT !.faults = @ - 1]
    /\ \/ (ok \/ pc = "filter") /\ pc' = CdcThen
       \/ ~ok /\ pc' = "failed"
    /\ alt' = IF ok /\ pc = "reset" THEN "zero" ELSE alt
    /\ filter' = IF ok /\ pc = "filter" /\ caps.filter THEN "directed" ELSE filter
    /\ UNCHANGED <<kind, caps, ask, nextId, ctlLink, connected, device, heard, taken>>

\* The end of open_interface(): for ECM and NCM the alternate setting with the
\* endpoints and start_notifications(), then start_receiving().  If that fails
\* the device is dropped, which is a close() where some transfer was started.
StartStreaming(ok) ==
    /\ pc = "stream" /\ ask = NoAsk
    /\ ok \/ left.faults > 0
    /\ left' = IF ok THEN left ELSE [left EXCEPT !.faults = @ - 1]
    /\ alt' = IF kind # "Rndis" THEN "data" ELSE alt
    /\ \/ pc' = (IF ok THEN "open" ELSE "failed") /\ UNCHANGED <<ask, nextId, owed>>
       \/ ~ok /\ kind = "Rndis" /\ pc' = "close" /\ Ask("off")
    /\ UNCHANGED <<kind, caps, ctlLink, connected, filter, replies, up, heard, taken, halted>>

\* start_notifications(): decode_notification() of a Connection.
Notified(link) ==
    /\ kind # "Rndis" /\ pc = "open" /\ left.changes > 0
    /\ left' = [left EXCEPT !.changes = @ - 1]
    /\ heard' = link /\ connected' = link
    /\ UNCHANGED <<opening, pc, ask, nextId, ctlLink, filter, device, taken>>

\* set_promiscuous() of an open device: set_filter() once more, which may fail.
SetPromiscuous(on) ==
    /\ pc = "open" /\ ask = NoAsk /\ left.calls > 0
    /\ left' = [left EXCEPT !.calls = @ - 1]
    /\ LET what == IF on THEN "promiscuous" ELSE "directed" IN
       IF kind = "Rndis" THEN Ask(what) /\ UNCHANGED filter
       ELSE /\ filter' \in IF caps.filter THEN {what, filter} ELSE {filter}
            /\ UNCHANGED <<ask, nextId, owed>>
    /\ UNCHANGED <<opening, pc, ctlLink, connected, replies, up, heard, taken, halted>>

\* close(): for RNDIS the filter is cleared, whatever comes of it, and HALT is sent.
Close ==
    /\ pc = "open" /\ ask = NoAsk
    /\ IF kind = "Rndis" THEN pc' = "close" /\ Ask("off")
       ELSE pc' = "closed" /\ UNCHANGED <<ask, nextId, owed>>
    /\ UNCHANGED <<opening, ctlLink, connected, filter, replies, up, heard, taken, halted, left>>

Halt ==
    /\ pc = "halt"
    /\ halted' = TRUE /\ pc' = "closed"
    /\ UNCHANGED <<opening, ask, nextId, ctlLink, connected, filter, owed, replies, up, heard, taken, left>>

Next ==
    \/ \E ok \in BOOLEAN : DeviceAnswers(ok) \/ CdcStep(ok) \/ StartStreaming(ok) \/ SetPromiscuous(ok)
    \/ \E type \in {"indicate", "keepalive"} : DeviceSpeaks(type)
    \/ \E link \in {"up", "down"} : Notified(link)
    \/ Poll \/ PollFails \/ RndisStep \/ Close \/ Halt

Spec == Init /\ [][Next]_vars

-----------------------------------------------------------------------------

\* What open_interface() takes from the control channel is what it asked for and
\* current: exchange() never takes the late answer to an earlier question for the
\* answer to this one, and once the link has been asked for, the state shown is
\* that of the last report read by then, be it the answer or an indication.
AnswersAreCurrent ==
    /\ taken[1] = taken[2]
    /\ pc = "speed" /\ ask = NoAsk => connected = heard
=============================================================================
