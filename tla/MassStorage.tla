---------------------------- MODULE MassStorage ----------------------------
(***************************************************************************)
(* The Bulk-Only Transport of src/msc/mod.rs: threads that share one       *)
(* MassStorage run commands (CBW, data, CSW) under its lock, with          *)
(* clear-halt and reset recovery, REQUEST SENSE and UNIT ATTENTION         *)
(* retries, against a device that may answer late, stall, or never see the *)
(* reset.  Data is abstracted to the tag of the command it belongs to.     *)
(***************************************************************************)
EXTENDS Naturals

CONSTANTS Callers,    \* threads sharing the MassStorage
          MaxCalls,   \* bound on the number of calls
          Retries,    \* UNIT_ATTENTION_RETRIES
          MaxFaults,  \* bound on timeouts, lost resets and resets by hand
          None

VARIABLES mutex,    \* MassStorage.state: who holds it
          nextTag,  \* State.tag
          call,     \* the call of each thread
          dev,      \* the device
          calls,    \* calls left within the bound
          faults    \* faults left within the bound

vars == <<mutex, nextTag, call, dev, calls, faults>>

\* One call: where it is, the transport it runs, the command whose sense it
\* asks for, whose data and whose sense it was given, and how it returned.
NoCall == [pc |-> "idle", op |-> "none", data |-> "none", tag |-> 0, failed |-> 0,
           attempts |-> 0, got |-> 0, sense |-> 0, ret |-> "none"]

\* What the device expects or offers next and for which command, one more
\* command block it has buffered, its halted endpoints, the commands that
\* succeeded, and the one its sense data is about.
NewDevice == [stage |-> "cbw", tag |-> 0, cbw |-> None, halts |-> {}, ran |-> {}, sense |-> 0]

Init ==
    /\ mutex = None /\ nextTag = 1 /\ calls = MaxCalls /\ faults = MaxFaults
    /\ call = [t \in Callers |-> NoCall]
    /\ dev = NewDevice

-----------------------------------------------------------------------------
(* The device *)

Begins(d, k, data) ==
    [d EXCEPT !.stage = IF data = "none" THEN "csw" ELSE data, !.tag = k, !.cbw = None]

\* A command block is expected, swallowed as data of the command before it, or
\* buffered until that one's status has been read.
CanTakeCbw(d) == d.stage \in {"cbw", "out"} \/ (d.stage # "stuck" /\ d.cbw = None)

TakesCbw(d, k, data) ==
    CASE d.stage = "cbw" -> Begins(d, k, data)
      [] d.stage = "out" -> [d EXCEPT !.stage = "csw"]
      [] OTHER           -> [d EXCEPT !.cbw = <<k, data>>]

\* The next thing on the IN endpoint is read: data or a status.
TakesIn(d, verdict) ==
    IF d.stage = "in" THEN [d EXCEPT !.stage = "csw"]
    ELSE LET e == IF d.cbw = None THEN [d EXCEPT !.stage = "cbw"]
                  ELSE Begins(d, d.cbw[1], d.cbw[2])
         IN  IF verdict = "pass" THEN [e EXCEPT !.ran = @ \cup {d.tag}]
             ELSE [e EXCEPT !.sense = d.tag]

\* Data where a command block is expected leaves it stuck until it is reset.
TakesOut(d) ==
    IF d.stage = "out" THEN [d EXCEPT !.stage = "csw"]
    ELSE [d EXCEPT !.stage = "stuck", !.halts = {"in", "out"}]

ClearHalt(d, ep) == IF d.stage = "stuck" THEN d ELSE [d EXCEPT !.halts = @ \ {ep}]

\* The device may end a data phase with a stall.
DeviceStalls ==
    /\ dev.stage \in {"in", "out"}
    /\ dev' = [dev EXCEPT !.stage = "csw", !.halts = @ \cup {dev.stage}]
    /\ UNCHANGED <<mutex, nextTag, call, calls, faults>>

-----------------------------------------------------------------------------
(* Calls *)

Set(t, c) == call' = [call EXCEPT ![t] = c]
Goto(t, pc) == Set(t, [call[t] EXCEPT !.pc = pc])

\* execute(), request_sense() and command() take the lock, transport() a tag.
Start(t, op, data) ==
    /\ call[t].pc = "idle" /\ mutex = None /\ calls > 0
    /\ calls' = calls - 1
    /\ mutex' = t /\ nextTag' = nextTag + 1
    /\ Set(t, [NoCall EXCEPT !.pc = "cbw", !.op = op, !.data = data, !.tag = nextTag])
    /\ UNCHANGED <<dev, faults>>

\* reset_recovery() called by the user takes no lock.
ResetByHand(t) ==
    /\ call[t].pc = "idle" /\ faults > 0
    /\ faults' = faults - 1
    /\ Set(t, [NoCall EXCEPT !.pc = "reset", !.op = "reset"])
    /\ UNCHANGED <<mutex, nextTag, dev, calls>>

\* The call returns and drops its guard.
Return(t, ret) ==
    /\ Set(t, [call[t] EXCEPT !.pc = "idle", !.ret = ret])
    /\ mutex' = IF mutex = t THEN None ELSE mutex

Bulk == {"cbw", "data", "csw", "csw2"}

\* The data phase of the transport: that of the command, or of REQUEST SENSE.
Phase(c) == IF c.failed # 0 THEN "in" ELSE c.data

Endpoint(c) == IF c.pc = "cbw" \/ (c.pc = "data" /\ Phase(c) = "out") THEN "out" ELSE "in"
Stalled(c) == Endpoint(c) \in dev.halts

\* The device never answers at this stage.
Silent(c) ==
    IF c.pc = "cbw" THEN ~CanTakeCbw(dev)
    ELSE dev.stage \in (IF Endpoint(c) = "out" THEN {"in", "csw"} ELSE {"cbw", "out"})

\* A phase fails: a timeout the device has nothing to do with, one it caused,
\* a stalled command block or a second stalled status; recover() follows.
PhaseFails(t) ==
    LET c == call[t] IN
    /\ c.pc \in Bulk
    /\ \/ faults > 0 /\ faults' = faults - 1
       \/ ~Stalled(c) /\ Silent(c) /\ UNCHANGED faults
       \/ Stalled(c) /\ c.pc \in {"cbw", "csw2"} /\ UNCHANGED faults
    /\ Goto(t, "reset")
    /\ UNCHANGED <<mutex, nextTag, dev, calls>>

\* recover() leaves out the reset of a device that is gone.
NoDevice(t) ==
    /\ call[t].pc \in Bulk /\ faults > 0
    /\ faults' = faults - 1
    /\ Return(t, "error")
    /\ UNCHANGED <<nextTag, dev, calls>>

SendCbw(t) ==
    LET c == call[t] IN
    /\ c.pc = "cbw" /\ ~Stalled(c) /\ ~Silent(c)
    /\ dev' = TakesCbw(dev, c.tag, Phase(c))
    /\ Goto(t, IF Phase(c) = "none" THEN "csw" ELSE "data")
    /\ UNCHANGED <<mutex, nextTag, calls, faults>>

\* bulk_read takes whatever the device sends next for the data of this command;
\* a status wrapper is shorter than the data of any command.
DataIn(t) ==
    LET c == call[t] IN
    /\ c.pc = "data" /\ Phase(c) = "in" /\ ~Stalled(c) /\ ~Silent(c) /\ dev.stage # "stuck"
    /\ Set(t, [c EXCEPT !.pc = "csw", !.got = IF dev.stage = "in" THEN dev.tag ELSE 0,
                        !.sense = dev.sense])
    /\ \E verdict \in {"pass", "fail"} : dev' = TakesIn(dev, verdict)
    /\ UNCHANGED <<mutex, nextTag, calls, faults>>

DataOut(t) ==
    LET c == call[t] IN
    /\ c.pc = "data" /\ Phase(c) = "out" /\ ~Stalled(c) /\ ~Silent(c)
    /\ dev' = TakesOut(dev)
    /\ Goto(t, "csw")
    /\ UNCHANGED <<mutex, nextTag, calls, faults>>

\* A stalled data phase, or the first stall of the status phase.
Unstall(t) ==
    LET c == call[t] IN
    /\ c.pc \in {"data", "csw"} /\ Stalled(c)
    /\ dev' = ClearHalt(dev, Endpoint(c))
    /\ Goto(t, IF c.pc = "data" THEN "csw" ELSE "csw2")
    /\ UNCHANGED <<mutex, nextTag, calls, faults>>

\* Mutant: the tag of the status wrapper is not compared.
ValidCswAnyTag(c) == dev.stage = "csw"

\* Length, signature and tag of what was read for the status wrapper.
ValidCsw(c) == dev.stage = "csw" /\ dev.tag = c.tag

\* Where transport() leaves the call: at its end, or command() goes on.
AfterCsw(t, verdict) ==
    LET c == call[t] IN
    IF ~ValidCsw(c) \/ verdict = "phase" THEN Goto(t, "reset") /\ UNCHANGED mutex
    ELSE IF c.failed # 0 /\ verdict = "pass" /\ c.got # 0 THEN Goto(t, "judge") /\ UNCHANGED mutex
    ELSE IF c.failed # 0 THEN Return(t, "error")
    ELSE IF verdict = "pass" THEN Return(t, "passed")
    ELSE IF c.op = "execute" THEN Return(t, "failed")
    ELSE Goto(t, "ask") /\ UNCHANGED mutex

ReadCsw(t) ==
    LET c == call[t] IN
    /\ c.pc \in {"csw", "csw2"} /\ ~Stalled(c) /\ ~Silent(c) /\ dev.stage # "stuck"
    /\ \E verdict \in {"pass", "fail", "phase"} :
          dev' = TakesIn(dev, verdict) /\ AfterCsw(t, verdict)
    /\ UNCHANGED <<nextTag, calls, faults>>

\* Mutant: command() lets go of the lock before it asks for the sense data.
AskSenseUnlocked(t) ==
    LET c == call[t] IN
    /\ c.pc = "ask"
    /\ IF mutex = t THEN mutex' = None /\ UNCHANGED <<nextTag, call>>
       ELSE /\ mutex = None /\ mutex' = t
            /\ nextTag' = nextTag + 1
            /\ Set(t, [c EXCEPT !.pc = "cbw", !.tag = nextTag, !.failed = c.tag,
                        !.got = 0, !.sense = 0])
    /\ UNCHANGED <<dev, calls, faults>>

\* sense_locked() in command(): the lock is still held.
AskSense(t) ==
    LET c == call[t] IN
    /\ c.pc = "ask"
    /\ nextTag' = nextTag + 1
    /\ Set(t, [c EXCEPT !.pc = "cbw", !.tag = nextTag, !.failed = c.tag,
                        !.got = 0, !.sense = 0])
    /\ UNCHANGED <<mutex, dev, calls, faults>>

\* command() retries after UNIT ATTENTION; any other sense is an error.
Judge(t, unitAttention) ==
    LET c == call[t] IN
    /\ c.pc = "judge"
    /\ IF unitAttention /\ c.attempts < Retries
       THEN /\ nextTag' = nextTag + 1
            /\ Set(t, [c EXCEPT !.pc = "cbw", !.tag = nextTag, !.failed = 0, !.got = 0,
                                !.attempts = @ + 1])
            /\ UNCHANGED mutex
       ELSE Return(t, "failed") /\ UNCHANGED nextTag
    /\ UNCHANGED <<dev, calls, faults>>

-----------------------------------------------------------------------------
(* reset_recovery() *)

\* The class request resets the device, or fails and ends the recovery.
ResetDevice(t) ==
    /\ call[t].pc = "reset"
    /\ \/ /\ dev' = [NewDevice EXCEPT !.halts = dev.halts, !.ran = dev.ran]
          /\ Goto(t, "clear") /\ UNCHANGED <<mutex, faults>>
       \/ /\ faults > 0 /\ faults' = faults - 1
          /\ Return(t, "error") /\ UNCHANGED dev
    /\ UNCHANGED <<nextTag, calls>>

\* clear_halt of the IN and then of the OUT endpoint.
ClearHalts(t) ==
    /\ call[t].pc = "clear"
    /\ IF "in" \in dev.halts THEN dev' = ClearHalt(dev, "in") /\ UNCHANGED <<call, mutex>>
       ELSE dev' = ClearHalt(dev, "out") /\ Return(t, "error")
    /\ UNCHANGED <<nextTag, calls, faults>>

Next ==
    \/ DeviceStalls
    \/ \E t \in Callers :
          \/ \E op \in {"execute", "command"}, data \in {"none", "in", "out"} : Start(t, op, data)
          \/ ResetByHand(t) \/ PhaseFails(t) \/ NoDevice(t)
          \/ SendCbw(t) \/ DataIn(t) \/ DataOut(t) \/ Unstall(t) \/ ReadCsw(t) \/ AskSense(t)
          \/ \E unitAttention \in BOOLEAN : Judge(t, unitAttention)
          \/ ResetDevice(t) \/ ClearHalts(t)

Spec == Init /\ [][Next]_vars

-----------------------------------------------------------------------------

\* transport(): a command reported as passed has been executed by the device,
\* and data delivered in full (what read_blocks() insists on) is its own,
\* whatever timeouts and lost resets left in the device before.
PassedIsOwn ==
    \A t \in Callers :
        call[t].ret = "passed" =>
            call[t].tag \in dev.ran /\ call[t].got \in {0, call[t].tag}

\* command(): the sense data it judges a failed command by is the sense data of
\* that command; a device that was reset has none.
SenseIsOwn ==
    \A t \in Callers :
        call[t].pc = "judge" => call[t].sense \in {0, call[t].failed}
=============================================================================
