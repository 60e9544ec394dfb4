----------------------------- MODULE MCClasses ------------------------------
(***************************************************************************)
(* The class drivers, the parsers, the front of a transfer and the handles *)
(* of Windows for TLC: a behaviour is one of one of these parts, and the   *)
(* others have no state.                                                   *)
(***************************************************************************)
EXTENDS Integers, TLC, SequencesExt

CONSTANTS Callers,  \* threads that share a device, a port, a transfer or a unit
          MscCalls, MscFaults, Retries,
          SerialCalls, SerialFaults, MaxBytes,
          Ring, Parts, MaxPayloads, FrameQueue,
          Receives, RxQueue, TxQueue, MaxRxErrors, MaxFrames,
          Tries, LinkChanges, CtlFaults, CtlCalls,             \* of NetControl
          Tasks, MaxSubmits, MaxChanges,                       \* of TransferFront
          CamBandwidth, CamSizes, CamPacket, CamTransfers, CamStarts, CamFaults,  \* of UvcStart
          FtdiPorts, FtdiRates,                                \* of Ftdi
          FrmLengths, FrmPackets, FrmParams, FrmMax,           \* of NetFraming
          BlkCount, BlkSize, BlkTransfer, BlkMaxLba, BlkMaxBlocks, BlkLengths, BlkCalls, BlkFaults, BlkPolls,
          WinIfaces, WinFirstOf, WinBound, WinSettings, WinEndpoints, WinCalls, WinFaults,
          None

\* Finitely many threads, TX_QUEUE is a count, a ring has transfers, and nobody is None
\* or a lock that is free.
ASSUME ClassesAssumption ==
    /\ IsFiniteSet(Callers) /\ {None, "free"} \cap Callers = {}
    /\ TxQueue \in Nat /\ Ring # {}

\* A video frame has a payload, and its frame id is never taken for none.
ASSUME StreamAssumption ==
    /\ IsFiniteSet(Ring) /\ Parts \in Nat \ {0} /\ FrameQueue \in Nat
    /\ None \notin {0, 1}

\* Interfaces, and with them functions, are known by number.
ASSUME WinAssumption == WinIfaces \subseteq Nat /\ WinBound \subseteq WinIfaces

\* Bandwidths and payloads are sizes, and a packet holds something.
ASSUME CameraAssumption ==
    CamBandwidth \in Seq(Nat) /\ CamSizes \subseteq Nat /\ CamPacket \in Nat \ {0}

\* Rates are numbers, and at most 255 interfaces are numbered from 0.
ASSUME RateAssumption == FtdiRates \subseteq Nat /\ FtdiPorts \subseteq 0..254

\* send() takes frames with a header, and a bulk packet holds more than one byte (8 at least).
ASSUME FramingAssumption ==
    /\ FrmLengths \subseteq Nat /\ FrmPackets \subseteq Nat \ {0, 1} /\ FrmMax \in Nat
    /\ \A n \in FrmLengths : n >= 14
    /\ FrmParams \subseteq [align : Nat, divisor : Nat, remainder : Nat, max : Nat]

\* A block holds something, and a command moves at least one.
ASSUME BlockAssumption ==
    /\ BlkCount \in Nat /\ BlkSize \in Nat \ {0} /\ BlkTransfer \in Nat
    /\ BlkCalls \in Nat /\ BlkFaults \in Nat
    /\ BlkMaxLba \in Nat /\ BlkMaxBlocks \in Nat \ {0} /\ BlkLengths \subseteq Nat

VARIABLES part,  \* which driver this behaviour is of
          mutex, nextTag, mCall, mDev, calls, faults,
          isochronous, xfer, order, done, sent, asm, frames, uDropped, received, stopped,
          failure, user, uEvt,
          nRx, queue, handler, ended, recv, send, txInFlight, tx, nEvt, closing, gone, nLeft,
          kind, st, sDev, sCall, sRx, rxOwner, latch, next, got, sDropped, timedOut,
          unreported, asked, contended, failed, sLeft,
          cKind, caps, cPc, ask, nextId, ctlLink, connected, cAlt, filter, owed, replies, up,
          heard, taken, halted, cLeft,
          wire, pos, walked, fGot, verdict,
          disk, ref, bStrm, bRaced, bLeft,
          dSeen, cfg, curIface, curEp, dDone,
          hSeen, g, stack, locals, fields, bits, depth, apps, hStatus,
          inFlight, tStatus, callback, wakers, tEvt, thread, task, submits, tAsked, cleared,
          vIso, version, vDev, vStrm, orphans, crossed, vLeft,
          chip, port, rate, request,
          winusb, functions, claimed, setting, live, wCall, wSent, unsure, wClosing, wLeft

Msc == INSTANCE MassStorage WITH
    call <- mCall, dev <- mDev, MaxCalls <- MscCalls, MaxFaults <- MscFaults
Uvc == INSTANCE UvcStream WITH queue <- frames, dropped <- uDropped, evt <- uEvt
Net == INSTANCE Net WITH
    Receivers <- Callers, Senders <- Callers, rx <- nRx, evt <- nEvt, left <- nLeft
Serial == INSTANCE Serial WITH
    dev <- sDev, call <- sCall, rx <- sRx, dropped <- sDropped, left <- sLeft,
    MaxCalls <- SerialCalls, MaxFaults <- SerialFaults

Ctl == INSTANCE NetControl WITH
    kind <- cKind, pc <- cPc, alt <- cAlt, left <- cLeft,
    MaxChanges <- LinkChanges, MaxFaults <- CtlFaults, MaxCalls <- CtlCalls

\* NTB rules of devices, odd ones too, and what they put into a transfer.
NtbParams == [align : {0, 4, 16}, divisor : {0, 1, 4, 32}, remainder : {0, 2, 14}, max : {48, 100}]
NtbBatches == {<<>>, <<<<14>>>>, <<<<14, 15>>>>, <<<<14>>, <<16, 17>>>>, <<<<14>>, <<15>>, <<16>>>>}

Framing == INSTANCE NetFraming WITH
    got <- fGot, Lengths <- FrmLengths, Packets <- FrmPackets, U16Max <- FrmMax,
    Params <- FrmParams, Batches <- NtbBatches

\* The streams of a unit some of whose blocks are beyond the 10-byte commands.
Block == INSTANCE BlockIo WITH
    Streams <- Callers, BlockCount <- BlkCount, BlockSize <- BlkSize, MaxTransfer <- BlkTransfer,
    MaxLba <- BlkMaxLba, MaxBlocks <- BlkMaxBlocks, Lengths <- BlkLengths, MaxCalls <- BlkCalls,
    MaxFaults <- BlkFaults, MaxPolls <- BlkPolls,
    strm <- bStrm, raced <- bRaced, left <- bLeft

\* Two interfaces, one of them with alternate settings, and descriptors cut short.
Desc(ty, sub, no, alt, full) == [ty |-> ty, sub |-> sub, no |-> no, alt |-> alt, full |-> full]
Tree == INSTANCE Descriptors WITH
    Descs <- {Desc("INTERFACE", "none", 0, 0, TRUE), Desc("INTERFACE", "none", 1, 0, TRUE),
              Desc("INTERFACE", "none", 0, 1, TRUE), Desc("INTERFACE", "none", 0, 1, FALSE),
              Desc("ENDPOINT", "none", 1, 0, TRUE), Desc("ENDPOINT", "none", 1, 0, FALSE),
              Desc("COMPANION", "none", 0, 0, TRUE), Desc("CS", "header", 0, 0, TRUE),
              Desc("CS", "format", 0, 0, TRUE), Desc("CS", "frame", 1, 0, TRUE),
              Desc("CS", "frame", 2, 0, FALSE)},
    MaxDescs <- 4, seen <- dSeen, done <- dDone

\* Four items after the size and count of a field.
Item(tag, val) == [tag |-> tag, val |-> val, len |-> 1]
Hid == INSTANCE HidReport WITH
    Items <- {Item("page", 1), Item("page", 2), Item("usage", 1), Item("usage_min", 1),
              Item("usage_max", 2), [tag |-> "usage", val |-> 20, len |-> 4],
              Item("id", 0), Item("id", 1), Item("size", 2), Item("min", -1), Item("max", -1),
              Item("push", 0), Item("pop", 0), Item("Input", 2), Item("Feature", 2),
              Item("collection", 1), Item("end", 0), Item("main", 0), Item("other", 0)},
    Prefix <- <<Item("size", 1), Item("count", 2)>>, MaxItems <- 4, MaxBits <- 6,
    UsageSpan <- 8, seen <- hSeen, status <- hStatus

Observed == INSTANCE TransferFront WITH
    Waiters <- Callers,
    status <- tStatus, evt <- tEvt, asked <- tAsked

\* Four alternate settings, one without room.
FourSettings == <<2, 0, 5, 3>>

Start == INSTANCE UvcStart WITH
    Streams <- Callers, Bandwidth <- CamBandwidth, Sizes <- CamSizes, Packet <- CamPacket,
    Transfers <- CamTransfers, MaxStarts <- CamStarts, MaxFaults <- CamFaults,
    isochronous <- vIso, dev <- vDev, strm <- vStrm, left <- vLeft

\* Every chip, and rates around the ends and between the steps of the divisors.
FtdiChip == INSTANCE Ftdi WITH
    Versions <- {1, 2, 4, 5, 6, 7, 16, 153}, Ports <- FtdiPorts, Rates <- FtdiRates, sent <- request

\* A function of two interfaces, one of one interface, and one of another driver.
CompositeFirstOf == 0 :> 0 @@ 1 :> 0 @@ 2 :> 2 @@ 3 :> 3
CompositeEndpoints ==
    {[addr |-> 1, iface |-> 1, alt |-> 0], [addr |-> 2, iface |-> 1, alt |-> 1],
     [addr |-> 3, iface |-> 2, alt |-> 0]}

Win == INSTANCE WindowsHandle WITH
    Threads <- Callers, Ifaces <- WinIfaces, FirstOf <- WinFirstOf, Bound <- WinBound,
    Settings <- WinSettings, Endpoints <- WinEndpoints, MaxCalls <- WinCalls, MaxFaults <- WinFaults,
    call <- wCall, sent <- wSent, closing <- wClosing, left <- wLeft

mscVars == <<mutex, nextTag, mCall, mDev, calls, faults>>
uvcVars == <<isochronous, xfer, order, done, sent, asm, frames, uDropped, received, stopped,
             failure, user, uEvt>>
netVars == <<nRx, queue, handler, ended, recv, send, txInFlight, tx, nEvt, closing, gone, nLeft>>
serialVars == <<kind, st, sDev, sCall, sRx, rxOwner, latch, next, got, sDropped, timedOut,
                unreported, asked, contended, failed, sLeft>>
ctlVars == <<cKind, caps, cPc, ask, nextId, ctlLink, connected, cAlt, filter, owed, replies,
             up, heard, taken, halted, cLeft>>
framingVars == <<wire, pos, walked, fGot, verdict>>
blockVars == <<disk, ref, bStrm, bRaced, bLeft>>
treeVars == <<dSeen, cfg, curIface, curEp, dDone>>
hidVars == <<hSeen, g, stack, locals, fields, bits, depth, apps, hStatus>>
frontVars == <<inFlight, tStatus, callback, wakers, tEvt, thread, task, submits, tAsked, cleared>>
startVars == <<vIso, version, vDev, vStrm, orphans, crossed, vLeft>>
ftdiVars == <<chip, port, rate, request>>
winVars == <<winusb, functions, claimed, setting, live, wCall, wSent, unsure, wClosing, wLeft>>

\* The variables in four groups: streams of data, network, storage and parsers, others.
dataVars == <<uvcVars, serialVars>>
networkVars == <<netVars, ctlVars, framingVars>>
storageVars == <<mscVars, blockVars, treeVars, hidVars>>
otherVars == <<frontVars, startVars, ftdiVars, winVars>>
vars == <<part, dataVars, networkVars, storageVars, otherVars>>

\* A part that is not the one at hand has no state.
Init ==
    /\ part \in {"msc", "uvc", "net", "serial", "control", "framing", "block", "tree", "hid",
                "front", "start", "ftdi", "winusb"}
    /\ IF part = "msc" THEN Msc!Init ELSE
          /\ mutex = None /\ nextTag = None /\ mCall = None /\ mDev = None /\ calls = None
          /\ faults = None
    /\ IF part = "uvc" THEN Uvc!Init ELSE
          /\ isochronous = None /\ xfer = None /\ order = None /\ done = None /\ sent = None
          /\ asm = None /\ frames = None /\ uDropped = None /\ received = None /\ stopped = None
          /\ failure = None /\ user = None /\ uEvt = None
    /\ IF part = "net" THEN Net!Init ELSE
          /\ nRx = None /\ queue = None /\ handler = None /\ ended = None /\ recv = None
          /\ send = None /\ txInFlight = None /\ tx = None /\ nEvt = None /\ closing = None
          /\ gone = None /\ nLeft = None
    /\ IF part = "serial" THEN Serial!Init ELSE
          /\ kind = None /\ st = None /\ sDev = None /\ sCall = None /\ sRx = None /\ rxOwner = None
          /\ latch = None /\ next = None /\ got = None /\ sDropped = None /\ timedOut = None
          /\ unreported = None /\ asked = None /\ contended = None /\ failed = None /\ sLeft = None
    /\ IF part = "control" THEN Ctl!Init ELSE
          /\ cKind = None /\ caps = None /\ cPc = None /\ ask = None /\ nextId = None
          /\ ctlLink = None /\ connected = None /\ cAlt = None /\ filter = None /\ owed = None
          /\ replies = None /\ up = None /\ heard = None /\ taken = None /\ halted = None
          /\ cLeft = None
    /\ IF part = "framing" THEN Framing!Init ELSE
          /\ wire = None /\ pos = None /\ walked = None /\ fGot = None /\ verdict = None
    /\ IF part = "block" THEN Block!Init ELSE
          /\ disk = None /\ ref = None /\ bStrm = None /\ bRaced = None /\ bLeft = None
    /\ IF part = "tree" THEN Tree!Init ELSE
          /\ dSeen = None /\ cfg = None /\ curIface = None /\ curEp = None /\ dDone = None
    /\ IF part = "hid" THEN Hid!Init ELSE
          /\ hSeen = None /\ g = None /\ stack = None /\ locals = None /\ fields = None
          /\ bits = None /\ depth = None /\ apps = None /\ hStatus = None
    /\ IF part = "front" THEN Observed!Init ELSE
          /\ inFlight = None /\ tStatus = None /\ callback = None /\ wakers = None /\ tEvt = None
          /\ thread = None /\ task = None /\ submits = None /\ tAsked = None /\ cleared = None
    /\ IF part = "start" THEN Start!Init ELSE
          /\ vIso = None /\ version = None /\ vDev = None /\ vStrm = None /\ orphans = None
          /\ crossed = None /\ vLeft = None
    /\ IF part = "ftdi" THEN FtdiChip!Init ELSE
          /\ chip = None /\ port = None /\ rate = None /\ request = None
    /\ IF part = "winusb" THEN Win!Init ELSE
          /\ winusb = None /\ functions = None /\ claimed = None /\ setting = None /\ live = None
          /\ wCall = None /\ wSent = None /\ unsure = None /\ wClosing = None /\ wLeft = None

DataNext ==
    \/ part = "uvc" /\ Uvc!Next /\ UNCHANGED serialVars
    \/ part = "serial" /\ Serial!Next /\ UNCHANGED uvcVars

NetworkNext ==
    \/ part = "net" /\ Net!Next /\ UNCHANGED <<ctlVars, framingVars>>
    \/ part = "control" /\ Ctl!Next /\ UNCHANGED <<netVars, framingVars>>
    \/ part = "framing" /\ Framing!Next /\ UNCHANGED <<netVars, ctlVars>>

StorageNext ==
    \/ part = "msc" /\ Msc!Next /\ UNCHANGED <<blockVars, treeVars, hidVars>>
    \/ part = "block" /\ Block!Next /\ UNCHANGED <<mscVars, treeVars, hidVars>>
    \/ part = "tree" /\ Tree!Next /\ UNCHANGED <<mscVars, blockVars, hidVars>>
    \/ part = "hid" /\ Hid!Next /\ UNCHANGED <<mscVars, blockVars, treeVars>>

OtherNext ==
    \/ part = "front" /\ Observed!Next /\ UNCHANGED <<startVars, ftdiVars, winVars>>
    \/ part = "start" /\ Start!Next /\ UNCHANGED <<frontVars, ftdiVars, winVars>>
    \/ part = "ftdi" /\ FtdiChip!Next /\ UNCHANGED <<frontVars, startVars, winVars>>
    \/ part = "winusb" /\ Win!Next /\ UNCHANGED <<frontVars, startVars, ftdiVars>>

Next ==
    \/ DataNext /\ UNCHANGED <<part, networkVars, storageVars, otherVars>>
    \/ NetworkNext /\ UNCHANGED <<part, dataVars, storageVars, otherVars>>
    \/ StorageNext /\ UNCHANGED <<part, dataVars, networkVars, otherVars>>
    \/ OtherNext /\ UNCHANGED <<part, dataVars, networkVars, storageVars>>

Spec == Init /\ [][Next]_vars

\* Threads that share a device are interchangeable.
Symmetric == Permutations(Callers)

-----------------------------------------------------------------------------

\* MassStorage!PassedIsOwn: transport() and its tags.
PassedIsOwn == part = "msc" => Msc!PassedIsOwn

\* MassStorage!SenseIsOwn: command() and sense_locked().
SenseIsOwn == part = "msc" => Msc!SenseIsOwn

\* UvcStream!UnflaggedIsOneFrame: Assembler::payload().
UnflaggedIsOneFrame == part = "uvc" => Uvc!UnflaggedIsOneFrame

\* UvcStream!SilenceIsExplained: Pump::on_complete() and Stream::next().
SilenceIsExplained == part = "uvc" => Uvc!SilenceIsExplained

\* Net!SlotsExact: send() and its transmit slots.
SlotsExact == part = "net" => Net!SlotsExact

\* UvcStream!StoppedStaysStopped and Net!ClosedIsQuiet: Pump::stop() and
\* Repeating::drop leave nothing behind that submits itself again.
StoppedIsQuiet ==
    /\ part = "uvc" => Uvc!StoppedStaysStopped
    /\ part = "net" => Net!ClosedIsQuiet

\* Net!NoStrandedReceiver: recv() and Shared::end().
NoStrandedReceiver == part = "net" => Net!NoStrandedReceiver

\* Serial!DeviceIsAsAsked: set_lines(), set_line_config() and set_break().
DeviceIsAsAsked == part = "serial" => Serial!DeviceIsAsAsked

\* Serial!NothingReorderedOrLost: read_with_timeout(), purge() and modem_status().
NothingReorderedOrLost == part = "serial" => Serial!NothingReorderedOrLost

\* NetControl!AnswersAreCurrent: exchange() and its request ids.
AnswersAreCurrent == part = "control" => Ctl!AnswersAreCurrent

\* NetFraming!FramesSurvive: build_ntb16(), parse_ntb16() and PACKET messages.
FramesSurvive == part = "framing" => Framing!FramesSurvive

\* BlockIo!BytesAsWritten: the reads and writes of a BlockDevice.
BytesAsWritten == part = "block" => Block!BytesAsWritten

\* Descriptors!TreeIsFaithful: ConfigDescriptor::from_bytes().
TreeIsFaithful == part = "tree" => Tree!TreeIsFaithful

\* HidReport!FieldsAsDeclared: ReportDescriptor::parse().
FieldsAsDeclared == part = "hid" => Hid!FieldsAsDeclared

\* TransferFront!ObserversAreTold: complete(), wait() and the callback slot.
ObserversAreTold == part = "front" => Observed!ObserversAreTold

\* UvcStart!StreamIsAsNegotiated: Camera::start().
StreamIsAsNegotiated == part = "start" => Start!StreamIsAsNegotiated

\* Ftdi!RateIsNearest: baud_request().
RateIsNearest == part = "ftdi" => FtdiChip!RateIsNearest

\* WindowsHandle!HandlesAreSound: claim_interface(), pipe_owner() and control_handle().
HandlesAreSound == part = "winusb" => Win!HandlesAreSound
=============================================================================
