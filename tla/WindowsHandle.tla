---------------------------- MODULE WindowsHandle ----------------------------
(***************************************************************************)
(* The WinUSB handles of one device on Windows (src/sys/windows/mod.rs):   *)
(* the functions of a composite device that are opened on first use, the   *)
(* interface handles that are claimed and freed, and the requests that     *)
(* look one up, let go of the lock, and use it.  `iso_inflight`, which     *)
(* releasing, selecting a setting and clearing a halt also change, is a    *)
(* variable of WindowsTransfer.                                            *)
(***************************************************************************)
EXTENDS Naturals, Sequences

CONSTANTS Threads,    \* threads that call on the handle
          Ifaces,     \* interface numbers
          FirstOf,    \* the first interface of each one's function
          Bound,      \* first interfaces of the functions bound to WinUSB
          Settings,   \* alternate settings
          Endpoints,  \* [addr, iface, alt]: which setting has which endpoint
          MaxCalls, MaxFaults

VARIABLES winusb,     \* the whole device is bound to WinUSB: Handle.main
          functions,  \* Handle.functions: the functions that are open
          claimed,    \* Handle.claimed
          setting,    \* the device's alternate setting of each interface
          live,       \* associated interface handles that are not freed
          call,       \* what each thread is doing
          sent,       \* the last request: its handle, its function and the file
                      \* kept for CancelIoEx
          unsure,     \* interfaces claimed in a race, or whose setting could not be read
          closing,    \* Handle::drop has begun
          left        \* calls and faults left within the bounds

vars == <<winusb, functions, claimed, setting, live, call, sent, unsure, closing, left>>

NoClaim == [fn |-> 0, handle |-> <<>>, owned |-> FALSE, alt |-> 0, here |-> FALSE]
Idle == [op |-> "idle", step |-> "none", iface |-> 0, addr |-> 0, got |-> NoClaim, crossed |-> FALSE]
Nothing == [handle |-> <<>>, fn |-> 0, file |-> 0, right |-> TRUE]

\* The primary handle of a function, and the associated one thread t gets for
\* interface i of it.
Primary(f) == <<f>>
Associated(f, i, t) == <<f, i, t>>

Init ==
    /\ winusb \in BOOLEAN
    /\ functions = {} /\ claimed = [i \in Ifaces |-> NoClaim]
    /\ setting = [i \in Ifaces |-> 0] /\ live = {}
    /\ call = [t \in Threads |-> Idle] /\ sent = Nothing
    /\ unsure = {} /\ closing = FALSE
    /\ left = [calls |-> MaxCalls, faults |-> MaxFaults]

Claims == {i \in Ifaces : claimed[i].here}
FirstIn(S) == CHOOSE i \in S : \A j \in S : i <= j

\* WinUsbDevice: open while `main`, `functions` or a claim has an Arc of it.
IsOpen(f) ==
    \/ ~closing /\ (f \in functions \/ (winusb /\ f = 0))
    \/ \E i \in Claims : claimed[i].fn = f

IsLive(handle) == IF Len(handle) = 1 THEN IsOpen(handle[1]) ELSE handle \in live

\* Claimed::drop
Freed(c) == IF c.owned THEN {c.handle} ELSE {}

Goto(t, step) == call' = [call EXCEPT ![t].step = step]
Done(t) == call' = [call EXCEPT ![t] = Idle]

\* The claims, or the functions that are open, change under the other calls.
Cross(t, mine) ==
    call' = [o \in Threads |-> IF o = t THEN mine
                               ELSE IF call[o].op = "idle" THEN Idle
                               ELSE [call[o] EXCEPT !.crossed = TRUE]]

Spend(ok) ==
    /\ ok \/ left.faults > 0
    /\ left' = IF ok THEN left ELSE [left EXCEPT !.faults = @ - 1]

Free(t) == call[t].op = "idle" /\ ~closing /\ left.calls > 0
Spent == left' = [left EXCEPT !.calls = @ - 1]

Call(t, op, step, i) ==
    /\ Free(t) /\ Spent
    /\ call' = [call EXCEPT ![t] = [Idle EXCEPT !.op = op, !.step = step, !.iface = i]]

-----------------------------------------------------------------------------
(* claim_interface() and kernel_driver_active() *)

ClaimInterface(t, i) ==
    /\ ~claimed[i].here
    /\ Call(t, "claim", "function", i)
    /\ UNCHANGED <<winusb, functions, claimed, setting, live, sent, unsure, closing>>

\* A look at whether an interface can be claimed opens its function too.
KernelDriverActive(t, i) ==
    /\ ~winusb
    /\ Call(t, "active", "function", i)
    /\ UNCHANGED <<winusb, functions, claimed, setting, live, sent, unsure, closing>>

\* What a call does with its function.
WithFunction(t, f) ==
    CASE call[t].op = "claim"   -> [call[t] EXCEPT !.step = "associate", !.got.fn = f]
      [] call[t].op = "control" -> [call[t] EXCEPT !.step = "use", !.got.fn = f, !.got.handle = Primary(f)]
      [] OTHER                  -> Idle

\* function_for(), under the lock of `functions`.
FunctionFor(t, ok) ==
    LET f == IF winusb THEN 0 ELSE FirstOf[call[t].iface]
        opens == ~winusb /\ f \in Bound \ functions
    IN
    /\ call[t].step = "function" /\ (opens \/ ok) /\ Spend(ok)
    /\ IF ~ok \/ ~(winusb \/ f \in Bound) THEN Done(t) /\ UNCHANGED functions
       ELSE IF opens THEN functions' = functions \cup {f} /\ Cross(t, WithFunction(t, f))
       ELSE call' = [call EXCEPT ![t] = WithFunction(t, f)] /\ UNCHANGED functions
    /\ UNCHANGED <<winusb, claimed, setting, live, sent, unsure, closing>>

\* The first interface has the function's own handle, the others one that is to
\* be freed.  A setting that cannot be read is taken for 0.
Associate(t, ok, known) ==
    LET i == call[t].iface
        f == call[t].got.fn
        alt == IF known THEN setting[i] ELSE 0
        got == IF i = f THEN [NoClaim EXCEPT !.fn = f, !.handle = Primary(f), !.alt = alt, !.here = TRUE]
               ELSE [fn |-> f, handle |-> Associated(f, i, t), owned |-> TRUE, alt |-> alt, here |-> TRUE]
    IN
    /\ call[t].step = "associate" /\ Spend(ok /\ known)
    /\ i = f => ok
    /\ ~ok => known
    /\ IF ~ok THEN Done(t) /\ UNCHANGED <<live, unsure>>
       ELSE /\ live' = live \cup Freed(got)
            /\ call' = [call EXCEPT ![t].step = "insert", ![t].got = got]
            /\ unsure' = IF known THEN unsure ELSE unsure \cup {i}
    /\ UNCHANGED <<winusb, functions, claimed, setting, sent, closing>>

\* Mutant: the claim that another thread made meanwhile is forgotten.
InsertForgets(t) ==
    LET i == call[t].iface IN
    /\ call[t].step = "insert"
    /\ claimed' = [claimed EXCEPT ![i] = call[t].got]
    /\ Cross(t, Idle)
    /\ unsure' = IF call[t].crossed THEN unsure \cup {i} ELSE unsure
    /\ UNCHANGED <<winusb, functions, setting, live, sent, closing, left>>

\* The claim that another thread made meanwhile, if any, is dropped.
Insert(t) ==
    LET i == call[t].iface IN
    /\ call[t].step = "insert"
    /\ claimed' = [claimed EXCEPT ![i] = call[t].got]
    /\ live' = live \ Freed(claimed[i])
    /\ Cross(t, Idle)
    /\ unsure' = IF call[t].crossed THEN unsure \cup {i} ELSE unsure
    /\ UNCHANGED <<winusb, functions, setting, sent, closing, left>>

ReleaseInterface(t, i) ==
    /\ Free(t) /\ Spent /\ claimed[i].here
    /\ claimed' = [claimed EXCEPT ![i] = NoClaim]
    /\ live' = live \ Freed(claimed[i])
    /\ Cross(t, Idle)
    /\ unsure' = unsure \ {i}
    /\ UNCHANGED <<winusb, functions, setting, sent, closing>>

\* set_alt_setting() keeps the lock of `claimed`.
SetAltSetting(t, i, alt) ==
    /\ Free(t) /\ Spent /\ claimed[i].here
    /\ claimed' = [claimed EXCEPT ![i].alt = alt]
    /\ setting' = [setting EXCEPT ![i] = alt]
    /\ Cross(t, Idle)
    /\ unsure' = unsure \ {i}
    /\ UNCHANGED <<winusb, functions, live, sent, closing>>

-----------------------------------------------------------------------------
(* Requests: submit() and clear_halt() *)

\* pipe_owner(): the claimed interface whose setting has the endpoint.
PipeOwner(t, e) ==
    LET owners == {i \in Claims : [addr |-> e, iface |-> i, alt |-> claimed[i].alt] \in Endpoints}
        i == FirstIn(owners)
    IN
    /\ owners # {} /\ Free(t) /\ Spent
    /\ call' = [call EXCEPT ![t] = [Idle EXCEPT !.op = "pipe", !.step = "use", !.iface = i,
                                               !.addr = e, !.got = claimed[i]]]
    /\ UNCHANGED <<winusb, functions, claimed, setting, live, sent, unsure, closing>>

\* control_handle(): the device's own handle, else one of a claim ...
ControlHandle(t) ==
    LET got == IF winusb THEN [NoClaim EXCEPT !.handle = Primary(0)] ELSE claimed[FirstIn(Claims)]
    IN
    /\ IF winusb \/ Claims # {}
       THEN /\ Free(t) /\ Spent
            /\ call' = [call EXCEPT ![t] = [Idle EXCEPT !.op = "control", !.step = "use", !.got = got]]
       ELSE Call(t, "control", "functions", FirstIn(Bound))
    /\ UNCHANGED <<winusb, functions, claimed, setting, live, sent, unsure, closing>>

\* ... else one of an open function, else of the first function, opened now; if
\* that fails the request goes to the hub (WindowsTransfer!HubControl).
ControlFunction(t) ==
    /\ call[t].step = "functions"
    /\ IF functions = {} THEN Goto(t, "function")
       ELSE LET f == FirstIn(functions) IN
            call' = [call EXCEPT ![t].step = "use", ![t].got.fn = f, ![t].got.handle = Primary(f)]
    /\ UNCHANGED <<winusb, functions, claimed, setting, live, sent, unsure, closing, left>>

\* The pipe is one of the interface's, as the device has it.
PipeExists(c) == [addr |-> c.addr, iface |-> c.iface, alt |-> setting[c.iface]] \in Endpoints

\* The handle is used without a lock.  A pipe's request keeps the file of its
\* function; a control request looks for one afterwards.
UseHandle(t) ==
    LET c == call[t]
        fine == IsLive(c.got.handle) /\ (c.op = "pipe" /\ c.iface \notin unsure => PipeExists(c))
    IN
    /\ c.step = "use"
    /\ sent' = [handle |-> c.got.handle, fn |-> c.got.fn, file |-> c.got.fn, right |-> c.crossed \/ fine]
    /\ IF c.op = "pipe" THEN Done(t) ELSE Goto(t, "file")
    /\ UNCHANGED <<winusb, functions, claimed, setting, live, unsure, closing, left>>

\* control_file()
ControlFile(t) ==
    LET file == IF winusb THEN 0
                ELSE IF Claims # {} THEN claimed[FirstIn(Claims)].fn
                ELSE FirstIn(functions)
    IN
    /\ call[t].step = "file"
    /\ sent' = [handle |-> call[t].got.handle, fn |-> call[t].got.fn, file |-> file,
                right |-> call[t].crossed \/ file = call[t].got.fn]
    /\ Done(t)
    /\ UNCHANGED <<winusb, functions, claimed, setting, live, unsure, closing, left>>

-----------------------------------------------------------------------------
(* The last reference goes: the fields are dropped in order *)

DropHandle ==
    /\ ~closing /\ \A t \in Threads : call[t].op = "idle"
    /\ closing' = TRUE
    /\ UNCHANGED <<winusb, functions, claimed, setting, live, call, sent, unsure, left>>

DropClaimed(i) ==
    /\ closing /\ claimed[i].here
    /\ claimed' = [claimed EXCEPT ![i] = NoClaim]
    /\ live' = live \ Freed(claimed[i])
    /\ UNCHANGED <<winusb, functions, setting, call, sent, unsure, closing, left>>

Next ==
    \/ DropHandle
    \/ \E i \in Ifaces : DropClaimed(i)
    \/ \E t \in Threads :
          \/ Insert(t) \/ ControlHandle(t) \/ ControlFunction(t) \/ UseHandle(t) \/ ControlFile(t)
          \/ \E ok \in BOOLEAN : FunctionFor(t, ok)
          \/ \E ok, known \in BOOLEAN : Associate(t, ok, known)
          \/ \E e \in Endpoints : PipeOwner(t, e.addr)
          \/ \E i \in Ifaces :
                \/ ClaimInterface(t, i) \/ KernelDriverActive(t, i) \/ ReleaseInterface(t, i)
                \/ \E alt \in Settings : SetAltSetting(t, i, alt)

Spec == Init /\ [][Next]_vars

-----------------------------------------------------------------------------

\* Claims, releases and requests of several threads: the associated handles that
\* are not freed are those of the claims and of claims under way, none lost and
\* none freed while it is claimed, also when two threads claim one interface; the
\* function of each is open, also while the Handle is dropped; the setting kept
\* for a claim is the device's; and a request goes to a live handle and to a pipe
\* that exists, with the file that CancelIoEx will find it by.  (A handle is used
\* after the lock was let go: requests during which the claims or the open
\* functions change are exempt, as is a claim made in such a race.)
HandlesAreSound ==
    /\ live = {claimed[i].handle : i \in {i \in Claims : claimed[i].owned}}
              \cup {call[t].got.handle : t \in {t \in Threads : call[t].step = "insert" /\ call[t].got.owned}}
    /\ \A h \in live : IsOpen(h[1])
    /\ \A i \in Claims \ unsure : claimed[i].alt = setting[i]
    /\ sent.right
=============================================================================
