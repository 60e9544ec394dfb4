----------------------------- MODULE MCBackends -----------------------------
(***************************************************************************)
(* The Windows and the macOS backend for TLC.  A program has one of them,  *)
(* so a behaviour is one of its parts' behaviours; the variables of the    *)
(* other parts keep their initial values.                                  *)
(***************************************************************************)
EXTENDS WindowsTransfer

CONSTANTS MacTransfers, Interrupt, Results,   \* of MacosTransfer
          Handles, Ifaces, MaxCalls, MaxFaults, Free, Driver

\* A device is open through finitely many handles.
ASSUME HandlesAssumption == IsFiniteSet(Handles)

VARIABLES part,      \* which part this behaviour is of
          mInFlight, mResult, mUser, mCount, mLeft, mSub, mReq, mPending, mEvt,
          mDisconnected, mGone,
          live, isOpen, capture, claimed, openCount, kernel, call, mCalls, faults

Mac == INSTANCE MacosTransfer WITH
    Transfers <- MacTransfers, inFlight <- mInFlight, result <- mResult, user <- mUser,
    count <- mCount, left <- mLeft,
    sub <- mSub, req <- mReq, pending <- mPending, evt <- mEvt,
    disconnected <- mDisconnected, gone <- mGone

MacHandle == INSTANCE MacosHandle WITH left <- mCalls

macVars == <<mInFlight, mResult, mUser, mCount, mLeft, mSub, mReq, mPending, mEvt, mDisconnected, mGone>>
handleVars == <<live, isOpen, capture, claimed, openCount, kernel, call, mCalls, faults>>
allVars == <<part, vars, macVars, handleVars>>

MCInit == part \in {"windows", "macos", "handle"} /\ Init /\ Mac!Init /\ MacHandle!Init

Windows(A) == part = "windows" /\ A /\ UNCHANGED <<part, macVars, handleVars>>
Macos(A) == part = "macos" /\ A /\ UNCHANGED <<part, vars, handleVars>>

MCNext ==
    \/ Windows(Next) \/ Macos(Mac!Next)
    \/ part = "handle" /\ MacHandle!Next /\ UNCHANGED <<part, vars, macVars>>

\* The fairness of WindowsTransfer and of MacosTransfer, for the part at hand.
MCFairness ==
    /\ WF_allVars(Windows(EventThread) \/ Macos(Mac!EventThread))
    /\ WF_allVars(Windows(Submitting) \/ Macos(Mac!Submitting))
    /\ WF_allVars(Windows(Answering) \/ Macos(Mac!Answering))
    /\ SF_allVars(Macos(Mac!Completing))

MCSpec == MCInit /\ [][MCNext]_allVars /\ MCFairness

\* submit() and finish() of both backends implement the life of a transfer that
\* src/transfer.rs relies on (WindowsTransfer!ImplementsLife, MacosTransfer!ImplementsLife).
BackendsImplementLife == ImplementsLife /\ Mac!ImplementsLife

\* expire() of both backends: a deadline that has passed completes its transfer
\* (WindowsTransfer!DeadlineCompletes, MacosTransfer!DeadlineCompletes).
DeadlinesComplete == DeadlineCompletes /\ Mac!DeadlineCompletes

\* MacosHandle!DeviceIsGivenBack: DeviceRef::open_count and the capture.
DeviceIsGivenBack == MacHandle!DeviceIsGivenBack
=============================================================================
