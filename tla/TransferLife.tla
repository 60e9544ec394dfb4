---------------------------- MODULE TransferLife ----------------------------
(***************************************************************************)
(* What src/transfer.rs promises of one Transfer, whatever the backend:    *)
(* a submission that was accepted is completed exactly once, a submission  *)
(* that was refused is never completed, and the published result changes   *)
(* at a completion only (a new attempt merely resets the actual length).   *)
(***************************************************************************)
EXTENDS Naturals

CONSTANTS Transfers,   \* the transfers of one device handle
          Statuses     \* enum TransferStatus

VARIABLES phase,       \* "idle", "submitting" (inside submit()) or "accepted"
          result       \* State.status and State.actual_length

lifeVars == <<phase, result>>

Init ==
    /\ phase = [t \in Transfers |-> "idle"]
    /\ result = [t \in Transfers |-> [status |-> "Completed", actual |-> 0]]

\* submit() found the transfer idle and marked it in flight.
Begin(t) ==
    /\ phase[t] = "idle"
    /\ phase' = [phase EXCEPT ![t] = "submitting"]
    /\ result' = [result EXCEPT ![t].actual = 0]

\* submit() returned an error: nothing will ever complete this attempt.
Refuse(t) ==
    /\ phase[t] = "submitting"
    /\ phase' = [phase EXCEPT ![t] = "idle"]
    /\ UNCHANGED result

\* The same in one step.
RefuseAtOnce(t) ==
    /\ phase[t] = "idle"
    /\ result' = [result EXCEPT ![t].actual = 0]
    /\ UNCHANGED phase

\* submit() returned Ok: the backend owes one completion.
Accept(t) ==
    /\ phase[t] = "submitting"
    /\ phase' = [phase EXCEPT ![t] = "accepted"]
    /\ UNCHANGED result

\* Inner::complete(), "called by the backend exactly once per submission".
Complete(t) ==
    /\ phase[t] = "accepted"
    /\ phase' = [phase EXCEPT ![t] = "idle"]
    /\ result'[t] \in [status : Statuses, actual : Nat]
    /\ result' = [result EXCEPT ![t] = result'[t]]

Next ==
    \E t \in Transfers :
        Begin(t) \/ Refuse(t) \/ RefuseAtOnce(t) \/ Accept(t) \/ Complete(t)

Spec == Init /\ [][Next]_lifeVars
=============================================================================
