------------------------ MODULE LinuxTransferProofs -------------------------
(***************************************************************************)
(* Proofs about LinuxTransfer, for any number of transfers and URBs.       *)
(***************************************************************************)
EXTENDS LinuxTransfer, FiniteSetTheorems, TLAPS

USE ConstantsAssumption DEF Idx, Checked

\* A handle just opened, with idle transfers, satisfies the invariant.
THEOREM InitIInv == Init => IInv
<1> SUFFICES ASSUME Init PROVE IInv
    OBVIOUS
<1>1. TypeOK
    <2>1. FreshUrb \in Urb /\ Idle \in EventThread /\ Idle.step = "idle"
        BY DEF FreshUrb, Urb, UrbErrno, Idle, EventThread, Statuses
    <2>2. [i \in Idx |-> FreshUrb] \in [Idx -> Urb]
        BY <2>1, Zenon
    <2>3. urb \in [Transfers -> [Idx -> Urb]]
        BY <2>2 DEF Init
    <2>4. result \in [Transfers -> [status : Statuses, actual : Nat]]
        BY DEF Init, Statuses
    <2> QED  BY <2>1, <2>3, <2>4 DEF Init, TypeOK
<1>2. ASSUME NEW t \in Transfers PROVE Custody(t) /\ UrbCustody(t)
    BY DEF Init, Idle, Custody, UrbCustody, Completing, Finishing, Unaccounted,
           Outstanding, FreshUrb
<1>3. Disconnecting
    BY DEF Init, Disconnecting, Idle
<1> QED  BY <1>1, <1>2, <1>3 DEF IInv

\* A loop of DISCARDURB only takes URBs from the kernel's queue to its list of
\* finished ones: it hands none to or from user space.
LEMMA DiscardedKeeps ==
    ASSUME TypeOK, NEW t \in Transfers, NEW from \in Nat,
           NEW after \in Discarded(t, from)
    PROVE  /\ after \in [Idx -> Urb]
           /\ \A i \in Idx : after[i].at = "user" <=> urb[t][i].at = "user"
           /\ \A i \in Idx : urb[t][i].at # "kernel" => after[i] = urb[t][i]
<1> DEFINE hit == {i \in Idx : i >= from /\ urb[t][i].at = "kernel" /\ ~gone}
           ends == {Killed(b) : b \in 0..(UrbLen - 1)} \cup Natural(t)
<1>1. PICK f \in [hit -> ends] :
         after = [i \in Idx |-> IF i \in hit THEN f[i] ELSE urb[t][i]]
    BY Zenon DEF Discarded
<1>2. \A e \in ends : e \in Urb /\ e.at = "done"
    BY DEF Killed, Natural, Urb, UrbErrno, Unlinked
<1>3. \A i \in Idx : urb[t][i] \in Urb
    BY DEF TypeOK
<1>4. \A i \in hit : f[i] \in ends /\ i \in Idx /\ urb[t][i].at = "kernel"
    BY <1>1
<1> HIDE DEF hit, ends
<1>5. \A i \in Idx : after[i] = IF i \in hit THEN f[i] ELSE urb[t][i]
    BY <1>1
<1> QED  BY <1>1, <1>2, <1>3, <1>4, <1>5

\* A step that leaves everything about transfer u alone keeps u's invariant.
LEMMA Frame ==
    ASSUME NEW u \in Transfers, Custody(u), UrbCustody(u),
           inFlight'[u] = inFlight[u], submitAt'[u] = submitAt[u],
           sub'[u] = sub[u], urb'[u] = urb[u],
           Outstanding(u)' = Outstanding(u),
           u \in drained' <=> u \in drained,
           Finishing(u)' <=> Finishing(u), Finishing(u) => evt'.i = evt.i,
           Completing(u)' <=> Completing(u),
           disconnected => disconnected'
    PROVE  Custody(u)' /\ UrbCustody(u)'
<1>1. Unaccounted(u)' = Unaccounted(u)
    BY DEF Unaccounted
<1>2. \A i \in Idx : <<u, i>> \in pending' <=> <<u, i>> \in pending
    BY DEF Outstanding
<1>3. Custody(u)'
    BY <1>1 DEF Custody
<1>4. UrbCustody(u)'
    BY <1>2 DEF UrbCustody
<1> QED  BY <1>3, <1>4

\* The kernel may finish a URB at any time, also in the middle of submit().
LEMMA KernelFinishesKeeps ==
    ASSUME IInv, NEW t \in Transfers, KernelFinishes(t)
    PROVE  IInv'
<1>1. PICK i \in Idx, u \in Natural(t), cut \in BOOLEAN :
         /\ urb[t][i].at = "kernel"
         /\ urb' = [urb EXCEPT ![t] = UrbsAfter(t, i, u, cut)]
    BY Zenon DEF KernelFinishes
<1>2. u \in Urb /\ u.at = "done" /\ Killed(0) \in Urb /\ Killed(0).at = "done"
    BY DEF Natural, Killed, Urb, UrbErrno, Unlinked
<1>3. /\ urb' \in [Transfers -> [Idx -> Urb]]
      /\ \A v \in Transfers : v # t => urb'[v] = urb[v]
      /\ \A j \in Idx : urb'[t][j].at = "user" <=> urb[t][j].at = "user"
    BY <1>1, <1>2 DEF IInv, TypeOK, UrbsAfter
<1>4. UNCHANGED <<inFlight, result, submitAt, sub, pending, disconnected, evt,
                  drained, gone, hup>>
    BY DEF KernelFinishes
<1>5. TypeOK'
    BY <1>3, <1>4 DEF IInv, TypeOK
<1>6. ASSUME NEW v \in Transfers PROVE Custody(v)' /\ UrbCustody(v)'
    <2>1. Custody(v) /\ UrbCustody(v)
        BY DEF IInv
    <2>2. Custody(v)'
        BY <1>4, <2>1 DEF Custody, Unaccounted, Outstanding, Finishing, Completing
    <2>3. \A j \in Idx : urb'[v][j].at = "user" <=> urb[v][j].at = "user"
        BY <1>3
    <2>4. UrbCustody(v)'
        BY <1>4, <2>1, <2>3 DEF UrbCustody, Outstanding, Finishing, IInv, TypeOK
    <2> QED  BY <2>2, <2>4
<1>7. Disconnecting'
    BY <1>4 DEF IInv, Disconnecting
<1> QED  BY <1>5, <1>6, <1>7 DEF IInv

\* The loss of the device by itself moves no URB.
LEMMA KernelLosesDeviceKeeps ==
    ASSUME IInv, KernelLosesDevice
    PROVE  IInv'
<1>1. TypeOK' /\ Disconnecting'
    BY DEF KernelLosesDevice, IInv, TypeOK, Disconnecting
<1>2. ASSUME NEW v \in Transfers PROVE Custody(v)' /\ UrbCustody(v)'
    BY Frame DEF KernelLosesDevice, IInv, Outstanding, Finishing, Completing
<1> QED  BY <1>1, <1>2 DEF IInv

\* A submit() refused at once leaves no trace but the actual length.
LEMMA SubmitRefusedKeeps ==
    ASSUME IInv, NEW t \in Transfers, SubmitRefused(t)
    PROVE  IInv'
<1>1. TypeOK' /\ Disconnecting'
    BY DEF SubmitRefused, IInv, TypeOK, Disconnecting
<1>2. ASSUME NEW v \in Transfers PROVE Custody(v)' /\ UrbCustody(v)'
    BY Frame DEF SubmitRefused, IInv, Outstanding, Finishing, Completing
<1> QED  BY <1>1, <1>2 DEF IInv

\* submit() marks an idle transfer in flight and owes it a completion.
LEMMA SubmitStartKeeps ==
    ASSUME IInv, NEW t \in Transfers, SubmitStart(t)
    PROVE  IInv'
<1>1. TypeOK' /\ Disconnecting'
    BY DEF SubmitStart, IInv, TypeOK, Disconnecting
<1>2. ASSUME NEW v \in Transfers, v # t PROVE Custody(v)' /\ UrbCustody(v)'
    BY <1>2, Frame
       DEF SubmitStart, IInv, TypeOK, Outstanding, Finishing, Completing
<1>3. Custody(t) /\ UrbCustody(t) /\ Disconnecting
    BY DEF IInv
<1>4. Custody(t)'
    BY <1>3 DEF SubmitStart, IInv, TypeOK, Custody, Disconnecting, Unaccounted,
                Outstanding, Finishing, Completing
<1>5. \A i \in Idx : <<t, i>> \notin pending
    BY <1>3 DEF SubmitStart, Custody, Unaccounted, Outstanding
<1>6. \A i \in Idx : urb[t][i].at = "user"
    BY <1>3, <1>5 DEF SubmitStart, UrbCustody
<1>7. UrbCustody(t)'
    BY <1>3, <1>5, <1>6 DEF SubmitStart, UrbCustody, Outstanding, Finishing, IInv, TypeOK
<1> QED  BY <1>1, <1>2, <1>4, <1>7 DEF IInv

\* submit() registers every URB before the kernel sees the first.
LEMMA SubmitRegisterKeeps ==
    ASSUME IInv, NEW t \in Transfers, SubmitRegister(t)
    PROVE  IInv'
<1> USE DEF SubmitRegister
<1>1. PICK n \in UrbCounts(t), timed \in BOOLEAN :
         /\ sub' = [sub EXCEPT ![t] = Build(n, timed)]
         /\ pending' = pending \cup ({t} \X (1..n))
    BY Zenon
<1>2. n \in Idx
    BY <1>1 DEF UrbCounts
<1>3. /\ Build(n, timed) \in Submission
      /\ Build(n, timed).n = n /\ Build(n, timed).reaped = 0
    BY <1>2 DEF Build, Submission
<1>14. Build(n, timed) # NoSub
    BY <1>3
<1>4. /\ sub' \in [Transfers -> Submission \cup {NoSub}]
      /\ pending' \subseteq Transfers \X Idx
    BY <1>1, <1>2, <1>3 DEF IInv, TypeOK
<1>5. TypeOK' /\ Disconnecting'
    BY <1>4 DEF IInv, TypeOK, Disconnecting
<1>6. ASSUME NEW v \in Transfers, v # t PROVE Custody(v)' /\ UrbCustody(v)'
    <2>1. Outstanding(v)' = Outstanding(v)
        BY <1>1, <1>6 DEF Outstanding
    <2> QED
        BY <1>1, <1>6, <2>1, Frame DEF IInv, TypeOK, Finishing, Completing
<1>7. Custody(t) /\ UrbCustody(t) /\ Disconnecting
    BY DEF IInv
<1>8. Unaccounted(t) = {} /\ ~Finishing(t) /\ t \notin drained
    BY <1>7 DEF Custody, Unaccounted, Finishing, IInv, TypeOK
<1>9. Outstanding(t)' = 1..n /\ Unaccounted(t)' = 1..n
    BY <1>1, <1>2, <1>8 DEF Outstanding, Unaccounted, Finishing
<1>10. Cardinality(1..n) = n
    BY <1>2, FS_Interval
<1>11. sub'[t] = Build(n, timed) /\ submitAt'[t] = 1
    BY <1>1 DEF IInv, TypeOK
<1>12. Custody(t)'
    BY <1>2, <1>3, <1>14, <1>7, <1>8, <1>9, <1>10, <1>11 DEF Custody, Completing
<1>13. UrbCustody(t)'
    BY <1>7, <1>8, <1>11 DEF UrbCustody, Finishing
<1> QED  BY <1>5, <1>6, <1>12, <1>13 DEF IInv

\* SUBMITURB hands over one registered URB.
LEMMA SubmitUrbKeeps ==
    ASSUME IInv, NEW t \in Transfers, SubmitUrb(t)
    PROVE  IInv'
<1> DEFINE k == submitAt[t]
<1>1. /\ k > 0 /\ ~gone
      /\ urb' = [urb EXCEPT ![t][k].at = "kernel"]
      /\ submitAt' = [submitAt EXCEPT ![t] = IF k = sub[t].n THEN 0 ELSE k + 1]
      /\ UNCHANGED <<inFlight, result, sub, pending, disconnected, evt, drained,
                     gone, hup>>
    BY DEF SubmitUrb, KernelRefuses
<1>2. Custody(t) /\ UrbCustody(t) /\ Disconnecting /\ TypeOK
    BY DEF IInv
<1>3. /\ sub[t] \in Submission /\ k <= sub[t].n /\ sub[t].n \in Idx
      /\ k \in Idx /\ t \notin drained /\ ~disconnected
      /\ sub[t].reaped = 0 /\ Unaccounted(t) = 1..sub[t].n
    BY <1>1, <1>2 DEF Custody, Disconnecting, TypeOK, Submission
<1>4. urb[t][k] \in Urb
    BY <1>3, <1>2 DEF TypeOK
<1>5. /\ urb' \in [Transfers -> [Idx -> Urb]]
      /\ submitAt' \in [Transfers -> {Checked, 0} \cup Idx]
    <2>1. [urb[t][k] EXCEPT !.at = "kernel"] \in Urb
        BY <1>4 DEF Urb
    <2>2. urb' \in [Transfers -> [Idx -> Urb]]
        BY <1>1, <1>2, <1>3, <2>1 DEF TypeOK
    <2>3. submitAt' \in [Transfers -> {Checked, 0} \cup Idx]
        BY <1>1, <1>2, <1>3 DEF TypeOK
    <2> QED  BY <2>2, <2>3
<1>6. TypeOK' /\ Disconnecting'
    BY <1>1, <1>2, <1>5 DEF TypeOK, Disconnecting
<1>7. ASSUME NEW v \in Transfers, v # t PROVE Custody(v)' /\ UrbCustody(v)'
    BY <1>1, <1>7, Frame DEF IInv, TypeOK, Outstanding, Finishing, Completing
<1>8. Custody(t)'
    BY <1>1, <1>2, <1>3, <1>5 DEF Custody, TypeOK, Unaccounted, Outstanding, Finishing,
                            Completing
<1>9. /\ <<t, k>> \in pending
      /\ urb'[t][k].at = "kernel"
      /\ \A i \in Idx : i # k => urb'[t][i] = urb[t][i]
      /\ submitAt'[t] = IF k = sub[t].n THEN 0 ELSE k + 1
      /\ \A i \in Idx : <<t, i>> \in pending => i <= sub[t].n
    BY <1>1, <1>2, <1>3, <1>4 DEF TypeOK, Urb, UrbCustody, Unaccounted,
                                  Outstanding, Finishing
<1>10. UrbCustody(t)'
    <2> HIDE DEF k
    <2>1. Finishing(t)' =>
            /\ (evt.i \notin Outstanding(t))' /\ urb'[t][evt'.i].at = "user"
            /\ submitAt'[t] > 0 => evt'.i < submitAt'[t]
        BY <1>1, <1>2, <1>3, <1>9 DEF UrbCustody, Finishing, Outstanding, TypeOK, k
    <2>2. submitAt'[t] # Checked
        BY <1>3, <1>9
    <2>3. ASSUME NEW i \in Idx
          PROVE  /\ ~disconnected' /\ urb'[t][i].at # "user" => <<t, i>> \in pending'
                 /\ <<t, i>> \in pending' =>
                      (urb'[t][i].at # "user" <=> submitAt'[t] <= 0 \/ i < submitAt'[t])
        <3>1. /\ ~disconnected /\ urb[t][i].at # "user" => <<t, i>> \in pending
              /\ <<t, i>> \in pending => (urb[t][i].at # "user" <=> i < k)
            BY <1>1, <1>2, <1>3 DEF UrbCustody, k
        <3>2. CASE i = k
            BY <1>1, <1>3, <1>9, <3>2
        <3>3. CASE i # k
            BY <1>1, <1>3, <1>9, <3>1, <3>3
        <3> QED  BY <3>2, <3>3
    <2> QED  BY <2>1, <2>2, <2>3 DEF UrbCustody
<1> QED  BY <1>6, <1>7, <1>8, <1>10 DEF IInv

\* The first SUBMITURB failed: the submission is withdrawn, also from a
\* disconnect() that drained it in the meantime.
LEMMA SubmitFailsKeeps ==
    ASSUME IInv, NEW t \in Transfers, SubmitFails(t)
    PROVE  IInv'
<1> USE DEF SubmitFails
<1>1. Custody(t) /\ UrbCustody(t) /\ Disconnecting /\ TypeOK
    BY DEF IInv
<1>2. TypeOK' /\ Disconnecting'
    BY <1>1 DEF TypeOK, Disconnecting
<1>3. ASSUME NEW v \in Transfers, v # t PROVE Custody(v)' /\ UrbCustody(v)'
    <2>1. Outstanding(v)' = Outstanding(v)
        BY <1>3 DEF Outstanding
    <2> QED
        BY <1>3, <2>1, Frame DEF IInv, TypeOK, Finishing, Completing
<1>4. sub[t] \in Submission /\ sub[t].n \in Idx /\ Unaccounted(t) \subseteq 1..sub[t].n
    BY <1>1 DEF Custody, TypeOK, Submission
<1>5. ~Finishing(t)
    BY <1>1 DEF UrbCustody, Finishing, TypeOK
<1>6. Outstanding(t)' = {}
    BY <1>1, <1>4 DEF Outstanding, Unaccounted
<1>7. Unaccounted(t)' = {}
    BY <1>5, <1>6 DEF Unaccounted, Finishing
<1>8. ~Completing(t)
    BY <1>1 DEF Custody
<1>9. Custody(t)'
    BY <1>1, <1>7, <1>8 DEF Custody, Completing, TypeOK
<1>10. \A i \in Idx : <<t, i>> \notin pending' /\ (<<t, i>> \in pending => urb[t][i].at = "user")
    BY <1>1, <1>6 DEF Outstanding, UrbCustody
<1>11. UrbCustody(t)'
    BY <1>1, <1>5, <1>10 DEF UrbCustody, Finishing, TypeOK
<1> QED  BY <1>2, <1>3, <1>9, <1>11 DEF IInv

\* A later SUBMITURB failed: the submission shrinks to what the kernel has, and
\* what was reaped and what is still to be reaped make up what is left.
LEMMA SubmitCutShortKeeps ==
    ASSUME IInv, NEW t \in Transfers, SubmitCutShort(t)
    PROVE  IInv'
<1> DEFINE k == submitAt[t]
           cut == [sub[t] EXCEPT !.discardedFrom = k, !.n = k - 1, !.status = "Error"]
<1>1. Custody(t) /\ UrbCustody(t) /\ Disconnecting /\ TypeOK
    BY DEF IInv
<1>2. PICK after \in Discarded(t, 1) :
        /\ k > 1
        /\ pending' = pending \ ({t} \X (k..sub[t].n))
        /\ sub' = [sub EXCEPT ![t] = cut]
        /\ urb' = [urb EXCEPT ![t] = after]
        /\ submitAt' = [submitAt EXCEPT ![t] = 0]
        /\ UNCHANGED <<inFlight, result, disconnected, evt, drained, gone, hup>>
    BY <1>1 DEF SubmitCutShort
<1>3. /\ after \in [Idx -> Urb]
      /\ \A i \in Idx : after[i].at = "user" <=> urb[t][i].at = "user"
    BY <1>1, DiscardedKeeps
<1>4. sub[t] \in Submission /\ k \in Idx /\ sub[t].n \in Idx /\ k <= sub[t].n
    BY <1>1, <1>2 DEF Custody, TypeOK, Submission
<1>5. cut \in Submission /\ cut.n = k - 1 /\ cut.reaped = sub[t].reaped
    <2>2. k - 1 \in Idx /\ k \in 1..(MaxUrbs + 1)
        BY <1>2, <1>4
    <2>3. "Error" \in Statuses \cup {"None"}
        BY DEF Statuses
    <2> HIDE DEF k
    <2> QED  BY <1>4, <2>2, <2>3 DEF Submission
<1> HIDE DEF cut
<1>6. TypeOK' /\ Disconnecting'
    BY <1>1, <1>2, <1>3, <1>5 DEF TypeOK, Disconnecting
<1>7. ASSUME NEW v \in Transfers, v # t PROVE Custody(v)' /\ UrbCustody(v)'
    <2>1. Outstanding(v)' = Outstanding(v)
        BY <1>2, <1>7 DEF Outstanding
    <2> QED
        BY <1>2, <1>7, <2>1, Frame DEF IInv, TypeOK, Finishing, Completing
<1>8. sub'[t] = cut /\ submitAt'[t] = 0 /\ urb'[t] = after /\ cut # NoSub
    BY <1>1, <1>2, <1>5 DEF TypeOK
<1>9. Outstanding(t)' = Outstanding(t) \ k..sub[t].n
    BY <1>2 DEF Outstanding
<1>10. ASSUME t \in drained PROVE Custody(t)'
    <2>1. Unaccounted(t) = {}
        BY <1>1, <1>10 DEF Custody
    <2>2. Unaccounted(t)' = {}
        BY <1>2, <1>9, <2>1 DEF Unaccounted, Finishing
    <2> QED
        BY <1>1, <1>2, <1>8, <1>10, <2>2 DEF Custody, Completing
<1>11. ASSUME t \notin drained PROVE Custody(t)'
    <2>1. sub[t].reaped = 0 /\ Unaccounted(t) = 1..sub[t].n
        BY <1>1, <1>2, <1>4, <1>11 DEF Custody
    <2>2. Finishing(t) => evt.i < k
        BY <1>1, <1>2, <1>4 DEF UrbCustody
    <2>3. Unaccounted(t)' = 1..(k - 1)
        BY <1>1, <1>2, <1>4, <1>9, <2>1, <2>2 DEF Unaccounted, Outstanding, Finishing, TypeOK
    <2>4. Cardinality(1..(k - 1)) = k - 1
        BY <1>2, <1>4, FS_Interval
    <2>5. 1 \in 1..(k - 1)
        BY <1>2, <1>4
    <2> QED
        BY <1>1, <1>2, <1>4, <1>5, <1>8, <1>11, <2>1, <2>3, <2>4, <2>5
           DEF Custody, Completing, Submission
<1>12. Custody(t)'
    BY <1>10, <1>11
<1>13. \A i \in Idx : <<t, i>> \in pending' =>
          <<t, i>> \in pending /\ (i < k \/ t \in drained \/ i > sub[t].n)
    BY <1>2, <1>4
<1>14. \A i \in Idx : <<t, i>> \in pending' => i < k /\ <<t, i>> \in pending
    BY <1>13, <1>1, <1>2, <1>4 DEF Custody, Unaccounted, Outstanding
<1>15. \A i \in Idx : <<t, i>> \in pending /\ urb[t][i].at # "user" => i < k /\ <<t, i>> \in pending'
    BY <1>1, <1>2, <1>4 DEF UrbCustody
<1>16. UrbCustody(t)'
    <2>1. Finishing(t)' =>
            /\ (evt.i \notin Outstanding(t))' /\ urb'[t][evt'.i].at = "user"
        BY <1>1, <1>2, <1>3, <1>8 DEF UrbCustody, Finishing, Outstanding, TypeOK
    <2>2. ASSUME NEW i \in Idx
          PROVE  /\ ~disconnected' /\ urb'[t][i].at # "user" => <<t, i>> \in pending'
                 /\ <<t, i>> \in pending' => urb'[t][i].at # "user"
        <3>1. /\ ~disconnected /\ urb[t][i].at # "user" => <<t, i>> \in pending
              /\ <<t, i>> \in pending => (urb[t][i].at # "user" <=> i < k)
            BY <1>1, <1>2, <1>4 DEF UrbCustody
        <3> QED  BY <1>2, <1>3, <1>8, <1>14, <1>15, <3>1
    <2> QED  BY <1>8, <2>1, <2>2 DEF UrbCustody
<1> QED  BY <1>6, <1>7, <1>12, <1>16 DEF IInv

\* A step that changes nothing but the flags of t's submission and where the
\* kernel keeps its URBs keeps the invariant.
LEMMA FlagsKeep ==
    ASSUME IInv, NEW t \in Transfers, sub[t] # NoSub, submitAt[t] = 0,
           NEW s \in Submission, s.n = sub[t].n, s.reaped = sub[t].reaped,
           NEW after \in [Idx -> Urb],
           \A i \in Idx : after[i].at = "user" <=> urb[t][i].at = "user",
           sub' = [sub EXCEPT ![t] = s], urb' = [urb EXCEPT ![t] = after],
           UNCHANGED <<inFlight, result, submitAt, pending, disconnected, evt,
                       drained, gone, hup>>
    PROVE  IInv'
<1>1. Custody(t) /\ UrbCustody(t) /\ Disconnecting /\ TypeOK
    BY DEF IInv
<1>2. TypeOK' /\ Disconnecting'
    BY <1>1 DEF TypeOK, Disconnecting
<1>3. ASSUME NEW v \in Transfers, v # t PROVE Custody(v)' /\ UrbCustody(v)'
    BY <1>3, Frame DEF IInv, TypeOK, Outstanding, Finishing, Completing
<1>4. sub'[t] = s /\ urb'[t] = after /\ s # NoSub
    BY <1>1 DEF TypeOK
<1>5. Custody(t)'
    BY <1>1, <1>4 DEF Custody, Unaccounted, Outstanding, Finishing, Completing
<1>6. UrbCustody(t)'
    BY <1>1, <1>4 DEF UrbCustody, Outstanding, Finishing, TypeOK
<1> QED  BY <1>2, <1>3, <1>5, <1>6 DEF IInv

\* cancel() sets a flag and discards URBs.
LEMMA CancelKeeps ==
    ASSUME IInv, NEW t \in Transfers, Cancel(t)
    PROVE  IInv'
<1>1. PICK after \in Discarded(t, 1) :
         /\ urb' = [urb EXCEPT ![t] = after]
         /\ sub' = [sub EXCEPT ![t].cancelled = @ \/ SomeKilled(t, after)]
    BY DEF Cancel
<1>2. TypeOK /\ sub[t] \in Submission /\ sub[t] # NoSub /\ submitAt[t] = 0
    BY DEF Cancel, IInv, TypeOK
<1>3. /\ after \in [Idx -> Urb]
      /\ \A i \in Idx : after[i].at = "user" <=> urb[t][i].at = "user"
    BY <1>2, DiscardedKeeps
<1> DEFINE s == [sub[t] EXCEPT !.cancelled = @ \/ SomeKilled(t, after)]
<1>4. s \in Submission /\ s.n = sub[t].n /\ s.reaped = sub[t].reaped
    BY <1>2 DEF Submission, SomeKilled
<1>5. sub' = [sub EXCEPT ![t] = s]
    BY <1>1, <1>2 DEF TypeOK
<1> HIDE DEF s
<1> QED  BY <1>1, <1>2, <1>3, <1>4, <1>5, FlagsKeep DEF Cancel

\* The clock touches only the deadline.
LEMMA DeadlinePassesKeeps ==
    ASSUME IInv, NEW t \in Transfers, DeadlinePasses(t)
    PROVE  IInv'
<1>1. TypeOK /\ sub[t] \in Submission /\ sub[t] # NoSub /\ submitAt[t] = 0
    BY DEF DeadlinePasses, IInv, TypeOK
<1> DEFINE s == [sub[t] EXCEPT !.deadline = "passed"]
<1>2. s \in Submission /\ s.n = sub[t].n /\ s.reaped = sub[t].reaped
    BY <1>1 DEF Submission
<1>3. sub' = [sub EXCEPT ![t] = s] /\ urb' = [urb EXCEPT ![t] = urb[t]]
    BY <1>1 DEF DeadlinePasses, TypeOK
<1> DEFINE after == urb[t]
<1>4. after \in [Idx -> Urb] /\ urb' = [urb EXCEPT ![t] = after]
    BY <1>1, <1>3 DEF TypeOK
<1>5. \A i \in Idx : after[i].at = "user" <=> urb[t][i].at = "user"
    OBVIOUS
<1>6. UNCHANGED <<inFlight, result, submitAt, pending, disconnected, evt,
                  drained, gone, hup>>
    BY DEF DeadlinePasses
<1> HIDE DEF s, after
<1> QED  BY <1>1, <1>2, <1>3, <1>4, <1>5, <1>6, FlagsKeep

\* expire() sets a flag and discards URBs.
LEMMA ExpireKeeps ==
    ASSUME IInv, NEW t \in Transfers, Expire(t)
    PROVE  IInv'
<1>1. PICK after \in Discarded(t, 1) :
         /\ urb' = [urb EXCEPT ![t] = after]
         /\ sub' = [sub EXCEPT ![t].timedOut = SomeKilled(t, after),
                               ![t].deadline = "none"]
    BY DEF Expire
<1>2. TypeOK /\ sub[t] \in Submission /\ sub[t] # NoSub /\ submitAt[t] = 0
    BY DEF Expire, IInv, TypeOK
<1>3. /\ after \in [Idx -> Urb]
      /\ \A i \in Idx : after[i].at = "user" <=> urb[t][i].at = "user"
    BY <1>2, DiscardedKeeps
<1> DEFINE s == [sub[t] EXCEPT !.timedOut = SomeKilled(t, after),
                               !.deadline = "none"]
<1>4. s \in Submission /\ s.n = sub[t].n /\ s.reaped = sub[t].reaped
    BY <1>2 DEF Submission, SomeKilled
<1>5. sub' = [sub EXCEPT ![t] = s]
    BY <1>1, <1>2 DEF TypeOK
<1> HIDE DEF s
<1> QED  BY <1>1, <1>2, <1>3, <1>4, <1>5, FlagsKeep DEF Expire

\* A reaped URB moves from `pending` to the event thread.
LEMMA ReapKeeps ==
    ASSUME IInv, NEW t \in Transfers, NEW i \in Idx, Reap(t, i)
    PROVE  IInv'
<1> USE DEF Reap
<1>1. Custody(t) /\ UrbCustody(t) /\ Disconnecting /\ TypeOK
    BY DEF IInv
<1>2. /\ <<t, i>> \in pending /\ i \in Outstanding(t)
      /\ submitAt[t] <= 0 \/ i < submitAt[t]
    BY <1>1 DEF UrbCustody, Outstanding
<1>3. /\ evt'.step = "finish" /\ evt'.t = t /\ evt'.i = i
      /\ evt' \in EventThread
    <2>1. evt' = [evt EXCEPT !.step = "finish", !.t = t, !.i = i]
        BY <1>2
    <2>2. evt \in EventThread /\ i \in 0..MaxUrbs
        BY <1>1 DEF TypeOK
    <2> QED  BY <2>1, <2>2 DEF EventThread
<1>4. /\ urb'[t][i].at = "user" /\ urb' \in [Transfers -> [Idx -> Urb]]
      /\ \A j \in Idx : j # i => urb'[t][j] = urb[t][j]
      /\ \A v \in Transfers : v # t => urb'[v] = urb[v]
    <2> DEFINE u == [urb[t][i] EXCEPT !.at = "user"]
    <2>1. urb[t][i] \in Urb /\ urb \in [Transfers -> [Idx -> Urb]]
        BY <1>1 DEF TypeOK
    <2>2. u \in Urb /\ u.at = "user"
        BY <2>1 DEF Urb
    <2>3. urb' = [urb EXCEPT ![t] = [urb[t] EXCEPT ![i] = u]]
        BY <2>1
    <2> HIDE DEF u
    <2>4. urb'[t] = [urb[t] EXCEPT ![i] = u]
        BY <2>1, <2>3
    <2>5. urb'[t] \in [Idx -> Urb] /\ urb'[t][i] = u
        BY <2>1, <2>2, <2>4
    <2>6. urb' \in [Transfers -> [Idx -> Urb]]
        BY <2>1, <2>3, <2>4, <2>5
    <2> QED  BY <2>1, <2>2, <2>3, <2>4, <2>5, <2>6
<1>5. TypeOK' /\ Disconnecting'
    BY <1>1, <1>3, <1>4 DEF TypeOK, Disconnecting
<1>6. ASSUME NEW v \in Transfers, v # t PROVE Custody(v)' /\ UrbCustody(v)'
    <2>1. Outstanding(v)' = Outstanding(v)
        BY <1>6 DEF Outstanding
    <2> QED
        BY <1>3, <1>4, <1>6, <2>1, Frame DEF IInv, Finishing, Completing
<1>7. ~Finishing(t) /\ ~Completing(t) /\ Finishing(t)' /\ ~Completing(t)'
    BY <1>3 DEF Finishing, Completing
<1>8. /\ Outstanding(t)' = Outstanding(t) \ {i}
      /\ Unaccounted(t)' = Unaccounted(t)
    BY <1>2, <1>3, <1>7 DEF Outstanding, Unaccounted
<1>9. Custody(t)'
    BY <1>1, <1>7, <1>8 DEF Custody
<1>10. UrbCustody(t)'
    <2>1. submitAt' = submitAt /\ disconnected' = disconnected
        OBVIOUS
    <2>2. submitAt[t] # Checked
        BY <1>1, <1>2 DEF Custody, Unaccounted
    <2>3. submitAt[t] \in {0} \cup Idx
        BY <1>1, <2>2 DEF TypeOK
    <2>4. Finishing(t)' =>
            /\ (evt.i \notin Outstanding(t))' /\ urb'[t][evt'.i].at = "user"
            /\ submitAt'[t] > 0 => evt'.i < submitAt'[t]
        BY <1>2, <1>3, <1>4, <1>8, <2>1, <2>3
    <2>5. ASSUME NEW j \in Idx
          PROVE  /\ ~disconnected' /\ urb'[t][j].at # "user" => <<t, j>> \in pending'
                 /\ <<t, j>> \in pending' =>
                      (urb'[t][j].at # "user" <=> submitAt'[t] <= 0 \/ j < submitAt'[t])
        <3>1. <<t, j>> \in pending' <=> <<t, j>> \in pending /\ j # i
            OBVIOUS
        <3>2. CASE j = i
            BY <1>4, <3>1, <3>2
        <3>3. CASE j # i
            BY <1>1, <1>4, <2>1, <3>1, <3>3 DEF UrbCustody
        <3> QED  BY <3>2, <3>3
    <2> QED  BY <2>1, <2>2, <2>4, <2>5 DEF UrbCustody
<1> QED  BY <1>5, <1>6, <1>9, <1>10 DEF IInv

\* What finish_urb makes of a submission is a submission of the same URBs.
LEMMA AccountType ==
    ASSUME NEW s \in Submission, NEW i \in Idx, NEW u \in Urb
    PROVE  /\ Account(s, i, u) \in Submission
           /\ Account(s, i, u).n = s.n
           /\ Account(s, i, u).reaped = s.reaped + 1
           /\ Account(s, i, u).actual \in Nat
<1> DEFINE status == IF u.status # "OK" /\ ~Ours(s, i) /\ s.status = "None"
                     THEN UrbStatus(u.status) ELSE s.status
<1>1. status \in Statuses \cup {"None"}
    <2>1. UrbStatus(u.status) \in Statuses \cup {"None"}
        BY DEF UrbStatus, Statuses
    <2> QED  BY <2>1 DEF Submission
<1>2. u.bytes \in Nat /\ s.actual \in Nat /\ s.reaped \in Nat
    BY DEF Urb, Submission
<1>3. Account(s, i, u) = [s EXCEPT !.reaped = s.reaped + 1,
                                   !.actual = s.actual + u.bytes,
                                   !.status = status]
    BY DEF Account, Submission
<1>4. s.reaped + 1 \in Nat /\ s.actual + u.bytes \in Nat
    BY <1>2
<1> HIDE DEF status
<1>5. /\ Account(s, i, u).n = s.n
      /\ Account(s, i, u).reaped = s.reaped + 1
      /\ Account(s, i, u).actual = s.actual + u.bytes
    BY <1>3 DEF Submission
<1> DEFINE r == s.reaped + 1
           a == s.actual + u.bytes
<1>6. r \in Nat /\ a \in Nat
    BY <1>4
<1>7. Account(s, i, u) = [s EXCEPT !.reaped = r, !.actual = a, !.status = status]
    BY <1>3
<1> HIDE DEF r, a
<1>8. Account(s, i, u) \in Submission
    BY <1>1, <1>6, <1>7 DEF Submission
<1> QED  BY <1>4, <1>5, <1>8

\* The status finish_urb reports is a TransferStatus.
LEMMA FinalStatusType ==
    ASSUME NEW s \in Submission
    PROVE  FinalStatus(s) \in Statuses
BY DEF FinalStatus, Submission, Statuses

\* finish_urb counts one URB and takes the submission at the last one, neither
\* earlier nor later, whatever was discarded in between.
LEMMA FinishUrbKeeps ==
    ASSUME IInv, FinishUrb
    PROVE  IInv'
<1>1. PICK t \in Transfers, i \in Idx : t = evt.t /\ i = evt.i
    BY DEF IInv, TypeOK, FinishUrb
<1> DEFINE s == Account(sub[t], i, urb[t][i])
           early == EndsEarly(t, sub[t], i, urb[t][i])
           next == IF early THEN [s EXCEPT !.discardedFrom = i + 1] ELSE s
<1>2. PICK after \in (IF early THEN Discarded(t, i + 1) ELSE {urb[t]}) :
      /\ evt.step = "finish" /\ submitAt[t] = 0 /\ sub[t] # NoSub
      /\ urb' = [urb EXCEPT ![t] = after]
      /\ IF LastReaped(s)
         THEN /\ sub' = [sub EXCEPT ![t] = NoSub]
              /\ evt' = [evt EXCEPT !.step = "complete", !.i = 0,
                           !.status = FinalStatus(s), !.actual = s.actual]
         ELSE /\ sub' = [sub EXCEPT ![t] = next]
              /\ evt' = Idle
      /\ UNCHANGED <<inFlight, result, submitAt, pending, disconnected,
                     drained, gone, hup>>
    BY <1>1 DEF FinishUrb
<1>3. Custody(t) /\ UrbCustody(t) /\ Disconnecting /\ TypeOK
    BY DEF IInv
<1>4. /\ after \in [Idx -> Urb]
      /\ \A j \in Idx : after[j].at = "user" <=> urb[t][j].at = "user"
    <2>1. CASE early
        BY <1>2, <1>3, <2>1, DiscardedKeeps
    <2>2. CASE ~early
        BY <1>2, <1>3, <2>2 DEF TypeOK
    <2> QED  BY <2>1, <2>2
<1>5. sub[t] \in Submission /\ urb[t][i] \in Urb
    BY <1>2, <1>3 DEF TypeOK
<1>6. /\ s \in Submission /\ s.n = sub[t].n /\ s.reaped = sub[t].reaped + 1
      /\ s.actual \in Nat
    BY <1>5, AccountType
<1> HIDE DEF s, early
<1>7. next \in Submission /\ next.n = s.n /\ next.reaped = s.reaped
    <2>1. i + 1 \in 1..(MaxUrbs + 1)
        OBVIOUS
    <2> QED  BY <1>6, <2>1 DEF Submission
<1> HIDE DEF next
<1>8. /\ Finishing(t) /\ ~disconnected /\ drained = {}
      /\ i \notin Outstanding(t) /\ urb[t][i].at = "user"
      /\ Unaccounted(t) = Outstanding(t) \cup {i}
    BY <1>1, <1>2, <1>3 DEF Finishing, Disconnecting, UrbCustody, Unaccounted,
                            Outstanding
<1>9. /\ Outstanding(t)' = Outstanding(t)
      /\ IsFiniteSet(Outstanding(t)) /\ Cardinality(Outstanding(t)) \in Nat
      /\ Cardinality(Unaccounted(t)) = Cardinality(Outstanding(t)) + 1
    <2>1. Outstanding(t)' = Outstanding(t)
        BY <1>2 DEF Outstanding
    <2>2. IsFiniteSet(Idx)
        BY FS_Interval
    <2>3. IsFiniteSet(Outstanding(t))
        BY <2>2, FS_Subset DEF Outstanding
    <2> QED  BY <1>8, <2>1, <2>3, FS_AddElement, FS_CardinalityType
<1>10. sub[t].reaped + 1 + Cardinality(Outstanding(t)) = sub[t].n
    BY <1>2, <1>3, <1>5, <1>8, <1>9 DEF Custody, Submission
<1>11. s.reaped \in Nat /\ s.n \in Nat /\ sub[t].reaped \in Nat
    BY <1>5, <1>6 DEF Submission
<1>12. LastReaped(s) <=> Outstanding(t) = {}
    <2>1. LastReaped(s) <=> Cardinality(Outstanding(t)) = 0
        BY <1>6, <1>9, <1>10, <1>11 DEF LastReaped
    <2> QED  BY <1>9, <2>1, FS_EmptySet
<1>13. /\ evt' \in EventThread /\ evt'.step \in {"idle", "complete"}
       /\ evt'.step = "complete" <=> LastReaped(s)
       /\ evt'.step = "complete" => evt'.t = t
    <2>1. CASE LastReaped(s)
        <3>1. evt' = [evt EXCEPT !.step = "complete", !.i = 0,
                       !.status = FinalStatus(s), !.actual = s.actual]
            BY <1>2, <2>1
        <3>2. FinalStatus(s) \in Statuses /\ evt \in EventThread
            BY <1>3, <1>6, FinalStatusType DEF TypeOK
        <3>3. 0 \in 0..MaxUrbs
            OBVIOUS
        <3>4. evt' \in EventThread
            BY <1>6, <3>1, <3>2, <3>3 DEF EventThread
        <3>5. evt'.step = "complete" /\ evt'.t = t
            BY <1>1, <3>1, <3>2 DEF EventThread
        <3> QED  BY <2>1, <3>4, <3>5
    <2>2. CASE ~LastReaped(s)
        BY <1>2, <2>2 DEF Idle, EventThread, Statuses
    <2> QED  BY <2>1, <2>2
<1>14. sub' \in [Transfers -> Submission \cup {NoSub}]
    BY <1>2, <1>3, <1>7 DEF TypeOK
<1>15. TypeOK' /\ Disconnecting'
    BY <1>2, <1>3, <1>4, <1>13, <1>14 DEF TypeOK, Disconnecting
<1>16. ASSUME NEW v \in Transfers, v # t PROVE Custody(v)' /\ UrbCustody(v)'
    <2>1. sub'[v] = sub[v] /\ urb'[v] = urb[v]
        BY <1>2, <1>3, <1>16 DEF TypeOK
    <2>2. ~Finishing(v) /\ ~Completing(v) /\ ~Finishing(v)' /\ ~Completing(v)'
        BY <1>1, <1>2, <1>13, <1>16 DEF Finishing, Completing
    <2> QED  BY <1>2, <2>1, <2>2, Frame DEF IInv, Outstanding
<1>17. /\ ~Finishing(t)' /\ ~Completing(t)
       /\ Completing(t)' <=> LastReaped(s)
    BY <1>2, <1>13 DEF Finishing, Completing
<1>18. Unaccounted(t)' = Outstanding(t)
    BY <1>9, <1>17 DEF Unaccounted, Finishing
<1>19. /\ urb'[t] = after /\ submitAt'[t] = 0 /\ drained' = {}
       /\ inFlight'[t] = inFlight[t] /\ disconnected' = disconnected
       /\ pending' = pending
       /\ sub'[t] = IF LastReaped(s) THEN NoSub ELSE next
    BY <1>2, <1>3, <1>8 DEF TypeOK
<1>20. Custody(t)'
    <2>1. inFlight[t]
        BY <1>2, <1>3 DEF Custody
    <2>2. CASE LastReaped(s)
        BY <1>12, <1>17, <1>18, <1>19, <2>1, <2>2 DEF Custody
    <2>3. CASE ~LastReaped(s)
        <3>1. sub'[t] = next /\ next # NoSub
            BY <1>7, <1>19, <2>3
        <3>2. Outstanding(t) \subseteq 1..sub[t].n
            BY <1>2, <1>3, <1>8 DEF Custody
        <3>3. next.reaped + Cardinality(Outstanding(t)) = next.n
            BY <1>6, <1>7, <1>9, <1>10, <1>11
        <3> QED
            BY <1>6, <1>7, <1>12, <1>17, <1>18, <1>19, <2>1, <2>3, <3>1, <3>2, <3>3
               DEF Custody
    <2> QED  BY <2>2, <2>3
<1>21. UrbCustody(t)'
    <2>1. ASSUME NEW j \in Idx
          PROVE  /\ ~disconnected' /\ urb'[t][j].at # "user" => <<t, j>> \in pending'
                 /\ <<t, j>> \in pending' => urb'[t][j].at # "user"
        BY <1>2, <1>3, <1>4, <1>19 DEF UrbCustody
    <2> QED  BY <1>17, <1>19, <2>1 DEF UrbCustody
<1> QED  BY <1>15, <1>16, <1>20, <1>21 DEF IInv

\* complete() takes the transfer out of flight.
LEMMA CompleteKeeps ==
    ASSUME IInv, Complete
    PROVE  IInv'
<1>1. PICK t \in Transfers : t = evt.t
    BY DEF IInv, TypeOK, Complete
<1>2. /\ evt.step = "complete"
      /\ inFlight' = [inFlight EXCEPT ![t] = FALSE]
      /\ result' = [result EXCEPT ![t] = [status |-> evt.status,
                                          actual |-> evt.actual]]
      /\ evt' \in {Idle, [Idle EXCEPT !.step = "callback", !.t = t]}
      /\ urb' = [urb EXCEPT ![t] = [i \in Idx |-> FreshUrb]]
      /\ UNCHANGED <<submitAt, sub, pending, disconnected, drained, gone, hup>>
    BY <1>1 DEF Complete
<1>3. Custody(t) /\ UrbCustody(t) /\ Disconnecting /\ TypeOK
    BY DEF IInv
<1>4. /\ sub[t] = NoSub /\ t \notin drained /\ submitAt[t] = 0
      /\ Unaccounted(t) = {}
    BY <1>1, <1>2, <1>3 DEF Custody, Completing
<1>5. /\ evt' \in EventThread /\ evt'.step \in {"idle", "callback"}
      /\ evt'.step = "callback" => evt'.t = t
    <2>1. Idle \in EventThread /\ Idle.step = "idle"
        BY DEF Idle, EventThread, Statuses
    <2>2. CASE evt' = Idle
        BY <2>1, <2>2
    <2>3. CASE evt' = [Idle EXCEPT !.step = "callback", !.t = t]
        BY <2>1, <2>3 DEF EventThread
    <2> QED  BY <1>2, <2>2, <2>3
<1>6. FreshUrb \in Urb /\ FreshUrb.at = "user"
    BY DEF FreshUrb, Urb, UrbErrno
<1>7. urb' \in [Transfers -> [Idx -> Urb]] /\ \A i \in Idx : urb'[t][i] = FreshUrb
    BY <1>2, <1>3, <1>6 DEF TypeOK
<1>8. result' \in [Transfers -> [status : Statuses, actual : Nat]]
    BY <1>2, <1>3 DEF TypeOK, EventThread
<1>9. TypeOK' /\ Disconnecting'
    BY <1>2, <1>3, <1>5, <1>7, <1>8 DEF TypeOK, Disconnecting
<1>10. ASSUME NEW v \in Transfers, v # t PROVE Custody(v)' /\ UrbCustody(v)'
    BY <1>1, <1>2, <1>3, <1>5, <1>10, Frame
       DEF IInv, TypeOK, Outstanding, Finishing, Completing
<1>11. ~Finishing(t)' /\ ~Completing(t)' /\ ~Finishing(t)
    BY <1>2, <1>5 DEF Finishing, Completing
<1>12. Outstanding(t)' = {} /\ Unaccounted(t)' = {}
    BY <1>2, <1>4, <1>11 DEF Unaccounted, Outstanding
<1>13. /\ inFlight'[t] = FALSE /\ sub'[t] = NoSub /\ submitAt'[t] = 0
       /\ t \notin drained'
    BY <1>2, <1>3, <1>4 DEF TypeOK
<1>14. Custody(t)'
    BY <1>11, <1>12, <1>13 DEF Custody
<1>15. \A i \in Idx : <<t, i>> \notin pending'
    BY <1>12 DEF Outstanding
<1>16. UrbCustody(t)'
    BY <1>6, <1>7, <1>11, <1>13, <1>15 DEF UrbCustody
<1> QED  BY <1>9, <1>10, <1>14, <1>16 DEF IInv

\* The callback runs with no lock held and owes nothing.
LEMMA CallbackReturnsKeeps ==
    ASSUME IInv, CallbackReturns
    PROVE  IInv'
<1>1. TypeOK' /\ Disconnecting'
    BY DEF CallbackReturns, IInv, TypeOK, Disconnecting, Idle, EventThread, Statuses
<1>2. ASSUME NEW v \in Transfers PROVE Custody(v)' /\ UrbCustody(v)'
    BY Frame DEF CallbackReturns, IInv, Idle, Outstanding, Finishing, Completing
<1> QED  BY <1>1, <1>2 DEF IInv

\* disconnect() takes over every transfer it finds in `pending`.
LEMMA DisconnectKeeps ==
    ASSUME IInv, Disconnect \/ DisconnectAgain
    PROVE  IInv'
<1> USE DEF Disconnect, DisconnectAgain, Drain
<1>1. TypeOK' /\ Disconnecting'
    BY DEF IInv, TypeOK, Disconnecting
<1>2. ASSUME NEW v \in Transfers PROVE Custody(v)' /\ UrbCustody(v)'
    <2>1. Custody(v) /\ UrbCustody(v)
        BY DEF IInv
    <2>2. ~Finishing(v) /\ ~Completing(v) /\ ~Finishing(v)' /\ ~Completing(v)'
        BY DEF Finishing, Completing
    <2>3. Unaccounted(v) = Outstanding(v) /\ Unaccounted(v)' = {}
          /\ Outstanding(v)' = {}
        BY <2>2 DEF Unaccounted, Outstanding
    <2>4. v \in drained' <=> Outstanding(v) # {}
        OBVIOUS
    <2>5. Custody(v)'
        BY <2>1, <2>2, <2>3, <2>4 DEF Custody
    <2>6. UrbCustody(v)'
        BY <2>1, <2>2, <2>3 DEF UrbCustody, Outstanding
    <2> QED  BY <2>5, <2>6
<1> QED  BY <1>1, <1>2 DEF IInv

\* disconnect() completes a drained transfer unless submit() withdrew it.
LEMMA FailDrainedKeeps ==
    ASSUME IInv, NEW t \in Transfers, FailDrained(t)
    PROVE  IInv'
<1> USE DEF FailDrained
<1>1. Custody(t) /\ UrbCustody(t) /\ Disconnecting /\ TypeOK
    BY DEF IInv
<1>2. /\ evt' \in EventThread /\ evt'.step \in {"idle", "complete"}
      /\ evt'.step = "complete" <=> sub[t] # NoSub
      /\ evt'.step = "complete" => evt'.t = t
    BY <1>1 DEF TypeOK, EventThread, Submission, Statuses
<1>3. TypeOK' /\ Disconnecting'
    BY <1>1, <1>2 DEF TypeOK, Disconnecting
<1>4. ASSUME NEW v \in Transfers, v # t PROVE Custody(v)' /\ UrbCustody(v)'
    BY <1>2, <1>4, Frame DEF IInv, TypeOK, Outstanding, Finishing, Completing
<1>5. /\ ~Finishing(t) /\ ~Finishing(t)' /\ ~Completing(t)
      /\ Completing(t)' <=> sub[t] # NoSub
    BY <1>2 DEF Finishing, Completing
<1>6. Unaccounted(t) = {} /\ Unaccounted(t)' = {}
    BY <1>1, <1>5 DEF Custody, Unaccounted, Outstanding
<1>7. sub'[t] = NoSub /\ t \notin drained' /\ submitAt'[t] = 0
    BY <1>1 DEF TypeOK
<1>8. Custody(t)'
    BY <1>1, <1>5, <1>6, <1>7 DEF Custody
<1>9. UrbCustody(t)'
    BY <1>1, <1>5, <1>7 DEF UrbCustody
<1> QED  BY <1>3, <1>4, <1>8, <1>9 DEF IInv

\* Every step keeps the invariant.
LEMMA NextKeeps ==
    ASSUME IInv, [Next]_vars
    PROVE  IInv'
<1>1. CASE EventStep
    <2>1. ASSUME NEW t \in Transfers, Expire(t) PROVE IInv'
        BY <2>1, ExpireKeeps
    <2>2. ASSUME NEW t \in Transfers, FailDrained(t) PROVE IInv'
        BY <2>2, FailDrainedKeeps
    <2>3. ASSUME NEW t \in Transfers, NEW i \in Idx, Reap(t, i) PROVE IInv'
        BY <2>3, ReapKeeps
    <2> QED
        BY <1>1, <2>1, <2>2, <2>3, FinishUrbKeeps, CompleteKeeps,
           CallbackReturnsKeeps, DisconnectKeeps DEF EventStep
<1>2. ASSUME NEW t \in Transfers, SubmitStep(t) PROVE IInv'
    BY <1>2, SubmitRegisterKeeps, SubmitUrbKeeps, SubmitFailsKeeps,
       SubmitCutShortKeeps DEF SubmitStep
<1>3. ASSUME NEW t \in Transfers,
             \/ SubmitRefused(t) \/ SubmitStart(t)
             \/ Cancel(t) \/ DeadlinePasses(t) \/ KernelFinishes(t)
      PROVE  IInv'
    BY <1>3, SubmitRefusedKeeps, SubmitStartKeeps, CancelKeeps,
       DeadlinePassesKeeps, KernelFinishesKeeps
<1>4. CASE UNCHANGED vars
    <2>1. UNCHANGED vars
        BY <1>4
    <2>2. TypeOK' /\ Disconnecting'
        BY <2>1 DEF vars, IInv, TypeOK, Disconnecting
    <2>3. ASSUME NEW v \in Transfers PROVE Custody(v)' /\ UrbCustody(v)'
        BY <2>1, Frame DEF vars, IInv, Outstanding, Finishing, Completing
    <2> QED  BY <2>2, <2>3 DEF IInv
<1> QED  BY <1>1, <1>2, <1>3, <1>4, KernelLosesDeviceKeeps DEF Next

\* The bookkeeping that ties transfers, submissions, URBs and the event thread
\* together holds in every reachable state, for any number of transfers and of
\* URBs per submission.
THEOREM Bookkeeping == Spec => []IInv
BY InitIInv, NextKeeps, PTL DEF Spec

\* Every variable keeps its type.
THEOREM TypeCorrect == Spec => []TypeOK
<1>1. IInv => TypeOK
    BY DEF IInv
<1> QED  BY <1>1, Bookkeeping, PTL

\* The invariant says who owes each transfer its completion.
LEMMA IInvOwed == IInv => CompletionOwed
<1> SUFFICES ASSUME IInv, NEW t \in Transfers PROVE inFlight[t] <=> Owed(t)
    BY DEF CompletionOwed
<1>1. Custody(t)
    BY DEF IInv
<1>2. sub[t] # NoSub => Outstanding(t) # {} \/ Finishing(t) \/ t \in drained
    BY <1>1 DEF Custody, Unaccounted
<1> QED  BY <1>1, <1>2 DEF Owed, Custody

\* No transfer is stranded in flight and none is completed twice: a transfer is
\* in flight exactly while submit(), a URB still to be reaped, or the event
\* thread owes it its completion.
THEOREM NoStrandedTransfer == Spec => []CompletionOwed
BY IInvOwed, Bookkeeping, PTL

\* The invariant says which URBs are in `pending`.
LEMMA IInvPending == IInv => PendingIsKernel
<1> SUFFICES ASSUME IInv, ~disconnected, NEW t \in Transfers, NEW i \in Idx
             PROVE  /\ urb[t][i].at # "user" =>
                          /\ <<t, i>> \in pending
                          /\ sub[t] # NoSub /\ i <= sub[t].n
                    /\ <<t, i>> \in pending /\ submitAt[t] = 0 =>
                          urb[t][i].at # "user"
    BY DEF PendingIsKernel
<1>1. Custody(t) /\ UrbCustody(t)
    BY DEF IInv
<1>2. <<t, i>> \in pending => sub[t] # NoSub /\ i <= sub[t].n
    <2> SUFFICES ASSUME <<t, i>> \in pending PROVE sub[t] # NoSub /\ i <= sub[t].n
        OBVIOUS
    <2>1. i \in Unaccounted(t)
        BY DEF Unaccounted, Outstanding
    <2>2. sub[t] # NoSub
        BY <1>1, <2>1 DEF Custody
    <2>3. sub[t].n \in Idx
        BY <2>2 DEF IInv, TypeOK, Submission
    <2> QED  BY <1>1, <2>1, <2>2, <2>3 DEF Custody
<1> QED  BY <1>1, <1>2 DEF UrbCustody

\* Until the handle is disconnected, `pending` lists exactly the URBs the kernel
\* holds (outside submit()), and a live submission keeps each of them allocated.
THEOREM PendingExact == Spec => []PendingIsKernel
BY IInvPending, Bookkeeping, PTL

(***************************************************************************)
(* The backend implements TransferLife.                                    *)
(***************************************************************************)

\* A step that neither enters nor leaves submit() and publishes no result is
\* invisible at the level of TransferLife.
LEMMA InvisibleStep ==
    ASSUME UNCHANGED <<inFlight, result>>,
           \A t \in Transfers : submitAt'[t] = 0 <=> submitAt[t] = 0
    PROVE  UNCHANGED Life!lifeVars
<1>1. Phase' = Phase
    BY DEF Phase
<1> QED  BY <1>1 DEF Life!lifeVars

\* The steps of submit() are Begin, Refuse, Accept or invisible.
LEMMA SubmitRefines ==
    ASSUME IInv, NEW t \in Transfers,
           SubmitRefused(t) \/ SubmitStart(t) \/ SubmitStep(t)
    PROVE  [Life!Next]_(Life!lifeVars)
<1>1. TypeOK /\ Custody(t)
    BY DEF IInv
<1>2. CASE SubmitRefused(t)
    <2>1. Phase[t] = "idle" /\ Phase' = Phase
        BY <1>2 DEF SubmitRefused, Phase
    <2>2. Life!RefuseAtOnce(t)
        BY <1>2, <2>1 DEF SubmitRefused, Life!RefuseAtOnce
    <2> QED  BY <2>2 DEF Life!Next
<1>3. CASE SubmitStart(t)
    <2>1. /\ submitAt[t] = 0 /\ ~inFlight[t] /\ submitAt'[t] # 0
          /\ \A v \in Transfers \ {t} : /\ submitAt'[v] = submitAt[v]
                                        /\ inFlight'[v] = inFlight[v]
        BY <1>1, <1>3 DEF SubmitStart, TypeOK
    <2>2. Phase[t] = "idle" /\ Phase' = [Phase EXCEPT ![t] = "submitting"]
        BY <2>1 DEF Phase
    <2>3. Life!Begin(t)
        BY <1>3, <2>2 DEF SubmitStart, Life!Begin
    <2> QED  BY <2>3 DEF Life!Next
<1>4. CASE SubmitRegister(t)
    <2>1. \A v \in Transfers : submitAt'[v] = 0 <=> submitAt[v] = 0
        BY <1>1, <1>4 DEF SubmitRegister, TypeOK
    <2> QED  BY <1>4, <2>1, InvisibleStep DEF SubmitRegister
<1>5. CASE SubmitFails(t)
    <2>1. /\ submitAt[t] # 0 /\ submitAt'[t] = 0 /\ ~inFlight'[t]
          /\ \A v \in Transfers \ {t} : /\ submitAt'[v] = submitAt[v]
                                        /\ inFlight'[v] = inFlight[v]
        BY <1>1, <1>5 DEF SubmitFails, TypeOK
    <2>2. Phase[t] = "submitting" /\ Phase' = [Phase EXCEPT ![t] = "idle"]
        BY <2>1 DEF Phase
    <2>3. Life!Refuse(t)
        BY <1>5, <2>2 DEF SubmitFails, Life!Refuse
    <2> QED  BY <2>3 DEF Life!Next
<1>6. ASSUME submitAt[t] > 0, submitAt' = [submitAt EXCEPT ![t] = 0],
             UNCHANGED <<inFlight, result>>
      PROVE  Life!Next
    <2>1. inFlight[t] /\ submitAt[t] # 0
        BY <1>1, <1>6 DEF Custody
    <2>2. Phase[t] = "submitting" /\ Phase' = [Phase EXCEPT ![t] = "accepted"]
        BY <1>1, <1>6, <2>1 DEF Phase, TypeOK
    <2>3. Life!Accept(t)
        BY <1>6, <2>2 DEF Life!Accept
    <2> QED  BY <2>3 DEF Life!Next
<1>7. CASE SubmitCutShort(t)
    <2>1. submitAt[t] > 1 /\ submitAt[t] \in {Checked, 0} \cup Idx
        BY <1>1, <1>7 DEF SubmitCutShort, TypeOK
    <2>2. submitAt[t] > 0
        BY <2>1
    <2> QED  BY <1>6, <1>7, <2>2 DEF SubmitCutShort
<1>8. CASE SubmitUrb(t)
    <2>1. CASE submitAt[t] = sub[t].n
        BY <1>6, <1>8, <2>1 DEF SubmitUrb
    <2>2. CASE submitAt[t] # sub[t].n
        <3>1. submitAt[t] \in Idx
            BY <1>1, <1>8 DEF SubmitUrb, TypeOK
        <3>2. \A v \in Transfers : submitAt'[v] = 0 <=> submitAt[v] = 0
            BY <1>1, <1>8, <2>2, <3>1 DEF SubmitUrb, TypeOK
        <3> QED  BY <1>8, <3>2, InvisibleStep DEF SubmitUrb
    <2> QED  BY <2>1, <2>2
<1> QED  BY <1>2, <1>3, <1>4, <1>5, <1>7, <1>8 DEF SubmitStep

\* Inner::complete() is Complete of an accepted submission.
LEMMA CompleteRefines ==
    ASSUME IInv, Complete
    PROVE  Life!Next
<1>1. PICK t \in Transfers : t = evt.t
    BY DEF IInv, TypeOK, Complete
<1>2. TypeOK /\ Custody(t) /\ Completing(t)
    BY <1>1 DEF IInv, Complete, Completing
<1>3. inFlight[t] /\ submitAt[t] = 0
    BY <1>2 DEF Custody
<1>4. Phase[t] = "accepted" /\ Phase' = [Phase EXCEPT ![t] = "idle"]
    BY <1>1, <1>2, <1>3 DEF Complete, Phase, TypeOK
<1> DEFINE r == [status |-> evt.status, actual |-> evt.actual]
<1>5. r \in [status : Statuses, actual : Nat]
    BY <1>2 DEF TypeOK, EventThread
<1>6. result' = [result EXCEPT ![t] = r]
    BY <1>1 DEF Complete
<1> HIDE DEF r
<1>7. result'[t] = r
    BY <1>2, <1>6 DEF TypeOK
<1>8. Life!Complete(t)
    BY <1>4, <1>5, <1>6, <1>7 DEF Life!Complete
<1> QED  BY <1>8 DEF Life!Next

\* Every step is a step of TransferLife or invisible to it.
LEMMA NextRefines ==
    ASSUME IInv, [Next]_vars
    PROVE  [Life!Next]_(Life!lifeVars)
<1>1. CASE UNCHANGED <<inFlight, result, submitAt>>
    BY <1>1, InvisibleStep
<1>2. ASSUME NEW t \in Transfers,
             \/ Cancel(t) \/ DeadlinePasses(t) \/ KernelFinishes(t)
             \/ Expire(t) \/ FailDrained(t) \/ \E i \in Idx : Reap(t, i)
      PROVE  UNCHANGED <<inFlight, result, submitAt>>
    BY <1>2 DEF Cancel, DeadlinePasses, KernelFinishes, Expire, FailDrained, Reap
<1>3. ASSUME \/ KernelLosesDevice \/ FinishUrb \/ CallbackReturns
             \/ Disconnect \/ DisconnectAgain
      PROVE  UNCHANGED <<inFlight, result, submitAt>>
    BY <1>3 DEF KernelLosesDevice, FinishUrb, CallbackReturns, Disconnect,
           DisconnectAgain, Drain
<1>4. CASE UNCHANGED vars
    BY <1>1, <1>4 DEF vars
<1> QED
    BY <1>1, <1>2, <1>3, <1>4, SubmitRefines, CompleteRefines DEF Next, EventStep

\* Initial states map to initial states.
LEMMA InitRefines == Init => Life!Init
BY DEF Init, Life!Init, Phase

\* Whatever races between submit, cancel, expire, reap and disconnect, every
\* accepted submission is completed exactly once, a refused one never, and the
\* published result changes at a completion only.
THEOREM Implementation == Spec => ImplementsLife
<1>1. IInv /\ [Next]_vars => [Life!Next]_(Life!lifeVars)
    BY NextRefines
<1> QED  BY <1>1, InitRefines, Bookkeeping, PTL DEF Spec, ImplementsLife, Life!Spec

-----------------------------------------------------------------------------
(* What a Completed transfer says. *)

\* submit() has handed URB i over.
Submitted(t, i) == i <= sub[t].n /\ (submitAt[t] <= 0 \/ i < submitAt[t])

\* URB i has come back, reaped or not.
Ended(t, i) == urb[t][i].at = "done" \/ (urb[t][i].at = "user" /\ Submitted(t, i))

\* Some URB before i came back short and without an error.
ShortBefore(t, i) ==
    \E j \in 1..(i - 1) : Ended(t, j) /\ urb[t][j].status = "OK" /\ IsShort(t, urb[t][j])

\* URB i failed by itself, and finish_urb has yet to learn of it.
FailureAhead(t, i) ==
    /\ urb[t][i].status \notin {"OK"} \cup Unlinked
    /\ urb[t][i].at = "done" \/ (Finishing(t) /\ evt.i = i)

\* The URBs of a submission end and are reaped in the order of submission, and
\* one that has not come back has no error; no status is held yet but a failure.
InOrder(t) ==
    /\ sub[t] # NoSub =>
          /\ sub[t].status # "Completed"
          /\ \A i \in Idx : urb[t][i].status # "OK" => Ended(t, i)
          /\ \A i, j \in Idx : j < i /\ Submitted(t, i) =>
                /\ urb[t][j].at = "kernel" => urb[t][i].at = "kernel"
                /\ urb[t][i].at = "user" => urb[t][j].at = "user"
    /\ sub[t] = NoSub /\ ~Completing(t) => \A i \in Idx : urb[t][i].status = "OK"

\* While nothing has been held against the submission, every URB that failed
\* did so behind a short one, or behind a failure still to be accounted for;
\* and what was discarded was discarded behind a short one.
Blameless(t) ==
    sub[t] # NoSub /\ ~sub[t].cancelled /\ ~sub[t].timedOut /\ sub[t].status = "None" =>
        /\ \A i \in Idx : urb[t][i].status # "OK" =>
              ShortBefore(t, i) \/ \E j \in 1..i : FailureAhead(t, j)
        /\ sub[t].discardedFrom <= sub[t].n => ShortBefore(t, sub[t].discardedFrom)

HonestInv ==
    /\ IInv
    /\ ~disconnected => \A t \in Transfers : InOrder(t) /\ Blameless(t)
    /\ evt.step = "complete" /\ evt.status = "Completed" => ~disconnected
    /\ CompletedIsHonest

\* A step that leaves everything about transfer v alone keeps both.
LEMMA HonestFrame ==
    ASSUME NEW v \in Transfers, InOrder(v), Blameless(v),
           submitAt'[v] = submitAt[v], sub'[v] = sub[v], urb'[v] = urb[v],
           Finishing(v)' <=> Finishing(v), Finishing(v) => evt'.i = evt.i,
           Completing(v) => Completing(v)'
    PROVE  InOrder(v)' /\ Blameless(v)'
<1>1. \A i \in Idx : Ended(v, i)' <=> Ended(v, i)
    BY DEF Ended, Submitted
<1>2. \A i : ShortBefore(v, i)' <=> ShortBefore(v, i)
    BY DEF ShortBefore, Ended, Submitted, IsShort
<1>3. \A i \in Idx : FailureAhead(v, i)' <=> FailureAhead(v, i)
    BY DEF FailureAhead
<1>4. InOrder(v)'
    BY <1>1 DEF InOrder, Submitted
<1>5. Blameless(v)'
    BY <1>2, <1>3 DEF Blameless
<1> QED  BY <1>4, <1>5

\* A loop of DISCARDURB ends every URB it finds queued, or none.
LEMMA DiscardedEnds ==
    ASSUME TypeOK, NEW t \in Transfers, NEW from \in Nat,
           NEW after \in Discarded(t, from)
    PROVE  /\ \A i \in Idx :
                 \/ after[i] = urb[t][i]
                 \/ urb[t][i].at = "kernel" /\ i >= from /\ after[i].at = "done"
           /\ \/ \A i \in Idx : i >= from /\ urb[t][i].at = "kernel" => after[i].at = "done"
              \/ \A i \in Idx : after[i] = urb[t][i]
<1> DEFINE hit == {i \in Idx : i >= from /\ urb[t][i].at = "kernel" /\ ~gone}
           ends == {Killed(b) : b \in 0..(UrbLen - 1)} \cup Natural(t)
<1>1. PICK f \in [hit -> ends] :
         after = [i \in Idx |-> IF i \in hit THEN f[i] ELSE urb[t][i]]
    BY Zenon DEF Discarded
<1>2. \A e \in ends : e.at = "done"
    BY DEF Killed, Natural
<1>3. \A i \in hit : f[i].at = "done"
    BY <1>1, <1>2
<1>4. \A i \in Idx : after[i] = IF i \in hit THEN f[i] ELSE urb[t][i]
    BY <1>1
<1>5. \A i \in hit : urb[t][i].at = "kernel" /\ i >= from
    OBVIOUS
<1>6. \/ \A i \in Idx : i >= from /\ urb[t][i].at = "kernel" => i \in hit
      \/ \A i \in Idx : i \notin hit
    OBVIOUS
<1> HIDE DEF hit, ends
<1> QED  BY <1>3, <1>4, <1>5, <1>6

\* It keeps the order in which URBs end.
LEMMA DiscardedInOrder ==
    ASSUME IInv, NEW t \in Transfers, InOrder(t), sub[t] # NoSub,
           NEW from \in Nat \ {0}, NEW after \in Discarded(t, from),
           urb' = [urb EXCEPT ![t] = after],
           sub'[t] # NoSub, sub'[t].status # "Completed",
           \A i \in Idx : Submitted(t, i)' <=> Submitted(t, i),
           \A i \in 1..(from - 1) : urb[t][i].at # "kernel"
    PROVE  InOrder(t)'
<1>1. urb'[t] = after
    BY DEF IInv, TypeOK
<1>2. \A i \in Idx : Ended(t, i) => Ended(t, i)' /\ urb'[t][i] = urb[t][i]
    BY <1>1, DiscardedEnds DEF IInv, Ended
<1>3. \A i \in Idx : urb'[t][i].status # "OK" => Ended(t, i)'
    BY <1>1, <1>2, DiscardedEnds DEF IInv, InOrder, Ended
<1>4. \A i, j \in Idx : j < i /\ Submitted(t, i)' =>
         /\ urb'[t][j].at = "kernel" => urb'[t][i].at = "kernel"
         /\ urb'[t][i].at = "user" => urb'[t][j].at = "user"
    <2> SUFFICES ASSUME NEW i \in Idx, NEW j \in Idx, j < i, Submitted(t, i)
                 PROVE  /\ after[j].at = "kernel" => after[i].at = "kernel"
                        /\ after[i].at = "user" => after[j].at = "user"
        BY <1>1
    <2>1. /\ urb[t][j].at = "kernel" => urb[t][i].at = "kernel"
          /\ urb[t][i].at = "user" => urb[t][j].at = "user"
        BY DEF InOrder
    <2>2. /\ after[i].at = "user" <=> urb[t][i].at = "user"
          /\ after[j].at = "user" <=> urb[t][j].at = "user"
        BY DiscardedKeeps DEF IInv
    <2>3. after[j].at = "kernel" => after[i].at = "kernel"
        <3>1. CASE j < from
            BY <3>1, <2>1, DiscardedEnds DEF IInv
        <3>2. CASE j >= from
            BY <3>2, <2>1, DiscardedEnds DEF IInv
        <3> QED  BY <3>1, <3>2
    <2> QED  BY <2>1, <2>2, <2>3
<1> QED  BY <1>3, <1>4 DEF InOrder

\* Nothing about a Completed transfer changes until the completion is published.
LEMMA CompletedFrame ==
    ASSUME CompletedIsHonest, UNCHANGED evt,
           evt.step = "complete" /\ evt.status = "Completed" => urb'[evt.t] = urb[evt.t]
    PROVE  CompletedIsHonest'
BY DEF CompletedIsHonest, IsShort

\* The URBs of a transfer that is being completed are all in user space.
LEMMA CompletingIsQuiet ==
    ASSUME IInv, ~disconnected, NEW t \in Transfers, Completing(t)
    PROVE  sub[t] = NoSub /\ \A i \in Idx : urb[t][i].at = "user"
BY DEF IInv, Custody, UrbCustody, Unaccounted, Outstanding

\* A step of a user thread or the kernel on transfer t has to be looked at for t
\* only.
LEMMA OneTransfer ==
    ASSUME HonestInv, IInv', NEW t \in Transfers, UNCHANGED <<disconnected, evt>>,
           \A v \in Transfers \ {t} :
              submitAt'[v] = submitAt[v] /\ sub'[v] = sub[v] /\ urb'[v] = urb[v],
           ~disconnected => InOrder(t)' /\ Blameless(t)',
           ~disconnected /\ Completing(t) => urb'[t] = urb[t]
    PROVE  HonestInv'
<1>1. ~disconnected => \A v \in Transfers : InOrder(v)' /\ Blameless(v)'
    <2> SUFFICES ASSUME ~disconnected, NEW v \in Transfers, v # t
                 PROVE  InOrder(v)' /\ Blameless(v)'
        OBVIOUS
    <2>1. InOrder(v) /\ Blameless(v)
        BY DEF HonestInv
    <2> QED  BY <2>1, HonestFrame DEF Finishing, Completing
<1>2. CompletedIsHonest'
    <2>1. evt.step = "complete" => evt.t \in Transfers
        BY DEF HonestInv, IInv, TypeOK
    <2> QED  BY <2>1, CompletedFrame DEF HonestInv, Completing
<1> QED  BY <1>1, <1>2 DEF HonestInv

\* A URB that fails by itself is a failure ahead, and explains those the kernel
\* unlinks behind it; so does one that comes back short.
LEMMA KernelFinishesHonest ==
    ASSUME HonestInv, NEW t \in Transfers, KernelFinishes(t)
    PROVE  HonestInv'
<1>1. PICK i \in Idx, u \in Natural(t), cut \in BOOLEAN :
         /\ urb[t][i].at = "kernel"
         /\ \A j \in 1..(i - 1) : urb[t][j].at # "kernel"
         /\ t \in Iso => ~cut
         /\ u.status = "OK" /\ u.bytes = UrbLen => ~cut
         /\ urb' = [urb EXCEPT ![t] = UrbsAfter(t, i, u, cut)]
    BY Zenon DEF KernelFinishes
<1>2. UNCHANGED <<submitAt, sub, pending, disconnected, evt>>
    BY DEF KernelFinishes
<1>3. IInv'
    BY KernelFinishesKeeps DEF HonestInv
<1>4. /\ u.at = "done" /\ u.bytes \in 0..UrbLen /\ u.status \in {"OK"} \cup KernelErrors
      /\ Killed(0).at = "done" /\ Killed(0).status = "ENOENT"
    BY DEF Natural, Killed
<1>5. /\ \A v \in Transfers \ {t} : urb'[v] = urb[v]
      /\ urb'[t][i] = u
      /\ \A j \in Idx \ {i} :
            urb'[t][j] = IF j > i /\ cut /\ urb[t][j].at = "kernel" THEN Killed(0)
                         ELSE urb[t][j]
    BY <1>1 DEF HonestInv, IInv, TypeOK, UrbsAfter
<1>6. ASSUME ~disconnected PROVE sub[t] # NoSub /\ ~Completing(t)
    <2>1. ~Completing(t)
        BY <1>1, <1>6, CompletingIsQuiet DEF HonestInv
    <2>2. i \in Unaccounted(t)
        BY <1>1, <1>6 DEF HonestInv, IInv, UrbCustody, Unaccounted, Outstanding
    <2> QED  BY <2>1, <2>2 DEF HonestInv, IInv, Custody
<1>7. ASSUME ~disconnected PROVE InOrder(t)'
    <2>1. InOrder(t) /\ sub[t] # NoSub
        BY <1>6, <1>7 DEF HonestInv
    <2>2. \A j \in Idx : urb'[t][j].status # "OK" => Ended(t, j)'
        BY <2>1, <1>2, <1>4, <1>5 DEF InOrder, Ended, Submitted
    <2>3. \A k, j \in Idx : j < k /\ Submitted(t, k) =>
             /\ urb'[t][j].at = "kernel" => urb'[t][k].at = "kernel"
             /\ urb'[t][k].at = "user" => urb'[t][j].at = "user"
        <3> SUFFICES ASSUME NEW k \in Idx, NEW j \in Idx, j < k, Submitted(t, k)
                     PROVE  /\ urb'[t][j].at = "kernel" => urb'[t][k].at = "kernel"
                            /\ urb'[t][k].at = "user" => urb'[t][j].at = "user"
            OBVIOUS
        <3>1. /\ urb[t][j].at = "kernel" => urb[t][k].at = "kernel"
              /\ urb[t][k].at = "user" => urb[t][j].at = "user"
            BY <2>1 DEF InOrder
        <3>2. urb'[t][j].at = "kernel" => j > i /\ ~cut /\ urb[t][j].at = "kernel"
            BY <1>1, <1>4, <1>5
        <3> QED  BY <3>1, <3>2, <1>1, <1>4, <1>5
    <2> QED  BY <2>1, <2>2, <2>3, <1>2 DEF InOrder, Submitted
<1>8. ASSUME ~disconnected PROVE Blameless(t)'
    <2> SUFFICES ASSUME ~sub[t].cancelled, ~sub[t].timedOut, sub[t].status = "None"
                 PROVE  /\ \A k \in Idx : urb'[t][k].status # "OK" =>
                              ShortBefore(t, k)' \/ \E j \in 1..k : FailureAhead(t, j)'
                        /\ sub[t].discardedFrom <= sub[t].n =>
                              ShortBefore(t, sub[t].discardedFrom)'
        BY <1>2 DEF Blameless
    <2>1. /\ \A k \in Idx : urb[t][k].status # "OK" =>
                ShortBefore(t, k) \/ \E j \in 1..k : FailureAhead(t, j)
          /\ sub[t].discardedFrom <= sub[t].n => ShortBefore(t, sub[t].discardedFrom)
        BY <1>6, <1>8 DEF HonestInv, Blameless
    <2>2. \A j \in Idx : Ended(t, j) => Ended(t, j)' /\ urb'[t][j] = urb[t][j]
        BY <1>1, <1>2, <1>5 DEF Ended, Submitted
    <2>3. /\ \A k \in Idx : ShortBefore(t, k) => ShortBefore(t, k)'
          /\ sub[t].discardedFrom <= sub[t].n =>
                (ShortBefore(t, sub[t].discardedFrom) => ShortBefore(t, sub[t].discardedFrom)')
        <3>1. sub[t].n \in Idx /\ sub[t].discardedFrom \in Nat
            BY <1>6, <1>8 DEF HonestInv, IInv, TypeOK, Submission
        <3>2. \A k \in Nat : k <= MaxUrbs /\ ShortBefore(t, k) =>
                 \E j \in 1..(k - 1) : /\ j \in Idx /\ Ended(t, j)
                                       /\ urb[t][j].status = "OK" /\ IsShort(t, urb[t][j])
            BY DEF ShortBefore
        <3>3. \A k \in Nat : k <= MaxUrbs /\ ShortBefore(t, k) =>
                 \E j \in 1..(k - 1) : /\ Ended(t, j)'
                                       /\ urb'[t][j].status = "OK" /\ IsShort(t, urb'[t][j])
            BY <3>2, <2>2
        <3>4. \A k \in Nat : k <= MaxUrbs /\ ShortBefore(t, k) => ShortBefore(t, k)'
            BY <3>3 DEF ShortBefore, IsShort
        <3> QED  BY <3>1, <3>4, <1>2
    <2>4. \A j \in Idx : FailureAhead(t, j) => FailureAhead(t, j)'
        <3>1. InOrder(t) /\ sub[t] # NoSub
            BY <1>6, <1>8 DEF HonestInv
        <3>2. \A j \in Idx : FailureAhead(t, j) => Ended(t, j)
            BY <3>1 DEF FailureAhead, InOrder
        <3> QED  BY <3>2, <2>2, <1>2 DEF FailureAhead, Finishing
    <2>5. u.status # "OK" => FailureAhead(t, i)'
        BY <1>4, <1>5 DEF FailureAhead, Unlinked
    <2>6. ASSUME NEW k \in Idx, k > i, cut, u.status = "OK"
          PROVE  ShortBefore(t, k)'
        <3>1. t \notin Iso /\ u.bytes < UrbLen
            BY <1>1, <1>4, <2>6
        <3>2. Ended(t, i)' /\ urb'[t][i].status = "OK" /\ IsShort(t, urb'[t][i])
            BY <1>4, <1>5, <2>6, <3>1 DEF Ended, IsShort
        <3> QED  BY <2>6, <3>2 DEF ShortBefore, IsShort
    <2>7. ASSUME NEW k \in Idx, urb'[t][k].status # "OK"
          PROVE  ShortBefore(t, k)' \/ \E j \in 1..k : FailureAhead(t, j)'
        <3>1. CASE k = i
            BY <3>1, <2>5, <2>7, <1>5
        <3>2. CASE k # i /\ urb'[t][k] = urb[t][k]
            BY <3>2, <2>1, <2>3, <2>4, <2>7
        <3>3. CASE k > i /\ cut
            BY <3>3, <2>5, <2>6
        <3> QED  BY <3>1, <3>2, <3>3, <1>5
    <2> QED  BY <2>1, <2>3, <2>7
<1> QED  BY <1>2, <1>3, <1>5, <1>6, <1>7, <1>8, OneTransfer

\* A short URB stays one as long as the URBs that ended stay as they are.
LEMMA ShortKept ==
    ASSUME NEW t \in Transfers,
           \A j \in Idx : Ended(t, j) => Ended(t, j)' /\ urb'[t][j].status = urb[t][j].status
                                      /\ urb'[t][j].bytes = urb[t][j].bytes,
           NEW k \in Nat, k <= MaxUrbs, ShortBefore(t, k)
    PROVE  ShortBefore(t, k)'
<1>1. PICK j \in 1..(k - 1) : Ended(t, j) /\ urb[t][j].status = "OK" /\ IsShort(t, urb[t][j])
    BY DEF ShortBefore
<1>2. Ended(t, j)' /\ urb'[t][j].status = "OK" /\ IsShort(t, urb'[t][j])
    BY <1>1 DEF IsShort
<1> QED  BY <1>2 DEF ShortBefore, IsShort

\* A step that blames nothing on the submission keeps it blameless if every URB
\* it makes fail is a failure ahead.
LEMMA BlamelessKept ==
    ASSUME HonestInv, ~disconnected, NEW t \in Transfers, sub[t] # NoSub, sub'[t] # NoSub,
           sub'[t].n = sub[t].n, sub'[t].discardedFrom = sub[t].discardedFrom,
           ~sub'[t].cancelled /\ ~sub'[t].timedOut /\ sub'[t].status = "None" =>
              ~sub[t].cancelled /\ ~sub[t].timedOut /\ sub[t].status = "None",
           \A j \in Idx : Ended(t, j) => Ended(t, j)' /\ urb'[t][j].status = urb[t][j].status
                                      /\ urb'[t][j].bytes = urb[t][j].bytes,
           \A j \in Idx : FailureAhead(t, j) => FailureAhead(t, j)',
           ~sub'[t].cancelled /\ ~sub'[t].timedOut =>
              \A j \in Idx : urb'[t][j].status \in {"OK", urb[t][j].status} \/ FailureAhead(t, j)'
    PROVE  Blameless(t)'
<1> SUFFICES ASSUME ~sub'[t].cancelled, ~sub'[t].timedOut, sub'[t].status = "None"
             PROVE  /\ \A k \in Idx : urb'[t][k].status # "OK" =>
                          ShortBefore(t, k)' \/ \E j \in 1..k : FailureAhead(t, j)'
                    /\ sub'[t].discardedFrom <= sub'[t].n =>
                          ShortBefore(t, sub[t].discardedFrom)'
    BY DEF Blameless
<1>1. /\ \A k \in Idx : urb[t][k].status # "OK" =>
            ShortBefore(t, k) \/ \E j \in 1..k : FailureAhead(t, j)
      /\ sub[t].discardedFrom <= sub[t].n => ShortBefore(t, sub[t].discardedFrom)
    BY DEF HonestInv, Blameless
<1>2. PICK d : d = sub[t].discardedFrom
    OBVIOUS
<1>3. d \in Nat /\ sub[t].n \in Nat /\ sub[t].n <= MaxUrbs
    BY <1>2 DEF HonestInv, IInv, TypeOK, Submission
<1>4. d <= sub[t].n => ShortBefore(t, d)'
    BY <1>1, <1>2, <1>3, ShortKept
<1>5. \A k \in Idx : urb'[t][k].status # "OK" =>
         ShortBefore(t, k)' \/ \E j \in 1..k : FailureAhead(t, j)'
    <2> SUFFICES ASSUME NEW k \in Idx, urb'[t][k].status # "OK"
                 PROVE  ShortBefore(t, k)' \/ \E j \in 1..k : FailureAhead(t, j)'
        OBVIOUS
    <2>1. CASE FailureAhead(t, k)'
        BY <2>1
    <2>2. CASE urb[t][k].status # "OK"
        <3>1. CASE ShortBefore(t, k)
            BY <3>1, ShortKept
        <3>2. CASE \E j \in 1..k : FailureAhead(t, j)
            BY <3>2
        <3> QED  BY <1>1, <2>2, <3>1, <3>2
    <2> QED  BY <2>1, <2>2
<1> QED  BY <1>2, <1>4, <1>5

\* A failure ahead is of a URB that has ended.
LEMMA FailuresHaveEnded ==
    ASSUME HonestInv, ~disconnected, NEW t \in Transfers, sub[t] # NoSub
    PROVE  \A j \in Idx : FailureAhead(t, j) => Ended(t, j)
BY DEF HonestInv, InOrder, FailureAhead

\* cancel() and expire() hold it against the submission if they unlinked any
\* URB; a URB that ended just before may be a failure ahead.
LEMMA DiscardHonest ==
    ASSUME HonestInv, IInv', ~disconnected, NEW t \in Transfers, sub[t] # NoSub, submitAt[t] = 0,
           NEW after \in Discarded(t, 1), urb' = [urb EXCEPT ![t] = after],
           UNCHANGED <<submitAt, evt>>,
           sub'[t] # NoSub, sub'[t].n = sub[t].n, sub'[t].status = sub[t].status,
           sub'[t].discardedFrom = sub[t].discardedFrom,
           sub[t].cancelled => sub'[t].cancelled, sub[t].timedOut => sub'[t].timedOut,
           SomeKilled(t, after) => sub'[t].cancelled \/ sub'[t].timedOut
    PROVE  InOrder(t)' /\ Blameless(t)'
<1>1. InOrder(t) /\ urb'[t] = after
    BY DEF HonestInv, IInv, TypeOK
<1>2. InOrder(t)'
    <2>1. \A i \in Idx : Submitted(t, i)' <=> Submitted(t, i)
        BY DEF Submitted
    <2>2. sub'[t].status # "Completed"
        BY <1>1 DEF InOrder
    <2>3. 1 \in Nat \ {0} /\ IInv /\ \A i \in 1..(1 - 1) : urb[t][i].at # "kernel"
        BY DEF HonestInv
    <2> QED  BY <1>1, <2>1, <2>2, <2>3, DiscardedInOrder
<1>3. \A j \in Idx : Ended(t, j) => Ended(t, j)' /\ urb'[t][j] = urb[t][j]
    BY <1>1, DiscardedEnds DEF HonestInv, IInv, Ended, Submitted
<1>4. \A j \in Idx : FailureAhead(t, j) => FailureAhead(t, j)'
    BY <1>3, FailuresHaveEnded DEF FailureAhead, Finishing
<1>5. ~SomeKilled(t, after) =>
         \A j \in Idx : urb'[t][j].status \in {"OK", urb[t][j].status} \/ FailureAhead(t, j)'
    BY <1>1, DiscardedEnds DEF HonestInv, IInv, SomeKilled, FailureAhead
<1>6. Blameless(t)'
    BY <1>3, <1>4, <1>5, BlamelessKept
<1> QED  BY <1>2, <1>6

\* So cancel() and expire() keep both.
LEMMA CancelHonest ==
    ASSUME HonestInv, NEW t \in Transfers, Cancel(t) \/ Expire(t)
    PROVE  HonestInv'
<1>1. IInv'
    BY CancelKeeps, ExpireKeeps DEF HonestInv
<1>2. PICK after \in Discarded(t, 1) :
        /\ urb' = [urb EXCEPT ![t] = after]
        /\ \/ sub' = [sub EXCEPT ![t].cancelled = @ \/ SomeKilled(t, after)]
           \/ /\ ~sub[t].timedOut
              /\ sub' = [sub EXCEPT ![t].timedOut = SomeKilled(t, after),
                                    ![t].deadline = "none"]
    BY Zenon DEF Cancel, Expire
<1>3. /\ submitAt[t] = 0 /\ sub[t] # NoSub /\ UNCHANGED <<submitAt, disconnected, evt>>
    BY DEF Cancel, Expire
<1>4. sub[t] \in Submission /\ sub \in [Transfers -> Submission \cup {NoSub}]
    BY <1>3 DEF HonestInv, IInv, TypeOK
<1>5. /\ \A v \in Transfers \ {t} : sub'[v] = sub[v]
      /\ sub'[t] # NoSub /\ sub'[t].n = sub[t].n /\ sub'[t].status = sub[t].status
      /\ sub'[t].discardedFrom = sub[t].discardedFrom
      /\ sub[t].cancelled => sub'[t].cancelled
      /\ sub[t].timedOut => sub'[t].timedOut
      /\ SomeKilled(t, after) => sub'[t].cancelled \/ sub'[t].timedOut
    <2>1. CASE sub' = [sub EXCEPT ![t].cancelled = @ \/ SomeKilled(t, after)]
        <3> DEFINE s == [sub[t] EXCEPT !.cancelled = @ \/ SomeKilled(t, after)]
        <3>1. /\ s.n = sub[t].n /\ s.status = sub[t].status /\ s.timedOut = sub[t].timedOut
              /\ s.discardedFrom = sub[t].discardedFrom
              /\ s.cancelled = (sub[t].cancelled \/ SomeKilled(t, after))
            BY <1>4 DEF Submission
        <3>2. sub' = [sub EXCEPT ![t] = s]
            BY <2>1
        <3>3. sub'[t] # NoSub
            <4>1. inFlight'[t] <=> sub'[t] # NoSub
                BY <1>1, <1>3 DEF IInv, Custody, Completing, HonestInv
            <4>2. inFlight'[t]
                BY <1>3 DEF HonestInv, IInv, Custody, Cancel, Expire
            <4> QED  BY <4>1, <4>2
        <3> HIDE DEF s
        <3> QED  BY <1>4, <3>1, <3>2, <3>3
    <2>2. CASE /\ ~sub[t].timedOut
               /\ sub' = [sub EXCEPT ![t].timedOut = SomeKilled(t, after),
                                     ![t].deadline = "none"]
        <3> DEFINE s == [sub[t] EXCEPT !.timedOut = SomeKilled(t, after), !.deadline = "none"]
        <3>1. /\ s.n = sub[t].n /\ s.status = sub[t].status /\ s.cancelled = sub[t].cancelled
              /\ s.discardedFrom = sub[t].discardedFrom /\ s.timedOut = SomeKilled(t, after)
            BY <1>4 DEF Submission
        <3>2. sub' = [sub EXCEPT ![t] = s]
            BY <2>2
        <3>3. sub'[t] # NoSub
            <4>1. inFlight'[t] <=> sub'[t] # NoSub
                BY <1>1, <1>3 DEF IInv, Custody, Completing, HonestInv
            <4>2. inFlight'[t]
                BY <1>3 DEF HonestInv, IInv, Custody, Cancel, Expire
            <4> QED  BY <4>1, <4>2
        <3> HIDE DEF s
        <3> QED  BY <1>4, <2>2, <3>1, <3>2, <3>3
    <2> QED  BY <1>2, <2>1, <2>2
<1>6. \A v \in Transfers \ {t} : urb'[v] = urb[v]
    BY <1>2 DEF HonestInv, IInv, TypeOK
<1>7. ~Completing(t)
    BY <1>3 DEF HonestInv, IInv, Custody
<1>8. ~disconnected => InOrder(t)' /\ Blameless(t)'
    BY <1>1, <1>2, <1>3, <1>5, DiscardHonest
<1> QED  BY <1>1, <1>3, <1>5, <1>6, <1>7, <1>8, OneTransfer

\* A URB in user space that is not yet submitted carries no error.
LEMMA UnsentIsClean ==
    ASSUME HonestInv, ~disconnected, NEW t \in Transfers, ~Completing(t),
           sub[t] # NoSub => submitAt[t] \in {Checked, 1}
    PROVE  \A i \in Idx : urb[t][i].status = "OK" /\ urb[t][i].at = "user"
<1>1. InOrder(t) /\ Custody(t) /\ UrbCustody(t)
    BY DEF HonestInv, IInv
<1>2. CASE sub[t] = NoSub
    BY <1>1, <1>2 DEF InOrder, Custody, UrbCustody, Unaccounted, Outstanding
<1>3. CASE sub[t] # NoSub
    <2>1. submitAt[t] = 1
        BY <1>1, <1>3 DEF Custody
    <2>2. ASSUME NEW i \in Idx PROVE urb[t][i].at = "user"
        <3>1. urb[t][i].at # "user" => <<t, i>> \in pending
            BY <1>1 DEF UrbCustody
        <3>2. <<t, i>> \in pending => urb[t][i].at = "user"
            BY <1>1, <2>1 DEF UrbCustody
        <3> QED  BY <3>1, <3>2
    <2>3. \A i \in Idx : ~Ended(t, i)
        BY <2>1, <2>2 DEF Ended, Submitted
    <2> QED  BY <1>1, <1>3, <2>2, <2>3 DEF InOrder
<1> QED  BY <1>2, <1>3

\* The checks at the start of submit() and a passing deadline touch no URB.
LEMMA SubmitStartHonest ==
    ASSUME HonestInv, NEW t \in Transfers, SubmitRefused(t) \/ SubmitStart(t)
    PROVE  HonestInv'
<1>1. IInv'
    BY SubmitRefusedKeeps, SubmitStartKeeps DEF HonestInv
<1>2. /\ UNCHANGED <<sub, urb, disconnected, evt>>
      /\ \A v \in Transfers \ {t} : submitAt'[v] = submitAt[v]
    BY DEF SubmitRefused, SubmitStart, HonestInv, IInv, TypeOK
<1>3. ASSUME ~disconnected PROVE InOrder(t)' /\ Blameless(t)'
    <2>1. InOrder(t) /\ sub[t] = NoSub
        BY <1>3 DEF HonestInv, IInv, Custody, SubmitRefused, SubmitStart
    <2> QED  BY <2>1, <1>2 DEF InOrder, Blameless, Completing
<1> QED  BY <1>1, <1>2, <1>3, OneTransfer

\* A submission just registered has clean URBs, and none of them submitted.
LEMMA SubmitRegisterHonest ==
    ASSUME HonestInv, NEW t \in Transfers, SubmitRegister(t)
    PROVE  HonestInv'
<1>1. IInv'
    BY SubmitRegisterKeeps DEF HonestInv
<1>2. PICK n \in UrbCounts(t), timed \in BOOLEAN :
         sub' = [sub EXCEPT ![t] = Build(n, timed)]
    BY Zenon DEF SubmitRegister
<1>3. /\ UNCHANGED <<urb, disconnected, evt>> /\ submitAt[t] = Checked
      /\ \A v \in Transfers \ {t} : submitAt'[v] = submitAt[v] /\ sub'[v] = sub[v]
      /\ sub'[t] = Build(n, timed) /\ submitAt'[t] = 1
    BY <1>2 DEF SubmitRegister, HonestInv, IInv, TypeOK
<1>4. n \in Idx /\ Build(n, timed).n = n /\ Build(n, timed).discardedFrom = MaxUrbs + 1
      /\ Build(n, timed).status = "None"
    BY <1>2 DEF Build, UrbCounts
<1>5. ASSUME ~disconnected PROVE InOrder(t)' /\ Blameless(t)'
    <2>1. ~Completing(t)
        BY <1>3 DEF HonestInv, IInv, Custody
    <2>2. \A i \in Idx : urb[t][i].status = "OK" /\ urb[t][i].at = "user"
        BY <1>3, <1>5, <2>1, UnsentIsClean
    <2>3. \A i \in Idx : ~Submitted(t, i)'
        BY <1>3 DEF Submitted
    <2>4. InOrder(t)'
        BY <1>3, <1>4, <2>2, <2>3 DEF InOrder
    <2>5. Blameless(t)'
        BY <1>3, <1>4, <2>2 DEF Blameless
    <2> QED  BY <2>4, <2>5
<1> QED  BY <1>1, <1>3, <1>5, OneTransfer

\* SUBMITURB puts a clean URB behind those already handed over.
LEMMA SubmitUrbHonest ==
    ASSUME HonestInv, NEW t \in Transfers, SubmitUrb(t)
    PROVE  HonestInv'
<1>1. IInv'
    BY SubmitUrbKeeps DEF HonestInv
<1>2. PICK k : k = submitAt[t]
    OBVIOUS
<1>3. /\ k \in Idx /\ UNCHANGED <<sub, disconnected, evt>>
      /\ urb' = [urb EXCEPT ![t][k].at = "kernel"]
      /\ submitAt' = [submitAt EXCEPT ![t] = IF k = sub[t].n THEN 0 ELSE k + 1]
      /\ sub[t] # NoSub /\ k <= sub[t].n
    BY <1>2 DEF SubmitUrb, HonestInv, IInv, TypeOK, Custody
<1>4. /\ \A v \in Transfers \ {t} : submitAt'[v] = submitAt[v] /\ urb'[v] = urb[v]
      /\ \A i \in Idx \ {k} : urb'[t][i] = urb[t][i]
      /\ urb'[t][k].at = "kernel" /\ urb'[t][k].status = urb[t][k].status
      /\ submitAt'[t] = IF k = sub[t].n THEN 0 ELSE k + 1
    BY <1>3 DEF HonestInv, IInv, TypeOK, Urb
<1>5. ASSUME ~disconnected PROVE InOrder(t)' /\ Blameless(t)'
    <2>1. InOrder(t) /\ UrbCustody(t) /\ Custody(t)
        BY <1>5 DEF HonestInv, IInv
    <2>2. \A i \in Idx : Submitted(t, i)' <=> Submitted(t, i) \/ i = k
        <3>1. sub[t].n \in Idx
            BY <1>3 DEF HonestInv, IInv, TypeOK, Submission
        <3> QED  BY <1>2, <1>3, <1>4, <3>1 DEF Submitted
    <2>3. ASSUME NEW i \in Idx, i >= k PROVE urb[t][i].at = "user" /\ ~Submitted(t, i)
        <3>1. urb[t][i].at # "user" => <<t, i>> \in pending
            BY <1>5, <2>1 DEF UrbCustody
        <3>2. <<t, i>> \in pending => urb[t][i].at = "user"
            BY <1>2, <1>3, <2>1, <2>3 DEF UrbCustody
        <3> QED  BY <1>2, <1>3, <2>3, <3>1, <3>2 DEF Submitted
    <2>4. \A i \in Idx : i >= k => ~Ended(t, i) /\ urb[t][i].status = "OK"
        BY <2>1, <2>3, <1>3 DEF Ended, InOrder
    <2>5. \A i \in Idx : Ended(t, i) => Ended(t, i)' /\ urb'[t][i] = urb[t][i]
        BY <2>2, <2>4, <1>3, <1>4 DEF Ended
    <2>6. \A i, j \in Idx : j < i /\ Submitted(t, i)' =>
             /\ urb'[t][j].at = "kernel" => urb'[t][i].at = "kernel"
             /\ urb'[t][i].at = "user" => urb'[t][j].at = "user"
        BY <1>3, <1>4, <2>1, <2>2, <2>3 DEF InOrder
    <2>7. InOrder(t)'
        BY <1>3, <1>4, <2>1, <2>4, <2>5, <2>6 DEF InOrder
    <2>8. \A j \in Idx : FailureAhead(t, j) => FailureAhead(t, j)'
        BY <1>3, <1>5, <2>5, FailuresHaveEnded DEF FailureAhead, Finishing
    <2>9. \A j \in Idx : urb'[t][j].status \in {"OK", urb[t][j].status}
        BY <1>4
    <2>10. Blameless(t)'
        BY <1>3, <1>5, <2>5, <2>8, <2>9, BlamelessKept
    <2> QED  BY <2>7, <2>10
<1>6. ~Completing(t)
    BY <1>3 DEF HonestInv, IInv, Custody
<1> QED  BY <1>1, <1>3, <1>4, <1>5, <1>6, OneTransfer

\* A submit() whose first URB is refused leaves clean URBs.
LEMMA SubmitFailsHonest ==
    ASSUME HonestInv, NEW t \in Transfers, SubmitFails(t)
    PROVE  HonestInv'
<1>1. IInv'
    BY SubmitFailsKeeps DEF HonestInv
<1>2. /\ UNCHANGED <<urb, disconnected, evt>> /\ submitAt[t] = 1 /\ sub'[t] = NoSub
      /\ \A v \in Transfers \ {t} : submitAt'[v] = submitAt[v] /\ sub'[v] = sub[v]
    BY DEF SubmitFails, HonestInv, IInv, TypeOK
<1>3. ASSUME ~disconnected PROVE InOrder(t)' /\ Blameless(t)'
    <2>1. ~Completing(t)
        BY <1>2 DEF HonestInv, IInv, Custody
    <2>2. \A i \in Idx : urb[t][i].status = "OK"
        BY <1>2, <1>3, <2>1, UnsentIsClean
    <2> QED  BY <1>2, <2>2 DEF InOrder, Blameless
<1> QED  BY <1>1, <1>2, <1>3, OneTransfer

\* A submission cut short is an Error from then on.
LEMMA SubmitCutShortHonest ==
    ASSUME HonestInv, NEW t \in Transfers, SubmitCutShort(t)
    PROVE  HonestInv'
<1>1. IInv'
    BY SubmitCutShortKeeps DEF HonestInv
<1>2. PICK k : k = submitAt[t]
    OBVIOUS
<1>3. PICK after \in Discarded(t, 1) : urb' = [urb EXCEPT ![t] = after]
    BY Zenon DEF SubmitCutShort
<1>4. /\ k \in Idx /\ k > 1 /\ UNCHANGED <<disconnected, evt>>
      /\ sub' = [sub EXCEPT ![t].discardedFrom = k, ![t].n = k - 1, ![t].status = "Error"]
      /\ submitAt' = [submitAt EXCEPT ![t] = 0]
      /\ sub[t] # NoSub /\ k <= sub[t].n
    BY <1>2 DEF SubmitCutShort, HonestInv, IInv, TypeOK, Custody
<1>5. sub[t] \in Submission /\ sub \in [Transfers -> Submission \cup {NoSub}]
    BY <1>4 DEF HonestInv, IInv, TypeOK
<1>6. /\ \A v \in Transfers \ {t} : submitAt'[v] = submitAt[v] /\ sub'[v] = sub[v]
                                    /\ urb'[v] = urb[v]
      /\ sub'[t].n = k - 1 /\ sub'[t].status = "Error" /\ submitAt'[t] = 0
      /\ urb'[t] = after
    BY <1>3, <1>4, <1>5 DEF HonestInv, IInv, TypeOK, Submission
<1>7. ~Completing(t)
    BY <1>4 DEF HonestInv, IInv, Custody
<1>8. ASSUME ~disconnected PROVE InOrder(t)' /\ Blameless(t)'
    <2>1. \A i \in Idx : Submitted(t, i)' <=> Submitted(t, i)
        <3>1. sub[t].n \in Idx
            BY <1>5 DEF Submission
        <3> QED  BY <1>2, <1>4, <1>6, <3>1 DEF Submitted
    <2>2. sub'[t] # NoSub
        <3>1. inFlight'[t] <=> sub'[t] # NoSub
            BY <1>1, <1>4, <1>6, <1>7 DEF IInv, Custody, Completing
        <3>2. inFlight'[t]
            BY <1>4 DEF HonestInv, IInv, Custody, SubmitCutShort
        <3> QED  BY <3>1, <3>2
    <2>3. InOrder(t) /\ 1 \in Nat \ {0} /\ \A i \in 1..(1 - 1) : urb[t][i].at # "kernel"
        BY <1>8 DEF HonestInv
    <2>4. IInv
        BY DEF HonestInv
    <2>5. InOrder(t)'
        BY <1>3, <1>4, <1>6, <2>1, <2>2, <2>3, <2>4, DiscardedInOrder
    <2>6. Blameless(t)'
        BY <1>6 DEF Blameless
    <2> QED  BY <2>5, <2>6
<1> QED  BY <1>1, <1>4, <1>6, <1>7, <1>8, OneTransfer

\* The clock and the loss of the device blame nothing on a submission.
LEMMA DeadlinePassesHonest ==
    ASSUME HonestInv, NEW t \in Transfers, DeadlinePasses(t)
    PROVE  HonestInv'
<1>1. IInv'
    BY DeadlinePassesKeeps DEF HonestInv
<1>2. /\ UNCHANGED <<urb, submitAt, disconnected, evt>> /\ sub[t] # NoSub
      /\ sub' = [sub EXCEPT ![t].deadline = "passed"]
      /\ sub[t] \in Submission /\ sub \in [Transfers -> Submission \cup {NoSub}]
    BY DEF DeadlinePasses, HonestInv, IInv, TypeOK
<1>3. /\ \A v \in Transfers \ {t} : sub'[v] = sub[v]
      /\ sub'[t].n = sub[t].n /\ sub'[t].status = sub[t].status
      /\ sub'[t].discardedFrom = sub[t].discardedFrom
      /\ sub'[t].cancelled = sub[t].cancelled /\ sub'[t].timedOut = sub[t].timedOut
    BY <1>2 DEF Submission
<1>4. ASSUME ~disconnected PROVE InOrder(t)' /\ Blameless(t)'
    <2>1. InOrder(t) /\ Blameless(t)
        BY <1>4 DEF HonestInv
    <2>2. \A i \in Idx : /\ Submitted(t, i)' <=> Submitted(t, i)
                         /\ Ended(t, i)' <=> Ended(t, i)
                         /\ FailureAhead(t, i)' <=> FailureAhead(t, i)
        BY <1>2, <1>3 DEF Submitted, Ended, FailureAhead, Finishing
    <2>3. \A i : ShortBefore(t, i)' <=> ShortBefore(t, i)
        BY <1>2, <1>3 DEF ShortBefore, Ended, Submitted, IsShort
    <2>6. sub'[t] # NoSub
        <3>1. inFlight[t] /\ submitAt[t] = 0 /\ ~Completing(t) /\ UNCHANGED inFlight
            BY <1>2 DEF HonestInv, IInv, Custody, DeadlinePasses
        <3>2. inFlight'[t] <=> submitAt'[t] # 0 \/ sub'[t] # NoSub \/ Completing(t)'
            BY <1>1 DEF IInv, Custody
        <3> QED  BY <1>2, <3>1, <3>2 DEF Completing
    <2>4. InOrder(t)'
        BY <1>2, <1>3, <2>1, <2>2, <2>6 DEF InOrder
    <2>5. Blameless(t)'
        BY <1>2, <1>3, <2>1, <2>2, <2>3 DEF Blameless
    <2> QED  BY <2>4, <2>5
<1> QED  BY <1>1, <1>2, <1>3, <1>4, OneTransfer

\* A step of no consequence for any URB, submission or event.
LEMMA QuietHonest ==
    ASSUME HonestInv, IInv', UNCHANGED <<urb, sub, submitAt, disconnected, evt>>
    PROVE  HonestInv'
<1>1. ~disconnected => \A v \in Transfers : InOrder(v)' /\ Blameless(v)'
    BY HonestFrame DEF HonestInv, Finishing, Completing
<1>2. CompletedIsHonest'
    BY CompletedFrame DEF HonestInv
<1> QED  BY <1>1, <1>2 DEF HonestInv

\* The event thread leaves `finish`, or a callback, with nothing to report.
LEMMA CallbackReturnsHonest ==
    ASSUME HonestInv, CallbackReturns
    PROVE  HonestInv'
<1>1. IInv'
    BY CallbackReturnsKeeps DEF HonestInv
<1>2. UNCHANGED <<urb, sub, submitAt, disconnected>> /\ evt.step = "callback"
      /\ evt'.step = "idle"
    BY DEF CallbackReturns, Idle
<1>3. ~disconnected => \A v \in Transfers : InOrder(v)' /\ Blameless(v)'
    BY <1>2, HonestFrame DEF HonestInv, Finishing, Completing
<1> QED  BY <1>1, <1>2, <1>3 DEF HonestInv, CompletedIsHonest

\* Once the handle is disconnected every completion reports NoDevice.
LEMMA DisconnectHonest ==
    ASSUME HonestInv, Disconnect \/ DisconnectAgain \/ \E t \in Transfers : FailDrained(t)
    PROVE  HonestInv'
<1>1. IInv'
    BY DisconnectKeeps, FailDrainedKeeps DEF HonestInv
<1>2. disconnected'
    BY DEF HonestInv, IInv, Disconnecting, Disconnect, DisconnectAgain, Drain, FailDrained
<1>3. ~(evt'.step = "complete" /\ evt'.status = "Completed")
    BY DEF Disconnect, DisconnectAgain, Drain, FailDrained, HonestInv, IInv, TypeOK,
           EventThread
<1> QED  BY <1>1, <1>2, <1>3 DEF HonestInv, CompletedIsHonest

\* complete() drops the URBs.
LEMMA CompleteHonest ==
    ASSUME HonestInv, Complete
    PROVE  HonestInv'
<1>1. IInv'
    BY CompleteKeeps DEF HonestInv
<1>2. PICK t \in Transfers : t = evt.t
    BY DEF HonestInv, IInv, TypeOK, Complete
<1>3. /\ UNCHANGED <<sub, submitAt, disconnected>> /\ evt.step = "complete"
      /\ urb' = [urb EXCEPT ![t] = [i \in Idx |-> FreshUrb]]
      /\ evt' \in {Idle, [Idle EXCEPT !.step = "callback", !.t = t]}
    BY <1>2 DEF Complete
<1>8. evt'.step \in {"idle", "callback"}
    <2>1. CASE evt' = Idle
        BY <2>1 DEF Idle
    <2>2. CASE evt' = [Idle EXCEPT !.step = "callback", !.t = t]
        BY <2>2 DEF Idle
    <2> QED  BY <1>3, <2>1, <2>2
<1>4. /\ \A v \in Transfers \ {t} : urb'[v] = urb[v]
      /\ \A i \in Idx : urb'[t][i] = FreshUrb
    BY <1>3 DEF HonestInv, IInv, TypeOK
<1>5. sub[t] = NoSub
    BY <1>2, <1>3 DEF HonestInv, IInv, Custody, Completing
<1>6. InOrder(t)' /\ Blameless(t)'
    BY <1>3, <1>4, <1>5 DEF InOrder, Blameless, FreshUrb
<1>7. ASSUME ~disconnected, NEW v \in Transfers, v # t PROVE InOrder(v)' /\ Blameless(v)'
    <2>1. ~Completing(v) /\ ~Finishing(v) /\ ~Finishing(v)'
        BY <1>2, <1>3, <1>7, <1>8 DEF Completing, Finishing
    <2> QED  BY <1>3, <1>4, <1>7, <2>1, HonestFrame DEF HonestInv
<1> QED  BY <1>1, <1>3, <1>6, <1>7, <1>8 DEF HonestInv, CompletedIsHonest

\* URBs are reaped in the order in which they ended, and a failure that is reaped
\* is still ahead of finish_urb.
LEMMA ReapHonest ==
    ASSUME HonestInv, NEW t \in Transfers, NEW i \in Idx, Reap(t, i)
    PROVE  HonestInv'
<1>1. IInv' /\ IInv
    BY ReapKeeps DEF HonestInv
<1>2. /\ UNCHANGED <<sub, submitAt, disconnected>> /\ ~disconnected /\ evt.step = "idle"
      /\ urb[t][i].at = "done" /\ \A j \in 1..(i - 1) : urb[t][j].at # "done"
      /\ urb' = [urb EXCEPT ![t][i].at = "user"]
    BY DEF Reap
<1>3. /\ \A v \in Transfers \ {t} : urb'[v] = urb[v]
      /\ \A j \in Idx \ {i} : urb'[t][j] = urb[t][j]
      /\ urb'[t][i].at = "user" /\ urb'[t][i].status = urb[t][i].status
      /\ urb'[t][i].bytes = urb[t][i].bytes
    BY <1>1, <1>2 DEF IInv, TypeOK, Urb
<1>4. <<t, i>> \in pending
    BY <1>1, <1>2 DEF IInv, UrbCustody
<1>5. evt'.step = "finish" /\ evt'.t = t /\ evt'.i = i
    BY <1>1, <1>4 DEF Reap, IInv, TypeOK, EventThread
<1>6. sub[t] # NoSub /\ i <= sub[t].n
    <2>1. i \in Unaccounted(t)
        BY <1>4 DEF Unaccounted, Outstanding
    <2> QED  BY <1>1, <2>1 DEF IInv, Custody
<1>7. Submitted(t, i)
    BY <1>1, <1>2, <1>4, <1>6 DEF Submitted, IInv, UrbCustody
<1>8. InOrder(t)
    BY <1>2 DEF HonestInv
<1>9. \A j \in Idx : j < i => urb[t][j].at = "user"
    <2>1. \A j \in Idx : urb[t][j].at \in {"user", "kernel", "done"}
        BY <1>1 DEF IInv, TypeOK, Urb
    <2>2. \A j \in Idx : j < i => urb[t][j].at # "kernel"
        BY <1>2, <1>6, <1>7, <1>8 DEF InOrder
    <2> QED  BY <1>2, <2>1, <2>2
<1>10. \A j \in Idx : Submitted(t, j)' <=> Submitted(t, j)
    BY <1>2 DEF Submitted
<1>11. \A j \in Idx : Ended(t, j) => Ended(t, j)' /\ urb'[t][j].status = urb[t][j].status
                                    /\ urb'[t][j].bytes = urb[t][j].bytes
    BY <1>3, <1>7, <1>10 DEF Ended
<1>12. InOrder(t)'
    <2>1. \A j \in Idx : urb'[t][j].status # "OK" => Ended(t, j)'
        BY <1>3, <1>6, <1>8, <1>11 DEF InOrder
    <2>2. \A j, k \in Idx : k < j /\ Submitted(t, j)' =>
             /\ urb'[t][k].at = "kernel" => urb'[t][j].at = "kernel"
             /\ urb'[t][j].at = "user" => urb'[t][k].at = "user"
        BY <1>2, <1>3, <1>6, <1>8, <1>9, <1>10 DEF InOrder
    <2> QED  BY <1>2, <1>6, <1>8, <2>1, <2>2 DEF InOrder
<1>13. \A j \in Idx : FailureAhead(t, j) => FailureAhead(t, j)'
    BY <1>2, <1>3, <1>5 DEF FailureAhead, Finishing
<1>14. \A j \in Idx : urb'[t][j].status \in {"OK", urb[t][j].status}
    BY <1>3
<1>15. Blameless(t)'
    BY <1>2, <1>6, <1>11, <1>13, <1>14, BlamelessKept
<1>16. ASSUME NEW v \in Transfers, v # t PROVE InOrder(v)' /\ Blameless(v)'
    <2>1. ~Completing(v) /\ ~Finishing(v) /\ ~Finishing(v)'
        BY <1>2, <1>5, <1>16 DEF Completing, Finishing
    <2> QED  BY <1>2, <1>3, <1>16, <2>1, HonestFrame DEF HonestInv
<1> QED  BY <1>1, <1>5, <1>12, <1>15, <1>16 DEF HonestInv, CompletedIsHonest

\* What Account does to the fields finish_urb's verdict rests on.
LEMMA AccountVerdict ==
    ASSUME NEW s \in Submission, NEW i \in Idx, NEW u \in Urb
    PROVE  /\ Account(s, i, u).cancelled = s.cancelled
           /\ Account(s, i, u).timedOut = s.timedOut
           /\ Account(s, i, u).discardedFrom = s.discardedFrom
           /\ Account(s, i, u).status =
                 IF u.status # "OK" /\ ~Ours(s, i) /\ s.status = "None"
                 THEN UrbStatus(u.status) ELSE s.status
<1> DEFINE status == IF u.status # "OK" /\ ~Ours(s, i) /\ s.status = "None"
                     THEN UrbStatus(u.status) ELSE s.status
           r == s.reaped + 1
           a == s.actual + u.bytes
<1>1. Account(s, i, u) = [s EXCEPT !.reaped = r, !.actual = a, !.status = status]
    BY DEF Account, Submission
<1> HIDE DEF status, r, a
<1>2. /\ Account(s, i, u).cancelled = s.cancelled
      /\ Account(s, i, u).timedOut = s.timedOut
      /\ Account(s, i, u).discardedFrom = s.discardedFrom
      /\ Account(s, i, u).status = status
    BY <1>1 DEF Submission
<1> QED  BY <1>2 DEF status

\* An errno other than that of an unlinked URB says something of the transfer,
\* and none says that it completed.
LEMMA UrbStatusSays ==
    ASSUME NEW e \in UrbErrno, e # "OK"
    PROVE  UrbStatus(e) # "Completed" /\ (e \notin Unlinked => UrbStatus(e) # "None")
BY DEF UrbStatus, UrbErrno, Unlinked

\* As long as finish_urb holds nothing against the submission, a URB it finds
\* failed lies behind a short one, and so does everything it discards.
LEMMA NothingHeld ==
    ASSUME HonestInv, NEW t \in Transfers, NEW i \in Idx, evt.step = "finish",
           t = evt.t, i = evt.i, submitAt[t] = 0, sub[t] # NoSub,
           ~sub[t].cancelled, ~sub[t].timedOut,
           Account(sub[t], i, urb[t][i]).status = "None"
    PROVE  /\ urb[t][i].status # "OK" => ShortBefore(t, i)
           /\ \A k \in Nat : k > i /\ (urb[t][i].status # "OK" \/ IsShort(t, urb[t][i])) =>
                 ShortBefore(t, k)
           /\ \A k \in Idx : urb[t][k].status # "OK" =>
                 \/ ShortBefore(t, k)
                 \/ \E j \in 1..k : /\ urb[t][j].status \notin {"OK"} \cup Unlinked
                                    /\ urb[t][j].at = "done"
           /\ sub[t].discardedFrom <= sub[t].n => ShortBefore(t, sub[t].discardedFrom)
<1>1. /\ ~disconnected /\ InOrder(t) /\ Blameless(t) /\ TypeOK
      /\ Custody(t) /\ UrbCustody(t)
    BY DEF HonestInv, IInv, Disconnecting
<1>2. sub[t] \in Submission /\ urb[t][i] \in Urb
    BY <1>1 DEF TypeOK
<1>3. /\ urb[t][i].at = "user" /\ Submitted(t, i) /\ i <= sub[t].n
    <2>1. Finishing(t) /\ i \in Unaccounted(t)
        BY DEF Finishing, Unaccounted
    <2> QED  BY <1>1, <2>1 DEF Custody, UrbCustody, Submitted
<1>4. sub[t].status = "None" /\ (urb[t][i].status \notin {"OK"} \cup Unlinked =>
                                    i >= sub[t].discardedFrom)
    <2>1. urb[t][i].status \in UrbErrno
        BY <1>2 DEF Urb
    <2>2. IF urb[t][i].status # "OK" /\ ~Ours(sub[t], i) /\ sub[t].status = "None"
          THEN UrbStatus(urb[t][i].status) = "None" ELSE sub[t].status = "None"
        BY <1>2, AccountVerdict
    <2> QED  BY <2>1, <2>2, UrbStatusSays DEF Ours
<1>5. /\ \A k \in Idx : urb[t][k].status # "OK" =>
            ShortBefore(t, k) \/ \E j \in 1..k : FailureAhead(t, j)
      /\ sub[t].discardedFrom <= sub[t].n => ShortBefore(t, sub[t].discardedFrom)
    BY <1>1, <1>4 DEF Blameless
<1>6. \A j \in Idx : j < i => ~FailureAhead(t, j)
    <2>1. \A j \in Idx : j < i => urb[t][j].at = "user"
        BY <1>1, <1>3 DEF InOrder
    <2> QED  BY <2>1 DEF FailureAhead
<1>7. \A k, m \in Nat : k <= m /\ ShortBefore(t, k) => ShortBefore(t, m)
    BY DEF ShortBefore
<1>8. ASSUME urb[t][i].status # "OK" PROVE ShortBefore(t, i)
    <2>1. CASE urb[t][i].status \in Unlinked
        <3>1. ~FailureAhead(t, i)
            BY <2>1 DEF FailureAhead
        <3>2. \A j \in 1..i : ~FailureAhead(t, j)
            BY <1>6, <3>1
        <3> QED  BY <1>5, <1>8, <3>2
    <2>2. CASE urb[t][i].status \notin {"OK"} \cup Unlinked
        <3>1. PICK d \in Nat : d = sub[t].discardedFrom
            BY <1>2 DEF Submission
        <3>2. d <= i /\ d <= sub[t].n
            <4>1. sub[t].n \in Nat
                BY <1>2 DEF Submission
            <4> QED  BY <1>3, <1>4, <2>2, <3>1, <4>1
        <3>3. ShortBefore(t, d)
            BY <1>5, <3>1, <3>2
        <3> QED  BY <1>7, <3>2, <3>3
    <2> QED  BY <1>8, <2>1, <2>2
<1>9. ASSUME NEW k \in Nat, k > i, urb[t][i].status # "OK" \/ IsShort(t, urb[t][i])
      PROVE  ShortBefore(t, k)
    <2>1. CASE urb[t][i].status # "OK"
        BY <1>7, <1>8, <1>9, <2>1
    <2>2. CASE urb[t][i].status = "OK"
        <3>1. Ended(t, i) /\ i \in 1..(k - 1)
            BY <1>3, <1>9 DEF Ended
        <3> QED  BY <1>9, <2>2, <3>1 DEF ShortBefore
    <2> QED  BY <2>1, <2>2
<1>10. ASSUME NEW k \in Idx, urb[t][k].status # "OK"
       PROVE  \/ ShortBefore(t, k)
              \/ \E j \in 1..k : /\ urb[t][j].status \notin {"OK"} \cup Unlinked
                                 /\ urb[t][j].at = "done"
    <2>1. CASE ShortBefore(t, k)
        BY <2>1
    <2>2. ASSUME NEW j \in 1..k, FailureAhead(t, j), urb[t][j].at # "done"
          PROVE  ShortBefore(t, k)
        <3>1. j = i /\ urb[t][i].status # "OK"
            BY <2>2 DEF FailureAhead, Finishing
        <3> QED  BY <1>8, <1>9, <2>2, <3>1
    <2> QED  BY <1>5, <1>10, <2>1, <2>2 DEF FailureAhead
<1> QED  BY <1>5, <1>8, <1>9, <1>10

\* finish_urb reports Completed only for a submission nothing is held against,
\* and then every URB that failed lies behind a short one.
LEMMA FinishUrbHonest ==
    ASSUME HonestInv, FinishUrb
    PROVE  HonestInv'
<1>1. PICK t \in Transfers, i \in Idx : t = evt.t /\ i = evt.i
    BY DEF HonestInv, IInv, TypeOK, FinishUrb
<1> DEFINE s == Account(sub[t], i, urb[t][i])
           early == EndsEarly(t, sub[t], i, urb[t][i])
           next == IF early THEN [s EXCEPT !.discardedFrom = i + 1] ELSE s
<1>2. PICK after \in (IF early THEN Discarded(t, i + 1) ELSE {urb[t]}) :
      /\ evt.step = "finish" /\ submitAt[t] = 0 /\ sub[t] # NoSub
      /\ urb' = [urb EXCEPT ![t] = after]
      /\ IF LastReaped(s)
         THEN /\ sub' = [sub EXCEPT ![t] = NoSub]
              /\ evt' = [evt EXCEPT !.step = "complete", !.i = 0,
                           !.status = FinalStatus(s), !.actual = s.actual]
         ELSE /\ sub' = [sub EXCEPT ![t] = next]
              /\ evt' = Idle
      /\ UNCHANGED <<submitAt, pending, disconnected>>
    BY <1>1 DEF FinishUrb
<1>3. /\ IInv' /\ IInv /\ TypeOK /\ ~disconnected /\ InOrder(t) /\ Blameless(t)
      /\ Custody(t) /\ UrbCustody(t)
    BY <1>2, FinishUrbKeeps DEF HonestInv, IInv, Disconnecting
<1>4. sub[t] \in Submission /\ urb[t][i] \in Urb /\ sub[t].n \in Idx
      /\ sub[t].discardedFrom \in Nat
    BY <1>2, <1>3 DEF TypeOK, Submission
<1>5. /\ s \in Submission /\ s.n = sub[t].n
      /\ s.cancelled = sub[t].cancelled /\ s.timedOut = sub[t].timedOut
      /\ s.discardedFrom = sub[t].discardedFrom
      /\ s.status # "Completed" /\ (s.status = "None" => sub[t].status = "None")
    <2>1. urb[t][i].status \in UrbErrno
        BY <1>4 DEF Urb
    <2>2. sub[t].status # "Completed"
        BY <1>2, <1>3 DEF InOrder
    <2> QED  BY <1>4, <2>1, <2>2, AccountType, AccountVerdict, UrbStatusSays
<1>6. early => /\ urb[t][i].status # "OK" \/ IsShort(t, urb[t][i])
               /\ i + 1 <= sub[t].n
    BY <1>4 DEF EndsEarly
<1>7. /\ \A v \in Transfers \ {t} : urb'[v] = urb[v] /\ sub'[v] = sub[v]
      /\ urb'[t] = after
      /\ sub'[t] = IF LastReaped(s) THEN NoSub ELSE next
    BY <1>2, <1>3 DEF TypeOK
<1>8. \A j \in Idx : \/ after[j] = urb[t][j]
                     \/ early /\ urb[t][j].at = "kernel" /\ j >= i + 1 /\ after[j].at = "done"
    <2>1. CASE early
        <3>1. i + 1 \in Nat /\ after \in Discarded(t, i + 1)
            BY <1>2, <2>1
        <3> QED  BY <1>3, <2>1, <3>1, DiscardedEnds
    <2>2. CASE ~early
        BY <1>2, <2>2
    <2> QED  BY <2>1, <2>2
<1>9. \A j \in Idx : Ended(t, j) => after[j] = urb[t][j]
    BY <1>8 DEF Ended
<1>10. ASSUME ~sub[t].cancelled, ~sub[t].timedOut, s.status = "None"
       PROVE  /\ \A k \in Nat : early /\ k > i => ShortBefore(t, k)
              /\ \A k \in Idx : urb[t][k].status # "OK" =>
                    \/ ShortBefore(t, k)
                    \/ \E j \in 1..k : /\ urb[t][j].status \notin {"OK"} \cup Unlinked
                                       /\ urb[t][j].at = "done"
              /\ sub[t].discardedFrom <= sub[t].n => ShortBefore(t, sub[t].discardedFrom)
    BY <1>1, <1>2, <1>6, <1>10, NothingHeld
<1> HIDE DEF s, early
<1>11. CASE LastReaped(s)
    <2>1. sub'[t] = NoSub /\ evt'.step = "complete" /\ evt'.t = t
          /\ evt'.status = FinalStatus(s)
        <3>1. sub'[t] = NoSub
            BY <1>7, <1>11
        <3>2. evt' = [evt EXCEPT !.step = "complete", !.i = 0,
                        !.status = FinalStatus(s), !.actual = s.actual]
            BY <1>2, <1>11
        <3>3. evt \in EventThread
            BY <1>3 DEF TypeOK
        <3> QED  BY <1>1, <3>1, <3>2, <3>3 DEF EventThread
    <2>2. \A j \in Idx : after[j].at = "user"
        <3>1. Unaccounted(t)' = {}
            BY <1>3, <2>1 DEF IInv, Custody
        <3>2. ASSUME NEW j \in Idx PROVE <<t, j>> \notin pending'
            BY <3>1 DEF Unaccounted, Outstanding
        <3>3. ASSUME NEW j \in Idx PROVE urb'[t][j].at # "user" => <<t, j>> \in pending'
            BY <1>2, <1>3 DEF IInv, UrbCustody
        <3> QED  BY <1>7, <3>2, <3>3
    <2>3. \A j \in Idx : after[j] = urb[t][j] /\ urb[t][j].at = "user"
        BY <1>8, <2>2
    <2>4. ASSUME evt'.status = "Completed", NEW k \in Idx, after[k].status # "OK"
          PROVE  \E j \in 1..(k - 1) : after[j].status = "OK" /\ IsShort(t, after[j])
        <3>1. ~sub[t].cancelled /\ ~sub[t].timedOut /\ s.status = "None"
            BY <1>5, <2>1, <2>4 DEF FinalStatus
        <3>2. ShortBefore(t, k)
            BY <1>10, <2>3, <2>4, <3>1
        <3>3. PICK j \in 1..(k - 1) : urb[t][j].status = "OK" /\ IsShort(t, urb[t][j])
            BY <3>2 DEF ShortBefore
        <3> QED  BY <2>3, <3>3
    <2>5. CompletedIsHonest'
        BY <1>7, <2>1, <2>4 DEF CompletedIsHonest, IsShort
    <2>6. InOrder(t)' /\ Blameless(t)'
        BY <2>1 DEF InOrder, Blameless, Completing
    <2>7. ASSUME NEW v \in Transfers, v # t PROVE InOrder(v)' /\ Blameless(v)'
        <3>1. ~Completing(v) /\ ~Finishing(v) /\ ~Finishing(v)'
            BY <1>1, <1>2, <2>1, <2>7 DEF Completing, Finishing
        <3> QED  BY <1>2, <1>3, <1>7, <2>7, <3>1, HonestFrame DEF HonestInv
    <2> QED  BY <1>2, <1>3, <2>5, <2>6, <2>7 DEF HonestInv
<1>12. CASE ~LastReaped(s)
    <2>1. sub'[t] = next /\ evt'.step = "idle"
        BY <1>2, <1>7, <1>12 DEF Idle
    <2>2. /\ next.n = sub[t].n /\ next.status = s.status
          /\ next.cancelled = s.cancelled /\ next.timedOut = s.timedOut
          /\ next.discardedFrom = IF early THEN i + 1 ELSE sub[t].discardedFrom
          /\ next \in Submission
        <3>1. i + 1 \in 1..(MaxUrbs + 1)
            OBVIOUS
        <3> QED  BY <1>5, <3>1 DEF Submission
    <2>3. next # NoSub
        BY <2>2
    <2> HIDE DEF next
    <2>4. \A j \in Idx : Submitted(t, j)' <=> Submitted(t, j)
        BY <1>2, <2>1, <2>2 DEF Submitted
    <2>5. InOrder(t)'
        <3>1. CASE early
            <4>1. i + 1 \in Nat \ {0} /\ after \in Discarded(t, i + 1)
                BY <1>2, <3>1
            <4>2. Submitted(t, i) /\ urb[t][i].at = "user"
                <5>1. Finishing(t) /\ i \in Unaccounted(t)
                    BY <1>1, <1>2 DEF Finishing, Unaccounted
                <5> QED  BY <1>1, <1>2, <1>3, <1>4, <5>1 DEF Custody, UrbCustody, Submitted
            <4>3. \A j \in 1..((i + 1) - 1) : urb[t][j].at # "kernel"
                BY <1>2, <1>3, <4>2 DEF InOrder
            <4> QED
                BY <1>2, <1>3, <1>5, <2>1, <2>2, <2>3, <2>4, <4>1, <4>3, DiscardedInOrder
        <3>2. CASE ~early
            <4>1. urb'[t] = urb[t]
                BY <1>2, <1>7, <3>2
            <4>2. \A j \in Idx : Ended(t, j)' <=> Ended(t, j)
                BY <2>4, <4>1 DEF Ended
            <4> QED  BY <1>2, <1>3, <1>5, <2>1, <2>2, <2>3, <2>4, <4>1, <4>2 DEF InOrder
        <3> QED  BY <3>1, <3>2
    <2>6. \A j \in Idx : Ended(t, j) => Ended(t, j)' /\ urb'[t][j].status = urb[t][j].status
                                       /\ urb'[t][j].bytes = urb[t][j].bytes
        BY <1>7, <1>9, <2>4 DEF Ended
    <2>10. PICK d \in Nat : d = next.discardedFrom
        BY <1>4, <2>2
    <2>7. ASSUME ~next.cancelled, ~next.timedOut, next.status = "None"
          PROVE  /\ \A k \in Idx : urb'[t][k].status # "OK" =>
                       ShortBefore(t, k)' \/ \E j \in 1..k : FailureAhead(t, j)'
                 /\ d <= next.n => ShortBefore(t, d)'
        <3>1. ~sub[t].cancelled /\ ~sub[t].timedOut /\ s.status = "None"
            BY <1>5, <2>2, <2>7
        <3>2. ASSUME NEW k \in Idx, urb'[t][k].status # "OK"
              PROVE  ShortBefore(t, k)' \/ \E j \in 1..k : FailureAhead(t, j)'
            <4>1. CASE early /\ k >= i + 1
                <5>1. ShortBefore(t, k)
                    BY <1>10, <3>1, <4>1
                <5> QED  BY <2>6, <5>1, ShortKept
            <4>2. CASE ~(early /\ k >= i + 1)
                <5>1. after[k] = urb[t][k] /\ urb[t][k].status # "OK"
                    BY <1>7, <1>8, <3>2, <4>2
                <5>2. CASE ShortBefore(t, k)
                    BY <2>6, <5>2, ShortKept
                <5>3. ASSUME NEW j \in 1..k, urb[t][j].status \notin {"OK"} \cup Unlinked,
                             urb[t][j].at = "done"
                      PROVE  FailureAhead(t, j)'
                    <6>1. j \in Idx /\ after[j] = urb[t][j]
                        BY <1>8, <5>3
                    <6> QED  BY <1>7, <5>3, <6>1 DEF FailureAhead
                <5> QED  BY <1>10, <3>1, <5>1, <5>2, <5>3
            <4> QED  BY <4>1, <4>2
        <3>4. d <= next.n => d <= MaxUrbs /\ ShortBefore(t, d)
            BY <1>4, <1>10, <2>2, <2>10, <3>1
        <3>5. d <= next.n => ShortBefore(t, d)'
            BY <2>6, <3>4, ShortKept
        <3> QED  BY <3>2, <3>5
    <2>8. Blameless(t)'
        BY <2>1, <2>7, <2>10 DEF Blameless
    <2>9. ASSUME NEW v \in Transfers, v # t PROVE InOrder(v)' /\ Blameless(v)'
        <3>1. ~Completing(v) /\ ~Finishing(v) /\ ~Finishing(v)'
            BY <1>1, <1>2, <2>1, <2>9 DEF Completing, Finishing
        <3> QED  BY <1>2, <1>3, <1>7, <2>9, <3>1, HonestFrame DEF HonestInv
    <2> QED  BY <1>2, <1>3, <2>1, <2>5, <2>8, <2>9 DEF HonestInv, CompletedIsHonest
<1> QED  BY <1>11, <1>12

\* Every step keeps the stronger invariant.
LEMMA NextHonest ==
    ASSUME HonestInv, [Next]_vars
    PROVE  HonestInv'
<1>1. CASE EventStep
    <2>1. ASSUME NEW t \in Transfers, Expire(t) PROVE HonestInv'
        BY <2>1, CancelHonest
    <2>2. ASSUME NEW t \in Transfers, FailDrained(t) PROVE HonestInv'
        BY <2>2, DisconnectHonest
    <2>3. ASSUME NEW t \in Transfers, NEW i \in Idx, Reap(t, i) PROVE HonestInv'
        BY <2>3, ReapHonest
    <2> QED
        BY <1>1, <2>1, <2>2, <2>3, FinishUrbHonest, CompleteHonest,
           CallbackReturnsHonest, DisconnectHonest DEF EventStep
<1>2. ASSUME NEW t \in Transfers, SubmitStep(t) PROVE HonestInv'
    BY <1>2, SubmitRegisterHonest, SubmitUrbHonest, SubmitFailsHonest,
       SubmitCutShortHonest DEF SubmitStep
<1>3. ASSUME NEW t \in Transfers,
             \/ SubmitRefused(t) \/ SubmitStart(t)
             \/ Cancel(t) \/ DeadlinePasses(t) \/ KernelFinishes(t)
      PROVE  HonestInv'
    BY <1>3, SubmitStartHonest, CancelHonest, DeadlinePassesHonest, KernelFinishesHonest
<1>4. CASE UNCHANGED vars \/ KernelLosesDevice
    <2>1. UNCHANGED <<urb, sub, submitAt, disconnected, evt>>
        BY <1>4 DEF vars, KernelLosesDevice
    <2>2. IInv'
        BY <1>4, NextKeeps DEF HonestInv, Next
    <2> QED  BY <2>1, <2>2, QuietHonest
<1> QED  BY <1>1, <1>2, <1>3, <1>4 DEF Next

\* A transfer reported Completed had no URB fail but behind a short one, for any
\* number of transfers and URBs and whatever cancel(), expire(), submit() and
\* the kernel do while finish_urb works through the URBs.
THEOREM HonestCompletion == Spec => []CompletedIsHonest
<1>1. Init => HonestInv
    <2>1. ASSUME Init PROVE \A t \in Transfers : InOrder(t) /\ Blameless(t)
        BY <2>1 DEF Init, InOrder, Blameless, FreshUrb
    <2>2. ASSUME Init PROVE evt.step # "complete"
        BY <2>2 DEF Init, Idle
    <2> QED  BY <2>1, <2>2, InitIInv DEF HonestInv, CompletedIsHonest
<1>2. HonestInv /\ [Next]_vars => HonestInv'
    BY NextHonest
<1>3. HonestInv => CompletedIsHonest
    BY DEF HonestInv
<1> QED  BY <1>1, <1>2, <1>3, PTL DEF Spec

=============================================================================
