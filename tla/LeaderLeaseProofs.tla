-------------------------- MODULE LeaderLeaseProofs --------------------------
(***************************************************************************)
(* Proofs about LeaderLease, for any number of replicas and any timing:    *)
(* how long a replica keeps working without a renewal, and exclusivity     *)
(* while the backend behaves.                                              *)
(***************************************************************************)
EXTENDS LeaderLease, TLAPS

RepStates == [pc: States, timer: Int, grace: {Unset} \cup 0..Ttl, age: Nat]

\* What the timers say about the time since the last renewal.
TimingOK(s) ==
    /\ s.pc = "starting" => s.timer >= 0 /\ s.age + s.timer <= StartMax
    /\ s.pc = "holding" =>
         /\ s.timer >= - Late
         /\ s.age + s.timer <= StartMax + Renew + Late + Ttl - 1 + Renew
         /\ s.grace = Unset => s.age + s.timer <= StartMax + Renew
         /\ (s.grace # Unset /\ s.grace < Ttl)
              => s.age <= StartMax + Renew + Late + s.grace
    /\ s.pc \in {"stopping", "leaving"} => s.timer >= 0 /\ s.age + s.timer <= StopBound

TimingInv == TypeOK /\ \A r \in Replicas : TimingOK(rep[r])

\* While nothing went wrong with the backend, an active replica holds the
\* lease, and what is left of it covers what the replica may still wait.
Covered(r) ==
    /\ reach[r]
    /\ rep[r].pc # "stopping"
    /\ rep[r].pc = "starting" =>
         lease.holder = r /\ lease.left > rep[r].timer + Renew + Late + StopMax
    /\ rep[r].pc = "holding" =>
         lease.holder = r /\ lease.left > rep[r].timer + Late + StopMax
    /\ rep[r].pc = "leaving" => lease.holder = r /\ lease.left > rep[r].timer

CoverInv == faults = 0 => \A r \in Replicas : Covered(r)

-----------------------------------------------------------------------------
(* One replica's state *)

\* n is s with pc, timer and grace replaced.
Edit(s, n, a, t, g) ==
    n \in RepStates /\ n.pc = a /\ n.timer = t /\ n.grace = g /\ n.age = s.age

\* Changing pc, timer and grace of a replica keeps it a replica state and
\* changes nothing else.
LEMMA StateEdit ==
    ASSUME NEW s \in RepStates, NEW a \in States, NEW t \in Int,
           NEW g \in {Unset} \cup 0..Ttl
    PROVE  /\ Edit(s, [s EXCEPT !.pc = a, !.timer = t, !.grace = g], a, t, g)
           /\ Edit(s, [s EXCEPT !.pc = a, !.timer = t], a, t, s.grace)
           /\ Edit(s, [s EXCEPT !.timer = t, !.grace = g], s.pc, t, g)
  <1> DEFINE s1 == [s EXCEPT !.pc = a]
             s2 == [s1 EXCEPT !.timer = t]
             s3 == [s2 EXCEPT !.grace = g]
             u2 == [s EXCEPT !.timer = t]
             u3 == [u2 EXCEPT !.grace = g]
  <1>1. Edit(s, s1, a, s.timer, s.grace)
    BY DEF RepStates, Edit
  <1>2. Edit(s, u2, s.pc, t, s.grace)
    BY DEF RepStates, Edit
  <1>3. Edit(s, s2, a, t, s.grace)
    <2> HIDE DEF s1
    <2> QED BY <1>1 DEF RepStates, Edit
  <1>4. Edit(s, s3, a, t, g)
    <2> HIDE DEF s2
    <2> QED BY <1>3 DEF RepStates, Edit
  <1>5. Edit(s, u3, s.pc, t, g)
    <2> HIDE DEF u2
    <2> QED BY <1>2 DEF RepStates, Edit
  <1>6. /\ [s EXCEPT !.pc = a, !.timer = t, !.grace = g] = s3
        /\ [s EXCEPT !.pc = a, !.timer = t] = s2
        /\ [s EXCEPT !.timer = t, !.grace = g] = u3
    BY DEF RepStates
  <1>7. QED
    BY <1>3, <1>4, <1>5, <1>6

\* The states a replica is put into from scratch.
LEMMA FreshStates ==
    ASSUME LeaseAssumption
    PROVE  /\ \A d \in Int : Polling(d) \in RepStates /\ TimingOK(Polling(d))
           /\ Gone \in RepStates /\ TimingOK(Gone)
           /\ [pc |-> "starting", timer |-> StartMax, grace |-> Unset, age |-> 0] \in RepStates
           /\ TimingOK([pc |-> "starting", timer |-> StartMax, grace |-> Unset, age |-> 0])
           /\ [pc |-> "holding", timer |-> Renew, grace |-> Unset, age |-> 0] \in RepStates
           /\ TimingOK([pc |-> "holding", timer |-> Renew, grace |-> Unset, age |-> 0])
           /\ Gone.pc = "gone" /\ \A d \in Int : Polling(d).pc = "acquire"
  <1>1. Gone = [pc |-> "gone", timer |-> 0, grace |-> Unset, age |-> 0]
    BY DEF Gone, Polling
  <1>2. QED
    BY <1>1 DEF Polling, RepStates, States, TimingOK, LeaseAssumption, Unset, StopBound

\* One unit of time keeps a replica's timing, if it was not as late as it
\* may be.
LEMMA PassedKeeps ==
    ASSUME LeaseAssumption, NEW s \in RepStates, TimingOK(s),
           s.pc # "gone" => s.timer > Patience(s)
    PROVE  /\ Passed(s) \in RepStates /\ TimingOK(Passed(s))
           /\ Passed(s).pc = s.pc
           /\ s.pc # "gone" => Passed(s).timer = s.timer - 1
  <1>1. CASE s.pc = "gone"
    BY <1>1 DEF Passed
  <1>2. CASE s.pc # "gone"
    <2> DEFINE g == IF s.grace = Unset \/ s.grace >= Ttl THEN s.grace ELSE s.grace + 1
               a == IF s.pc = "acquire" THEN 0 ELSE s.age + 1
               n == [pc |-> s.pc, timer |-> s.timer - 1, grace |-> g, age |-> a]
    <2>1. Passed(s) = n
      BY <1>2 DEF Passed, RepStates
    <2>2. g \in {Unset} \cup 0..Ttl /\ a \in Nat
      BY DEF RepStates, LeaseAssumption, Unset
    <2>3. n \in RepStates
      BY <2>2 DEF RepStates
    <2>4. TimingOK(n)
      <3> USE DEF LeaseAssumption, RepStates, Patience, TimingOK
      <3>1. s.pc = "starting" => s.timer - 1 >= 0 /\ s.age + 1 + (s.timer - 1) <= StartMax
        BY <1>2
      <3>2. s.pc = "holding" =>
              /\ s.timer - 1 >= - Late
              /\ s.age + 1 + (s.timer - 1) <= StartMax + Renew + Late + Ttl - 1 + Renew
              /\ g = Unset => s.age + 1 + (s.timer - 1) <= StartMax + Renew
              /\ (g # Unset /\ g < Ttl) => s.age + 1 <= StartMax + Renew + Late + g
        BY <1>2, <2>2 DEF Unset
      <3>3. s.pc \in {"stopping", "leaving"} =>
              s.timer - 1 >= 0 /\ s.age + 1 + (s.timer - 1) <= StopBound
        BY <1>2 DEF StopBound
      <3> HIDE DEF g
      <3>4. QED
        BY <3>1, <3>2, <3>3
    <2>5. QED
      BY <1>2, <2>1, <2>3, <2>4
  <1>3. QED
    BY <1>1, <1>2

-----------------------------------------------------------------------------
(* Timing *)

\* Writing a well-timed state for one replica keeps the invariant.
LEMMA WriteRep ==
    ASSUME TypeOK, \A r \in Replicas : TimingOK(rep[r]), NEW q \in Replicas,
           NEW n \in RepStates, TimingOK(n), rep' = [rep EXCEPT ![q] = n],
           lease' \in [holder: Replicas \cup {Nobody}, left: 0..Ttl],
           reach' \in [Replicas -> BOOLEAN], faults' \in 0..MaxFaults, exits' \in 0..MaxExits
    PROVE  TimingInv'
  BY DEF TimingInv, TypeOK, RepStates

\* Every value the operations give the backend's entry is one.
LEMMA LeaseValues ==
    ASSUME LeaseAssumption, TypeOK, NEW r \in Replicas
    PROVE  /\ Granted(r) \in [holder: Replicas \cup {Nobody}, left: 0..Ttl]
           /\ Free \in [holder: Replicas \cup {Nobody}, left: 0..Ttl]
           /\ Released(r) \in [holder: Replicas \cup {Nobody}, left: 0..Ttl]
  BY DEF LeaseAssumption, TypeOK, Granted, Free, Released

\* Calling stop(), after a loss or a cancellation, keeps the timing.
LEMMA StopKeeps ==
    ASSUME LeaseAssumption, NEW s \in RepStates, TimingOK(s), s.pc \in {"starting", "holding"}
    PROVE  /\ [s EXCEPT !.pc = "leaving", !.timer = StopMax] \in RepStates
           /\ TimingOK([s EXCEPT !.pc = "leaving", !.timer = StopMax])
           /\ s.pc = "holding" =>
                /\ [s EXCEPT !.pc = "stopping", !.timer = StopMax, !.grace = Unset] \in RepStates
                /\ TimingOK([s EXCEPT !.pc = "stopping", !.timer = StopMax, !.grace = Unset])
  <1> DEFINE l == [s EXCEPT !.pc = "leaving", !.timer = StopMax]
             t == [s EXCEPT !.pc = "stopping", !.timer = StopMax, !.grace = Unset]
  <1>1. /\ s.timer \in Int /\ s.age \in Nat
        /\ StopMax \in Int /\ "leaving" \in States /\ "stopping" \in States
        /\ Unset \in {Unset} \cup 0..Ttl
    BY DEF RepStates, States, LeaseAssumption
  <1>2. s.age + StopMax <= StopBound
    BY <1>1 DEF TimingOK, StopBound, LeaseAssumption
  <1>3. Edit(s, l, "leaving", StopMax, s.grace) /\ Edit(s, t, "stopping", StopMax, Unset)
    BY <1>1, StateEdit
  <1> HIDE DEF l, t
  <1>4. TimingOK(l) /\ TimingOK(t) /\ l \in RepStates /\ t \in RepStates
    BY <1>1, <1>2, <1>3 DEF TimingOK, LeaseAssumption, Edit
  <1>5. QED
    BY <1>4 DEF l, t

\* Every step keeps the timing invariant: a replica's timer and grace period
\* account for all the time since its last renewal.
LEMMA TimingStep == LeaseAssumption /\ TimingInv /\ [Next]_vars => TimingInv'
  <1> SUFFICES ASSUME LeaseAssumption, TimingInv, [Next]_vars
               PROVE  TimingInv'
    OBVIOUS
  <1> USE DEF vars
  <1>0. TypeOK /\ \A r \in Replicas : TimingOK(rep[r]) /\ rep[r] \in RepStates
    BY DEF TimingInv, TypeOK, RepStates
  <1>1. ASSUME NEW r \in Replicas, ReplicaNext(r)
        PROVE  TimingInv'
    <2>0. /\ lease \in [holder: Replicas \cup {Nobody}, left: 0..Ttl]
          /\ reach \in [Replicas -> BOOLEAN]
          /\ faults \in 0..MaxFaults /\ exits \in 0..MaxExits
          /\ exits < MaxExits => exits + 1 \in 0..MaxExits
          /\ faults < MaxFaults => faults + 1 \in 0..MaxFaults
      BY <1>0 DEF TypeOK, LeaseAssumption
    <2> USE DEF LeaseAssumption
    <2>f. /\ Polling(0) \in RepStates /\ TimingOK(Polling(0))
          /\ Polling(Renew) \in RepStates /\ TimingOK(Polling(Renew))
          /\ Polling(Ttl) \in RepStates /\ TimingOK(Polling(Ttl))
      BY FreshStates
    <2>1. CASE Acquire(r)
      BY <1>0, <2>0, <2>1, FreshStates, LeaseValues, WriteRep DEF Acquire
    <2>2. CASE AcquireRefused(r)
      BY <1>0, <2>0, <2>2, <2>f, WriteRep DEF AcquireRefused
    <2>3. CASE Started(r)
      <3> DEFINE s == rep[r]
                 n == [s EXCEPT !.pc = "holding", !.timer = Renew]
      <3>1. Edit(s, n, "holding", Renew, s.grace)
        <4>1. s \in RepStates /\ "holding" \in States /\ Renew \in Int
              /\ s.grace \in {Unset} \cup 0..Ttl
          BY <1>0 DEF States, RepStates
        <4> HIDE DEF s
        <4>2. QED
          BY <4>1, StateEdit
      <3>2. rep' = [rep EXCEPT ![r] = n]
        BY <2>3 DEF Started
      <3>3. s.pc = "starting" /\ TimingOK(s) /\ s \in RepStates
        BY <1>0, <2>3 DEF Started
      <3> HIDE DEF n, s
      <3>4. TimingOK(n) /\ n \in RepStates
        BY <3>1, <3>3 DEF TimingOK, RepStates, Edit
      <3>5. QED
        BY <1>0, <2>0, <2>3, <3>2, <3>4, WriteRep DEF Started
    <2>4. CASE StartFailed(r)
      BY <1>0, <2>0, <2>4, <2>f, LeaseValues, WriteRep DEF StartFailed
    <2>5. CASE RenewOk(r)
      BY <1>0, <2>0, <2>5, FreshStates, LeaseValues, WriteRep DEF RenewOk
    <2>6. CASE RenewLost(r)
      BY <1>0, <2>0, <2>6, StopKeeps, WriteRep DEF RenewLost, Stop
    <2>7. CASE RenewUnavailable(r)
      <3>1. CASE Since(r) < Ttl
        <4> DEFINE s == rep[r]
                   n == [s EXCEPT !.timer = Renew, !.grace = Since(r)]
        <4>1. Since(r) \in 0..Ttl
          BY <1>0, <3>1 DEF Since, RepStates, Unset
        <4>2. s.pc = "holding" /\ s.timer \in Int /\ s.age \in Nat /\ s \in RepStates
          BY <1>0, <2>7 DEF RenewUnavailable, RepStates
        <4>3. s.age <= StartMax + Renew + Late + Since(r)
          BY <1>0, <3>1, <4>2 DEF Since, TimingOK, Unset, RepStates
        <4>4. rep' = [rep EXCEPT ![r] = n]
          BY <2>7, <3>1 DEF RenewUnavailable
        <4>5. Edit(s, n, s.pc, Renew, Since(r))
          <5>1. "holding" \in States /\ Renew \in Int
            BY DEF States
          <5> HIDE DEF s
          <5>2. QED
            BY <4>1, <4>2, <5>1, StateEdit
        <4> HIDE DEF n, s
        <4>6. TimingOK(n) /\ n \in RepStates
          BY <3>1, <4>1, <4>2, <4>3, <4>5 DEF TimingOK, Unset, Edit
        <4>7. QED
          BY <1>0, <2>0, <2>7, <4>4, <4>6, WriteRep DEF RenewUnavailable
      <3>2. CASE ~ (Since(r) < Ttl)
        BY <1>0, <2>0, <2>7, <3>2, StopKeeps, WriteRep DEF RenewUnavailable, Stop
      <3>3. QED
        BY <3>1, <3>2
    <2>8. CASE Stopped(r)
      BY <1>0, <2>0, <2>8, <2>f, WriteRep DEF Stopped
    <2>9. CASE CancelHolder(r)
      BY <1>0, <2>0, <2>9, StopKeeps, WriteRep DEF CancelHolder
    <2>10. CASE CancelOther(r)
      BY <1>0, <2>0, <2>10, FreshStates, LeaseValues, WriteRep DEF CancelOther
    <2>11. CASE Leave(r)
      BY <1>0, <2>0, <2>11, FreshStates, LeaseValues, WriteRep DEF Leave
    <2>12. CASE Crash(r)
      BY <1>0, <2>0, <2>12, FreshStates, WriteRep DEF Crash
    <2>13. CASE Restart(r)
      BY <1>0, <2>0, <2>13, <2>f, WriteRep DEF Restart
    <2>14. CASE Outage(r) \/ Recover(r)
      BY <1>0, <2>0, <2>14 DEF Outage, Recover, TimingInv, TypeOK
    <2>15. QED
      BY <1>1, <2>1, <2>2, <2>3, <2>4, <2>5, <2>6, <2>7, <2>8, <2>9, <2>10, <2>11, <2>12,
         <2>13, <2>14 DEF ReplicaNext
  <1>2. CASE Flush
    BY <1>0, <1>2 DEF Flush, TimingInv, TypeOK, Free, LeaseAssumption
  <1>3. CASE Tick
    <2>1. \A r \in Replicas : Passed(rep[r]) \in RepStates /\ TimingOK(Passed(rep[r]))
      BY <1>0, <1>3, PassedKeeps DEF Tick
    <2>2. lease' \in [holder: Replicas \cup {Nobody}, left: 0..Ttl]
      BY <1>0, <1>3 DEF Tick, TypeOK, Free, LeaseAssumption
    <2>3. rep' \in [Replicas -> RepStates] /\ \A r \in Replicas : TimingOK(rep'[r])
      BY <1>3, <2>1 DEF Tick
    <2>4. QED
      BY <1>0, <1>3, <2>2, <2>3 DEF Tick, TimingInv, TypeOK, RepStates
  <1>4. CASE UNCHANGED vars
    BY <1>4 DEF TimingInv, TypeOK
  <1>5. QED
    BY <1>1, <1>2, <1>3, <1>4 DEF Next

\* The initial state is well timed.
LEMMA TimingInit == LeaseAssumption /\ Init => TimingInv
  BY FreshStates DEF Init, TimingInv, TypeOK, RepStates, Free, LeaseAssumption

\* Replica states, the backend's entry and the counters keep their types.
THEOREM LeaseTypeCorrect == Spec => []TypeOK
  <1>1. Init => TimingInv
    BY TimingInit, LeaseAssumption
  <1>2. TimingInv /\ [Next]_vars => TimingInv'
    BY TimingStep, LeaseAssumption
  <1>3. TimingInv => TypeOK
    BY DEF TimingInv
  <1>4. QED
    BY <1>1, <1>2, <1>3, PTL DEF Spec

\* Whatever the backend does, a replica that cannot renew stops its work
\* within StopBound of its last successful acquire or renewal.
THEOREM WorkStopsInTime == Spec => []StopsInTime
  <1>1. Init => TimingInv
    BY TimingInit, LeaseAssumption
  <1>2. TimingInv /\ [Next]_vars => TimingInv'
    BY TimingStep, LeaseAssumption
  <1>3. TimingInv => StopsInTime
    BY LeaseAssumption
       DEF TimingInv, TypeOK, TimingOK, StopsInTime, Active, StopBound, LeaseAssumption
  <1>4. QED
    BY <1>1, <1>2, <1>3, PTL DEF Spec

-----------------------------------------------------------------------------
(* Exclusivity *)

\* A step of one replica leaves the others covered: while they are active
\* they hold the lease, and the step leaves another's entry alone.
LEMMA CoverStep ==
    LeaseAssumption /\ Timely /\ TimingInv /\ CoverInv /\ [Next]_vars => CoverInv'
  <1> SUFFICES ASSUME LeaseAssumption, Timely, TimingInv, CoverInv, [Next]_vars, faults' = 0
               PROVE  \A q \in Replicas : Covered(q)'
    BY DEF CoverInv
  <1> USE DEF vars
  <1>0. /\ TypeOK
        /\ \A q \in Replicas : rep[q] \in RepStates /\ TimingOK(rep[q])
        /\ lease.left \in 0..Ttl /\ lease.holder \in Replicas \cup {Nobody}
        /\ rep \in [Replicas -> RepStates] /\ faults \in Nat
    BY DEF TimingInv, TypeOK, RepStates, LeaseAssumption
  <1>1. ASSUME NEW r \in Replicas, ReplicaNext(r)
        PROVE  \A q \in Replicas : Covered(q)'
    <2>0. faults = 0 /\ \A q \in Replicas : Covered(q)
      <3>1. faults' = faults \/ faults' = faults + 1
        BY <1>1 DEF ReplicaNext, Acquire, AcquireRefused, Started, StartFailed, RenewOk,
           RenewLost, RenewUnavailable, Stopped, CancelHolder, CancelOther, Leave, Crash,
           Restart, Outage, Recover
      <3>2. QED
        BY <1>0, <3>1 DEF CoverInv
    <2>a. ASSUME NEW q \in Replicas, lease.holder = Nobody
          PROVE  rep[q].pc \notin {"starting", "holding", "leaving"}
      BY <2>0, <2>a DEF Covered, LeaseAssumption
    <2>b. ASSUME NEW q \in Replicas, q # r, lease.holder = r
          PROVE  rep[q].pc \notin {"starting", "holding", "leaving"}
      BY <2>0, <2>b DEF Covered
    <2>c. rep[r] \in RepStates /\ rep[r].timer \in Int /\ TimingOK(rep[r]) /\ Covered(r)
      BY <1>0, <2>0 DEF RepStates
    <2> USE DEF LeaseAssumption
    <2>1. CASE Acquire(r)
      BY <1>0, <2>0, <2>a, <2>1 DEF Acquire, Covered, Granted, Timely
    <2>2. CASE AcquireRefused(r)
      BY <1>0, <2>0, <2>2 DEF AcquireRefused, Covered, Polling
    <2>3. CASE Started(r)
      BY <1>0, <2>0, <2>c, <2>3 DEF Started, Covered, TimingOK, RepStates
    <2>4. CASE StartFailed(r)
      BY <1>0, <2>0, <2>b, <2>4 DEF StartFailed, Covered, Polling, Released, Free
    <2>5. CASE RenewOk(r)
      BY <1>0, <2>0, <2>b, <2>5 DEF RenewOk, Renews, Covered, Granted, Timely
    <2>6. CASE RenewLost(r)
      BY <2>c, <2>6 DEF RenewLost, Renews, Covered
    <2>7. CASE RenewUnavailable(r)
      BY <2>c, <2>7 DEF RenewUnavailable, Covered
    <2>8. CASE Stopped(r)
      BY <2>c, <2>8 DEF Stopped, Covered
    <2>9. CASE CancelHolder(r)
      BY <1>0, <2>0, <2>c, <2>9 DEF CancelHolder, Covered, TimingOK, RepStates
    <2>10. CASE CancelOther(r)
      BY <1>0, <2>0, <2>a, <2>10, FreshStates DEF CancelOther, Covered, Granted
    <2>11. CASE Leave(r)
      BY <1>0, <2>0, <2>b, <2>11, FreshStates DEF Leave, Covered, Released, Free
    <2>12. CASE Crash(r)
      BY <1>0, <2>0, <2>12, FreshStates DEF Crash, Covered
    <2>13. CASE Restart(r)
      BY <1>0, <2>0, <2>13 DEF Restart, Covered, Polling
    <2>14. CASE Outage(r)
      BY <2>0, <2>14 DEF Outage
    <2>15. CASE Recover(r)
      BY <2>c, <2>15 DEF Recover, Covered
    <2>16. QED
      BY <1>1, <2>1, <2>2, <2>3, <2>4, <2>5, <2>6, <2>7, <2>8, <2>9, <2>10, <2>11, <2>12,
         <2>13, <2>14, <2>15 DEF ReplicaNext
  <1>2. CASE Flush
    BY <1>0, <1>2 DEF Flush
  <1>3. CASE Tick
    <2> SUFFICES ASSUME NEW q \in Replicas
                 PROVE  Covered(q)'
      OBVIOUS
    <2>1. Covered(q) /\ reach' = reach
      BY <1>3 DEF CoverInv, Tick
    <2>2. /\ rep'[q] = Passed(rep[q]) /\ rep'[q].pc = rep[q].pc
          /\ rep[q].pc # "gone" => rep'[q].timer = rep[q].timer - 1
          /\ rep[q].pc # "gone" => rep[q].timer > Patience(rep[q])
      BY <1>0, <1>3, PassedKeeps DEF Tick
    <2>3. rep[q].timer \in Int /\ TimingOK(rep[q])
      BY <1>0 DEF RepStates
    <2>4. lease.left > 1 => lease'.holder = lease.holder /\ lease'.left = lease.left - 1
      BY <1>0, <1>3 DEF Tick, TypeOK
    <2>5. rep[q].pc \in {"starting", "holding", "leaving"} => lease.left > 1
      BY <1>0, <2>1, <2>2, <2>3 DEF Covered, Patience, LeaseAssumption
    <2>6. QED
      BY <1>0, <2>1, <2>2, <2>3, <2>4, <2>5 DEF Covered, LeaseAssumption
  <1>4. CASE UNCHANGED vars
    BY <1>4 DEF CoverInv, Covered
  <1>5. QED
    BY <1>1, <1>2, <1>3, <1>4 DEF Next

\* If starting, one renewal and stopping fit in a lease, the singleton work
\* runs on at most one replica as long as the backend keeps answering and
\* keeps its state.
THEOREM WorkIsExclusive == ASSUME Timely PROVE Spec => []ExclusiveWithoutFaults
  <1>1. Init => TimingInv /\ CoverInv
    BY TimingInit, LeaseAssumption DEF Init, CoverInv, Covered, Polling
  <1>2. (TimingInv /\ CoverInv) /\ [Next]_vars => (TimingInv /\ CoverInv)'
    BY TimingStep, CoverStep, LeaseAssumption, Timely
  <1>3. TimingInv /\ CoverInv => ExclusiveWithoutFaults
    BY DEF CoverInv, Covered, ExclusiveWithoutFaults, Active
  <1>4. QED
    BY <1>1, <1>2, <1>3, PTL DEF Spec

=============================================================================
