----------------------------- MODULE LeaderLease -----------------------------
(***************************************************************************)
(* run_with_lease (app/coordination/leases.py) on several replicas over    *)
(* the leases of a CoordinationBackend (memory.py, redis_backend.py): one  *)
(* named lease with an expiry, replicas that poll to acquire it, run the   *)
(* singleton work (a Slack socket, a Telegram long poll) while they hold   *)
(* it, renew it, and stop when they find it lost or the backend away.      *)
(*                                                                         *)
(* Time is discrete.  A replica's timer counts down to the moment its      *)
(* coroutine resumes and may run to -Late: that is how late the event loop *)
(* or a slow backend call may be.  lease.left and grace are distances too. *)
(* A replica's pc is                                                       *)
(*   acquire   not holding; calls lease_acquire when the timer is out      *)
(*   starting  holding, start() in progress                                *)
(*   holding   holding; calls lease_renew when the timer is out            *)
(*   stopping  no longer held, stop() in progress                          *)
(*   leaving   cancelled while holding, stop() in progress                 *)
(*   gone      cancelled or crashed                                        *)
(***************************************************************************)
EXTENDS Integers

CONSTANTS
    Replicas,
    Nobody,         \* no unexpired lease
    Ttl,            \* ttl_s
    Renew,          \* renew_interval
    Late,           \* how late a coroutine may resume
    StartMax,       \* how long start() may take
    StopMax,        \* how long stop() may take
    MaxFaults,      \* bound on outages and lost backend state
    MaxExits        \* bound on cancellations, crashes and failed start()s

ASSUME LeaseAssumption ==
    /\ Nobody \notin Replicas
    /\ Ttl \in Nat \ {0}
    /\ Renew \in Nat \ {0}
    /\ Late \in Nat /\ StartMax \in Nat /\ StopMax \in Nat
    /\ MaxFaults \in Nat /\ MaxExits \in Nat

VARIABLES
    lease,          \* the backend's entry: holder and time left
    rep,            \* replica -> [pc, timer, grace, age]
    reach,          \* replica -> the backend answers its calls
    faults,         \* outages and flushes so far
    exits           \* cancellations, crashes and failed starts so far

vars == <<lease, rep, reach, faults, exits>>

Free == [holder |-> Nobody, left |-> 0]

\* unavailable_since = None
Unset == -1

States == {"acquire", "starting", "holding", "stopping", "leaving", "gone"}

\* grace is now - unavailable_since; age is the time since this replica's
\* last successful lease_acquire or lease_renew (not kept by the code).
Polling(delay) == [pc |-> "acquire", timer |-> delay, grace |-> Unset, age |-> 0]

Init ==
    /\ lease = Free
    /\ rep = [r \in Replicas |-> Polling(0)]
    /\ reach = [r \in Replicas |-> TRUE]
    /\ faults = 0
    /\ exits = 0

\* The replica's singleton work may be running.
Active(r) == rep[r].pc \in {"starting", "holding", "stopping", "leaving"}

\* The coroutine of r resumes.
Due(r) == rep[r].timer <= 0

\* Bug: seconds passed where the backend expects milliseconds, or the reverse.
GrantedTooLong(r) == [holder |-> r, left |-> Ttl * 1000]

Granted(r) == [holder |-> r, left |-> Ttl]

-----------------------------------------------------------------------------
(* Not holding: acquire, then start() *)

\* Bug: the acquire overwrites an unexpired lease (SET without NX).
AcquireUnconditionally(r) ==
    /\ rep[r].pc = "acquire" /\ Due(r)
    /\ reach[r]
    /\ lease' = Granted(r)
    /\ rep' = [rep EXCEPT ![r] = [pc |-> "starting", timer |-> StartMax,
                                   grace |-> Unset, age |-> 0]]
    /\ UNCHANGED <<reach, faults, exits>>

\* lease_acquire returned True: held, and start() is called.
Acquire(r) ==
    /\ rep[r].pc = "acquire" /\ Due(r)
    /\ reach[r]
    /\ lease.holder = Nobody
    /\ lease' = Granted(r)
    /\ rep' = [rep EXCEPT ![r] = [pc |-> "starting", timer |-> StartMax,
                                   grace |-> Unset, age |-> 0]]
    /\ UNCHANGED <<reach, faults, exits>>

\* lease_acquire returned False or raised CoordinationUnavailable.
AcquireRefused(r) ==
    /\ rep[r].pc = "acquire" /\ Due(r)
    /\ ~ reach[r] \/ lease.holder # Nobody
    /\ rep' = [rep EXCEPT ![r] = Polling(Renew)]
    /\ UNCHANGED <<lease, reach, faults, exits>>

\* start() returns, at any time within StartMax; sleep before the renewal.
Started(r) ==
    /\ rep[r].pc = "starting"
    /\ rep' = [rep EXCEPT ![r] = [@ EXCEPT !.pc = "holding", !.timer = Renew]]
    /\ UNCHANGED <<lease, reach, faults, exits>>

\* lease_release deletes the entry of its own holder only, and is best
\* effort when the backend is away.
Released(r) == IF reach[r] /\ lease.holder = r THEN Free ELSE lease

\* start() raised: release and back off for ttl_s.
StartFailed(r) ==
    /\ rep[r].pc = "starting"
    /\ exits < MaxExits /\ exits' = exits + 1
    /\ lease' = Released(r)
    /\ rep' = [rep EXCEPT ![r] = Polling(Ttl)]
    /\ UNCHANGED <<reach, faults>>

-----------------------------------------------------------------------------
(* Holding: renew, or find the lease lost *)

\* Bug: the renewal does not compare the holder, and takes over.
RenewsAnyway(r) == reach[r]

\* lease_renew returned True.
Renews(r) == reach[r] /\ lease.holder = r

RenewOk(r) ==
    /\ rep[r].pc = "holding" /\ Due(r)
    /\ Renews(r)
    /\ lease' = Granted(r)
    /\ rep' = [rep EXCEPT ![r] = [pc |-> "holding", timer |-> Renew,
                                   grace |-> Unset, age |-> 0]]
    /\ UNCHANGED <<reach, faults, exits>>

\* held = False, then stop().
Stop(r) ==
    rep' = [rep EXCEPT ![r] = [@ EXCEPT !.pc = "stopping", !.timer = StopMax, !.grace = Unset]]

\* lease_renew returned False.
RenewLost(r) ==
    /\ rep[r].pc = "holding" /\ Due(r)
    /\ reach[r] /\ ~ Renews(r)
    /\ Stop(r)
    /\ UNCHANGED <<lease, reach, faults, exits>>

\* Bug: every failed renewal restarts the grace period.
RestartsGrace(r) == 0

\* unavailable_since is set by the first failed renewal only.
Since(r) == IF rep[r].grace = Unset THEN 0 ELSE rep[r].grace

\* lease_renew raised CoordinationUnavailable: tolerated until ttl_s after
\* the first time, then treated as a lost lease.
RenewUnavailable(r) ==
    /\ rep[r].pc = "holding" /\ Due(r)
    /\ ~ reach[r]
    /\ IF Since(r) < Ttl
       THEN rep' = [rep EXCEPT ![r] = [@ EXCEPT !.timer = Renew, !.grace = Since(r)]]
       ELSE Stop(r)
    /\ UNCHANGED <<lease, reach, faults, exits>>

\* stop() returns, at any time within StopMax.
Stopped(r) ==
    /\ rep[r].pc = "stopping"
    /\ rep' = [rep EXCEPT ![r] = Polling(0)]
    /\ UNCHANGED <<lease, reach, faults, exits>>

-----------------------------------------------------------------------------
(* Cancellation, crash and restart *)

Gone == [Polling(0) EXCEPT !.pc = "gone"]

\* The task of a holder is cancelled: stop() first.
CancelHolder(r) ==
    /\ rep[r].pc \in {"starting", "holding"}
    /\ exits < MaxExits /\ exits' = exits + 1
    /\ rep' = [rep EXCEPT ![r] = [@ EXCEPT !.pc = "leaving", !.timer = StopMax]]
    /\ UNCHANGED <<lease, reach, faults>>

\* The task of another replica is cancelled.  A lease_acquire still in its
\* thread is not waited for and may yet create the entry, which nobody then
\* releases; a stop() in progress is interrupted.
CancelOther(r) ==
    /\ rep[r].pc \in {"acquire", "stopping"}
    /\ exits < MaxExits /\ exits' = exits + 1
    /\ \/ UNCHANGED lease
       \/ /\ rep[r].pc = "acquire" /\ Due(r)
          /\ reach[r] /\ lease.holder = Nobody
          /\ lease' = Granted(r)
    /\ rep' = [rep EXCEPT ![r] = Gone]
    /\ UNCHANGED <<reach, faults>>

\* stop() returned: release, then the task ends.
Leave(r) ==
    /\ rep[r].pc = "leaving"
    /\ lease' = Released(r)
    /\ rep' = [rep EXCEPT ![r] = Gone]
    /\ UNCHANGED <<reach, faults, exits>>

Crash(r) ==
    /\ rep[r].pc # "gone"
    /\ exits < MaxExits /\ exits' = exits + 1
    /\ rep' = [rep EXCEPT ![r] = Gone]
    /\ UNCHANGED <<lease, reach, faults>>

Restart(r) ==
    /\ rep[r].pc = "gone"
    /\ rep' = [rep EXCEPT ![r] = Polling(0)]
    /\ UNCHANGED <<lease, reach, faults, exits>>

-----------------------------------------------------------------------------
(* The backend and time *)

\* Calls of r start to raise CoordinationUnavailable.
Outage(r) ==
    /\ reach[r]
    /\ faults < MaxFaults /\ faults' = faults + 1
    /\ reach' = [reach EXCEPT ![r] = FALSE]
    /\ UNCHANGED <<lease, rep, exits>>

Recover(r) ==
    /\ ~ reach[r]
    /\ reach' = [reach EXCEPT ![r] = TRUE]
    /\ UNCHANGED <<lease, rep, faults, exits>>

\* The backend loses its state (FLUSHALL, restart without persistence).
Flush ==
    /\ lease # Free
    /\ faults < MaxFaults /\ faults' = faults + 1
    /\ lease' = Free
    /\ UNCHANGED <<rep, reach, exits>>

\* start() and stop() are done, and a sleeping coroutine has resumed, before
\* its time is up.
Patience(s) == IF s.pc \in {"acquire", "holding"} THEN - Late ELSE 0

Passed(s) ==
    IF s.pc = "gone" THEN s
    ELSE [s EXCEPT !.timer = IF s.timer > Patience(s) THEN @ - 1 ELSE @,
                   !.grace = IF @ = Unset \/ @ >= Ttl THEN @ ELSE @ + 1,
                   !.age = IF s.pc = "acquire" THEN 0 ELSE @ + 1]

\* Time passes unless a coroutine is as late as it can be.
Tick ==
    /\ \A r \in Replicas : rep[r].pc # "gone" => rep[r].timer > Patience(rep[r])
    /\ lease' = IF lease.left > 1 THEN [lease EXCEPT !.left = @ - 1] ELSE Free
    /\ rep' = [r \in Replicas |-> Passed(rep[r])]
    /\ UNCHANGED <<reach, faults, exits>>

-----------------------------------------------------------------------------

ReplicaNext(r) ==
    \/ Acquire(r)
    \/ AcquireRefused(r)
    \/ Started(r)
    \/ StartFailed(r)
    \/ RenewOk(r)
    \/ RenewLost(r)
    \/ RenewUnavailable(r)
    \/ Stopped(r)
    \/ CancelHolder(r)
    \/ CancelOther(r)
    \/ Leave(r)
    \/ Crash(r)
    \/ Restart(r)
    \/ Outage(r)
    \/ Recover(r)

Next ==
    \/ \E r \in Replicas : ReplicaNext(r)
    \/ Flush
    \/ Tick

Spec == Init /\ [][Next]_vars

\* Time passes, tasks resume in time, the backend comes back and replicas
\* are restarted by their supervisor.  Outages, flushes, cancellations and
\* crashes need not happen.
Fairness ==
    /\ WF_vars(Tick)
    /\ \A r \in Replicas :
         /\ WF_vars(Acquire(r) \/ AcquireRefused(r))
         /\ WF_vars(Started(r))
         /\ WF_vars(RenewOk(r) \/ RenewLost(r) \/ RenewUnavailable(r))
         /\ WF_vars(Stopped(r))
         /\ WF_vars(Leave(r))
         /\ WF_vars(Restart(r))
         /\ WF_vars(Recover(r))

FairSpec == Spec /\ Fairness

-----------------------------------------------------------------------------
(* Properties *)

\* The variables keep their types, timers and grace within their bounds.
TypeOK ==
    /\ lease \in [holder: Replicas \cup {Nobody}, left: 0..Ttl]
    /\ rep \in [Replicas -> [pc: States, timer: Int, grace: {Unset} \cup 0..Ttl, age: Nat]]
    /\ reach \in [Replicas -> BOOLEAN]
    /\ faults \in 0..MaxFaults
    /\ exits \in 0..MaxExits

\* Time for start(), one renewal however late, and stop() fits in a lease.
\* It does for ttl_s = 15 with prompt callbacks (ttl_s / 3 between renewals).
Timely == StartMax + Renew + Late + StopMax < Ttl

\* As long as the backend answers and keeps its state, the singleton work
\* runs on at most one replica, through failed starts, cancellations with an
\* acquire in flight, crashes and restarts, and although stop() runs before
\* the release (run_with_lease with lease_acquire, lease_renew, lease_release).
ExclusiveWithoutFaults ==
    faults = 0 => \A r, s \in Replicas : Active(r) /\ Active(s) => r = s

\* How long a replica may go on without a successful renewal.
StopBound == StartMax + 2 * (Renew + Late) + Ttl - 1 + StopMax

\* Whatever the backend does, a replica that can no longer renew has stopped
\* its work after StopBound: the grace period of run_with_lease is counted
\* from the first failed renewal and not restarted by later ones.
StopsInTime == \A r \in Replicas : Active(r) => rep[r].age <= StopBound

\* "no two replicas ever believe they hold the same lease at once"
\* (docstring of app/coordination/leases.py, of the FLUSHALL story).
Believes(r) == rep[r].pc \in {"starting", "holding", "leaving"}

AtMostOneBelieves ==
    \A r, s \in Replicas : Believes(r) /\ Believes(s) => r = s

\* Once outages, flushes, cancellations and crashes are over, the replicas
\* settle: one holds the lease and does the work for good, and whoever did
\* so without the lease has found out and stopped.
SettlesOnLeader ==
    <>[](\E r \in Replicas : /\ rep[r].pc = "holding" /\ lease.holder = r
                            /\ \A s \in Replicas : Active(s) => s = r)

=============================================================================
