----------------------------- MODULE JobContract -----------------------------
(***************************************************************************)
(* What the job queue and its workers promise together, without leases,    *)
(* tokens, processes or time: a submitted job stays open while it is       *)
(* attempted at most budget times, is settled exactly once, and its        *)
(* outcome is announced at most once and as it was settled; two open jobs  *)
(* never share an idempotency key.                                         *)
(***************************************************************************)
EXTENDS Integers

CONSTANTS Ids, KeySet, NullKey, BudgetSet

VARIABLES
    state,      \* id -> absent, open, done or failed
    key,        \* id -> idempotency key of a submitted job
    budget,     \* id -> how often it may be attempted
    runs,       \* id -> how often it was attempted
    told        \* id -> how often each outcome was announced

cvars == <<state, key, budget, runs, told>>

Settled == {"done", "failed"}
Untold == [completed |-> 0, failed |-> 0]

CInit ==
    /\ state = [j \in Ids |-> "absent"]
    /\ key = [j \in Ids |-> NullKey]
    /\ budget = [j \in Ids |-> 0]
    /\ runs = [j \in Ids |-> 0]
    /\ told = [j \in Ids |-> Untold]

Submit(j) ==
    /\ state[j] = "absent"
    /\ \E k \in KeySet \cup {NullKey}, b \in BudgetSet :
         /\ k # NullKey => \A i \in Ids : ~ (state[i] = "open" /\ key[i] = k)
         /\ key' = [key EXCEPT ![j] = k]
         /\ budget' = [budget EXCEPT ![j] = b]
    /\ state' = [state EXCEPT ![j] = "open"]
    /\ UNCHANGED <<runs, told>>

Attempt(j) ==
    /\ state[j] = "open"
    /\ runs[j] < budget[j]
    /\ runs' = [runs EXCEPT ![j] = @ + 1]
    /\ UNCHANGED <<state, key, budget, told>>

\* Several jobs are settled at once when the reaper sweeps.
Settle(S, outcome) ==
    /\ \A j \in S : state[j] = "open" /\ runs[j] > 0
    /\ state' = [j \in Ids |-> IF j \in S THEN outcome ELSE state[j]]
    /\ UNCHANGED <<key, budget, runs, told>>

Announcement(j) == IF state[j] = "done" THEN "completed" ELSE "failed"

Announce(j) ==
    /\ state[j] \in Settled
    /\ told[j] = Untold
    /\ told' = [told EXCEPT ![j][Announcement(j)] = 1]
    /\ UNCHANGED <<state, key, budget, runs>>

CNext ==
    \/ \E j \in Ids : Submit(j) \/ Attempt(j) \/ Announce(j)
    \/ \E S \in SUBSET Ids, outcome \in Settled : Settle(S, outcome)

CSpec == CInit /\ [][CNext]_cvars

=============================================================================
