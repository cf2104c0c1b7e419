-------------------------- MODULE IdempotencyKeys ---------------------------
(***************************************************************************)
(* Requests to POST /api/v1/agents/{slug}/responses that carry the same     *)
(* Idempotency-Key for the same owner and agent (app/api/agent_runtime.py), *)
(* over the row of idempotency_keys that they share                        *)
(* (src/repositories/idempotency.py and its Postgres twin).  A request is   *)
(* one client call, which may be repeated after a 409 or an error.          *)
(*                                                                         *)
(* The lookup, the reservation and the second lookup are statements of      *)
(* their own, which requests in several API processes interleave.  Time is  *)
(* counted in ticks: left is what remains until expires_at, negative when   *)
(* the row has expired.  A request runs for as long as it takes: the wait   *)
(* for the response is clamped to 600 s, the start of the sandbox, the       *)
(* upload and the harvest around it are not, so it may outlive its          *)
(* reservation of 900 s.                                                   *)
(***************************************************************************)
EXTENDS Integers

CONSTANTS
    Requests,       \* the client calls
    Bodies,         \* the hashes of their bodies
    Body,           \* request -> hash of its body
    Nobody,         \* no request
    ReservationTTL, \* RESERVATION_TTL_S
    ReplayTTL       \* _idempotency_ttl_s()

ASSUME KeysAssumption ==
    /\ Body \in [Requests -> Bodies]
    /\ Nobody \notin Requests
    /\ ReservationTTL \in Nat /\ ReplayTTL \in Nat \ {0}

VARIABLES
    row,            \* the row of the key
    rq              \* request -> its progress

vars == <<row, rq>>

\* by is the request that reserved the key (history), then the run whose
\* response is stored.
RowStates == {"absent", "reserved", "fulfilled"}
NoRow == [state |-> "absent", body |-> Nobody, by |-> Nobody, left |-> -1]

PCs == {"idle", "reserve", "conflict", "running", "answered", "in_flight", "reuse", "failed"}

\* left is what remains of the reservation of a running request (history): it is
\* negative once that has lapsed, or was replaced by the response of a request
\* whose own had.
New == [pc |-> "idle", answer |-> Nobody, left |-> -1]

Init ==
    /\ row = NoRow
    /\ rq = [r \in Requests |-> New]

\* Bug: the row is gone in the very tick of expires_at.
LiveUntil == row.state # "absent" /\ row.left > 0

\* get() and the WHERE of reserve(): not expires_at < now.
Live == row.state # "absent" /\ row.left >= 0

-----------------------------------------------------------------------------
(* create_agent_response *)

\* Bug: the hash is not compared.
RefusalIgnoresBody(r) == IF row.state = "reserved" THEN "in_flight" ELSE "none"

\* _raise_for_existing_idempotency_row; "none" if it returns.
Refusal(r) == IF row.body # Body[r] THEN "reuse"
              ELSE IF row.state = "reserved" THEN "in_flight" ELSE "none"

\* get(): a live row is refused or replayed, otherwise the key is reserved.
Lookup(r) ==
    /\ rq[r].pc \in {"idle", "in_flight", "failed"}
    /\ rq' = [rq EXCEPT ![r] =
                IF ~ Live THEN [@ EXCEPT !.pc = "reserve"]
                ELSE IF Refusal(r) # "none" THEN [@ EXCEPT !.pc = Refusal(r)]
                ELSE [@ EXCEPT !.pc = "answered", !.answer = row.by]]
    /\ UNCHANGED row

\* Bug: no row is ever overwritten.
ReserveAbsent(r) ==
    /\ rq[r].pc = "reserve"
    /\ IF row.state # "absent"
       THEN /\ rq' = [rq EXCEPT ![r].pc = "conflict"]
            /\ UNCHANGED row
       ELSE /\ row' = [state |-> "reserved", body |-> Body[r], by |-> r, left |-> ReservationTTL]
            /\ rq' = [rq EXCEPT ![r] = [@ EXCEPT !.pc = "running", !.left = ReservationTTL]]

\* reserve(): INSERT ... ON CONFLICT ... WHERE stale.  The run starts.
Reserve(r) ==
    /\ rq[r].pc = "reserve"
    /\ IF Live
       THEN /\ rq' = [rq EXCEPT ![r].pc = "conflict"]
            /\ UNCHANGED row
       ELSE /\ row' = [state |-> "reserved", body |-> Body[r], by |-> r, left |-> ReservationTTL]
            /\ rq' = [rq EXCEPT ![r] = [@ EXCEPT !.pc = "running", !.left = ReservationTTL]]

\* The second get() decides which 409 it is; a fulfilled row is not replayed.
Conflict(r) ==
    /\ rq[r].pc = "conflict"
    /\ rq' = [rq EXCEPT ![r].pc = IF Live /\ Refusal(r) = "reuse" THEN "reuse" ELSE "in_flight"]
    /\ UNCHANGED row

\* The row that put() writes, whatever is there.
Stored(r) == [state |-> "fulfilled", body |-> Body[r], by |-> r, left |-> ReplayTTL]

\* The run, or the enqueue, is done: fulfill() and the response.
Fulfill(r) ==
    /\ rq[r].pc = "running"
    /\ row' = Stored(r)
    /\ rq' = [s \in Requests |->
                IF s = r THEN [rq[r] EXCEPT !.pc = "answered", !.answer = r, !.left = -1]
                ELSE IF rq[r].left < 0 THEN [rq[s] EXCEPT !.left = -1] ELSE rq[s]]

\* It raised, or the process stopped; the reservation stays.
RunFails(r) ==
    /\ rq[r].pc = "running"
    /\ rq' = [rq EXCEPT ![r] = [@ EXCEPT !.pc = "failed", !.left = -1]]
    /\ UNCHANGED row

\* The client calls once more with the same key and body, after its answer.
Again(r) ==
    /\ rq[r].pc = "answered"
    /\ rq' = [rq EXCEPT ![r] = New]
    /\ UNCHANGED row

\* purge_expired
Purge ==
    /\ row.state # "absent" /\ row.left < 0
    /\ row' = NoRow
    /\ UNCHANGED rq

\* Time passes.
Tick ==
    /\ Live \/ \E r \in Requests : rq[r].left >= 0
    /\ row' = IF Live THEN [row EXCEPT !.left = @ - 1] ELSE row
    /\ rq' = [r \in Requests |->
                IF rq[r].left >= 0 THEN [rq[r] EXCEPT !.left = @ - 1] ELSE rq[r]]

-----------------------------------------------------------------------------

RequestNext(r) == Lookup(r) \/ Reserve(r) \/ Conflict(r) \/ Fulfill(r) \/ RunFails(r) \/ Again(r)

Next == (\E r \in Requests : RequestNext(r)) \/ Purge \/ Tick

Spec == Init /\ [][Next]_vars

\* Handlers run to their end, clients repeat what was in flight or failed, and
\* time passes.  A run fails now and then but not for ever.
Fairness ==
    /\ \A r \in Requests :
         /\ WF_vars(Lookup(r) \/ Reserve(r) \/ Conflict(r) \/ RunFails(r))
         /\ SF_vars(Fulfill(r))
    /\ WF_vars(Tick)

FairSpec == Spec /\ Fairness

-----------------------------------------------------------------------------
(* Properties *)

\* The variables keep their types.
TypeOK ==
    /\ row \in [state: RowStates, body: Bodies \cup {Nobody}, by: Requests \cup {Nobody}, left: Int]
    /\ rq \in [Requests -> [pc: PCs, answer: Requests \cup {Nobody}, left: Int]]

\* Two requests under the key do its work at the same time only if one of them
\* outlived its reservation, or lost it to one that did: lookup and reservation
\* are separate statements, in several processes, and never let two in by
\* themselves.
NoDoubleRun ==
    \A r, s \in Requests :
        rq[r].pc = "running" /\ rq[s].pc = "running" /\ r # s => rq[r].left < 0 \/ rq[s].left < 0

\* An answered request got the response of a run of the same body, its own or
\* a replayed one.
ReplayMatchesBody ==
    \A r \in Requests : rq[r].pc = "answered" => Body[rq[r].answer] = Body[r]

\* A stored response is replaced before it expires only by that of a run that had
\* lost its reservation: otherwise all replays in its lifetime are the same.
ReplayStable ==
    [][row.state = "fulfilled" /\ row.left >= 0 =>
          /\ row'.state = "fulfilled"
          /\ row'.by = row.by \/ (rq[row'.by].pc = "running" /\ rq[row'.by].left < 0)]_vars

\* A crashed or failed request never wedges the key: when a request is told
\* "in flight", some request under the key is answered later.
NeverWedged ==
    (\E r \in Requests : rq[r].pc = "in_flight") ~> (\E r \in Requests : rq[r].pc = "answered")

\* The inductive invariant: the reservation of a running request is there until
\* it lapses, and what is stored belongs together.
Covered(r) ==
    /\ row.state = "reserved" /\ row.by = r
    /\ rq[r].left <= row.left

KeysInv ==
    /\ TypeOK
    /\ \A r \in Requests : rq[r].left >= 0 => rq[r].pc = "running" /\ Covered(r)
    /\ row.state # "absent" => row.by \in Requests /\ row.body = Body[row.by]
    /\ \A r \in Requests : rq[r].pc = "answered" =>
         rq[r].answer \in Requests /\ Body[rq[r].answer] = Body[r]
=============================================================================
