----------------------- MODULE IdempotencyKeysProofs ------------------------
(***************************************************************************)
(* Requests under one idempotency key run one at a time, but for those that *)
(* outlive their reservation, and replay what belongs to them: for any       *)
(* number of requests and any lengths of time.                             *)
(***************************************************************************)
EXTENDS IdempotencyKeys, TLAPS

\* The parts of KeysInv that the proofs name.
ReservedIsCovered == \A r \in Requests : rq[r].left >= 0 => rq[r].pc = "running" /\ Covered(r)
StoredBelongs == row.state # "absent" => row.by \in Requests /\ row.body = Body[row.by]
AnswersMatch ==
    \A r \in Requests : rq[r].pc = "answered" =>
        rq[r].answer \in Requests /\ Body[rq[r].answer] = Body[r]

\* The parts are all of the invariant.
LEMMA PartsOfKeysInv ==
    KeysInv <=> TypeOK /\ ReservedIsCovered /\ StoredBelongs /\ AnswersMatch
BY DEF KeysInv, ReservedIsCovered, StoredBelongs, AnswersMatch

\* No row, no request under way.
LEMMA KeysInvInit == Init => KeysInv
BY KeysAssumption DEF Init, KeysInv, TypeOK, NoRow, New, RowStates, PCs

\* While a request has its reservation, the row is live and its own.
LEMMA ReservedMeansLive ==
    ASSUME KeysInv, NEW r \in Requests, rq[r].left >= 0
    PROVE  Live /\ row.state = "reserved" /\ row.by = r
<1>1. Covered(r)  BY DEF KeysInv
<1>2. rq[r].left \in Int /\ row.left \in Int  BY DEF KeysInv, TypeOK
<1> QED  BY <1>1, <1>2 DEF Covered, Live

\* A lookup answers from a row that belongs to the request's body.
LEMMA LookupKeeps ==
    ASSUME KeysInv, NEW r \in Requests, Lookup(r)
    PROVE  KeysInv'
<1> USE DEF Lookup
<1>1. TypeOK'
  <2>1. rq[r] \in [pc: PCs, answer: Requests \cup {Nobody}, left: Int]  BY DEF KeysInv, TypeOK
  <2>2. row.by \in Requests \cup {Nobody}  BY DEF KeysInv, TypeOK
  <2>3. Refusal(r) \in PCs \cup {"none"}  BY DEF Refusal, PCs
  <2>4. "reserve" \in PCs /\ "answered" \in PCs  BY DEF PCs
  <2>5. rq'[r] \in [pc: PCs, answer: Requests \cup {Nobody}, left: Int]
    <3>1. rq'[r] = IF ~ Live THEN [rq[r] EXCEPT !.pc = "reserve"]
                   ELSE IF Refusal(r) # "none" THEN [rq[r] EXCEPT !.pc = Refusal(r)]
                   ELSE [rq[r] EXCEPT !.pc = "answered", !.answer = row.by]
      BY DEF KeysInv, TypeOK
    <3>2. CASE ~ Live  BY <2>1, <2>4, <3>1, <3>2
    <3>3. CASE Live /\ Refusal(r) # "none"  BY <2>1, <2>3, <3>1, <3>3
    <3>4. CASE Live /\ Refusal(r) = "none"
      <4>1. rq'[r] = [pc |-> "answered", answer |-> row.by, left |-> rq[r].left]
        BY <2>1, <3>1, <3>4
      <4> QED  BY <2>1, <2>2, <2>4, <4>1
    <3> QED  BY <3>2, <3>3, <3>4
  <2>6. rq' \in [Requests -> [pc: PCs, answer: Requests \cup {Nobody}, left: Int]]
    BY <2>5 DEF KeysInv, TypeOK
  <2> QED  BY <2>6 DEF KeysInv, TypeOK
<1>2. ReservedIsCovered'
  BY DEF KeysInv, TypeOK, ReservedIsCovered, Covered, Refusal
<1>3. StoredBelongs'  BY DEF KeysInv, StoredBelongs
<1>4. AnswersMatch'
  <2> SUFFICES ASSUME NEW s \in Requests, rq'[s].pc = "answered"
               PROVE  rq'[s].answer \in Requests /\ Body[rq'[s].answer] = Body[s]
    BY DEF AnswersMatch
  <2>1. CASE s # r  BY <2>1 DEF KeysInv, TypeOK
  <2>2. CASE s = r
    <3>1. Live /\ Refusal(r) = "none" /\ rq'[r].answer = row.by
      BY <2>2 DEF KeysInv, TypeOK, Refusal
    <3>2. row.body = Body[r]  BY <3>1 DEF Refusal
    <3> QED  BY <2>2, <3>1, <3>2 DEF KeysInv, Live
  <2> QED  BY <2>1, <2>2
<1> QED  BY <1>1, <1>2, <1>3, <1>4, PartsOfKeysInv DEF KeysInv, TypeOK, ReservedIsCovered, StoredBelongs, AnswersMatch

\* A reservation is made only when nobody runs, and covers the run.
LEMMA ReserveKeeps ==
    ASSUME KeysInv, NEW r \in Requests, Reserve(r)
    PROVE  KeysInv'
<1>1. CASE Live
  BY <1>1 DEF Reserve, KeysInv, TypeOK, PCs, Covered
<1>2. CASE ~ Live
  <2>1. \A s \in Requests : ~ rq[s].left >= 0  BY <1>2, ReservedMeansLive
  <2>2. row' = [state |-> "reserved", body |-> Body[r], by |-> r, left |-> ReservationTTL]
    BY <1>2 DEF Reserve
  <2>3. rq' = [rq EXCEPT ![r] = [@ EXCEPT !.pc = "running", !.left = ReservationTTL]]
    BY <1>2 DEF Reserve
  <2>4. TypeOK'
    <3>1. row' \in [state: RowStates, body: Bodies \cup {Nobody}, by: Requests \cup {Nobody}, left: Int]
      BY <2>2, KeysAssumption DEF RowStates
    <3>2. rq' \in [Requests -> [pc: PCs, answer: Requests \cup {Nobody}, left: Int]]
      <4>1. rq[r] \in [pc: PCs, answer: Requests \cup {Nobody}, left: Int]  BY DEF KeysInv, TypeOK
      <4>2. rq'[r] = [pc |-> "running", answer |-> rq[r].answer, left |-> ReservationTTL]
        BY <2>3, <4>1 DEF KeysInv, TypeOK
      <4>3. rq'[r] \in [pc: PCs, answer: Requests \cup {Nobody}, left: Int]
        BY <4>1, <4>2, KeysAssumption DEF PCs
      <4> QED  BY <2>3, <4>3 DEF KeysInv, TypeOK
    <3> QED  BY <3>1, <3>2 DEF TypeOK
  <2>5. ReservedIsCovered'
    BY <2>1, <2>2, <2>3, KeysAssumption DEF KeysInv, TypeOK, ReservedIsCovered, Covered
  <2>6. StoredBelongs'  BY <2>2 DEF StoredBelongs
  <2>7. AnswersMatch'  BY <2>3 DEF KeysInv, TypeOK, AnswersMatch
  <2> QED  BY <2>4, <2>5, <2>6, <2>7 DEF KeysInv, ReservedIsCovered, StoredBelongs, AnswersMatch
<1> QED  BY <1>1, <1>2

\* The second lookup only chooses a refusal.
LEMMA ConflictKeeps ==
    ASSUME KeysInv, NEW r \in Requests, Conflict(r)
    PROVE  KeysInv'
BY DEF Conflict, KeysInv, TypeOK, PCs, Covered

\* A run stores its response over its own reservation, or takes away that of
\* the one that has it.
LEMMA FulfillKeeps ==
    ASSUME KeysInv, NEW r \in Requests, Fulfill(r)
    PROVE  KeysInv'
<1>1. row' = Stored(r) /\ rq[r].pc = "running"
      /\ rq' = [s \in Requests |->
                  IF s = r THEN [rq[r] EXCEPT !.pc = "answered", !.answer = r, !.left = -1]
                  ELSE IF rq[r].left < 0 THEN [rq[s] EXCEPT !.left = -1] ELSE rq[s]]
  BY DEF Fulfill
<1>t. \A s \in Requests : rq[s] \in [pc: PCs, answer: Requests \cup {Nobody}, left: Int]
  BY DEF KeysInv, TypeOK
<1>2. rq'[r] = [pc |-> "answered", answer |-> r, left |-> -1]
  BY <1>1, <1>t
<1>3. ASSUME NEW s \in Requests, s # r
      PROVE  rq'[s] = [rq[s] EXCEPT !.left = -1] \/ (rq'[s] = rq[s] /\ rq[r].left >= 0)
  BY <1>1, <1>3, <1>t
<1>4. TypeOK'
  <2>1. row' \in [state: RowStates, body: Bodies \cup {Nobody}, by: Requests \cup {Nobody}, left: Int]
    BY <1>1, KeysAssumption DEF RowStates, Stored
  <2>2. ASSUME NEW s \in Requests
        PROVE  rq'[s] \in [pc: PCs, answer: Requests \cup {Nobody}, left: Int]
    <3>1. CASE s = r
      <4>1. "answered" \in PCs /\ -1 \in Int /\ r \in Requests  BY DEF PCs
      <4> QED  BY <1>2, <3>1, <4>1
    <3>2. CASE s # r
      <4>1. [rq[s] EXCEPT !.left = -1] \in [pc: PCs, answer: Requests \cup {Nobody}, left: Int]
        BY <1>t
      <4> QED  BY <1>3, <1>t, <3>2, <4>1
    <3> QED  BY <3>1, <3>2
  <2>3. rq' \in [Requests -> [pc: PCs, answer: Requests \cup {Nobody}, left: Int]]
    BY <1>1, <2>2
  <2> QED  BY <2>1, <2>3 DEF TypeOK
<1>5. ASSUME NEW s \in Requests  PROVE ~ rq'[s].left >= 0
  <2>1. CASE s = r  BY <1>2, <2>1
  <2>2. CASE s # r /\ rq'[s] = [rq[s] EXCEPT !.left = -1]  BY <1>t, <2>2
  <2>3. CASE s # r /\ rq'[s] = rq[s] /\ rq[r].left >= 0
    <3>1. row.by = r  BY <2>3, ReservedMeansLive
    <3>2. ~ rq[s].left >= 0  BY <2>3, <3>1, ReservedMeansLive
    <3> QED  BY <2>3, <3>2
  <2> QED  BY <1>3, <2>1, <2>2, <2>3
<1>6. StoredBelongs'  BY <1>1 DEF StoredBelongs, Stored
<1>7. ASSUME NEW s \in Requests, rq'[s].pc = "answered"
      PROVE  rq'[s].answer \in Requests /\ Body[rq'[s].answer] = Body[s]
  <2>1. CASE s = r  BY <1>2, <2>1
  <2>2. CASE s # r
    <3>1. rq'[s].pc = rq[s].pc /\ rq'[s].answer = rq[s].answer  BY <1>3, <1>t, <2>2
    <3> QED  BY <1>7, <3>1 DEF KeysInv
  <2> QED  BY <2>1, <2>2
<1> QED  BY <1>4, <1>5, <1>6, <1>7, PartsOfKeysInv DEF KeysInv, ReservedIsCovered, StoredBelongs, AnswersMatch

\* A failed run and a repeated call only move the request.
LEMMA OtherRequestStepsKeep ==
    ASSUME KeysInv, NEW r \in Requests, RunFails(r) \/ Again(r)
    PROVE  KeysInv'
<1>1. CASE RunFails(r)
  <2>1. rq[r] \in [pc: PCs, answer: Requests \cup {Nobody}, left: Int] /\ "failed" \in PCs
    BY DEF KeysInv, TypeOK, PCs
  <2>2. row' = row /\ rq' = [rq EXCEPT ![r] = [rq[r] EXCEPT !.pc = "failed", !.left = -1]]
    BY <1>1 DEF RunFails
  <2>3. rq'[r] = [rq[r] EXCEPT !.pc = "failed", !.left = -1] /\ \A s \in Requests : s # r => rq'[s] = rq[s]
    BY <2>2 DEF KeysInv, TypeOK
  <2>4. rq'[r].pc = "failed" /\ rq'[r].left = -1
        /\ rq'[r] \in [pc: PCs, answer: Requests \cup {Nobody}, left: Int]
    <3>1. rq'[r] = [pc |-> "failed", answer |-> rq[r].answer, left |-> -1]  BY <2>1, <2>3
    <3>2. rq[r].answer \in Requests \cup {Nobody} /\ -1 \in Int  BY <2>1
    <3> QED  BY <2>1, <3>1, <3>2
  <2>5. TypeOK'  BY <2>2, <2>4 DEF KeysInv, TypeOK
  <2>6. ReservedIsCovered'  BY <2>2, <2>3, <2>4 DEF KeysInv, ReservedIsCovered, Covered
  <2>7. StoredBelongs' /\ AnswersMatch'  BY <2>2, <2>3, <2>4 DEF KeysInv, StoredBelongs, AnswersMatch
  <2> QED  BY <2>5, <2>6, <2>7, PartsOfKeysInv DEF KeysInv, ReservedIsCovered, StoredBelongs, AnswersMatch
<1>2. CASE Again(r)  BY <1>2 DEF Again, KeysInv, TypeOK, PCs, Covered, New
<1> QED  BY <1>1, <1>2

\* Only a row that no run depends on is purged.
LEMMA PurgeKeeps ==
    ASSUME KeysInv, Purge
    PROVE  KeysInv'
<1>1. \A s \in Requests : ~ rq[s].left >= 0
  <2> SUFFICES ASSUME NEW s \in Requests, rq[s].left >= 0  PROVE FALSE
    OBVIOUS
  <2> QED  BY ReservedMeansLive DEF Purge, Live, KeysInv, TypeOK
<1> QED  BY <1>1 DEF Purge, KeysInv, TypeOK, NoRow, RowStates, Covered

\* What a request counts and what the row counts pass together.
LEMMA TickKeeps ==
    ASSUME KeysInv, Tick
    PROVE  KeysInv'
<1>1. row' = IF Live THEN [row EXCEPT !.left = @ - 1] ELSE row
  BY DEF Tick
<1>2. rq' = [r \in Requests |->
               IF rq[r].left >= 0 THEN [rq[r] EXCEPT !.left = @ - 1] ELSE rq[r]]
  BY DEF Tick
<1>t. /\ row \in [state: RowStates, body: Bodies \cup {Nobody}, by: Requests \cup {Nobody}, left: Int]
      /\ \A r \in Requests : rq[r] \in [pc: PCs, answer: Requests \cup {Nobody}, left: Int]
  BY DEF KeysInv, TypeOK
<1>3. row'.state = row.state /\ row'.body = row.body /\ row'.by = row.by
      /\ row' \in [state: RowStates, body: Bodies \cup {Nobody}, by: Requests \cup {Nobody}, left: Int]
  BY <1>1, <1>t
<1>4. ASSUME NEW r \in Requests
      PROVE  /\ rq'[r].pc = rq[r].pc /\ rq'[r].answer = rq[r].answer
             /\ rq'[r] \in [pc: PCs, answer: Requests \cup {Nobody}, left: Int]
             /\ rq'[r].left = IF rq[r].left >= 0 THEN rq[r].left - 1 ELSE rq[r].left
  BY <1>2, <1>t
<1>5. TypeOK'  BY <1>2, <1>3, <1>4 DEF TypeOK
<1>6. ReservedIsCovered'
  <2> SUFFICES ASSUME NEW r \in Requests, rq'[r].left >= 0
               PROVE  rq'[r].pc = "running" /\ Covered(r)'
    BY DEF ReservedIsCovered
  <2>1. rq[r].left >= 0 /\ rq'[r].left = rq[r].left - 1  BY <1>4, <1>t
  <2>2. rq[r].pc = "running" /\ Covered(r) /\ Live  BY <2>1, ReservedMeansLive DEF KeysInv
  <2>3. row'.left = row.left - 1  BY <1>1, <1>t, <2>2
  <2> QED  BY <1>3, <1>4, <1>t, <2>1, <2>2, <2>3 DEF Covered
<1>7. StoredBelongs'  BY <1>3 DEF KeysInv, StoredBelongs
<1>8. AnswersMatch'  BY <1>4 DEF KeysInv, AnswersMatch
<1> QED  BY <1>5, <1>6, <1>7, <1>8, PartsOfKeysInv DEF KeysInv, ReservedIsCovered, StoredBelongs, AnswersMatch

\* The invariant is inductive.
LEMMA KeysInvStep == KeysInv /\ [Next]_vars => KeysInv'
<1> SUFFICES ASSUME KeysInv, [Next]_vars  PROVE KeysInv'
  OBVIOUS
<1>1. CASE \E r \in Requests : RequestNext(r)
  <2>1. PICK r \in Requests : RequestNext(r)  BY <1>1
  <2> QED
    BY <2>1, LookupKeeps, ReserveKeeps, ConflictKeeps, FulfillKeeps, OtherRequestStepsKeep
       DEF RequestNext
<1>2. CASE Purge  BY <1>2, PurgeKeeps
<1>3. CASE Tick  BY <1>3, TickKeeps
<1>4. CASE UNCHANGED vars
  BY <1>4 DEF vars, KeysInv, TypeOK, Covered
<1> QED  BY <1>1, <1>2, <1>3, <1>4 DEF Next

\* create_agent_response keeps the key's row and its requests consistent.
THEOREM KeysInvariant == Spec => []KeysInv
<1>1. Init => KeysInv  BY KeysInvInit
<1>2. KeysInv /\ [Next]_vars => KeysInv'  BY KeysInvStep
<1> QED  BY <1>1, <1>2, PTL DEF Spec

\* Two requests under one key are at work at the same time only if one of them
\* outlived its reservation, or lost it to one that did.
THEOREM RunsOneAtATime == Spec => []NoDoubleRun
<1>1. KeysInv => NoDoubleRun
  <2> SUFFICES ASSUME KeysInv, NEW r \in Requests, NEW s \in Requests, r # s,
                      ~ rq[r].left < 0, ~ rq[s].left < 0
               PROVE  FALSE
    BY DEF NoDoubleRun
  <2>1. rq[r].left >= 0 /\ rq[s].left >= 0  BY DEF KeysInv, TypeOK
  <2> QED  BY <2>1, ReservedMeansLive
<1> QED  BY <1>1, KeysInvariant, PTL

\* A request is answered with the response to its own body.
THEOREM AnswersOwnBody == Spec => []ReplayMatchesBody
<1>1. KeysInv => ReplayMatchesBody  BY DEF KeysInv, ReplayMatchesBody
<1> QED  BY <1>1, KeysInvariant, PTL

\* A stored response stays until it expires, or a run that had lost its
\* reservation ends.
LEMMA StoredStays ==
    ASSUME KeysInv, [Next]_vars, row.state = "fulfilled", row.left >= 0
    PROVE  /\ row'.state = "fulfilled"
           /\ row'.by = row.by \/ (rq[row'.by].pc = "running" /\ rq[row'.by].left < 0)
<1>1. Live  BY DEF Live
<1>2. \A r \in Requests : rq[r].left < 0
  <2> SUFFICES ASSUME NEW r \in Requests, rq[r].left >= 0  PROVE FALSE
    BY DEF KeysInv, TypeOK
  <2> QED  BY ReservedMeansLive
<1>3. CASE \E r \in Requests : RequestNext(r)
  <2>1. PICK r \in Requests : RequestNext(r)  BY <1>3
  <2>2. CASE Fulfill(r)  BY <1>2, <2>2 DEF Fulfill, Stored
  <2>3. CASE ~ Fulfill(r)
    <3>1. row' = row
      BY <2>1, <2>3, <1>1 DEF RequestNext, Lookup, Reserve, Conflict, RunFails, Again
    <3> QED  BY <3>1
  <2> QED  BY <2>2, <2>3
<1>4. ~ Purge  BY DEF Purge, KeysInv, TypeOK
<1>5. CASE Tick  BY <1>1, <1>5 DEF Tick, KeysInv, TypeOK
<1>6. CASE UNCHANGED vars  BY <1>6 DEF vars
<1> QED  BY <1>3, <1>4, <1>5, <1>6 DEF Next

\* A stored response is replaced in its lifetime only by that of a run that had
\* lost its reservation: otherwise all replays are the same response.
THEOREM ReplaysAgree == Spec => ReplayStable
<1>1. KeysInv /\ [Next]_vars
        => [row.state = "fulfilled" /\ row.left >= 0 =>
              /\ row'.state = "fulfilled"
              /\ row'.by = row.by \/ (rq[row'.by].pc = "running" /\ rq[row'.by].left < 0)]_vars
  BY StoredStays
<1> QED  BY <1>1, KeysInvariant, PTL DEF Spec, ReplayStable
=============================================================================
