------------------------ MODULE SessionRoutingProofs ------------------------
(***************************************************************************)
(* Proofs about SessionRouting: a consumer of the inbound stream never      *)
(* re-delivers what a host before it delivered, and skips only entries that *)
(* were appended behind a higher number, however the gateways take the      *)
(* session over from each other.                                           *)
(***************************************************************************)
EXTENDS SessionRouting, FiniteSetTheorems, WellFoundedInduction, TLAPS

\* A non-empty set of numbers has a least one.
LEMMA MinNat == ASSUME NEW T, T \subseteq Nat, T # {} PROVE \E n \in T : \A m \in T : n <= m
<1> DEFINE R == {ss \in Nat \X Nat : ss[1] < ss[2]}
<1>1. IsWellFoundedOn(R, Nat)
  BY NatLessThanWellFounded DEF OpToRel
<1>2. \A m, n \in Nat : <<m, n>> \in R <=> m < n
  OBVIOUS
<1> HIDE DEF R
<1>3. PICK n \in T : \A m \in T : ~ (<<m, n>> \in R)
  BY <1>1, WFMin
<1>4. \A m \in T : n <= m
  <2> TAKE m \in T
  <2>1. m \in Nat /\ n \in Nat /\ ~ (m < n)
    BY <1>2, <1>3
  <2> QED
    BY <2>1
<1> QED
  BY <1>4

-----------------------------------------------------------------------------
(* Types *)

Appended == [seq: Nat, entry: Entries]
Feeds == [on: {"off", "start", "on"}, cur: Nat, todo: SUBSET Appended, base: SUBSET Entries]
GatewayStates ==
    [pc: PCs, up: BOOLEAN, seen: Gateways \cup {None}, old: Boxes \cup {Null},
     live: {"none", "NEW", "ACTIVE"}, handle: Boxes \cup {Null}, wait: {"off", "on", "spawning"}, feed: Feeds]
Publications == [by: Gateways \cup {None}, seq: Nat, done: BOOLEAN, late: BOOLEAN]

SessionType ==
    /\ lease \in Gateways \cup {None}
    /\ row \in Boxes \cup {Null}
    /\ box \in [Boxes -> {"unused", "running", "gone"}]

\* An active session has a sandbox, a resume one to resume, and a claim finds
\* the session active or torn down.
Settled(r) ==
    /\ r.live = "ACTIVE" => r.handle # Null
    /\ r.pc = "resume" => r.old # Null
    /\ r.pc \in {"claim", "claim_row", "refer", "start"} => r.live # "NEW"

GatewayType == gw \in [Gateways -> GatewayStates] /\ \A g \in Gateways : Settled(gw[g])

InboundType ==
    /\ counter \in Nat
    /\ stream \subseteq Appended
    /\ pub \in [Entries -> Publications]
    /\ got \subseteq Entries

RoutingType == SessionType /\ GatewayType /\ InboundType

\* Only a gateway that hosts the session, and is done with attach, consumes.
FeedHosted ==
    \A g \in Gateways : gw[g].feed # NoConsumer => gw[g].live = "ACTIVE" /\ gw[g].pc = "idle"

-----------------------------------------------------------------------------
(* The stream *)

\* Every publication that has a number has its own, given out before; the stream
\* has the entries that were appended, under their numbers, and nothing else
\* reaches a runner.
SeqInv ==
    /\ \A m \in Entries : pub[m].by # None => pub[m].seq # Null
    /\ \A m \in Entries : pub[m].by = None /\ ~ pub[m].done => pub[m] = Unsent
    /\ \A m \in Entries : pub[m].seq # Null => pub[m].seq \in 1..counter
    /\ \A m, n \in Entries : pub[m].seq # Null /\ pub[m].seq = pub[n].seq => m = n
    /\ \A m \in Entries : pub[m].done /\ pub[m].seq # Null => [seq |-> pub[m].seq, entry |-> m] \in stream
    /\ \A e \in stream : pub[e.entry].done /\ e.seq = pub[e.entry].seq /\ e.seq # Null
    /\ \A m \in got : pub[m].done

\* A consumer that runs has behind its cursor what others delivered before it
\* started; what it has read ahead is all there was, but for what came late.
\* (The stream st and the publications pb are parameters: the steps that change
\* them leave the consumers alone.)
FeedOk(f, st, pb) ==
    /\ f.on # "on" => f.todo = {}
    /\ f.on = "on" =>
        /\ \A m \in f.base : pb[m].done /\ pb[m].seq <= f.cur
        /\ \A e \in f.todo : e \in st /\ e.seq > f.cur
        /\ \A m \in Entries : pb[m].done /\ pb[m].seq > f.cur /\ f.todo # {} =>
               \/ [seq |-> pb[m].seq, entry |-> m] \in f.todo
               \/ (\E d \in f.todo : d.seq > pb[m].seq) => pb[m].late

FeedInv == \A g \in Gateways : FeedOk(gw[g].feed, stream, pub)

-----------------------------------------------------------------------------
(* What a gateway's step does to its own state *)

LEMMA Blank ==
    /\ NoConsumer \in Feeds /\ NoConsumer.on = "off" /\ NoConsumer.todo = {}
    /\ Off \in GatewayStates /\ Off.feed = NoConsumer /\ Off.live = "none" /\ Off.pc = "idle"
    /\ Unsent \in Publications /\ Unsent.by = None /\ Unsent.done = FALSE
    /\ Null \notin Boxes
<1>1. NoConsumer \in Feeds /\ NoConsumer.on = "off" /\ NoConsumer.todo = {}
  BY DEF NoConsumer, Feeds
<1> QED
  BY <1>1 DEF Off, GatewayStates, Unsent, Publications, Null, Boxes, PCs

\* The state of gateway g becomes r.
Becomes(g, r) == gw' = [gw EXCEPT ![g] = r]

\* The consumer stays, ends or is about to start.
FeedMoved(g, r) ==
    \/ r.feed = NoConsumer
    \/ r.feed = gw[g].feed /\ r.live = gw[g].live /\ r.pc = gw[g].pc
    \/ r.feed.on = "start" /\ r.feed.todo = {} /\ r.live = "ACTIVE" /\ r.pc = "idle"

\* The steps that are not the consumer's own.
HostNext(g) ==
    Attach(g) \/ AttachNext(g) \/ WaitNext(g) \/ RenewLost(g) \/ Kill(g) \/ DeliverKill(g) \/ Stop(g) \/ Start(g)

LEMMA TornDownIs ==
    ASSUME RoutingType, NEW g \in Gateways
    PROVE  /\ TornDown(g) \in GatewayStates /\ TornDown(g).live = "none" /\ TornDown(g).feed = NoConsumer
           /\ TornDown(g).pc = gw[g].pc /\ TornDown(g).old = gw[g].old
BY Blank DEF RoutingType, GatewayType, TornDown, GatewayStates

LEMMA HostMoves ==
    ASSUME RoutingType, FeedHosted, NEW g \in Gateways, HostNext(g)
    PROVE  \E r \in GatewayStates : Becomes(g, r) /\ FeedMoved(g, r) /\ Settled(r)
<1> USE Blank DEF Settled
<1>0. /\ gw[g] \in GatewayStates /\ gw \in [Gateways -> GatewayStates] /\ Settled(gw[g])
      /\ (gw[g].feed = NoConsumer \/ (gw[g].live = "ACTIVE" /\ gw[g].pc = "idle"))
      /\ lease \in Gateways \cup {None} /\ row \in Boxes \cup {Null}
  BY DEF RoutingType, GatewayType, SessionType, FeedHosted
<1>1. CASE Attach(g)
  <2>1. gw[g].live \in {"none", "NEW"} /\ gw[g].feed = NoConsumer
    BY <1>0, <1>1 DEF Attach
  <2>2. PICK owner \in Owners : gw' = [gw EXCEPT ![g] = [@ EXCEPT
                  !.pc = IF owner \notin {None, g} THEN "release"
                         ELSE IF row # Null THEN "resume" ELSE "spawn",
                  !.old = row, !.seen = IF owner = g THEN None ELSE owner,
                  !.live = "none", !.wait = "off"]]
    BY <1>1 DEF Attach
  <2>3. owner \in Gateways \cup {None}
    BY <1>0 DEF Owners
  <2> DEFINE p == IF owner \notin {None, g} THEN "release" ELSE IF row # Null THEN "resume" ELSE "spawn"
             n == IF owner = g THEN None ELSE owner
  <2>4. p \in {"release", "resume", "spawn"} /\ n \in Gateways \cup {None} /\ (p = "resume" => row # Null)
    BY <1>0, <2>3
  <2>5. gw' = [gw EXCEPT ![g] = [@ EXCEPT !.pc = p, !.old = row, !.seen = n, !.live = "none", !.wait = "off"]]
    BY <2>2
  <2> HIDE DEF p, n
  <2> DEFINE r == [gw[g] EXCEPT !.pc = p, !.old = row, !.seen = n, !.live = "none", !.wait = "off"]
  <2>6. Becomes(g, r)
    BY <1>0, <2>5 DEF Becomes
  <2>7. r \in GatewayStates /\ r.live = "none" /\ r.feed = NoConsumer /\ r.pc = p /\ r.old = row
    BY <1>0, <2>1, <2>4 DEF GatewayStates, PCs
  <2> HIDE DEF r
  <2> QED
    BY <2>4, <2>6, <2>7 DEF FeedMoved
<1>2. CASE Release(g)
  <2> DEFINE r == [gw[g] EXCEPT !.pc = "destroy", !.seen = None]
  <2>1. Becomes(g, r) /\ gw[g].pc = "release"
    BY <1>2 DEF Release, Becomes
  <2>2. r \in GatewayStates /\ r.pc = "destroy" /\ r.feed = NoConsumer /\ r.live = gw[g].live /\ r.handle = gw[g].handle
    BY <1>0, <2>1 DEF GatewayStates, PCs
  <2> HIDE DEF r
  <2> QED
    BY <1>0, <2>1, <2>2 DEF FeedMoved
<1>3. CASE Destroy(g)
  <2> DEFINE r == [gw[g] EXCEPT !.pc = "takeover_claim", !.live = "NEW", !.old = Null]
  <2>1. Becomes(g, r) /\ gw[g].pc = "destroy"
    BY <1>3 DEF Destroy, Becomes
  <2>2. r \in GatewayStates /\ r.pc = "takeover_claim" /\ r.feed = NoConsumer /\ r.live = "NEW"
    BY <1>0, <2>1 DEF GatewayStates, PCs
  <2> HIDE DEF r
  <2> QED
    BY <2>1, <2>2 DEF FeedMoved
<1>4. CASE TakeoverClaim(g) \/ SpawnFails(g)
  <2>1. PICK p \in {"takeover_spawn", "idle"} : gw' = [gw EXCEPT ![g].pc = p]
    BY <1>4 DEF TakeoverClaim, SpawnFails
  <2> DEFINE r == [gw[g] EXCEPT !.pc = p]
  <2>2. Becomes(g, r) /\ gw[g].pc # "idle"
    BY <1>0, <1>4, <2>1 DEF TakeoverClaim, SpawnFails, Becomes
  <2>3. r \in GatewayStates /\ r.pc = p /\ r.feed = NoConsumer /\ r.live = gw[g].live /\ r.handle = gw[g].handle
    BY <1>0, <2>2 DEF GatewayStates, PCs
  <2> HIDE DEF r
  <2> QED
    BY <1>0, <2>2, <2>3 DEF FeedMoved
<1>5. CASE TakeoverSpawned(g)
  <2>1. PICK b \in Boxes : IF gw[g].live = "none" THEN gw' = [gw EXCEPT ![g].pc = "idle"]
                           ELSE gw' = [gw EXCEPT ![g] = [@ EXCEPT !.pc = "idle", !.live = "ACTIVE",
                                                      !.handle = b, !.wait = "on", !.feed.on = "start"]]
    BY <1>5 DEF TakeoverSpawned
  <2>2. gw[g].pc = "takeover_spawn"
    BY <1>5 DEF TakeoverSpawned
  <2>3. CASE gw[g].live = "none"
    <3> DEFINE r == [gw[g] EXCEPT !.pc = "idle"]
    <3>1. Becomes(g, r)
      BY <1>0, <2>1, <2>3 DEF Becomes
    <3>2. r \in GatewayStates /\ r.pc = "idle" /\ r.feed = NoConsumer /\ r.live = "none"
      BY <1>0, <2>2, <2>3 DEF GatewayStates, PCs
    <3> HIDE DEF r
    <3> QED
      BY <3>1, <3>2 DEF FeedMoved
  <2>4. CASE gw[g].live # "none"
    <3> DEFINE r == [gw[g] EXCEPT !.pc = "idle", !.live = "ACTIVE", !.handle = b, !.wait = "on", !.feed.on = "start"]
    <3>1. Becomes(g, r)
      BY <1>0, <2>1, <2>4 DEF Becomes
    <3>2. gw[g].feed = NoConsumer
      BY <1>0, <2>2
    <3>3. r \in GatewayStates /\ r.pc = "idle" /\ r.live = "ACTIVE" /\ r.handle = b
          /\ r.feed.on = "start" /\ r.feed.todo = {}
      BY <1>0, <3>2 DEF GatewayStates, PCs, Feeds
    <3> HIDE DEF r
    <3> QED
      BY <3>1, <3>3 DEF FeedMoved
  <2> QED
    BY <2>3, <2>4
<1>6. CASE RowResumed(g)
  <2> DEFINE r == [gw[g] EXCEPT !.pc = "claim_row", !.live = "ACTIVE", !.handle = gw[g].old, !.old = Null]
  <2>1. Becomes(g, r) /\ gw[g].pc = "resume"
    BY <1>6 DEF RowResumed, Becomes
  <2>2. r \in GatewayStates /\ r.pc = "claim_row" /\ r.live = "ACTIVE" /\ r.feed = NoConsumer
        /\ r.handle = gw[g].old
    BY <1>0, <2>1 DEF GatewayStates, PCs
  <2> HIDE DEF r
  <2> QED
    BY <1>0, <2>1, <2>2 DEF FeedMoved
<1>7. CASE RowResumeFails(g)
  <2> DEFINE r == [gw[g] EXCEPT !.pc = "spawn", !.old = Null]
  <2>1. Becomes(g, r) /\ gw[g].pc = "resume"
    BY <1>7 DEF RowResumeFails, Becomes
  <2>2. r \in GatewayStates /\ r.pc = "spawn" /\ r.feed = NoConsumer /\ r.handle = gw[g].handle /\ r.live = gw[g].live
    BY <1>0, <2>1 DEF GatewayStates, PCs
  <2> HIDE DEF r
  <2> QED
    BY <1>0, <2>1, <2>2 DEF FeedMoved
<1>8. CASE Spawned(g)
  <2>1. PICK b \in Boxes : gw' = [gw EXCEPT ![g] = [@ EXCEPT !.pc = "claim", !.live = "ACTIVE",
                                                    !.handle = b, !.old = b]]
    BY <1>8 DEF Spawned
  <2> DEFINE r == [gw[g] EXCEPT !.pc = "claim", !.live = "ACTIVE", !.handle = b, !.old = b]
  <2>2. Becomes(g, r) /\ gw[g].pc = "spawn"
    BY <1>0, <1>8, <2>1 DEF Spawned, Becomes
  <2>3. r \in GatewayStates /\ r.pc = "claim" /\ r.live = "ACTIVE" /\ r.feed = NoConsumer /\ r.handle = b
    BY <1>0, <2>2 DEF GatewayStates, PCs
  <2> HIDE DEF r
  <2> QED
    BY <2>2, <2>3 DEF FeedMoved
<1>9. CASE Claim(g) \/ Started(g)
  <2>0. CASE Claim(g)
    <3>1. gw[g].pc \in {"claim", "claim_row"} /\ gw[g].feed = NoConsumer
      BY <1>0, <2>0 DEF Claim
    <3>2. PICK p \in {"refer", "start"} : gw' = [gw EXCEPT ![g].pc = p]
      BY <2>0 DEF Claim
    <3> DEFINE r == [gw[g] EXCEPT !.pc = p]
    <3>3. Becomes(g, r)
      BY <1>0, <3>2 DEF Becomes
    <3>4. r \in GatewayStates /\ r.pc = p /\ r.feed = NoConsumer /\ r.live = gw[g].live /\ r.handle = gw[g].handle
      BY <1>0, <3>1 DEF GatewayStates, PCs
    <3> HIDE DEF r
    <3> QED
      BY <1>0, <3>1, <3>3, <3>4 DEF FeedMoved
  <2>1. ASSUME Started(g) PROVE gw[g].pc \in {"refer", "start"} /\ gw[g].feed = NoConsumer
    BY <1>0, <2>1 DEF Started
  <2>2. CASE Started(g) /\ gw[g].live = "none"
    <3> DEFINE r == [gw[g] EXCEPT !.pc = "idle", !.old = Null]
    <3>1. Becomes(g, r)
      BY <1>0, <2>2 DEF Becomes, Started
    <3>2. r \in GatewayStates /\ r.pc = "idle" /\ r.feed = NoConsumer /\ r.live = "none"
      BY <1>0, <2>1, <2>2 DEF GatewayStates, PCs
    <3> HIDE DEF r
    <3> QED
      BY <3>1, <3>2 DEF FeedMoved
  <2>3. CASE Started(g) /\ gw[g].live # "none"
    <3> DEFINE r == [gw[g] EXCEPT !.pc = "idle", !.old = Null, !.wait = "on", !.feed.on = "start"]
    <3>1. Becomes(g, r)
      BY <1>0, <2>3 DEF Becomes, Started
    <3>2. r \in GatewayStates /\ r.pc = "idle" /\ r.live = gw[g].live /\ r.handle = gw[g].handle
          /\ r.feed.on = "start" /\ r.feed.todo = {}
      BY <1>0, <2>1, <2>3 DEF GatewayStates, PCs, Feeds
    <3>3. gw[g].live = "ACTIVE"
      BY <1>0, <2>1, <2>3 DEF GatewayStates
    <3> HIDE DEF r
    <3> QED
      BY <1>0, <3>1, <3>2, <3>3 DEF FeedMoved
  <2> QED
    BY <1>9, <2>0, <2>2, <2>3
<1>10. ASSUME NEW r, r = TornDown(g) \/ r = [TornDown(g) EXCEPT !.up = FALSE], Becomes(g, r)
       PROVE  r \in GatewayStates /\ Becomes(g, r) /\ FeedMoved(g, r) /\ Settled(r)
  <2>1. r \in GatewayStates /\ r.feed = NoConsumer /\ r.live = "none" /\ r.pc = gw[g].pc /\ r.old = gw[g].old
    <3> DEFINE t == TornDown(g)
    <3>1. t \in GatewayStates /\ t.feed = NoConsumer /\ t.live = "none" /\ t.pc = gw[g].pc /\ t.old = gw[g].old
      BY TornDownIs
    <3>2. r = t \/ r = [t EXCEPT !.up = FALSE]
      BY <1>10
    <3> HIDE DEF t
    <3> QED
      BY <3>1, <3>2 DEF GatewayStates
  <2> QED
    BY <1>0, <1>10, <2>1 DEF FeedMoved
<1>11. CASE RenewLost(g) \/ Kill(g) \/ DeliverKill(g)
  <2>1. Becomes(g, TornDown(g))
    BY <1>11 DEF RenewLost, Kill, DeliverKill, Becomes
  <2> QED
    BY <1>10, <2>1
<1>12. CASE Stop(g)
  <2>1. Becomes(g, [TornDown(g) EXCEPT !.up = FALSE])
    BY <1>12 DEF Stop, Becomes
  <2> QED
    BY <1>10, <2>1
<1>13. CASE Start(g) \/ CrashSpawnFails(g) \/ Exited(g)
  <2>1. CASE Start(g)
    <3> DEFINE r == [gw[g] EXCEPT !.up = TRUE]
    <3>1. Becomes(g, r)
      BY <1>0, <2>1 DEF Start, Becomes
    <3>2. r \in GatewayStates /\ r.feed = gw[g].feed /\ r.live = gw[g].live /\ r.pc = gw[g].pc /\ r.old = gw[g].old
          /\ r.handle = gw[g].handle
      BY <1>0 DEF GatewayStates
    <3> HIDE DEF r
    <3> QED
      BY <1>0, <3>1, <3>2 DEF FeedMoved
  <2>2. ASSUME NEW w \in {"off", "spawning"}, gw' = [gw EXCEPT ![g].wait = w]
        PROVE  \E r \in GatewayStates : Becomes(g, r) /\ FeedMoved(g, r) /\ Settled(r)
    <3> DEFINE r == [gw[g] EXCEPT !.wait = w]
    <3>1. Becomes(g, r)
      BY <1>0, <2>2 DEF Becomes
    <3>2. r \in GatewayStates /\ r.feed = gw[g].feed /\ r.live = gw[g].live /\ r.pc = gw[g].pc /\ r.old = gw[g].old
          /\ r.handle = gw[g].handle
      BY <1>0 DEF GatewayStates
    <3> HIDE DEF r
    <3> QED
      BY <1>0, <3>1, <3>2 DEF FeedMoved
  <2>3. CASE CrashSpawnFails(g)
    BY <2>2, <2>3 DEF CrashSpawnFails
  <2>4. CASE Exited(g)
    <3>1. PICK owner \in Owners :
            gw' = [gw EXCEPT ![g] = IF owner = g THEN [@ EXCEPT !.wait = "spawning"] ELSE TornDown(g)]
      BY <2>4 DEF Exited
    <3>2. CASE owner = g
      BY <2>2, <3>1, <3>2
    <3>3. CASE owner # g
      BY <1>10, <3>1, <3>3 DEF Becomes
    <3> QED
      BY <3>2, <3>3
  <2> QED
    BY <1>13, <2>1, <2>3, <2>4
<1>14. CASE CrashSpawned(g)
  <2>1. PICK b \in Boxes : Becomes(g, [gw[g] EXCEPT !.handle = b, !.wait = "on"])
    BY <1>0, <1>14 DEF CrashSpawned, Becomes
  <2> DEFINE r == [gw[g] EXCEPT !.handle = b, !.wait = "on"]
  <2>2. r \in GatewayStates /\ r.feed = gw[g].feed /\ r.live = gw[g].live /\ r.pc = gw[g].pc /\ r.old = gw[g].old
        /\ r.handle = b
    BY <1>0 DEF GatewayStates
  <2>3. Becomes(g, r)
    BY <2>1
  <2> HIDE DEF r
  <2> QED
    BY <1>0, <2>3, <2>2 DEF FeedMoved
<1> QED
  BY <1>1, <1>2, <1>3, <1>4, <1>5, <1>6, <1>7, <1>8, <1>9, <1>11, <1>12, <1>13, <1>14
     DEF HostNext, AttachNext, WaitNext

-----------------------------------------------------------------------------
(* The consumer's steps *)

\* The consumer of gateway g becomes f.
Feeding(g, f) == gw' = [gw EXCEPT ![g].feed = f]

\* The entry that a consumer takes up is in the stream, and has the least
\* number of those it has read.
LEMMA FirstIs ==
    ASSUME RoutingType, FeedInv, NEW g \in Gateways, gw[g].feed.todo # {}
    PROVE  /\ gw[g].feed \in Feeds /\ gw[g].feed.on = "on"
           /\ FirstOf(gw[g].feed.todo) \in gw[g].feed.todo
           /\ FirstOf(gw[g].feed.todo) \in stream /\ FirstOf(gw[g].feed.todo) \in Appended
           /\ \A d \in gw[g].feed.todo : FirstOf(gw[g].feed.todo).seq <= d.seq
<1> DEFINE es == gw[g].feed.todo
           T == {e.seq : e \in es}
<1>1. gw[g].feed \in Feeds /\ es \subseteq Appended
  BY DEF RoutingType, GatewayType, GatewayStates, Feeds
<1>2. gw[g].feed.on = "on" /\ \A e \in es : e \in stream
  BY DEF FeedInv, FeedOk
<1> HIDE DEF es
<1>3. T \subseteq Nat /\ T # {}
  BY <1>1 DEF Appended, es
<1>4. PICK n \in T : \A m \in T : n <= m
  <2> HIDE DEF T
  <2> QED
    BY <1>3, MinNat
<1>5. PICK e \in es : e.seq = n
  OBVIOUS
<1>6. e \in es /\ \A d \in es : e.seq <= d.seq
  BY <1>4, <1>5
<1>7. FirstOf(es) \in es /\ \A d \in es : FirstOf(es).seq <= d.seq
  BY <1>6 DEF FirstOf
<1> QED
  BY <1>1, <1>2, <1>7 DEF es

LEMMA SeedKeeps ==
    ASSUME RoutingType, SeqInv
    PROVE  /\ Consumer(counter, got) \in Feeds /\ FeedOk(Consumer(counter, got), stream, pub)
           /\ Consumer(0, {}) \in Feeds /\ FeedOk(Consumer(0, {}), stream, pub)
<1>1. counter \in Nat /\ got \subseteq Entries /\ \A m \in Entries : pub[m].seq \in Nat
  BY DEF RoutingType, InboundType, Publications
<1>2. \A m \in got : pub[m].done /\ pub[m].seq <= counter
  BY <1>1 DEF SeqInv, Null
<1>3. ASSUME NEW c \in Nat, NEW b \in SUBSET Entries, \A m \in b : pub[m].done /\ pub[m].seq <= c
      PROVE  Consumer(c, b) \in Feeds /\ FeedOk(Consumer(c, b), stream, pub)
  BY <1>3 DEF Consumer, Feeds, FeedOk
<1>4. Consumer(counter, got) \in Feeds /\ FeedOk(Consumer(counter, got), stream, pub)
  BY <1>1, <1>2, <1>3
<1>5. Consumer(0, {}) \in Feeds /\ FeedOk(Consumer(0, {}), stream, pub)
  BY <1>3
<1> QED
  BY <1>4, <1>5

LEMMA ReadKeeps ==
    ASSUME RoutingType, SeqInv, FeedInv, NEW g \in Gateways, Read(g)
    PROVE  \E f \in Feeds : Feeding(g, f) /\ FeedOk(f, stream, pub)
<1> DEFINE o == gw[g].feed
           f == [o EXCEPT !.todo = Unread(g)]
<1>1. gw \in [Gateways -> GatewayStates] /\ o \in Feeds /\ o.on = "on" /\ FeedOk(o, stream, pub)
  BY DEF RoutingType, GatewayType, GatewayStates, FeedInv, Read
<1>2. Unread(g) \subseteq Appended /\ Unread(g) = {e \in stream : e.seq > o.cur}
  BY DEF Unread, RoutingType, InboundType
<1>3. f \in Feeds /\ f.on = "on" /\ f.cur = o.cur /\ f.base = o.base
      /\ f.todo = {e \in stream : e.seq > f.cur}
  BY <1>1, <1>2 DEF Feeds
<1>4. Feeding(g, f)
  BY <1>1 DEF Read, Feeding, GatewayStates, Feeds
<1>5. \A m \in Entries : pub[m].done /\ pub[m].seq > o.cur => [seq |-> pub[m].seq, entry |-> m] \in stream
  <2>1. o.cur \in Nat /\ \A m \in Entries : pub[m].seq \in Nat
    BY <1>1 DEF Feeds, RoutingType, InboundType, Publications
  <2> HIDE DEF o
  <2> QED
    BY <2>1 DEF SeqInv, Null
<1> HIDE DEF f, o
<1>6. \A m \in Entries : pub[m].done /\ pub[m].seq > f.cur => [seq |-> pub[m].seq, entry |-> m] \in f.todo
  <2> SUFFICES ASSUME NEW m \in Entries, pub[m].done, pub[m].seq > f.cur
               PROVE  [seq |-> pub[m].seq, entry |-> m] \in f.todo
    OBVIOUS
  <2> DEFINE e == [seq |-> pub[m].seq, entry |-> m]
  <2>1. e \in stream /\ e.seq = pub[m].seq
    BY <1>3, <1>5
  <2> HIDE DEF e
  <2>2. e \in f.todo
    BY <1>3, <2>1
  <2> QED
    BY <2>2 DEF e
<1>7. (\A m \in f.base : pub[m].done /\ pub[m].seq <= f.cur) /\ (\A e \in f.todo : e \in stream /\ e.seq > f.cur)
  BY <1>1, <1>3 DEF FeedOk
<1>8. FeedOk(f, stream, pub)
  BY <1>3, <1>6, <1>7 DEF FeedOk
<1> QED
  BY <1>3, <1>4, <1>8

LEMMA DeliverKeeps ==
    ASSUME RoutingType, SeqInv, FeedInv, NEW g \in Gateways, Deliver(g)
    PROVE  \E f \in Feeds : Feeding(g, f) /\ FeedOk(f, stream, pub)
<1> DEFINE o == gw[g].feed
           e == FirstOf(o.todo)
           f == [o EXCEPT !.cur = e.seq, !.todo = {d \in o.todo : d.seq > e.seq}]
<1>1. gw \in [Gateways -> GatewayStates] /\ FeedOk(o, stream, pub) /\ o.todo # {}
  BY DEF RoutingType, GatewayType, GatewayStates, FeedInv, Deliver
<1>2. /\ o \in Feeds /\ o.on = "on" /\ e \in o.todo /\ e \in stream /\ e \in Appended
      /\ \A d \in o.todo : e.seq <= d.seq
  BY <1>1, FirstIs
<1>3. Feeding(g, f)
  BY <1>1 DEF Deliver, Feeding
<1> HIDE DEF e
<1>4. /\ f \in Feeds /\ f.on = "on" /\ f.cur = e.seq /\ f.base = o.base
      /\ f.todo = {d \in o.todo : d.seq > e.seq}
  BY <1>2 DEF Feeds, Appended
<1> HIDE DEF f, o
<1>5. /\ o.cur \in Nat /\ e.seq \in Nat /\ e.seq > o.cur /\ o.base \subseteq Entries
      /\ \A m \in Entries : pub[m].seq \in Nat
  <2>1. o.cur \in Nat /\ e.seq \in Nat /\ o.base \subseteq Entries /\ \A m \in Entries : pub[m].seq \in Nat
    BY <1>2 DEF RoutingType, InboundType, Publications, Feeds, Appended
  <2> QED
    BY <1>1, <1>2, <2>1 DEF FeedOk
<1>6. ASSUME NEW m \in Entries, pub[m].done, pub[m].seq > f.cur, f.todo # {}
      PROVE  \/ [seq |-> pub[m].seq, entry |-> m] \in f.todo
             \/ (\E d \in f.todo : d.seq > pub[m].seq) => pub[m].late
  <2>1. pub[m].seq > o.cur
    BY <1>4, <1>5, <1>6
  <2>2. \/ [seq |-> pub[m].seq, entry |-> m] \in o.todo
        \/ (\E d \in o.todo : d.seq > pub[m].seq) => pub[m].late
    BY <1>1, <1>2, <1>6, <2>1 DEF FeedOk
  <2> QED
    BY <1>4, <1>6, <2>2
<1>7. \A m \in f.base : pub[m].done /\ pub[m].seq <= f.cur
  <2>1. \A m \in o.base : pub[m].done /\ pub[m].seq <= o.cur
    BY <1>1, <1>2 DEF FeedOk
  <2> QED
    BY <1>4, <1>5, <2>1
<1>8. \A d \in f.todo : d \in stream /\ d.seq > f.cur
  BY <1>1, <1>2, <1>4 DEF FeedOk
<1>9. FeedOk(f, stream, pub)
  BY <1>4, <1>6, <1>7, <1>8 DEF FeedOk
<1> QED
  BY <1>3, <1>4, <1>9

-----------------------------------------------------------------------------
(* The publishers' steps *)

LEMMA DrawKeeps ==
    ASSUME RoutingType, SeqInv, FeedInv, NEW g \in Gateways, NEW m \in Entries, Draw(g, m)
    PROVE  InboundType' /\ SeqInv' /\ \A f \in Feeds : FeedOk(f, stream, pub) => FeedOk(f, stream', pub')
<1> USE Blank
<1>1. /\ counter \in Nat /\ counter' = counter + 1 /\ stream' = stream /\ got' = got
      /\ pub \in [Entries -> Publications] /\ stream \subseteq Appended /\ got \subseteq Entries
      /\ pub[m] = Unsent /\ g # None
  BY RoutingAssumption DEF RoutingType, InboundType, Draw
<1>2. pub' = [pub EXCEPT ![m] = [@ EXCEPT !.by = g, !.seq = counter + 1]]
  BY DEF Draw
<1> DEFINE q == [pub[m] EXCEPT !.by = g, !.seq = counter + 1]
<1>a. pub[m] \in Publications /\ pub[m].done = FALSE /\ counter + 1 \in Nat
  BY <1>1
<1>3. q \in Publications /\ q.by = g /\ q.seq = counter + 1 /\ q.done = FALSE
  BY <1>a DEF Publications
<1>4. pub' = [pub EXCEPT ![m] = q]
  BY <1>1, <1>2
<1> HIDE DEF q
<1>5. /\ pub' \in [Entries -> Publications] /\ pub'[m].by = g /\ pub'[m].seq = counter + 1 /\ pub'[m].done = FALSE
      /\ pub[m].by = None /\ pub[m].done = FALSE
      /\ \A n \in Entries : n # m => pub'[n] = pub[n]
  BY <1>1, <1>3, <1>4
<1> HIDE DEF q
<1>6. \A n \in Entries : pub[n].seq \in Nat
  BY <1>1 DEF Publications
<1>7. InboundType'
  BY <1>1, <1>5 DEF InboundType
<1>8. SeqInv'
  <2>1. /\ \A n \in Entries : pub'[n].by # None => pub'[n].seq # Null
        /\ \A n \in Entries : pub'[n].by = None /\ ~ pub'[n].done => pub'[n] = Unsent
    BY <1>1, <1>5 DEF SeqInv, Null
  <2>2. \A n \in Entries : pub'[n].seq # Null => pub'[n].seq \in 1..counter'
    BY <1>1, <1>5, <1>6 DEF SeqInv
  <2>3. \A n \in Entries : pub[n].seq # counter + 1
    BY <1>1, <1>6 DEF SeqInv, Null
  <2>4. \A n, k \in Entries : pub'[n].seq # Null /\ pub'[n].seq = pub'[k].seq => n = k
    BY <1>5, <2>3 DEF SeqInv
  <2>5. /\ \A n \in Entries : pub'[n].done /\ pub'[n].seq # Null => [seq |-> pub'[n].seq, entry |-> n] \in stream'
        /\ \A n \in got' : pub'[n].done
    BY <1>1, <1>5 DEF SeqInv
  <2>6. \A e \in stream' : pub'[e.entry].done /\ e.seq = pub'[e.entry].seq /\ e.seq # Null
    BY <1>1, <1>5 DEF SeqInv, Appended
  <2> QED
    BY <2>1, <2>2, <2>4, <2>5, <2>6 DEF SeqInv
<1>9. ASSUME NEW f \in Feeds, FeedOk(f, stream, pub) PROVE FeedOk(f, stream', pub')
  <2>1. f.base \subseteq Entries
    BY DEF Feeds
  <2>2. \A n \in Entries : pub[n].done \/ pub'[n].done => n # m /\ pub'[n] = pub[n]
    BY <1>5
  <2> QED
    BY <1>1, <1>9, <2>1, <2>2 DEF FeedOk
<1> QED
  BY <1>7, <1>8, <1>9

LEMMA PublishKeeps ==
    ASSUME RoutingType, SeqInv, FeedInv, NEW m \in Entries, Publish(m)
    PROVE  InboundType' /\ SeqInv' /\ \A f \in Feeds : FeedOk(f, stream, pub) => FeedOk(f, stream', pub')
<1> USE Blank
<1> DEFINE s == [seq |-> pub[m].seq, entry |-> m]
           late == \E e \in stream : e.seq > pub[m].seq
           q == [pub[m] EXCEPT !.by = None, !.done = TRUE, !.late = late]
<1>1. /\ counter \in Nat /\ counter' = counter /\ stream' = stream \cup {s} /\ got' = got
      /\ pub \in [Entries -> Publications] /\ stream \subseteq Appended /\ got \subseteq Entries
      /\ pub[m].by # None /\ ~ pub[m].done
  BY DEF RoutingType, InboundType, Publish
<1>2. pub' = [pub EXCEPT ![m] = q]
  BY <1>1 DEF Publish
<1>3. PICK l \in BOOLEAN : l = late
  OBVIOUS
<1>4. q = [pub[m] EXCEPT !.by = None, !.done = TRUE, !.late = l]
  BY <1>3
<1> HIDE DEF q, late
<1>5. q \in Publications /\ q.by = None /\ q.seq = pub[m].seq /\ q.done = TRUE /\ q.late = l
  BY <1>1, <1>4 DEF Publications
<1>6. /\ pub' \in [Entries -> Publications] /\ pub'[m] = q
      /\ \A n \in Entries : n # m => pub'[n] = pub[n]
  BY <1>1, <1>2, <1>5
<1>7. /\ \A n \in Entries : pub[n].seq \in Nat /\ pub'[n].seq = pub[n].seq
      /\ \A n \in Entries : pub[n].done => n # m
      /\ s \in Appended /\ s.seq = pub[m].seq /\ s.entry = m /\ s.seq # Null
  BY <1>1, <1>5, <1>6 DEF Publications, Appended, SeqInv
<1> HIDE DEF s
<1>8. InboundType'
  BY <1>1, <1>6, <1>7 DEF InboundType
<1>9. SeqInv'
  <2>1. /\ \A n \in Entries : pub'[n].by # None => pub'[n].seq # Null
        /\ \A n \in Entries : pub'[n].by = None /\ ~ pub'[n].done => pub'[n] = Unsent
    BY <1>1, <1>5, <1>6, <1>7 DEF SeqInv
  <2>2. \A n \in Entries : pub'[n].seq # Null => pub'[n].seq \in 1..counter'
    BY <1>1, <1>7 DEF SeqInv
  <2>4. \A n, k \in Entries : pub'[n].seq # Null /\ pub'[n].seq = pub'[k].seq => n = k
    BY <1>7 DEF SeqInv
  <2>5. \A n \in Entries : pub'[n].done /\ pub'[n].seq # Null => [seq |-> pub'[n].seq, entry |-> n] \in stream'
    <3> TAKE n \in Entries
    <3>1. CASE n = m
      BY <1>1, <1>7, <3>1 DEF s
    <3>2. CASE n # m
      BY <1>1, <1>6, <3>2 DEF SeqInv
    <3> QED
      BY <3>1, <3>2
  <2>6. \A n \in got' : pub'[n].done
    BY <1>1, <1>5, <1>6 DEF SeqInv
  <2>7. \A e \in stream' : pub'[e.entry].done /\ e.seq = pub'[e.entry].seq /\ e.seq # Null
    <3> TAKE e \in stream'
    <3>1. CASE e = s
      BY <1>5, <1>6, <1>7, <3>1
    <3>2. CASE e \in stream
      BY <1>1, <1>6, <1>7, <3>2 DEF SeqInv, Appended
    <3> QED
      BY <1>1, <3>1, <3>2
  <2> QED
    BY <2>1, <2>2, <2>4, <2>5, <2>6, <2>7 DEF SeqInv
<1>10. ASSUME NEW f \in Feeds, FeedOk(f, stream, pub) PROVE FeedOk(f, stream', pub')
  <2>1. f.base \subseteq Entries
    BY DEF Feeds
  <2>2. CASE f.on # "on"
    BY <1>10, <2>2 DEF FeedOk
  <2>3. CASE f.on = "on"
    <3>1. \A n \in f.base : pub'[n].done /\ pub'[n].seq <= f.cur
      BY <1>6, <1>7, <1>10, <2>1, <2>3 DEF FeedOk
    <3>2. \A e \in f.todo : e \in stream' /\ e.seq > f.cur
      BY <1>1, <1>10, <2>3 DEF FeedOk
    <3>3. ASSUME NEW n \in Entries, pub'[n].done, pub'[n].seq > f.cur, f.todo # {}
          PROVE  \/ [seq |-> pub'[n].seq, entry |-> n] \in f.todo
                 \/ (\E d \in f.todo : d.seq > pub'[n].seq) => pub'[n].late
      <4>1. CASE n # m
        BY <1>6, <1>10, <2>3, <3>3, <4>1 DEF FeedOk
      <4>2. CASE n = m
        <5>1. \A d \in f.todo : d \in stream
          BY <1>10, <2>3 DEF FeedOk
        <5>2. (\E d \in f.todo : d.seq > pub[m].seq) => late
          BY <5>1 DEF late
        <5> QED
          BY <1>3, <1>5, <1>6, <4>2, <5>2
      <4> QED
        BY <4>1, <4>2
    <3> QED
      BY <2>3, <3>1, <3>2, <3>3 DEF FeedOk
  <2> QED
    BY <2>2, <2>3
<1> QED
  BY <1>8, <1>9, <1>10

\* A number whose entry was refused is nobody's.
LEMMA RefusalKeeps ==
    ASSUME RoutingType, SeqInv, FeedInv, NEW m \in Entries, PublishFails(m)
    PROVE  InboundType' /\ SeqInv' /\ \A f \in Feeds : FeedOk(f, stream, pub) => FeedOk(f, stream', pub')
<1> USE Blank
<1> DEFINE q == [pub[m] EXCEPT !.by = None, !.seq = Null, !.done = TRUE]
<1>1. /\ counter \in Nat /\ counter' = counter /\ stream' = stream /\ got' = got
      /\ pub \in [Entries -> Publications] /\ stream \subseteq Appended /\ got \subseteq Entries
      /\ ~ pub[m].done /\ Null \in Nat
  BY DEF RoutingType, InboundType, PublishFails, Null
<1>2. pub' = [pub EXCEPT ![m] = q]
  BY <1>1 DEF PublishFails
<1>3. q \in Publications /\ q.by = None /\ q.seq = Null /\ q.done = TRUE
  BY <1>1 DEF Publications
<1> HIDE DEF q
<1>4. /\ pub' \in [Entries -> Publications] /\ pub'[m] = q
      /\ \A n \in Entries : n # m => pub'[n] = pub[n]
  BY <1>1, <1>2, <1>3
<1>5. /\ \A n \in Entries : pub[n].seq \in Nat /\ (pub[n].done => n # m)
      /\ \A n \in Entries : pub'[n].seq # Null => n # m
  BY <1>1, <1>3, <1>4 DEF Publications
<1>6. InboundType'
  BY <1>1, <1>4 DEF InboundType
<1>7. SeqInv'
  <2>1. /\ \A n \in Entries : pub'[n].by # None => pub'[n].seq # Null
        /\ \A n \in Entries : pub'[n].by = None /\ ~ pub'[n].done => pub'[n] = Unsent
    BY <1>3, <1>4 DEF SeqInv
  <2>2. /\ \A n \in Entries : pub'[n].seq # Null => pub'[n].seq \in 1..counter'
        /\ \A n, k \in Entries : pub'[n].seq # Null /\ pub'[n].seq = pub'[k].seq => n = k
        /\ \A n \in Entries : pub'[n].done /\ pub'[n].seq # Null => [seq |-> pub'[n].seq, entry |-> n] \in stream'
    BY <1>1, <1>4, <1>5 DEF SeqInv
  <2>3. \A n \in got' : pub'[n].done
    BY <1>1, <1>3, <1>4 DEF SeqInv
  <2>4. \A e \in stream' : pub'[e.entry].done /\ e.seq = pub'[e.entry].seq /\ e.seq # Null
    BY <1>1, <1>4, <1>5 DEF SeqInv, Appended
  <2> QED
    BY <2>1, <2>2, <2>3, <2>4 DEF SeqInv
<1>8. ASSUME NEW f \in Feeds, FeedOk(f, stream, pub) PROVE FeedOk(f, stream', pub')
  <2>1. f.base \subseteq Entries /\ f.cur \in Nat
    BY DEF Feeds
  <2>2. \A n \in Entries : pub[n].done => pub'[n] = pub[n]
    BY <1>4, <1>5
  <2>3. \A n \in Entries : pub'[n].done /\ pub'[n].seq > f.cur => pub'[n] = pub[n]
    BY <1>3, <1>4, <2>1 DEF Null
  <2> QED
    BY <1>1, <1>8, <2>1, <2>2, <2>3 DEF FeedOk
<1> QED
  BY <1>6, <1>7, <1>8

-----------------------------------------------------------------------------
(* The invariant *)

RoutingInv == RoutingType /\ FeedHosted /\ SeqInv /\ FeedInv

LEMMA SessionKept == ASSUME RoutingType, [Next]_vars PROVE SessionType'
<1> USE Blank
<1>1. SessionType /\ gw \in [Gateways -> GatewayStates]
  BY DEF RoutingType, GatewayType
<1>2. ASSUME NEW b \in Boxes \cup {Null}, NEW x \in Destroyed(b)
      PROVE  x \in [Boxes -> {"unused", "running", "gone"}]
  BY <1>1 DEF SessionType, Destroyed
<1>3. \A g \in Gateways : gw[g].old \in Boxes \cup {Null} /\ gw[g].handle \in Boxes \cup {Null}
  BY <1>1 DEF GatewayStates
<1>4. ASSUME NEW g \in Gateways, GatewayNext(g) PROVE SessionType'
  <2>1. CASE Attach(g) \/ Start(g) \/ Stop(g) \/ Exited(g) \/ CrashSpawnFails(g) \/ SpawnFails(g) \/ RowResumed(g)
    BY <1>1, <2>1 DEF Attach, Start, Stop, Exited, CrashSpawnFails, SpawnFails, RowResumed, SessionType
  <2>2. CASE Release(g) \/ TakeoverClaim(g) \/ Claim(g)
    <3>1. lease' \in Releases(gw[g].seen) \cup Claims(g) /\ row' = row /\ box' = box
      BY <2>2 DEF Release, TakeoverClaim, Claim
    <3>2. lease' \in Gateways \cup {None}
      BY <1>1, <3>1 DEF Releases, Claims, SessionType
    <3> QED
      BY <1>1, <3>1, <3>2 DEF SessionType
  <2>3. CASE Destroy(g) \/ RowResumeFails(g)
    <3>1. lease' = lease /\ row' = Null /\ box' \in Destroyed(gw[g].old)
      BY <2>3 DEF Destroy, RowResumeFails
    <3>2. box' \in [Boxes -> {"unused", "running", "gone"}]
      BY <1>2, <1>3, <3>1
    <3> QED
      BY <1>1, <3>1, <3>2 DEF SessionType
  <2>4. CASE TakeoverSpawned(g) \/ Spawned(g) \/ CrashSpawned(g) \/ RenewLost(g)
    BY <1>1, <2>4 DEF TakeoverSpawned, Spawned, CrashSpawned, RenewLost, SessionType
  <2>5. CASE Started(g)
    BY <1>1, <1>3, <2>5 DEF Started, SessionType
  <2>6. CASE Kill(g) \/ DeliverKill(g)
    <3>1. Killed(g)
      BY <2>6 DEF Kill, DeliverKill
    <3>2. box' \in [Boxes -> {"unused", "running", "gone"}] /\ row' = Null
      BY <1>2, <1>3, <3>1 DEF Killed
    <3>3. lease' \in Gateways \cup {None}
      BY <1>1, <3>1 DEF Killed, Releases, SessionType
    <3> QED
      BY <3>2, <3>3 DEF SessionType
  <2>7. CASE Seed(g) \/ Read(g) \/ Deliver(g) \/ \E m \in Entries : Draw(g, m)
    BY <1>1, <2>7 DEF Seed, Read, Deliver, Draw, SessionType
  <2> QED
    BY <1>4, <2>1, <2>2, <2>3, <2>4, <2>5, <2>6, <2>7 DEF GatewayNext, AttachNext, WaitNext, ConsumerNext
<1>5. ASSUME (\E m \in Entries : Publish(m) \/ PublishFails(m)) \/ (\E b \in Boxes : RunnerExit(b)) \/ Expire \/ Lost
      PROVE  SessionType'
  BY <1>1, <1>5 DEF Publish, PublishFails, RunnerExit, Expire, Lost, SessionType
<1>6. CASE UNCHANGED vars
  BY <1>1, <1>6 DEF vars, SessionType
<1> QED
  BY <1>4, <1>5, <1>6 DEF Next

\* The steps that are not the consumer's own leave the counter, the stream and
\* the publications alone; a kill that the stream carried is delivered.
LEMMA HostInbound ==
    ASSUME RoutingType, SeqInv, FeedInv, NEW g \in Gateways, HostNext(g)
    PROVE  /\ counter' = counter /\ stream' = stream /\ pub' = pub
           /\ InboundType' /\ SeqInv'
<1>1. CASE DeliverKill(g)
  <2> DEFINE e == FirstOf(gw[g].feed.todo)
  <2>1. e \in stream /\ e \in Appended
    BY <1>1, FirstIs DEF DeliverKill
  <2>2. counter' = counter /\ stream' = stream /\ pub' = pub /\ got' = got \cup {e.entry}
    BY <1>1 DEF DeliverKill
  <2> HIDE DEF e
  <2>3. e.entry \in Entries /\ pub[e.entry].done
    BY <2>1 DEF Appended, SeqInv
  <2> QED
    BY <2>2, <2>3 DEF RoutingType, InboundType, SeqInv
<1>2. CASE UNCHANGED Inbound
  BY <1>2 DEF Inbound, RoutingType, InboundType, SeqInv
<1>3. DeliverKill(g) \/ UNCHANGED Inbound
  BY DEF HostNext, Attach, AttachNext, WaitNext, RenewLost, Kill, Stop, Start, Release, Destroy, TakeoverClaim,
         TakeoverSpawned, SpawnFails, RowResumed, RowResumeFails, Spawned, Claim, Started, Exited, CrashSpawned, CrashSpawnFails
<1> QED
  BY <1>1, <1>2, <1>3

\* What a step must do to the state of its gateway and to the stream.
LEMMA GatewayKept ==
    ASSUME RoutingInv, SessionType', InboundType', SeqInv', NEW g \in Gateways,
           NEW r \in GatewayStates, Becomes(g, r), Settled(r),
           r.feed # NoConsumer => r.live = "ACTIVE" /\ r.pc = "idle",
           FeedOk(r.feed, stream', pub'),
           \A f \in Feeds : FeedOk(f, stream, pub) => FeedOk(f, stream', pub')
    PROVE  RoutingInv'
<1>1. gw \in [Gateways -> GatewayStates] /\ gw' = [gw EXCEPT ![g] = r]
  BY DEF RoutingInv, RoutingType, GatewayType, Becomes
<1>2. gw' \in [Gateways -> GatewayStates] /\ gw'[g] = r /\ \A h \in Gateways : h # g => gw'[h] = gw[h]
  BY <1>1
<1>3. GatewayType'
  BY <1>2 DEF RoutingInv, RoutingType, GatewayType
<1>4. FeedHosted'
  BY <1>2 DEF RoutingInv, FeedHosted
<1>5. FeedInv'
  <2> SUFFICES ASSUME NEW h \in Gateways PROVE FeedOk(gw'[h].feed, stream', pub')
    BY DEF FeedInv
  <2>1. CASE h = g
    BY <1>2, <2>1
  <2>2. CASE h # g
    <3>1. gw[h].feed \in Feeds /\ FeedOk(gw[h].feed, stream, pub) /\ gw'[h] = gw[h]
      BY <1>1, <1>2, <2>2 DEF RoutingInv, FeedInv, GatewayStates
    <3> QED
      BY <3>1
  <2> QED
    BY <2>1, <2>2
<1> QED
  BY <1>3, <1>4, <1>5 DEF RoutingInv, RoutingType

LEMMA GatewaysStay ==
    ASSUME RoutingInv, SessionType', InboundType', SeqInv', gw' = gw,
           \A f \in Feeds : FeedOk(f, stream, pub) => FeedOk(f, stream', pub')
    PROVE  RoutingInv'
<1>1. GatewayType' /\ FeedHosted'
  BY DEF RoutingInv, RoutingType, GatewayType, FeedHosted
<1>2. \A h \in Gateways : gw[h].feed \in Feeds /\ FeedOk(gw[h].feed, stream, pub)
  BY DEF RoutingInv, RoutingType, GatewayType, GatewayStates, FeedInv
<1>3. FeedInv'
  BY <1>2 DEF FeedInv
<1> QED
  BY <1>1, <1>3 DEF RoutingInv, RoutingType

\* A consumer's own step.
LEMMA ConsumerKept ==
    ASSUME RoutingInv, SessionType', NEW g \in Gateways, Seed(g) \/ Read(g) \/ Deliver(g)
    PROVE  RoutingInv'
<1> USE Blank
<1>0. /\ RoutingType /\ SeqInv /\ FeedInv /\ gw \in [Gateways -> GatewayStates] /\ gw[g] \in GatewayStates
      /\ Settled(gw[g]) /\ (gw[g].feed # NoConsumer => gw[g].live = "ACTIVE" /\ gw[g].pc = "idle")
  BY DEF RoutingInv, RoutingType, GatewayType, FeedHosted
<1>1. counter' = counter /\ stream' = stream /\ pub' = pub
  BY DEF Seed, Read, Deliver, Inbound
<1>2. InboundType' /\ SeqInv'
  <2>1. CASE Deliver(g)
    <3> DEFINE e == FirstOf(gw[g].feed.todo)
    <3>1. e \in stream /\ e \in Appended
      BY <1>0, <2>1, FirstIs DEF Deliver
    <3>2. got' = got \cup {e.entry} \/ got' = got
      BY <2>1 DEF Deliver
    <3> HIDE DEF e
    <3>3. e.entry \in Entries /\ pub[e.entry].done
      BY <1>0, <3>1 DEF Appended, SeqInv
    <3> QED
      BY <1>0, <1>1, <3>2, <3>3 DEF RoutingType, InboundType, SeqInv
  <2>2. CASE Seed(g) \/ Read(g)
    BY <1>0, <1>1, <2>2 DEF Seed, Read, Inbound, RoutingType, InboundType, SeqInv
  <2> QED
    BY <2>1, <2>2
<1>3. gw[g].feed # NoConsumer
  BY <1>0 DEF Seed, Read, Deliver
<1>4. PICK f \in Feeds : Feeding(g, f) /\ FeedOk(f, stream, pub)
  <2>1. CASE Seed(g)
    BY <1>0, <2>1, SeedKeeps DEF Seed, Feeding
  <2>2. CASE Read(g) \/ Deliver(g)
    BY <1>0, <2>2, ReadKeeps, DeliverKeeps
  <2> QED
    BY <2>1, <2>2
<1> DEFINE r == [gw[g] EXCEPT !.feed = f]
<1>5. r \in GatewayStates /\ r.feed = f /\ r.live = gw[g].live /\ r.pc = gw[g].pc /\ r.old = gw[g].old
      /\ r.handle = gw[g].handle
  BY <1>0 DEF GatewayStates
<1>6. Becomes(g, r)
  BY <1>0, <1>4 DEF Feeding, Becomes
<1> HIDE DEF r
<1>7. Settled(r) /\ r.live = "ACTIVE" /\ r.pc = "idle"
  BY <1>0, <1>3, <1>5 DEF Settled
<1>8. FeedOk(r.feed, stream', pub')
  BY <1>1, <1>4, <1>5
<1>9. \A h \in Feeds : FeedOk(h, stream, pub) => FeedOk(h, stream', pub')
  BY <1>1
<1> QED
  BY <1>2, <1>5, <1>6, <1>7, <1>8, <1>9, GatewayKept

LEMMA RoutingStep == ASSUME RoutingInv, [Next]_vars PROVE RoutingInv'
<1> USE Blank
<1>0. RoutingType /\ SeqInv /\ FeedInv /\ FeedHosted /\ InboundType
  BY DEF RoutingInv, RoutingType
<1>1. SessionType'
  BY <1>0, SessionKept
<1>2. ASSUME NEW g \in Gateways, HostNext(g) PROVE RoutingInv'
  <2>1. PICK r \in GatewayStates : Becomes(g, r) /\ FeedMoved(g, r) /\ Settled(r)
    BY <1>0, <1>2, HostMoves
  <2>2. counter' = counter /\ stream' = stream /\ pub' = pub /\ InboundType' /\ SeqInv'
    BY <1>0, <1>2, HostInbound
  <2>3. r.feed # NoConsumer => r.live = "ACTIVE" /\ r.pc = "idle"
    BY <1>0, <2>1 DEF FeedMoved, FeedHosted
  <2>4. FeedOk(r.feed, stream, pub)
    <3>1. CASE r.feed = NoConsumer \/ (r.feed.on = "start" /\ r.feed.todo = {})
      BY <3>1 DEF FeedOk
    <3>2. CASE r.feed = gw[g].feed
      BY <1>0, <3>2 DEF FeedInv
    <3> QED
      BY <2>1, <3>1, <3>2 DEF FeedMoved
  <2>5. FeedOk(r.feed, stream', pub')
        /\ \A h \in Feeds : FeedOk(h, stream, pub) => FeedOk(h, stream', pub')
    BY <2>2, <2>4
  <2> QED
    BY <1>1, <2>1, <2>2, <2>3, <2>5, GatewayKept
<1>3. ASSUME NEW g \in Gateways, NEW m \in Entries, Draw(g, m) PROVE RoutingInv'
  <2>1. gw' = gw
    BY <1>3 DEF Draw
  <2> QED
    BY <1>0, <1>1, <1>3, <2>1, DrawKeeps, GatewaysStay
<1>4. ASSUME NEW m \in Entries, Publish(m) PROVE RoutingInv'
  <2>1. gw' = gw
    BY <1>4 DEF Publish
  <2> QED
    BY <1>0, <1>1, <1>4, <2>1, PublishKeeps, GatewaysStay
<1>7. ASSUME NEW m \in Entries, PublishFails(m) PROVE RoutingInv'
  <2>1. gw' = gw
    BY <1>7 DEF PublishFails
  <2> QED
    BY <1>0, <1>1, <1>7, <2>1, RefusalKeeps, GatewaysStay
<1>5. ASSUME (\E b \in Boxes : RunnerExit(b)) \/ Expire \/ Lost \/ UNCHANGED vars PROVE RoutingInv'
  <2>1. gw' = gw /\ counter' = counter /\ stream' = stream /\ pub' = pub /\ got' = got
    BY <1>5 DEF RunnerExit, Expire, Lost, vars, Inbound
  <2>2. InboundType' /\ SeqInv'
    BY <1>0, <2>1 DEF InboundType, SeqInv
  <2>3. \A h \in Feeds : FeedOk(h, stream, pub) => FeedOk(h, stream', pub')
    BY <2>1
  <2> QED
    BY <1>1, <2>1, <2>2, <2>3, GatewaysStay
<1>6. ASSUME NEW g \in Gateways, GatewayNext(g) PROVE RoutingInv'
  <2>1. HostNext(g) \/ Seed(g) \/ Read(g) \/ Deliver(g) \/ \E m \in Entries : Draw(g, m)
    BY <1>6 DEF GatewayNext, HostNext, ConsumerNext
  <2> QED
    BY <1>1, <1>2, <1>3, <2>1, ConsumerKept
<1> QED
  BY <1>4, <1>5, <1>6, <1>7 DEF Next

LEMMA RoutingInit == Init => RoutingInv
<1> SUFFICES ASSUME Init PROVE RoutingInv
  OBVIOUS
<1>1. \A g \in Gateways : gw[g] = Off
  BY DEF Init
<1>2. \A m \in Entries : pub[m] = Unsent
  BY DEF Init
<1>3. RoutingType
  BY Blank, <1>1 DEF Init, RoutingType, SessionType, GatewayType, InboundType, Settled, Appended
<1>4. SeqInv
  <2>1. Unsent.by = None /\ Unsent.seq = Null /\ Unsent.done = FALSE
    BY DEF Unsent
  <2> QED
    BY <1>2, <2>1 DEF Init, SeqInv
<1>5. FeedHosted /\ FeedInv
  BY Blank, <1>1 DEF FeedHosted, FeedInv, FeedOk
<1> QED
  BY <1>3, <1>4, <1>5 DEF RoutingInv

\* RoutingInv holds in every behaviour.
THEOREM RoutingInvariant == Spec => []RoutingInv
BY RoutingInit, RoutingStep, PTL DEF Spec

\* What an earlier host delivered is never ahead of a consumer's cursor: a
\* takeover starts behind every number drawn so far, so that it neither feeds the
\* retained stream again nor kills the session it just took over.
THEOREM TakeoverRefeedsNothing == Spec => []NoReplay
<1>1. RoutingInv => NoReplay
  <2> SUFFICES ASSUME RoutingInv, NEW g \in Gateways, NEW m \in Entries, gw[g].feed.on = "on", m \in gw[g].feed.base
               PROVE  pub[m].seq <= gw[g].feed.cur
    BY DEF NoReplay
  <2> QED
    BY DEF RoutingInv, FeedInv, FeedOk
<1> QED
  BY <1>1, RoutingInvariant, PTL

\* A consumer's cursor passes an accepted entry only when it takes the entry up,
\* or when the entry was appended behind a higher number than its own.
THEOREM OnlyLateSkipped == Spec => NothingSkipped
<1>1. ASSUME RoutingInv, [Next]_vars, NEW g \in Gateways, NEW e \in stream, Skips(g, e)
      PROVE  pub[e.entry].late
  <2> USE Blank
  <2>0. /\ RoutingType /\ SeqInv /\ FeedInv /\ FeedHosted /\ gw \in [Gateways -> GatewayStates]
        /\ gw[g].feed \in Feeds /\ e \in Appended
    <3>1. RoutingType /\ SeqInv /\ FeedInv /\ FeedHosted
      BY <1>1 DEF RoutingInv
    <3>2. gw \in [Gateways -> GatewayStates] /\ stream \subseteq Appended
      BY <3>1 DEF RoutingType, GatewayType, InboundType
    <3>3. gw[g].feed \in Feeds
      BY <3>2 DEF GatewayStates
    <3> QED
      BY <3>1, <3>2, <3>3
  <2>1. /\ gw[g].feed.on = "on" /\ gw'[g].feed.on = "on"
        /\ gw[g].feed.cur < e.seq /\ e.seq < gw'[g].feed.cur
    BY <1>1 DEF Skips
  <2>2. gw[g].feed.cur \in Nat /\ e.seq \in Nat
    BY <2>0 DEF Feeds, Appended
  <2>3. ASSUME gw'[g].feed.cur = gw[g].feed.cur PROVE FALSE
    BY <2>1, <2>2, <2>3
  <2>4. ASSUME NEW h \in Gateways, h # g, \E r : gw' = [gw EXCEPT ![h] = r] PROVE FALSE
    BY <2>0, <2>3, <2>4
  <2>5. ASSUME gw' = gw PROVE FALSE
    BY <2>3, <2>5
  <2>6. ASSUME NEW h \in Gateways, HostNext(h) PROVE FALSE
    <3>1. PICK r \in GatewayStates : Becomes(h, r) /\ FeedMoved(h, r)
      BY <2>0, <2>6, HostMoves
    <3>2. h = g
      BY <2>4, <3>1 DEF Becomes
    <3>3. gw'[g] = r
      BY <2>0, <3>1, <3>2 DEF Becomes
    <3>4. r.feed.on # "on" \/ r.feed = gw[g].feed
      BY <3>1, <3>2 DEF FeedMoved
    <3> QED
      BY <2>1, <2>3, <3>3, <3>4
  <2>7. ASSUME NEW h \in Gateways, Seed(h) \/ Read(h) PROVE FALSE
    <3>1. PICK f : gw' = [gw EXCEPT ![h].feed = f]
              /\ (gw[h].feed.on = "start" \/ f = [gw[h].feed EXCEPT !.todo = Unread(h)])
      BY <2>0, <2>7 DEF Seed, Read
    <3>2. h = g
      BY <2>4, <3>1
    <3>3. gw[h].feed.on # "start" /\ gw'[g].feed = f
      BY <2>0, <2>1, <3>1, <3>2 DEF GatewayStates
    <3>4. f.cur = gw[g].feed.cur
      BY <2>0, <3>1, <3>2, <3>3 DEF Feeds
    <3> QED
      BY <2>3, <3>3, <3>4
  <2>8. ASSUME NEW h \in Gateways, Deliver(h) PROVE pub[e.entry].late
    <3> DEFINE o == gw[h].feed
               d == FirstOf(o.todo)
               f == [o EXCEPT !.cur = d.seq, !.todo = {c \in o.todo : c.seq > d.seq}]
    <3>1. o.todo # {} /\ gw' = [gw EXCEPT ![h].feed = f]
      BY <2>8 DEF Deliver
    <3>2. h = g
      BY <2>4, <3>1
    <3>3. /\ d \in o.todo /\ o.on = "on" /\ d \in Appended /\ \A c \in o.todo : d.seq <= c.seq
      BY <2>0, <3>1, FirstIs
    <3>4. gw'[g].feed.cur = d.seq
      BY <2>0, <3>1, <3>2 DEF GatewayStates, Feeds
    <3> HIDE DEF d, o, f
    <3>5. d.seq \in Nat /\ e.seq < d.seq
      BY <2>1, <3>3, <3>4 DEF Appended
    <3>6. e \notin o.todo
      BY <2>2, <3>3, <3>5
    <3>7. e.entry \in Entries /\ pub[e.entry].done /\ e.seq = pub[e.entry].seq /\ pub[e.entry].seq > o.cur
      BY <2>0, <2>1, <2>2, <3>2 DEF SeqInv, Appended, o
    <3>8. e = [seq |-> pub[e.entry].seq, entry |-> e.entry]
      BY <2>0, <3>7 DEF Appended
    <3>9. FeedOk(o, stream, pub)
      BY <2>0, <3>2 DEF FeedInv, o
    <3> QED
      BY <3>3, <3>5, <3>6, <3>7, <3>8, <3>9 DEF FeedOk
  <2>9. ASSUME NEW h \in Gateways, GatewayNext(h) PROVE pub[e.entry].late
    <3>1. HostNext(h) \/ Seed(h) \/ Read(h) \/ Deliver(h) \/ \E m \in Entries : Draw(h, m)
      BY <2>9 DEF GatewayNext, HostNext, ConsumerNext
    <3>2. (\E m \in Entries : Draw(h, m)) => gw' = gw
      BY DEF Draw
    <3> QED
      BY <2>5, <2>6, <2>7, <2>8, <3>1, <3>2
  <2>10. (\E m \in Entries : Publish(m) \/ PublishFails(m)) \/ (\E b \in Boxes : RunnerExit(b)) \/ Expire \/ Lost
            \/ UNCHANGED vars => gw' = gw
    BY DEF Publish, PublishFails, RunnerExit, Expire, Lost, vars
  <2> QED
    BY <1>1, <2>5, <2>9, <2>10 DEF Next
<1>2. RoutingInv /\ [Next]_vars
         => [\A g \in Gateways : \A e \in stream : Skips(g, e) => pub[e.entry].late]_vars
  BY <1>1
<1> QED
  BY <1>2, RoutingInvariant, PTL DEF Spec, NothingSkipped

-----------------------------------------------------------------------------
(* The numbers stay within the number of entries *)

Drawn == {m \in Entries : pub[m].by # None \/ pub[m].done}
CountInv == counter = Cardinality(Drawn)

LEMMA EntriesFinite ==
    /\ IsFiniteSet(Entries)
    /\ \A T \in SUBSET Entries : IsFiniteSet(T) /\ Cardinality(T) \in Nat /\ Cardinality(T) <= Cardinality(Entries)
<1>1. IsFiniteSet(Entries)
  BY RoutingAssumption, FS_Union DEF Entries
<1> QED
  BY <1>1, FS_Subset, FS_CardinalityType

LEMMA CountStep == ASSUME RoutingInv, CountInv, [Next]_vars PROVE CountInv'
<1> USE Blank
<1>0. pub \in [Entries -> Publications]
  BY DEF RoutingInv, RoutingType, InboundType
<1>1. ASSUME NEW g \in Gateways, NEW m \in Entries, Draw(g, m) PROVE CountInv'
  <2>1. counter' = counter + 1 /\ pub[m].by = None /\ ~ pub[m].done /\ pub' = [pub EXCEPT ![m] = [@ EXCEPT !.by = g, !.seq = counter + 1]]
    BY <1>1 DEF Draw
  <2>2. pub'[m].by = g /\ g # None /\ \A n \in Entries : n # m => pub'[n] = pub[n]
    BY <1>0, <2>1, RoutingAssumption DEF Publications
  <2>3. Drawn' = Drawn \cup {m} /\ m \notin Drawn /\ Drawn \in SUBSET Entries
    BY <2>1, <2>2 DEF Drawn
  <2>4. Cardinality(Drawn \cup {m}) = Cardinality(Drawn) + 1
    <3> HIDE DEF Drawn
    <3> QED
      BY <2>3, EntriesFinite, FS_AddElement
  <2> QED
    BY <2>1, <2>3, <2>4 DEF CountInv
<1>2. ASSUME NEW m \in Entries, Publish(m) \/ PublishFails(m) PROVE CountInv'
  <2>1. counter' = counter /\ pub[m].by # None
    BY <1>2 DEF Publish, PublishFails
  <2>2. pub'[m].done /\ \A n \in Entries : n # m => pub'[n] = pub[n]
    <3>1. CASE Publish(m)
      <4>1. PICK l : pub' = [pub EXCEPT ![m] = [@ EXCEPT !.by = None, !.done = TRUE, !.late = l]]
        BY <3>1 DEF Publish
      <4> QED
        BY <1>0, <4>1 DEF Publications
    <3>2. CASE PublishFails(m)
      BY <1>0, <3>2 DEF PublishFails, Publications
    <3> QED
      BY <1>2, <3>1, <3>2
  <2>3. Drawn' = Drawn
    BY <2>1, <2>2 DEF Drawn
  <2> QED
    BY <2>1, <2>3 DEF CountInv
<1>3. ASSUME counter' = counter, pub' = pub PROVE CountInv'
  BY <1>3 DEF CountInv, Drawn
<1>4. ASSUME NEW g \in Gateways, GatewayNext(g) PROVE CountInv'
  <2>1. HostNext(g) \/ Seed(g) \/ Read(g) \/ Deliver(g) \/ \E m \in Entries : Draw(g, m)
    BY <1>4 DEF GatewayNext, HostNext, ConsumerNext
  <2>2. CASE HostNext(g)
    BY <1>3, <2>2, HostInbound DEF RoutingInv
  <2>3. CASE Seed(g) \/ Read(g) \/ Deliver(g)
    BY <1>3, <2>3 DEF Seed, Read, Deliver, Inbound
  <2> QED
    BY <1>1, <2>1, <2>2, <2>3
<1>5. ASSUME (\E b \in Boxes : RunnerExit(b)) \/ Expire \/ Lost \/ UNCHANGED vars PROVE CountInv'
  BY <1>3, <1>5 DEF RunnerExit, Expire, Lost, vars, Inbound
<1> QED
  BY <1>2, <1>4, <1>5 DEF Next

\* The variables keep their types; in particular no number is drawn beyond the
\* number of entries, and a gateway that serves the session has a sandbox.
THEOREM RoutingTyped == Spec => []TypeOK
<1>1. Init => CountInv
  <2> SUFFICES ASSUME Init PROVE CountInv
    OBVIOUS
  <2>1. Drawn = {}
    BY Blank DEF Init, Drawn
  <2> QED
    BY <2>1, FS_EmptySet DEF Init, CountInv
<1>2. RoutingInv /\ CountInv => TypeOK
  <2> SUFFICES ASSUME RoutingInv, CountInv PROVE TypeOK
    OBVIOUS
  <2>1. counter \in 0..Cardinality(Entries)
    <3>1. Drawn \in SUBSET Entries
      BY DEF Drawn
    <3> QED
      BY <3>1, EntriesFinite DEF CountInv
  <2>2. stream \subseteq [seq: Seqs, entry: Entries]
    <3> SUFFICES ASSUME NEW e \in stream PROVE e \in [seq: Seqs, entry: Entries]
      OBVIOUS
    <3>1. e \in Appended /\ pub[e.entry].done /\ e.seq = pub[e.entry].seq
      BY DEF RoutingInv, RoutingType, InboundType, SeqInv
    <3>2. e.entry \in Entries /\ e.seq \in 1..counter
      BY <3>1, Blank DEF RoutingInv, SeqInv, Appended
    <3>3. Cardinality(Entries) \in Nat
      BY EntriesFinite
    <3>4. e.seq \in Seqs
      BY <2>1, <3>2, <3>3 DEF Seqs
    <3> QED
      BY <3>1, <3>2, <3>4 DEF Appended
  <2> QED
    BY <2>1, <2>2 DEF RoutingInv, RoutingType, SessionType, GatewayType, InboundType, GatewayStates, Settled, TypeOK
<1> QED
  BY <1>1, <1>2, CountStep, RoutingInvariant, PTL DEF Spec
=============================================================================
