--------------------------- MODULE SessionRouting ---------------------------
(***************************************************************************)
(* One chat session between several gateways: the routing lease            *)
(* (app/chat/routing.py), attach with the takeover of a session that        *)
(* another gateway hosts, the wait task's and the reaper's ownership        *)
(* checks (app/chat/manager.py), and the inbound stream that carries user   *)
(* messages and kill commands to the hosting gateway (app/chat/inbound.py). *)
(* Pause, and what one gateway's coroutines do to each other, is in         *)
(* SessionLifecycle; here a sandbox whose runner has ended counts as gone. *)
(*                                                                         *)
(* Each gateway runs attach under the session lock (pc), and beside it the  *)
(* wait task of its LiveSession (wait) and the inbound consumer (cur, todo). *)
(* A step is one call to the coordination backend, the provider or the      *)
(* database: the gateways share nothing else.                              *)
(***************************************************************************)
EXTENDS Naturals, FiniteSets

CONSTANTS
    Gateways,       \* the gateway processes
    Texts,          \* user messages sent through a gateway that is not the host
    Kills,          \* kill commands sent the same way
    None,           \* no gateway
    MaxSpawns,      \* bound on sandboxes
    Faults          \* the kinds of faults that may happen

\*   exit    a runner ends with an error
\*   stop    a gateway stops; its lease runs out, and it may start again
\*   outage  a call to the coordination backend fails; what it does about a failure
\*           differs from caller to caller
\*   lost    the backend forgets the lease, or an outage outlasts it
FaultKinds == {"exit", "stop", "outage", "lost"}

ASSUME RoutingAssumption ==
    /\ None \notin Gateways
    /\ Texts \cap Kills = {} /\ IsFiniteSet(Texts) /\ IsFiniteSet(Kills)
    /\ MaxSpawns \in Nat
    /\ Faults \subseteq FaultKinds

Entries == Texts \cup Kills

VARIABLES
    lease,          \* holder of the lease chat:{chat_id}
    row,            \* sandbox_id of the session's row
    box,            \* sandbox -> its state at the provider
    gw,             \* gateway -> attach, LiveSession and consumer
    counter,        \* chat-in-seq:{chat_id}
    stream,         \* chat-in:{chat_id}: the entries appended, with their seq
    pub,            \* entry -> its publication
    got             \* entries that reached a runner or kill() (history)

vars == <<lease, row, box, gw, counter, stream, pub, got>>

Null == 0
Boxes == 1..MaxSpawns
Seqs == 1..Cardinality(Entries)
PCs == {"idle", "release", "destroy", "resume", "spawn", "claim", "refer", "claim_row",
          "start", "takeover_claim", "takeover_spawn"}

\* A consumer: its cursor inbound_last_seq, the entries it has read and not
\* taken up, and, as history, those that others had delivered when it read the
\* counter to start.
NoConsumer == [on |-> "off", cur |-> 0, todo |-> {}, base |-> {}]
Off == [pc |-> "idle", up |-> TRUE, seen |-> None, old |-> Null,
        live |-> "none", handle |-> Null, wait |-> "off", feed |-> NoConsumer]
Unsent == [by |-> None, seq |-> Null, done |-> FALSE, late |-> FALSE]

Init ==
    /\ lease = None
    /\ row = Null
    /\ box = [b \in Boxes |-> "unused"]
    /\ gw = [g \in Gateways |-> Off]
    /\ counter = 0
    /\ stream = {}
    /\ pub = [m \in Entries |-> Unsent]
    /\ got = {}

Fresh(b) == box[b] = "unused" /\ \A c \in Boxes : c < b => box[c] # "unused"
\* Whoever destroys a sandbox goes on if the provider could not.
Destroyed(b) == {box} \cup (IF b = Null THEN {} ELSE {[box EXCEPT ![b] = "gone"]})
Inbound == <<counter, stream, pub, got>>

Outage == "outage" \in Faults

\* owner_of: None is also the answer when the backend cannot be asked.
Owners == {lease} \cup (IF Outage THEN {None} ELSE {})

\* claim_session takes a free lease; release_session ends that of holder.  A
\* call that fails does nothing.
Claims(g) == {IF lease = None THEN g ELSE lease} \cup (IF Outage THEN {lease} ELSE {})
Releases(holder) ==
    {IF lease = holder THEN None ELSE lease} \cup (IF Outage THEN {lease} ELSE {})

-----------------------------------------------------------------------------
(* attach *)

\* owner_of decides: take a foreign session over, resume the sandbox of the
\* row, or spawn; without an owner, and so in an outage, one of the latter.
Attach(g) ==
    /\ gw[g].up /\ gw[g].pc = "idle" /\ gw[g].live \in {"none", "NEW"}
    /\ \E owner \in Owners :
         gw' = [gw EXCEPT ![g] = [@ EXCEPT
                  !.pc = IF owner \notin {None, g} THEN "release"
                         ELSE IF row # Null THEN "resume" ELSE "spawn",
                  !.old = row, !.seen = IF owner = g THEN None ELSE owner,
                  !.live = "none", !.wait = "off"]]
    /\ UNCHANGED <<lease, row, box, Inbound>>

\* _takeover_foreign_session: release the lease in its holder's name ...
Release(g) ==
    /\ gw[g].pc = "release"
    /\ lease' \in Releases(gw[g].seen)
    /\ gw' = [gw EXCEPT ![g] = [@ EXCEPT !.pc = "destroy", !.seen = None]]
    /\ UNCHANGED <<row, box, Inbound>>

\* ... destroy the sandbox that the row named, clear the row, register a stub ...
Destroy(g) ==
    /\ gw[g].pc = "destroy"
    /\ box' \in Destroyed(gw[g].old)
    /\ row' = Null
    /\ gw' = [gw EXCEPT ![g] = [@ EXCEPT !.pc = "takeover_claim", !.live = "NEW",
                                         !.old = Null]]
    /\ UNCHANGED <<lease, Inbound>>

\* ... claim the lease, and go on without it, if need be ...
TakeoverClaim(g) ==
    /\ gw[g].pc = "takeover_claim"
    /\ lease' \in Claims(g)
    /\ gw' = [gw EXCEPT ![g].pc = "takeover_spawn"]
    /\ UNCHANGED <<row, box, Inbound>>

\* ... and _respawn_fresh: a sandbox spawned for a session that was torn down
\* meanwhile is destroyed.
TakeoverSpawned(g) ==
    /\ gw[g].pc = "takeover_spawn"
    /\ \E b \in Boxes :
         /\ Fresh(b)
         /\ IF gw[g].live = "none"
            THEN /\ box' = [box EXCEPT ![b] = "gone"]
                 /\ gw' = [gw EXCEPT ![g].pc = "idle"]
                 /\ UNCHANGED row
            ELSE /\ box' = [box EXCEPT ![b] = "running"]
                 /\ gw' = [gw EXCEPT ![g] = [@ EXCEPT !.pc = "idle", !.live = "ACTIVE",
                                                      !.handle = b, !.wait = "on", !.feed.on = "start"]]
                 /\ row' = b
    /\ UNCHANGED <<lease, Inbound>>

\* The spawn raised; the stub stays.
SpawnFails(g) ==
    /\ gw[g].pc \in {"takeover_spawn", "spawn"}
    /\ gw' = [gw EXCEPT ![g].pc = "idle"]
    /\ UNCHANGED <<lease, row, box, Inbound>>

\* _resume_from_row: provider.resume on the sandbox of the row.
RowResumed(g) ==
    /\ gw[g].pc = "resume"
    /\ box[gw[g].old] = "running"
    /\ gw' = [gw EXCEPT ![g] = [@ EXCEPT !.pc = "claim_row", !.live = "ACTIVE",
                                         !.handle = gw[g].old, !.old = Null]]
    /\ UNCHANGED <<lease, row, box, Inbound>>

\* resume raised, or the runner is of an older protocol: destroy the sandbox,
\* clear the row and spawn.
RowResumeFails(g) ==
    /\ gw[g].pc = "resume"
    /\ box' \in Destroyed(gw[g].old)
    /\ row' = Null
    /\ gw' = [gw EXCEPT ![g] = [@ EXCEPT !.pc = "spawn", !.old = Null]]
    /\ UNCHANGED <<lease, Inbound>>

\* _spawn_live: register, then claim, then write the row.
Spawned(g) ==
    /\ gw[g].pc = "spawn"
    /\ \E b \in Boxes :
         /\ Fresh(b)
         /\ box' = [box EXCEPT ![b] = "running"]
         /\ gw' = [gw EXCEPT ![g] = [@ EXCEPT !.pc = "claim", !.live = "ACTIVE",
                                              !.handle = b, !.old = b]]
    /\ UNCHANGED <<lease, row, Inbound>>

\* _claim_routing_lease: whoever does not get the lease serves anyway.
Claim(g) ==
    /\ gw[g].pc \in {"claim", "claim_row"}
    /\ lease' \in Claims(g)
    /\ gw' = [gw EXCEPT ![g].pc = IF gw[g].pc = "claim" THEN "refer" ELSE "start"]
    /\ UNCHANGED <<row, box, Inbound>>

\* The row of a new sandbox, and the tasks of the LiveSession, which do nothing
\* for a session that was torn down meanwhile.
Started(g) ==
    /\ gw[g].pc \in {"refer", "start"}
    /\ row' = IF gw[g].pc = "refer" THEN gw[g].old ELSE row
    /\ gw' = [gw EXCEPT ![g] = IF gw[g].live = "none" THEN [@ EXCEPT !.pc = "idle", !.old = Null]
                               ELSE [@ EXCEPT !.pc = "idle", !.old = Null, !.wait = "on",
                                              !.feed.on = "start"]]
    /\ UNCHANGED <<lease, box, Inbound>>

-----------------------------------------------------------------------------
(* The host's checks that it still is the host *)

\* _teardown_lost_ownership: the sandbox and the row are the new host's.
TornDown(g) == [gw[g] EXCEPT !.live = "none", !.handle = Null, !.wait = "off",
                             !.feed = NoConsumer]

\* The wait task respawns only if the lease is positively this gateway's.
Exited(g) ==
    /\ gw[g].wait = "on" /\ box[gw[g].handle] = "gone"
    /\ \E owner \in Owners :
         gw' = [gw EXCEPT ![g] = IF owner = g THEN [@ EXCEPT !.wait = "spawning"] ELSE TornDown(g)]
    /\ UNCHANGED <<lease, row, box, Inbound>>

\* The new runner is the session's, whatever happened during its spawn.
CrashSpawned(g) ==
    /\ gw[g].wait = "spawning"
    /\ \E b \in Boxes :
         /\ Fresh(b)
         /\ box' = [box EXCEPT ![b] = "running"]
         /\ row' = b
         /\ gw' = [gw EXCEPT ![g] = [@ EXCEPT !.handle = b, !.wait = "on"]]
    /\ UNCHANGED <<lease, Inbound>>

CrashSpawnFails(g) ==
    /\ gw[g].wait = "spawning"
    /\ gw' = [gw EXCEPT ![g].wait = "off"]
    /\ UNCHANGED <<lease, row, box, Inbound>>

\* Bug: a failed renewal is taken for a blip whoever holds the lease.
RenewIgnored(g) ==
    /\ gw[g].live # "none"
    /\ lease \notin {None, g}
    /\ UNCHANGED vars

\* _renew_routing_leases: torn down only on proof of another holder; a renewal
\* of a lease that is gone, or in an outage, changes nothing.  A spawn that the
\* cancelled wait task had in flight may have made its sandbox.
RenewLost(g) ==
    /\ gw[g].live # "none"
    /\ lease \notin {None, g}
    /\ gw' = [gw EXCEPT ![g] = TornDown(g)]
    /\ \/ UNCHANGED box
       \/ /\ gw[g].wait = "spawning"
          /\ \E b \in Boxes : Fresh(b) /\ box' = [box EXCEPT ![b] = "running"]
    /\ UNCHANGED <<lease, row, Inbound>>

\* kill(): release the lease, destroy the sandbox, clear the row.
Killed(g) ==
    /\ lease' \in Releases(g)
    /\ box' \in Destroyed(gw[g].handle)
    /\ row' = Null

Kill(g) ==
    /\ gw[g].pc = "idle" /\ gw[g].live # "none" /\ gw[g].wait # "spawning"
    /\ Killed(g)
    /\ gw' = [gw EXCEPT ![g] = TornDown(g)]
    /\ UNCHANGED Inbound

-----------------------------------------------------------------------------
(* The inbound stream *)

\* send_user_message, or kill(), at a gateway that does not host the session
\* and reads another one as the lease's holder: the entry gets its seq ...
Draw(g, m) ==
    /\ gw[g].up /\ gw[g].pc = "idle" /\ gw[g].live = "none"
    /\ lease \notin {None, g}
    /\ pub[m] = Unsent
    /\ counter' = counter + 1
    /\ pub' = [pub EXCEPT ![m] = [@ EXCEPT !.by = g, !.seq = counter + 1]]
    /\ UNCHANGED <<lease, row, box, gw, stream, got>>

\* ... and is appended.  Nothing in the gateway runs in between, but another
\* gateway may append a higher number first: late (history).
Publish(m) ==
    /\ pub[m].by # None /\ ~ pub[m].done
    /\ gw[pub[m].by].up
    /\ stream' = stream \cup {[seq |-> pub[m].seq, entry |-> m]}
    /\ pub' = [pub EXCEPT ![m] = [@ EXCEPT !.by = None, !.done = TRUE,
                                          !.late = \E e \in stream : e.seq > pub[m].seq]]
    /\ UNCHANGED <<lease, row, box, gw, counter, got>>

\* The backend refused the number or the entry: so is the sender.
PublishFails(m) ==
    /\ Outage
    /\ pub[m].by # None /\ ~ pub[m].done
    /\ pub' = [pub EXCEPT ![m] = [@ EXCEPT !.by = None, !.seq = Null, !.done = TRUE]]
    /\ UNCHANGED <<lease, row, box, gw, counter, stream, got>>

Consumer(seq, base) == [on |-> "on", cur |-> seq, todo |-> {}, base |-> base]

\* Bug: a new consumer starts with the retained entries.
SeedAtStart(g) ==
    /\ gw[g].feed.on = "start"
    /\ gw' = [gw EXCEPT ![g].feed = Consumer(0, got)]
    /\ UNCHANGED <<lease, row, box, Inbound>>

\* _inbound_consumer_loop starts behind everything numbered so far.  In an
\* outage it starts with the retained entries, knowingly: at-least-once.
Seed(g) ==
    /\ gw[g].feed.on = "start"
    /\ \/ gw' = [gw EXCEPT ![g].feed = Consumer(counter, got)]
       \/ Outage /\ gw' = [gw EXCEPT ![g].feed = Consumer(0, {})]
    /\ UNCHANGED <<lease, row, box, Inbound>>

\* read_new: the entries behind the cursor.
Unread(g) == {e \in stream : e.seq > gw[g].feed.cur}

Read(g) ==
    /\ gw[g].feed.on = "on" /\ gw[g].feed.todo = {} /\ Unread(g) # {}
    /\ gw' = [gw EXCEPT ![g].feed.todo = Unread(g)]
    /\ UNCHANGED <<lease, row, box, Inbound>>

\* Bug: the newest entry first.
NewestOf(es) == CHOOSE e \in es : \A d \in es : e.seq >= d.seq

\* stream_read sorts by seq.
FirstOf(es) == CHOOSE e \in es : \A d \in es : e.seq <= d.seq

\* A user message goes to the runner's stdin; one that cannot be written is
\* lost.  The cursor moves on either way.
Deliver(g) ==
    /\ gw[g].feed.todo # {} /\ FirstOf(gw[g].feed.todo).entry \in Texts
    /\ LET feed == gw[g].feed
           e == FirstOf(feed.todo) IN
         /\ gw' = [gw EXCEPT ![g].feed = [feed EXCEPT !.cur = e.seq,
                                             !.todo = {d \in feed.todo : d.seq > e.seq}]]
         /\ got' = IF gw[g].handle # Null /\ box[gw[g].handle] = "running"
                   THEN got \cup {e.entry} ELSE got
    /\ UNCHANGED <<lease, row, box, counter, stream, pub>>

\* A kill command is executed, and ends the consumer.
DeliverKill(g) ==
    /\ gw[g].feed.todo # {} /\ FirstOf(gw[g].feed.todo).entry \in Kills
    /\ gw[g].pc = "idle" /\ gw[g].wait # "spawning"
    /\ Killed(g)
    /\ gw' = [gw EXCEPT ![g] = TornDown(g)]
    /\ got' = got \cup {FirstOf(gw[g].feed.todo).entry}
    /\ UNCHANGED <<counter, stream, pub>>

-----------------------------------------------------------------------------
(* Faults and time *)

RunnerExit(b) ==
    /\ "exit" \in Faults
    /\ box[b] = "running"
    /\ box' = [box EXCEPT ![b] = "gone"]
    /\ UNCHANGED <<lease, row, gw, Inbound>>

Stop(g) ==
    /\ "stop" \in Faults
    /\ gw[g].up /\ gw[g].live # "none" /\ gw[g].pc = "idle" /\ gw[g].wait # "spawning"
    /\ gw' = [gw EXCEPT ![g] = [TornDown(g) EXCEPT !.up = FALSE]]
    /\ UNCHANGED <<lease, row, box, Inbound>>

\* Its holder is down, or hosts the session no more: nobody renews the lease.
\* A new process has another id and waits for this.
Expire ==
    /\ lease # None
    /\ ~ gw[lease].up \/ gw[lease].live = "none"
    /\ lease' = None
    /\ UNCHANGED <<row, box, gw, Inbound>>

Lost ==
    /\ "lost" \in Faults
    /\ lease # None
    /\ lease' = None
    /\ UNCHANGED <<row, box, gw, Inbound>>

Start(g) ==
    /\ ~ gw[g].up /\ lease # g
    /\ gw' = [gw EXCEPT ![g].up = TRUE]
    /\ UNCHANGED <<lease, row, box, Inbound>>

-----------------------------------------------------------------------------

AttachNext(g) ==
    \/ Release(g) \/ Destroy(g) \/ TakeoverClaim(g) \/ TakeoverSpawned(g) \/ SpawnFails(g)
    \/ RowResumed(g) \/ RowResumeFails(g) \/ Spawned(g) \/ Claim(g) \/ Started(g)

WaitNext(g) == Exited(g) \/ CrashSpawned(g) \/ CrashSpawnFails(g)

ConsumerNext(g) == Seed(g) \/ Read(g) \/ Deliver(g) \/ DeliverKill(g)

\* Nothing else runs in a gateway between the number and the append.
Quiet(g) == \A m \in Entries : pub[m].by = g => pub[m].done

GatewayNext(g) ==
    \/ Attach(g) \/ AttachNext(g) \/ WaitNext(g) \/ RenewLost(g) \/ Kill(g)
    \/ ConsumerNext(g) \/ Stop(g) \/ Start(g)
    \/ \E m \in Entries : Draw(g, m)

Next ==
    \/ \E g \in Gateways : Quiet(g) /\ GatewayNext(g)
    \/ \E m \in Entries : Publish(m) \/ PublishFails(m)
    \/ \E b \in Boxes : RunnerExit(b)
    \/ Expire \/ Lost

Spec == Init /\ [][Next]_vars

\* The reaper ticks and reaches the backend again after an outage, a message that
\* has its number is appended or refused, and a lease that nobody renews ends.
RenewFairness ==
    /\ \A g \in Gateways : WF_vars(Quiet(g) /\ RenewLost(g))
    /\ \A m \in Entries : WF_vars(Publish(m))
    /\ WF_vars(Expire)

RenewSpec == Spec /\ RenewFairness

\* And the other tasks of the event loops run.
Fairness ==
    /\ RenewFairness
    /\ \A g \in Gateways :
         /\ WF_vars(Quiet(g) /\ AttachNext(g))
         /\ WF_vars(Quiet(g) /\ WaitNext(g))
         /\ WF_vars(Quiet(g) /\ ConsumerNext(g))

FairSpec == Spec /\ Fairness

-----------------------------------------------------------------------------
(* Properties *)

\* The variables keep their types.
TypeOK ==
    /\ lease \in Gateways \cup {None}
    /\ row \in Boxes \cup {Null}
    /\ box \in [Boxes -> {"unused", "running", "gone"}]
    /\ counter \in 0..Cardinality(Entries)
    /\ stream \subseteq [seq: Seqs, entry: Entries]
    /\ got \subseteq Entries
    /\ \A g \in Gateways :
         /\ gw[g].pc \in PCs /\ gw[g].live \in {"none", "NEW", "ACTIVE"}
         /\ gw[g].handle \in Boxes \cup {Null}
         /\ gw[g].live = "ACTIVE" => gw[g].handle # Null

Hosts == {g \in Gateways : gw[g].live = "ACTIVE" /\ box[gw[g].handle] = "running"}

\* What a host before it delivered, a kill command above all, is never ahead
\* of the cursor of a consumer that could read the counter when it started: a
\* takeover does not re-feed the retained stream, nor kill the session that it
\* just took over.
NoReplay ==
    \A g \in Gateways, m \in Entries :
        gw[g].feed.on = "on" /\ m \in gw[g].feed.base => pub[m].seq <= gw[g].feed.cur

\* A consumer that moves on to an entry skips no other that was appended in the
\* order of the numbers.
Skips(g, e) ==
    /\ gw[g].feed.on = "on" /\ gw'[g].feed.on = "on"
    /\ gw[g].feed.cur < e.seq /\ e.seq < gw'[g].feed.cur

NothingSkipped == [][\A g \in Gateways : \A e \in stream : Skips(g, e) => pub[e.entry].late]_vars

\* No entry is appended behind the cursor of a running consumer, which will not
\* read it.  This is false: another gateway's entry overtook it between its
\* number and its append, or the consumer started in between.
OvertakenTaken ==
    [][\A g \in Gateways : \A e \in stream' \ stream :
          gw[g].feed.on = "on" => e.seq > gw[g].feed.cur]_vars

\* Two gateways may come to host the session at the same time: both found it
\* unowned, or could not ask; a respawn was under way during a takeover.  But a
\* host does not go on for good while another gateway holds the lease: it is told
\* so.  Nothing is promised while nobody holds it: then every host keeps serving
\* (LeaseRegained).
Intruder(g) == g \in Hosts /\ lease \notin {None, g}

SplitBrainEnds == \A g \in Gateways : []<> ~ Intruder(g)

\* A host whose lease is gone regains it, or hosts the session no more.  This is
\* false: a lease that has run out cannot be renewed, and only attach claims.
LeaseRegained ==
    \A g \in Gateways : (g \in Hosts /\ lease = None) ~> (g \notin Hosts \/ lease # None)

=============================================================================
