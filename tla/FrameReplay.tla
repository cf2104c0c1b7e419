----------------------------- MODULE FrameReplay -----------------------------
(***************************************************************************)
(* Outbound chat frames of one session and their replay on reconnect:      *)
(* ChatManager._broadcast and the pump (app/chat/manager.py), stamp_frame  *)
(* (app/chat/frame_seq.py), the bounded replay stream, replay_since and    *)
(* GapReplayGate (app/chat/replay.py), the WebSocket route                 *)
(* (app/api/chat.py) and the browser's dedup by seq (static/js/chat.js).   *)
(*                                                                         *)
(* A frame is its sequence number, the incarnation of the counter that     *)
(* issued it, and what matters of its type.  Every place that orders       *)
(* frames sorts them by seq, so buffers are sets; the stream keeps append  *)
(* order, which is what eviction goes by.  The gate's pc is                *)
(*   off      no connection                                                *)
(*   loaded   openSession has fetched the history, the socket is not open  *)
(*   seated   the gate is a sink; replay_since has not peeked              *)
(*   peeked   the counter was ahead of last_seq; the stream is not read    *)
(*   decided  replay_since returned; gate.refresh, gate.extra hold what    *)
(*   flush    release() is sending a batch                                 *)
(*   open     passthrough                                                  *)
(*                                                                         *)
(* excused remembers which frames met one of the known holes of this       *)
(* protocol, and which hole:                                               *)
(*   seating      its _broadcast was under way when the gate of a client   *)
(*                with a last_seq was seated                               *)
(*   watermark    left to a turn buffer that does not have it              *)
(*   trimmed      trimmed from the stream before an older entry            *)
(*   redraw       wiped from the page by openSession, not yet in the       *)
(*                history                                                  *)
(*   unstored     wiped from the page, or not yet on it, when it was drawn *)
(*                from the history, which never gets it: a notice, or a    *)
(*                frame of a turn that ended without an assistant_message  *)
(*   unloaded     the same of a frame of the history, which could not be   *)
(*                loaded                                                   *)
(*   opening      not yet in the history when a client without last_seq    *)
(*                loaded it, nor in the turn buffer when its gate was      *)
(*                seated                                                   *)
(*   reloading    the same of seating, when the client was sent to its     *)
(*                history and that did not have the frame yet              *)
(*   cleared      dropped from the turn buffer by a new user message       *)
(*   unavailable  a call of the coordination backend failed                *)
(*                                                                         *)
(* Left out: approval and question cards, which the client exempts from    *)
(* dedup, and add_sink's unstamped history.                                *)
(***************************************************************************)
EXTENDS Integers, Sequences, FiniteSets

CONSTANTS
    Tasks,          \* tasks that broadcast
    Pump,           \* the one that pumps the runner's output
    STREAM_MAXLEN,  \* entries the replay stream retains
    MaxFrames,      \* bound on broadcasts
    MaxConnects,    \* bound on connections
    MaxFaults,      \* bound on failed calls, of the backend and of the page, and
                    \* losses of state together
    MaxFlushes      \* bound on losses of the backend's state alone

ASSUME ReplayAssumption ==
    /\ Pump \in Tasks
    /\ STREAM_MAXLEN \in Nat \ {0}
    /\ MaxFrames \in Nat /\ MaxConnects \in Nat /\ MaxFaults \in Nat /\ MaxFlushes \in Nat

VARIABLES
    counter,        \* chat-seq:{chat_id}
    epoch,          \* how often the backend lost its state
    stream,         \* chat-out:{chat_id}, in append order
    turn_buffer,    \* frames of the turn in progress
    unsaved,        \* frames of the turn in progress, whatever cleared the buffer
    unstored,       \* frames that will never be in the history
    task,           \* task -> its _broadcast call: [pc, frame, to]
    connects,       \* connections so far; the latest is the current one
    gate,           \* the current connection's GapReplayGate and route
    client,         \* the browser: last seq, frames applied and dropped
    blips,          \* calls that failed so far
    broadcasts,     \* frames _broadcast has stamped
    baseline,       \* frames the client has from its last load of the history
    excused         \* <<hole, frame>>: frames that met one of the known holes

vars == <<counter, epoch, stream, turn_buffer, unsaved, unstored, task, connects, gate, client,
          blips, broadcasts, baseline, excused>>

\* A frame within a turn (token, tool_call, tool_result), the assistant_message,
\* done, a frame of another task (error, cancelled, session_renamed), and what
\* only one connection gets.
Kinds == {"turn", "end", "done", "note", "ready", "full_refresh"}

Numbers == 1..(MaxFrames + 2 * MaxConnects)

Frames == [seq: Numbers, epoch: 0..MaxFlushes, kind: Kinds]

NoFrame == [seq |-> 0, epoch |-> 0, kind |-> "none"]

Holes == {"seating", "watermark", "trimmed", "redraw", "unstored", "unloaded", "opening",
          "reloading", "cleared", "unavailable"}

Resting == [pc |-> "idle", frame |-> NoFrame, to |-> 0]

Off == [pc |-> "off", buffer |-> {}, extra |-> {}, refresh |-> FALSE,
        batch |-> {}, done |-> {}]

Init ==
    /\ counter = 0 /\ epoch = 0 /\ stream = <<>>
    /\ turn_buffer = {} /\ unsaved = {} /\ unstored = {}
    /\ task = [t \in Tasks |-> Resting]
    /\ connects = 0
    /\ gate = Off
    /\ client = [last |-> 0, applied |-> {}, dropped |-> {}]
    /\ blips = 0
    /\ broadcasts = {} /\ baseline = {} /\ excused = {}

\* stamp_frame: the next number of the shared counter.
Stamped(kind) == [seq |-> counter + 1, epoch |-> epoch, kind |-> kind]

Count == counter' = counter + 1

\* The bound on broadcasts; the frames of a connection are always sent.
Room == Cardinality(broadcasts) < MaxFrames

\* A call raises CoordinationUnavailable.
Blip == blips + epoch < MaxFaults /\ blips' = blips + 1

-----------------------------------------------------------------------------
(* The browser: handleFrame *)

Dropped(f) == client.last # 0 /\ f.seq <= client.last

\* The page after a redraw: what was rendered is gone.
Redrawn(last) == [last |-> last, applied |-> {}, dropped |-> {}]

\* A frame not above the last seq is dropped.  full_refresh forgets the
\* last seq and redraws the page from the history.
Received(f) ==
    IF Dropped(f) THEN [client EXCEPT !.dropped = @ \cup {f}]
    ELSE IF f.kind = "full_refresh" THEN Redrawn(0)
    ELSE [client EXCEPT !.last = f.seq, !.applied = @ \cup {f}]

\* Frames whose broadcast has begun and not ended.
InFlight == {task[t].frame : t \in {u \in Tasks : task[u].pc \notin {"idle", "dead"}}}

\* What a load of the history gives the client: the frames that an
\* assistant_message sums up, once the pump has persisted it.
History == broadcasts \ (unsaved \cup unstored \cup InFlight)

Meet(hole, fs) == {hole} \X fs

\* Frames of the history, or never to be there, that the page does not show after
\* it was drawn.
Wiped(fs) == Meet("unstored", fs \cap unstored) \cup Meet("unloaded", fs \cap History)

Met(holes) == {f \in broadcasts : \E h \in holes : <<h, f>> \in excused}

-----------------------------------------------------------------------------
(* _broadcast: stamp and fan out under the lock, append after it *)

\* The lock is free, the frame is stamped and the sinks are listed.
Stamp(t, kind) ==
    /\ task[t].pc = "idle"
    /\ \A u \in Tasks : task[u].pc # "fanout"
    /\ Room /\ Count
    /\ task' = [task EXCEPT ![t] = [pc |-> "fanout", frame |-> Stamped(kind),
                                    to |-> IF gate.pc \in {"off", "loaded"} THEN 0 ELSE connects]]
    /\ broadcasts' = broadcasts \cup {Stamped(kind)}
    /\ UNCHANGED <<epoch, stream, turn_buffer, unsaved, unstored, connects, gate, client, blips, baseline, excused>>

\* Bug: passthrough begins before the flush has ended.
PassesThroughEarly == gate.pc \in {"flush", "open"}

PassesThrough == gate.pc = "open"

\* The sink's send_json: into the gate's buffer, or straight to the socket.
\* A connection that has gone since gets nothing.  The lock is released.
Deliver(t) ==
    LET f == task[t].frame
    IN  /\ task[t].pc = "fanout"
        /\ task' = [task EXCEPT ![t].pc = "append"]
        /\ IF task[t].to # connects \/ gate.pc = "off" THEN UNCHANGED <<gate, client>>
           ELSE IF PassesThrough THEN client' = Received(f) /\ UNCHANGED gate
           ELSE gate' = [gate EXCEPT !.buffer = @ \cup {f}] /\ UNCHANGED client
        /\ UNCHANGED <<counter, epoch, stream, turn_buffer, unsaved, unstored, connects, blips, broadcasts, baseline, excused>>

\* Bug: the trim runs before the append.
TrimmedBeforeAppend(s) == IF Len(s) > STREAM_MAXLEN + 1 THEN Tail(s) ELSE s

\* stream_append trims the entry appended first.
Trimmed(s) == IF Len(s) > STREAM_MAXLEN THEN Tail(s) ELSE s

\* An entry trimmed while one of a lower seq stays or is yet to come: appends
\* run outside the lock, in any order.
TrimmedOutOfOrder(s) ==
    {f \in {s[1]} : /\ Len(s) > STREAM_MAXLEN
                    /\ \E g \in {s[i] : i \in 2..Len(s)}
                               \cup {task[u].frame : u \in {v \in Tasks : task[v].pc = "append"}} :
                         g.seq < f.seq}

\* append_frame is best effort: a frame that is not appended is not replayed.
AppendFrame(t) ==
    LET s == Append(stream, task[t].frame)
    IN  /\ task[t].pc = "append"
        /\ task' = [task EXCEPT ![t].pc = "appended"]
        /\ \/ /\ stream' = Trimmed(s)
              /\ excused' = excused \cup Meet("trimmed", TrimmedOutOfOrder(s))
              /\ UNCHANGED blips
           \/ /\ Blip
              /\ excused' = excused \cup Meet("unavailable", {task[t].frame})
              /\ UNCHANGED stream
        /\ UNCHANGED <<counter, epoch, turn_buffer, unsaved, unstored, connects, gate, client, broadcasts, baseline>>

\* _broadcast returns; the pump keeps the turn buffer.  An assistant_message is
\* persisted; done, alone, ends the turn without that (cancelled, over its
\* budget, failed).
Finish(t) ==
    LET f == task[t].frame
    IN  /\ task[t].pc = "appended"
        /\ task' = [task EXCEPT ![t] = Resting]
        /\ CASE f.kind = "turn" -> /\ turn_buffer' = turn_buffer \cup {f}
                                   /\ unsaved' = unsaved \cup {f}
                                   /\ UNCHANGED unstored
             [] f.kind = "end" -> turn_buffer' = {} /\ unsaved' = {} /\ UNCHANGED unstored
             [] f.kind = "done" -> /\ turn_buffer' = {} /\ unsaved' = {}
                                   /\ unstored' = unstored \cup unsaved \cup {f}
             [] OTHER -> unstored' = unstored \cup {f} /\ UNCHANGED <<turn_buffer, unsaved>>
        /\ UNCHANGED <<counter, epoch, stream, connects, gate, client, blips, broadcasts, baseline, excused>>

\* stamp_frame raises in the pump's _broadcast: the pump task ends.
PumpDies ==
    /\ task[Pump].pc = "idle"
    /\ \A u \in Tasks : task[u].pc # "fanout"
    /\ Blip
    /\ task' = [task EXCEPT ![Pump] = [Resting EXCEPT !.pc = "dead"]]
    /\ UNCHANGED <<counter, epoch, stream, turn_buffer, unsaved, unstored, connects, gate, client,
                   broadcasts, baseline, excused>>

\* The runner ends in the middle of a turn: nobody persists that turn, and its
\* frames stay in the buffer.
RunnerEnds ==
    /\ task[Pump].pc \in {"idle", "dead"}
    /\ unsaved # {} /\ unsaved' = {}
    /\ unstored' = unstored \cup unsaved
    /\ UNCHANGED <<counter, epoch, stream, turn_buffer, task, connects, gate, client, blips,
                   broadcasts, baseline, excused>>

\* _deliver_local_user_message, once the runner's stdin has drained: the
\* buffer is cleared, whether or not a turn is in progress.
UserMessage ==
    /\ turn_buffer # {} /\ turn_buffer' = {}
    /\ UNCHANGED <<counter, epoch, stream, unsaved, unstored, task, connects, gate, client, blips,
                   broadcasts, baseline, excused>>

-----------------------------------------------------------------------------
(* (Re)connecting: load the history, seat the gate, compute the replay, release *)

\* A load of the history gets hs: all of it, or nothing, when the request fails,
\* and the page goes on.
Loaded(hs) == IF hs = History THEN UNCHANGED blips ELSE hs = {} /\ Blip

\* openSession wipes the page and loads the history.  On the same page the
\* last seq is kept, on a new one there is none.
Load ==
    /\ gate.pc = "off"
    /\ connects < MaxConnects /\ connects' = connects + 1
    /\ gate' = [Off EXCEPT !.pc = "loaded"]
    /\ \E last \in {0, client.last}, hs \in {{}, History} :
         /\ Loaded(hs)
         /\ client' = Redrawn(last)
         /\ baseline' = hs
         /\ LET wiped == {f \in broadcasts \ hs : f.seq <= last \/ (last = 0 /\ f \in History)}
            IN  excused' = excused \cup Wiped(wiped)
                             \cup Meet("redraw", wiped \ (unstored \cup History))
    /\ UNCHANGED <<counter, epoch, stream, turn_buffer, unsaved, unstored, task, broadcasts>>

\* Broadcasts a client without a last_seq gets neither from its history nor
\* from the turn buffer.
Unseen == IF client.last = 0 THEN broadcasts \ (baseline \cup turn_buffer) ELSE {}

\* The socket is open and attach() seats the gate: the turn buffer and a
\* ready frame of its own go into it.
Connect ==
    /\ gate.pc = "loaded"
    /\ Count
    /\ gate' = [Off EXCEPT !.pc = "seated", !.buffer = turn_buffer \cup {Stamped("ready")}]
    /\ excused' = excused \cup Meet("seating", InFlight \ Unseen)
                         \cup Meet("cleared", Unseen \cap unsaved)
                         \cup Meet("unstored", Unseen \cap unstored)
                         \cup Meet("opening", Unseen \ (unsaved \cup unstored \cup Met({"unloaded"})))
    /\ UNCHANGED <<epoch, stream, turn_buffer, unsaved, unstored, task, connects, client, blips,
                   broadcasts, baseline>>

Decide(extra, refresh) ==
    gate' = [gate EXCEPT !.pc = "decided", !.extra = extra, !.refresh = refresh]

\* replay_since, first half: where is the counter?
Peek ==
    /\ gate.pc = "seated"
    /\ IF client.last = 0 \/ counter = client.last THEN Decide({}, FALSE)
       ELSE IF counter < client.last THEN Decide({}, TRUE)
       ELSE gate' = [gate EXCEPT !.pc = "peeked"]
    /\ UNCHANGED <<counter, epoch, stream, turn_buffer, unsaved, unstored, task, connects, client, blips,
                   broadcasts, baseline, excused>>

Entries == {stream[i] : i \in 1..Len(stream)}

\* Bug: one evicted frame goes unnoticed.
EvictedButOne(last) == \A f \in Entries : last + 2 < f.seq

\* The oldest entry retained is past the client's next frame (or there is
\* no entry at all).
Evicted(last) == \A f \in Entries : last + 1 < f.seq

\* Second half: the retained entries past last_seq, unless some were evicted.
Read ==
    /\ gate.pc = "peeked"
    /\ IF Evicted(client.last) THEN Decide({}, TRUE)
       ELSE Decide({f \in Entries : f.seq > client.last}, FALSE)
    /\ UNCHANGED <<counter, epoch, stream, turn_buffer, unsaved, unstored, task, connects, client, blips,
                   broadcasts, baseline, excused>>

\* Either call raises: no replay is attempted.
ReplaySkipped ==
    /\ gate.pc = "peeked" \/ (gate.pc = "seated" /\ client.last # 0)
    /\ Blip
    /\ Decide({}, FALSE)
    /\ excused' = excused \cup Meet("unavailable", broadcasts)
    /\ UNCHANGED <<counter, epoch, stream, turn_buffer, unsaved, unstored, task, connects, client, broadcasts,
                   baseline>>

\* full_refresh goes past the gate, straight to the socket.
SendRefresh ==
    /\ gate.pc = "decided" /\ gate.refresh
    /\ Count
    /\ client' = Received(Stamped("full_refresh"))
    /\ IF Dropped(Stamped("full_refresh")) THEN UNCHANGED <<baseline, blips, excused>>
       ELSE \E hs \in {{}, History} :
              /\ Loaded(hs)
              /\ baseline' = hs
              /\ excused' = excused \cup Meet("cleared", unsaved \ (turn_buffer \cup gate.buffer))
                                   \cup Wiped(broadcasts \ (hs \cup gate.buffer))
                                   \cup Meet("reloading", Met({"seating"}) \ (hs \cup gate.buffer))
    /\ gate' = [gate EXCEPT !.refresh = FALSE]
    /\ UNCHANGED <<epoch, stream, turn_buffer, unsaved, unstored, task, connects, broadcasts>>

\* Entries at or past the turn buffer's first frame are left to the buffer.
Replayed == {f \in gate.extra : \A b \in turn_buffer : f.seq < b.seq}

\* _order: sort by seq, one frame per seq, none sent before; the first to
\* arrive wins.
Fresh(fs) ==
    {f \in fs : /\ f.seq \notin gate.done
                /\ \A g \in fs : g.seq = f.seq => g.epoch >= f.epoch}

Seqs(fs) == {f.seq : f \in fs}

StartBatch(fs) ==
    gate' = [gate EXCEPT !.pc = "flush", !.extra = {}, !.buffer = {},
                         !.batch = Fresh(fs), !.done = @ \cup Seqs(fs)]

\* Entries left to a buffer that does not have them.
Skipped == gate.extra \ (Replayed \cup gate.buffer)

\* release() takes the buffer for its first batch.
Release ==
    /\ gate.pc = "decided" /\ ~ gate.refresh
    /\ StartBatch(Replayed \cup gate.buffer)
    /\ excused' = excused \cup Meet("watermark", Skipped)
    /\ UNCHANGED <<counter, epoch, stream, turn_buffer, unsaved, unstored, task, connects, client, blips,
                   broadcasts, baseline>>

Flush ==
    /\ gate.pc = "flush"
    /\ \E f \in gate.batch :
         /\ \A g \in gate.batch : f.seq <= g.seq
         /\ client' = Received(f)
         /\ gate' = [gate EXCEPT !.batch = @ \ {f}]
    /\ UNCHANGED <<counter, epoch, stream, turn_buffer, unsaved, unstored, task, connects, blips, broadcasts, baseline, excused>>

\* Bug: release() goes on draining an empty buffer.
DrainForever ==
    /\ gate.pc = "flush" /\ gate.batch = {}
    /\ gate.buffer # {}
    /\ StartBatch(gate.buffer)
    /\ UNCHANGED <<counter, epoch, stream, turn_buffer, unsaved, unstored, task, connects, client, blips,
                   broadcasts, baseline, excused>>

\* The batch is sent: another one, or passthrough if the buffer is empty.
Drain ==
    /\ gate.pc = "flush" /\ gate.batch = {}
    /\ IF gate.buffer = {} THEN gate' = [gate EXCEPT !.pc = "open"]
                           ELSE StartBatch(gate.buffer)
    /\ UNCHANGED <<counter, epoch, stream, turn_buffer, unsaved, unstored, task, connects, client, blips,
                   broadcasts, baseline, excused>>

\* The connection breaks.  What the server still sends to it is lost.
Disconnect ==
    /\ gate.pc # "off"
    /\ gate' = Off
    /\ UNCHANGED <<counter, epoch, stream, turn_buffer, unsaved, unstored, task, connects, client, blips,
                   broadcasts, baseline, excused>>

\* The backend loses the counter and the stream (FLUSHALL).
BackendFlush ==
    /\ epoch < MaxFlushes /\ blips + epoch < MaxFaults /\ epoch' = epoch + 1
    /\ counter' = 0 /\ stream' = <<>>
    /\ UNCHANGED <<turn_buffer, unsaved, unstored, task, connects, gate, client, blips, broadcasts, baseline, excused>>

-----------------------------------------------------------------------------

PumpFrame == Stamp(Pump, "turn") \/ Stamp(Pump, "end") \/ Stamp(Pump, "done")

Notice == \E t \in Tasks \ {Pump} : Stamp(t, "note")

TaskNext(t) == Deliver(t) \/ AppendFrame(t) \/ Finish(t)

GateNext == Peek \/ Read \/ SendRefresh \/ Release \/ Flush \/ Drain

Next ==
    \/ PumpFrame
    \/ PumpDies
    \/ RunnerEnds
    \/ UserMessage
    \/ Notice
    \/ \E t \in Tasks : TaskNext(t)
    \/ Load
    \/ Connect
    \/ GateNext
    \/ ReplaySkipped
    \/ Disconnect
    \/ BackendFlush

Spec == Init /\ [][Next]_vars

\* The event loop runs the task of the connection; calls of the backend return.
Fairness == WF_vars(GateNext)

FairSpec == Spec /\ Fairness

-----------------------------------------------------------------------------
(* Properties *)

\* The variables keep their types; the stream its bound.
TypeOK ==
    /\ counter \in Numbers \cup {0} /\ epoch \in 0..MaxFlushes
    /\ stream \in Seq(Frames) /\ Len(stream) <= STREAM_MAXLEN
    /\ turn_buffer \cup unsaved \cup unstored \subseteq Frames
    /\ broadcasts \subseteq Frames /\ baseline \subseteq Frames
    /\ excused \subseteq Holes \X Frames
    /\ task \in [Tasks -> [pc: {"idle", "fanout", "append", "appended", "dead"},
                           frame: Frames \cup {NoFrame}, to: 0..MaxConnects]]
    /\ connects \in 0..MaxConnects /\ blips \in 0..MaxFaults
    /\ gate.pc \in {"off", "loaded", "seated", "peeked", "decided", "flush", "open"}
    /\ gate.buffer \cup gate.extra \cup gate.batch \subseteq Frames
    /\ client.last \in Numbers \cup {0}
    /\ client.applied \cup client.dropped \subseteq Frames

\* Frames whose fan-out is over.
FannedOut == broadcasts \ {task[t].frame : t \in {u \in Tasks : task[u].pc = "fanout"}}

\* What the page shows: the history it loaded and the frames since.
Shown == client.applied \cup baseline

\* Once the gate is open the page shows every broadcast that met none of the
\* given holes.
CompleteBut(holes) == gate.pc = "open" => FannedOut \subseteq Shown \cup Met(holes)

\* Once the gate is open, the page shows every broadcast: those of the gap,
\* from the stream or from the turn buffer, and those broadcast while the
\* gate was seated, replaying or flushing (ws_stream, replay_since and
\* GapReplayGate together), the known holes excepted, as long as the backend
\* keeps its state.
GapClosed == epoch = 0 => CompleteBut(Holes)

\* The client's dedup by seq drops only frames that the page shows, the known
\* holes excepted: the gate never lets a frame overtake an earlier one, as long
\* as the backend keeps its state.
OnlyDuplicatesDropped == epoch = 0 => client.dropped \subseteq Shown \cup Met(Holes)

\* A connection that stays gets to passthrough: release() sends what came in
\* while it was sending, batch after batch, and ends.
GateOpens == gate.pc = "seated" ~> gate.pc \in {"open", "off"}

\* "full_refresh=False -- frames (possibly empty) is exactly what to resend,
\* in order, before resuming live delivery" (ReplayOutcome, app/chat/replay.py):
\* a frame whose broadcast is under way at the reconnect is not lost.
NoSilentGap == CompleteBut(Holes \ {"seating"})

\* A counter that is behind last_seq "restarted and the client must fall back
\* to a full history refresh" (peek_seq, app/chat/frame_seq.py): the client
\* takes the full_refresh it is sent.
RefreshTaken == \A f \in client.dropped : f.kind # "full_refresh"

=============================================================================
