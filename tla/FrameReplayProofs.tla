----------------------------- MODULE FrameReplayProofs ------------------------
(***************************************************************************)
(* Proofs about FrameReplay: once the gate of a connection is open the     *)
(* page shows every frame that met none of the known holes, and the        *)
(* browser's dedup drops only what the page shows, for any number of       *)
(* broadcasting tasks, frames, connections and failed calls and any        *)
(* length of the replay stream.                                            *)
(***************************************************************************)
EXTENDS FrameReplay, FiniteSetTheorems, TLAPS

\* What _broadcast stamps: neither ready nor full_refresh.
Broadcast == {"turn", "end", "done", "note"}

\* The connection is seated and has not begun to flush.
Waiting == gate.pc \in {"seated", "peeked", "decided"}

\* The gate has a sink in the session.
Listening == gate.pc \notin {"off", "loaded"}

\* What the gate holds back, and what it is sending.
Held == gate.buffer \cup gate.batch

\* What the page shows or met a known hole.
Safe == Shown \cup Met(Holes)

\* The _broadcast of t is under way.
Active(t) == task[t].pc \notin {"idle", "dead"}

\* The frame of t is not in the stream yet.
Pending(t) == task[t].pc \in {"fanout", "append"}

\* t has stamped its frame for the current gate and not delivered it.
Going(t) == task[t].pc = "fanout" /\ task[t].to = connects

-----------------------------------------------------------------------------
(* Types and numbers, across losses of the backend's state *)

\* Frames that the current connection may still stamp.
Owed == IF gate.pc = "loaded" THEN 2
        ELSE IF gate.pc \in {"seated", "peeked"} \/ gate.refresh THEN 1 ELSE 0

\* The types of the gate, the client and the tasks.
Gates == [pc: {"off", "loaded", "seated", "peeked", "decided", "flush", "open"},
          buffer: SUBSET Frames, extra: SUBSET Frames, refresh: BOOLEAN,
          batch: SUBSET Frames, done: SUBSET Nat]

Clients == [last: Nat, applied: SUBSET Frames, dropped: SUBSET Frames]

TaskStates == [pc: {"idle", "fanout", "append", "appended", "dead"},
               frame: Frames \cup {NoFrame}, to: 0..MaxConnects]

\* The variables keep their types; the counter's bound is Counted's.
Typed ==
    /\ counter \in Nat /\ epoch \in 0..MaxFlushes
    /\ stream \in Seq(Frames) /\ Len(stream) <= STREAM_MAXLEN
    /\ turn_buffer \subseteq Frames /\ unsaved \subseteq Frames /\ unstored \subseteq Frames
    /\ broadcasts \subseteq Frames /\ baseline \subseteq Frames
    /\ excused \subseteq Holes \X Frames
    /\ task \in [Tasks -> TaskStates]
    /\ connects \in 0..MaxConnects /\ blips \in 0..MaxFaults
    /\ gate \in Gates /\ client \in Clients
    /\ client.last \in Numbers \cup {0}
    /\ \A t \in Tasks : Active(t) => task[t].frame \in broadcasts

\* A number is issued per broadcast, and at most two per connection.
Counted ==
    /\ IsFiniteSet(broadcasts) /\ Cardinality(broadcasts) <= MaxFrames
    /\ counter + Owed <= Cardinality(broadcasts) + 2 * connects
    /\ gate.refresh => gate.pc = "decided"
    /\ \A f \in broadcasts : f.epoch <= epoch /\ (f.epoch = epoch => f.seq <= counter)

-----------------------------------------------------------------------------
(* As long as the backend keeps its state *)

\* A number belongs to one frame; the frame under the lock has the highest.
FramesInv ==
    /\ turn_buffer \cup unsaved \cup unstored \cup Entries \cup baseline \cup gate.extra \subseteq broadcasts
    /\ \A f \in broadcasts : f.epoch = 0 /\ f.seq <= counter /\ f.kind \in Broadcast
    /\ \A f, g \in broadcasts : f.seq = g.seq => f = g
    /\ \A t, u \in Tasks : Active(t) /\ Active(u) /\ task[t].frame = task[u].frame => t = u
    /\ \A t \in Tasks : task[t].pc = "fanout" => \A f \in broadcasts : f.seq <= task[t].frame.seq
    /\ \A t \in Tasks : Pending(t) => task[t].frame \notin Entries \cup gate.extra
    /\ client.last <= counter

\* f has left the stream before all that is in it or is yet to come.
Gone(f) == /\ \A g \in Entries : f.seq < g.seq
           /\ \A t \in Tasks : Pending(t) => f.seq < task[t].frame.seq

\* Eviction goes by seq but for the frames that met the hole trimmed.
StreamInv ==
    \A f \in broadcasts : \/ f \in Met(Holes) \cup Entries \/ Gone(f)
                          \/ \E t \in Tasks : Pending(t) /\ task[t].frame = f

\* What the gate holds, and in which order it comes.
GateInv ==
    /\ ~ Listening => Held = {}
    /\ gate.pc = "loaded" => connects > 0 /\ \A t \in Tasks : ~ Going(t)
    /\ \A t \in Tasks : task[t].to <= connects
    /\ gate.pc # "flush" => gate.batch = {}
    /\ gate.pc = "open" => gate.buffer = {}
    /\ Waiting => gate.done = {} /\ client.last < counter
    /\ gate.pc # "decided" => gate.extra = {}
    /\ \A n \in gate.done : n <= counter
    /\ \A f \in Held : f.epoch = 0 /\ f.seq <= counter /\ f.kind # "full_refresh"
    /\ \A f \in Held, g \in Held \cup broadcasts : f.seq = g.seq => f = g
    /\ gate.pc = "flush" => \A f \in gate.buffer : /\ f.seq > client.last /\ f.seq \notin gate.done
                                                   /\ \A g \in gate.batch : g.seq < f.seq
    /\ Listening => \A t \in Tasks : Going(t) =>
          /\ client.last < task[t].frame.seq
          /\ \A f \in Held : f.seq < task[t].frame.seq
          /\ \A n \in gate.done : n < task[t].frame.seq

\* What the client will drop it has, or it met a hole.
DropInv ==
    /\ client.dropped \subseteq Safe
    /\ gate.pc = "loaded" \/ Waiting => \A f \in broadcasts : f.seq <= client.last => f \in Safe
    /\ \A f \in Held : f.seq <= client.last => f \in Safe

\* What is under way or in the turn buffer, the waiting gate has or gets.
BufferInv ==
    Waiting => \A f \in turn_buffer \cup InFlight :
                 f \in gate.buffer \cup Met(Holes) \/ \E t \in Tasks : Going(t) /\ task[t].frame = f

\* f has reached the client or will reach it through the gate.
Due(f) ==
    \/ f \in Safe \cup Held
    \/ \E t \in Tasks : Going(t) /\ task[t].frame = f
    \/ gate.pc = "decided" /\ (gate.refresh \/ f \in gate.extra)
    \/ /\ gate.pc \in {"seated", "peeked"} /\ client.last # 0 /\ client.last < f.seq
       /\ f \in Entries \/ Gone(f)

\* Nothing is lost to a connection that listens.
DueInv == Listening => \A f \in broadcasts : Due(f)

\* The invariant while the backend keeps its state,
ReplayInv == FramesInv /\ StreamInv /\ GateInv /\ DropInv /\ BufferInv /\ DueInv

\* and the one of all behaviours.
FullInv == Typed /\ Counted /\ (epoch = 0 => ReplayInv)

-----------------------------------------------------------------------------
(* The client, the gate and the numbers *)

\* What handleFrame does with a frame.
LEMMA ReceivedIs ==
    ASSUME client \in Clients, NEW f \in Frames
    PROVE  /\ f.seq <= client.last =>
                Received(f) = [last |-> client.last, applied |-> client.applied,
                               dropped |-> client.dropped \cup {f}]
           /\ ~ (f.seq <= client.last) /\ f.kind = "full_refresh" =>
                Received(f) = [last |-> 0, applied |-> {}, dropped |-> {}]
           /\ ~ (f.seq <= client.last) /\ f.kind # "full_refresh" =>
                Received(f) = [last |-> f.seq, applied |-> client.applied \cup {f},
                               dropped |-> client.dropped]
<1>1. f.seq \in Nat \ {0} /\ client.last \in Nat
  BY ReplayAssumption DEF Frames, Numbers, Clients
<1>2. Dropped(f) <=> f.seq <= client.last
  BY <1>1 DEF Dropped
<1>3. ASSUME f.seq <= client.last
      PROVE  Received(f) = [last |-> client.last, applied |-> client.applied, dropped |-> client.dropped \cup {f}]
  BY <1>2, <1>3 DEF Received, Clients
<1>4. ASSUME ~ (f.seq <= client.last), f.kind = "full_refresh"
      PROVE  Received(f) = [last |-> 0, applied |-> {}, dropped |-> {}]
  BY <1>2, <1>4 DEF Received, Redrawn
<1>5. ASSUME ~ (f.seq <= client.last), f.kind # "full_refresh"
      PROVE  Received(f) = [last |-> f.seq, applied |-> client.applied \cup {f}, dropped |-> client.dropped]
  BY <1>2, <1>5 DEF Received, Clients
<1> QED
  BY <1>3, <1>4, <1>5

\* The client keeps its type.
LEMMA ReceivedTyped ==
    ASSUME client \in Clients, client.last \in Numbers \cup {0}, NEW f \in Frames
    PROVE  Received(f) \in Clients /\ Received(f).last \in Numbers \cup {0}
<1>1. f.seq \in Numbers /\ f.seq \in Nat /\ client.applied \subseteq Frames /\ client.dropped \subseteq Frames
      /\ client.last \in Nat
  BY ReplayAssumption DEF Frames, Numbers, Clients
<1>2. CASE f.seq <= client.last
  BY <1>1, <1>2, ReceivedIs DEF Clients
<1>3. CASE ~ (f.seq <= client.last) /\ f.kind = "full_refresh"
  BY <1>1, <1>3, ReceivedIs DEF Clients
<1>4. CASE ~ (f.seq <= client.last) /\ f.kind # "full_refresh"
  BY <1>1, <1>4, ReceivedIs DEF Clients
<1> QED
  BY <1>2, <1>3, <1>4

\* A stamped frame is a frame.
LEMMA StampedTyped ==
    ASSUME Typed, NEW kind \in Kinds, counter + 1 <= MaxFrames + 2 * MaxConnects
    PROVE  Stamped(kind) \in Frames
<1>1. counter + 1 \in Numbers
  BY ReplayAssumption DEF Typed, Numbers
<1> QED
  BY <1>1 DEF Typed, Stamped, Frames

\* The numbers left when a frame is stamped.
LEMMA NumbersLeft ==
    ASSUME Typed, Counted
    PROVE  /\ counter + Owed <= MaxFrames + 2 * MaxConnects
           /\ Room => counter + Owed + 1 <= MaxFrames + 2 * MaxConnects
           /\ counter \in Numbers \cup {0}
<1>1. Cardinality(broadcasts) \in Nat
  BY FS_CardinalityType DEF Counted
<1>2. counter \in Nat /\ connects \in Nat /\ connects <= MaxConnects /\ MaxConnects \in Nat /\ MaxFrames \in Nat
  BY ReplayAssumption DEF Typed
<1>3. Owed \in 0..2
  BY DEF Owed
<1>4. counter + Owed <= Cardinality(broadcasts) + 2 * connects /\ Cardinality(broadcasts) <= MaxFrames
  BY DEF Counted
<1>5. counter + Owed <= MaxFrames + 2 * MaxConnects
  BY <1>1, <1>2, <1>3, <1>4
<1>6. Room => counter + Owed + 1 <= MaxFrames + 2 * MaxConnects
  BY <1>1, <1>2, <1>3, <1>4 DEF Room
<1>7. counter \in Numbers \cup {0}
  BY <1>2, <1>3, <1>5 DEF Numbers
<1> QED
  BY <1>5, <1>6, <1>7

\* A new broadcast adds one to their number.
LEMMA BroadcastCounts ==
    ASSUME Typed, Counted, Room, NEW kind, broadcasts' = broadcasts \cup {Stamped(kind)}
    PROVE  /\ IsFiniteSet(broadcasts') /\ Cardinality(broadcasts') <= MaxFrames
           /\ Cardinality(broadcasts') = Cardinality(broadcasts) + 1
<1>1. Stamped(kind) \notin broadcasts
  BY DEF Typed, Counted, Stamped
<1>2. Cardinality(broadcasts) \in Nat
  BY FS_CardinalityType DEF Counted
<1>3. IsFiniteSet(broadcasts') /\ Cardinality(broadcasts') = Cardinality(broadcasts) + 1
  BY <1>1, FS_AddElement DEF Counted
<1> QED
  BY <1>2, <1>3, ReplayAssumption DEF Room

-----------------------------------------------------------------------------
(* Types *)

\* Both hold initially.
LEMMA InitTyped == Init => Typed /\ Counted
<1> SUFFICES ASSUME Init PROVE Typed /\ Counted
  OBVIOUS
<1>1. NoFrame \in Frames \cup {NoFrame} /\ Resting \in TaskStates
  BY ReplayAssumption DEF Resting, TaskStates
<1>2. Off \in Gates
  BY DEF Off, Gates
<1>3. client \in Clients /\ client.last = 0
  BY DEF Init, Clients
<1>4. \A t \in Tasks : ~ Active(t)
  BY DEF Init, Active, Resting
<1>5. Typed
  BY <1>1, <1>2, <1>3, <1>4, ReplayAssumption DEF Init, Typed
<1>6. IsFiniteSet(broadcasts) /\ Cardinality(broadcasts) = 0
  BY FS_EmptySet DEF Init
<1>7. Owed = 0 /\ ~ gate.refresh
  BY DEF Init, Owed, Off
<1>8. Counted
  BY <1>6, <1>7, ReplayAssumption DEF Init, Counted
<1> QED
  BY <1>5, <1>8

\* The trimmed stream: what is in it, and what leaves it.
LEMMA AppendIs ==
    ASSUME Typed, NEW x \in Frames
    PROVE  LET s == Append(stream, x)
           IN  /\ s \in Seq(Frames) /\ Len(s) = Len(stream) + 1
               /\ Trimmed(s) \in Seq(Frames) /\ Len(Trimmed(s)) <= STREAM_MAXLEN
               /\ TrimmedOutOfOrder(s) \subseteq Frames
<1> DEFINE s == Append(stream, x)
<1>1. s \in Seq(Frames) /\ Len(s) = Len(stream) + 1 /\ s # <<>>
  BY DEF Typed
<1>2. Tail(s) \in Seq(Frames) /\ Len(Tail(s)) = Len(s) - 1
  BY <1>1
<1>3. STREAM_MAXLEN \in Nat /\ Len(stream) \in Nat /\ Len(stream) <= STREAM_MAXLEN
  BY ReplayAssumption DEF Typed
<1>4. Trimmed(s) \in Seq(Frames) /\ Len(Trimmed(s)) <= STREAM_MAXLEN
  BY <1>1, <1>2, <1>3 DEF Trimmed
<1>5. s[1] \in Frames
  <2>1. 1 \in 1..Len(s)
    BY <1>1, <1>3
  <2> QED
    BY <1>1, <2>1
<1>6. TrimmedOutOfOrder(s) \subseteq Frames
  BY <1>5 DEF TrimmedOutOfOrder
<1> QED
  BY <1>1, <1>4, <1>6

\* Holes keep their type.
LEMMA MetTyped == ASSUME Typed, NEW h \in Holes, NEW fs, fs \subseteq Frames, NEW e, e \subseteq Holes \X Frames
                  PROVE  e \cup Meet(h, fs) \subseteq Holes \X Frames
BY DEF Meet

\* The names of the holes.
LEMMA HolesAre == /\ "seating" \in Holes /\ "watermark" \in Holes /\ "trimmed" \in Holes /\ "redraw" \in Holes
                  /\ "unstored" \in Holes /\ "unloaded" \in Holes /\ "opening" \in Holes /\ "reloading" \in Holes
                  /\ "cleared" \in Holes /\ "unavailable" \in Holes
BY DEF Holes

\* What a redraw of the page wipes meets two of them.
LEMMA WipedTyped == ASSUME Typed, NEW fs, fs \subseteq Frames, NEW e, e \subseteq Holes \X Frames
                    PROVE  e \cup Wiped(fs) \subseteq Holes \X Frames
<1>1. e \cup Meet("unstored", fs \cap unstored) \subseteq Holes \X Frames
  BY HolesAre, MetTyped
<1> QED
  BY <1>1, HolesAre, MetTyped DEF Wiped

\* A load gives the page nothing that was not broadcast.
LEMMA LoadedTyped == ASSUME Typed, NEW hs, hs \in {{}, History}, Loaded(hs)
                     PROVE  hs \subseteq broadcasts /\ hs \subseteq Frames /\ blips' \in 0..MaxFaults
<1>1. hs \subseteq broadcasts /\ hs \subseteq Frames
  BY DEF History, Typed
<1>2. CASE UNCHANGED blips
  BY <1>1, <1>2 DEF Typed
<1>3. CASE Blip
  BY <1>1, <1>3, ReplayAssumption DEF Typed, Blip
<1> QED
  BY <1>2, <1>3 DEF Loaded

\* What is under way has been stamped.
LEMMA InFlightTyped == ASSUME Typed PROVE InFlight \subseteq broadcasts
BY DEF Typed, InFlight, Active

\* A task moves on or stamps a frame.
LEMMA TaskMoves ==
    ASSUME Typed, NEW t \in Tasks, NEW x \in TaskStates, task' = [task EXCEPT ![t] = x],
           x.pc \notin {"idle", "dead"} => x.frame \in broadcasts', broadcasts \subseteq broadcasts'
    PROVE  /\ task' \in [Tasks -> TaskStates]
           /\ (\A u \in Tasks : Active(u) => task[u].frame \in broadcasts)'
<1>1. task' \in [Tasks -> TaskStates]
  BY DEF Typed
<1>2. ASSUME NEW u \in Tasks, task'[u].pc \notin {"idle", "dead"} PROVE task'[u].frame \in broadcasts'
  BY <1>2 DEF Typed, Active
<1> QED
  BY <1>1, <1>2 DEF Active

\* Types and numbers when a frame is stamped under the lock,
LEMMA StampTyped ==
    ASSUME Typed, Counted, NEW t \in Tasks, NEW kind \in Broadcast, Stamp(t, kind)
    PROVE  Typed' /\ Counted'
<1> DEFINE x == [pc |-> "fanout", frame |-> Stamped(kind), to |-> IF gate.pc \in {"off", "loaded"} THEN 0 ELSE connects]
<1>1. Stamped(kind) \in Frames
  <2>1. Owed \in 0..2 /\ counter \in Nat /\ counter + Owed + 1 <= MaxFrames + 2 * MaxConnects
    BY NumbersLeft DEF Stamp, Owed, Typed
  <2>2. counter + 1 <= MaxFrames + 2 * MaxConnects
    BY <2>1, ReplayAssumption
  <2> QED
    BY <2>2, StampedTyped DEF Broadcast, Kinds
<1>2. x \in TaskStates
  BY <1>1, ReplayAssumption DEF TaskStates, Typed
<1>3. broadcasts' = broadcasts \cup {Stamped(kind)} /\ task' = [task EXCEPT ![t] = x] /\ x.frame = Stamped(kind)
  BY DEF Stamp
<1> HIDE DEF x
<1>4. task' \in [Tasks -> TaskStates] /\ (\A u \in Tasks : Active(u) => task[u].frame \in broadcasts)'
  BY <1>2, <1>3, TaskMoves
<1>5. Typed'
  BY <1>1, <1>3, <1>4 DEF Stamp, Count, Typed
<1>6. IsFiniteSet(broadcasts') /\ Cardinality(broadcasts') <= MaxFrames /\ Cardinality(broadcasts') = Cardinality(broadcasts) + 1
  BY <1>3, BroadcastCounts DEF Stamp
<1>7. Owed' = Owed /\ Owed \in 0..2
  BY DEF Stamp, Owed
<1>8. Cardinality(broadcasts) \in Nat /\ counter \in Nat /\ connects \in Nat /\ counter' = counter + 1 /\ connects' = connects
  BY FS_CardinalityType DEF Counted, Typed, Stamp, Count
<1>9. counter' + Owed' <= Cardinality(broadcasts') + 2 * connects'
  BY <1>6, <1>7, <1>8 DEF Counted
<1>10. ASSUME NEW f \in broadcasts' PROVE f.epoch <= epoch' /\ (f.epoch = epoch' => f.seq <= counter')
  <2>1. CASE f = Stamped(kind)
    BY <2>1, <1>8 DEF Stamped, Typed, Stamp
  <2>2. CASE f \in broadcasts
    <3>1. f.seq \in Nat
      BY <2>2 DEF Typed, Frames, Numbers
    <3> QED
      BY <2>2, <3>1, <1>8 DEF Counted, Stamp
  <2> QED
    BY <1>3, <2>1, <2>2
<1> QED
  BY <1>5, <1>6, <1>9, <1>10 DEF Counted, Stamp

\* Counted, when nothing is stamped that was not owed.
LEMMA CountKept ==
    ASSUME Typed, Counted, UNCHANGED <<epoch, broadcasts>>, counter' \in Nat, counter <= counter',
           counter' + Owed' <= Cardinality(broadcasts) + 2 * connects', connects' \in Nat,
           gate'.refresh => gate'.pc = "decided"
    PROVE  Counted'
<1>1. counter \in Nat /\ connects \in Nat /\ Cardinality(broadcasts) \in Nat /\ Owed \in Nat /\ Owed' \in Nat
  BY FS_CardinalityType DEF Typed, Counted, Owed
<1>2. counter' + Owed' <= Cardinality(broadcasts') + 2 * connects'
  OBVIOUS
<1>3. \A f \in broadcasts : f.seq \in Nat
  BY DEF Typed, Frames, Numbers
<1> QED
  BY <1>1, <1>2, <1>3 DEF Counted

\* Counted, of steps of the tasks and of the faults.
LEMMA CountSame ==
    ASSUME Typed, Counted, UNCHANGED <<counter, epoch, broadcasts, connects>>,
           gate'.pc = gate.pc /\ gate'.refresh = gate.refresh
    PROVE  Counted'
<1>1. Owed' = Owed /\ Owed \in Nat
  BY DEF Owed
<1>2. counter \in Nat /\ connects \in Nat
  BY DEF Typed
<1>3. gate'.refresh => gate'.pc = "decided"
  BY DEF Counted
<1>4. counter' + Owed' <= Cardinality(broadcasts) + 2 * connects'
  BY <1>1 DEF Counted
<1> QED
  BY <1>1, <1>2, <1>3, <1>4, CountKept

\* when a sink takes it,
LEMMA DeliverTyped ==
    ASSUME Typed, Counted, NEW t \in Tasks, Deliver(t)
    PROVE  Typed' /\ Counted'
<1> DEFINE x == [task[t] EXCEPT !.pc = "append"]
<1>1. task[t] \in TaskStates /\ task[t].frame \in broadcasts /\ task[t].frame \in Frames
  BY DEF Deliver, Typed, Active
<1>2. x \in TaskStates /\ x.frame = task[t].frame /\ task' = [task EXCEPT ![t] = x]
  BY <1>1 DEF Deliver, TaskStates, Typed
<1> HIDE DEF x
<1>3. task' \in [Tasks -> TaskStates] /\ (\A u \in Tasks : Active(u) => task[u].frame \in broadcasts)'
  BY <1>1, <1>2, TaskMoves DEF Deliver
<1>4. /\ gate' \in Gates /\ gate'.pc = gate.pc /\ gate'.refresh = gate.refresh
      /\ client' \in Clients /\ client'.last \in Numbers \cup {0}
  <2>1. CASE UNCHANGED <<gate, client>>
    BY <2>1 DEF Typed
  <2>2. CASE client' = Received(task[t].frame) /\ UNCHANGED gate
    BY <2>2, <1>1, ReceivedTyped DEF Typed
  <2>3. CASE gate' = [gate EXCEPT !.buffer = @ \cup {task[t].frame}] /\ UNCHANGED client
    BY <2>3, <1>1 DEF Typed, Gates
  <2> QED
    BY <2>1, <2>2, <2>3 DEF Deliver
<1>5. Typed'
  BY <1>3, <1>4 DEF Deliver, Typed
<1>6. Counted'
  BY <1>4, CountSame DEF Deliver
<1> QED
  BY <1>5, <1>6

\* when it is appended to the stream or is not,
LEMMA AppendTyped ==
    ASSUME Typed, Counted, NEW t \in Tasks, AppendFrame(t)
    PROVE  Typed' /\ Counted'
<1> DEFINE x == [task[t] EXCEPT !.pc = "appended"]
           s == Append(stream, task[t].frame)
<1>1. task[t] \in TaskStates /\ task[t].frame \in broadcasts /\ task[t].frame \in Frames
  BY DEF AppendFrame, Typed, Active
<1>2. x \in TaskStates /\ x.frame = task[t].frame /\ task' = [task EXCEPT ![t] = x]
  BY <1>1 DEF AppendFrame, TaskStates, Typed
<1> HIDE DEF x
<1>3. task' \in [Tasks -> TaskStates] /\ (\A u \in Tasks : Active(u) => task[u].frame \in broadcasts)'
  BY <1>1, <1>2, TaskMoves DEF AppendFrame
<1>4. /\ stream' \in Seq(Frames) /\ Len(stream') <= STREAM_MAXLEN
      /\ excused' \subseteq Holes \X Frames /\ blips' \in 0..MaxFaults
  <2>1. CASE stream' = Trimmed(s) /\ excused' = excused \cup Meet("trimmed", TrimmedOutOfOrder(s)) /\ UNCHANGED blips
    <3>1. TrimmedOutOfOrder(s) \subseteq Frames /\ Trimmed(s) \in Seq(Frames) /\ Len(Trimmed(s)) <= STREAM_MAXLEN
      BY <1>1, AppendIs
    <3>2. excused \subseteq Holes \X Frames /\ "trimmed" \in Holes
      BY HolesAre DEF Typed
    <3>3. excused' \subseteq Holes \X Frames
      BY <2>1, <3>1, <3>2, MetTyped
    <3> QED
      BY <2>1, <3>1, <3>3 DEF Typed
  <2>2. CASE Blip /\ excused' = excused \cup Meet("unavailable", {task[t].frame}) /\ UNCHANGED stream
    <3>1. excused' \subseteq Holes \X Frames
      BY <2>2, <1>1, HolesAre, MetTyped DEF Typed
    <3>2. blips' \in 0..MaxFaults
      BY <2>2, ReplayAssumption DEF Typed, Blip
    <3> QED
      BY <2>2, <3>1, <3>2 DEF Typed
  <2> QED
    BY <2>1, <2>2 DEF AppendFrame
<1>5. Typed'
  BY <1>3, <1>4 DEF AppendFrame, Typed
<1>6. Counted'
  BY CountSame DEF AppendFrame
<1> QED
  BY <1>5, <1>6

\* when a broadcast or the pump ends, when the turn buffer is cleared,
LEMMA RestTyped ==
    ASSUME Typed, Counted, NEW t \in Tasks, Finish(t) \/ PumpDies \/ RunnerEnds \/ UserMessage
    PROVE  Typed' /\ Counted'
<1>0. NoFrame \in Frames \cup {NoFrame} /\ Resting \in TaskStates /\ [Resting EXCEPT !.pc = "dead"] \in TaskStates
      /\ Resting.pc = "idle" /\ [Resting EXCEPT !.pc = "dead"].pc = "dead"
  BY ReplayAssumption DEF Resting, TaskStates
<1>1. CASE Finish(t)
  <2>1. task' \in [Tasks -> TaskStates] /\ (\A u \in Tasks : Active(u) => task[u].frame \in broadcasts)'
    BY <1>0, <1>1, TaskMoves DEF Finish
  <2>2. task[t].frame \in Frames
    BY <1>1 DEF Finish, Typed, Active
  <2>3. turn_buffer' \subseteq Frames /\ unsaved' \subseteq Frames /\ unstored' \subseteq Frames
    <3>1. CASE task[t].frame.kind = "turn"
      BY <1>1, <2>2, <3>1 DEF Finish, Typed
    <3>2. CASE task[t].frame.kind = "end"
      BY <1>1, <2>2, <3>2 DEF Finish, Typed
    <3>3. CASE task[t].frame.kind = "done"
      BY <1>1, <2>2, <3>3 DEF Finish, Typed
    <3>4. CASE task[t].frame.kind \notin {"turn", "end", "done"}
      BY <1>1, <2>2, <3>4 DEF Finish, Typed
    <3> QED
      BY <3>1, <3>2, <3>3, <3>4
  <2>4. Typed'
    BY <1>1, <2>1, <2>3 DEF Finish, Typed
  <2>5. Counted'
    BY <1>1, CountSame DEF Finish
  <2> QED
    BY <2>4, <2>5
<1>2. CASE PumpDies
  <2>1. task' \in [Tasks -> TaskStates] /\ (\A u \in Tasks : Active(u) => task[u].frame \in broadcasts)'
    BY <1>0, <1>2, TaskMoves, ReplayAssumption DEF PumpDies
  <2>2. Typed'
    BY <1>2, <2>1, ReplayAssumption DEF PumpDies, Typed, Blip
  <2>3. Counted'
    BY <1>2, CountSame DEF PumpDies
  <2> QED
    BY <2>2, <2>3
<1>3. CASE UserMessage
  <2>1. Typed'
    BY <1>3 DEF UserMessage, Typed, Active
  <2>2. Counted'
    BY <1>3, CountSame DEF UserMessage
  <2> QED
    BY <2>1, <2>2
<1>4. CASE RunnerEnds
  <2>1. Typed'
    BY <1>4 DEF RunnerEnds, Typed, Active
  <2>2. Counted'
    BY <1>4, CountSame DEF RunnerEnds
  <2> QED
    BY <2>1, <2>2
<1> QED
  BY <1>1, <1>2, <1>3, <1>4

\* Typed, of steps that leave the tasks and the stream alone.
LEMMA RouteTyped ==
    ASSUME Typed, UNCHANGED <<epoch, stream, turn_buffer, unsaved, unstored, task, broadcasts>>,
           counter' \in Nat, connects' \in 0..MaxConnects, gate' \in Gates, client' \in Clients,
           client'.last \in Numbers \cup {0}, blips' \in 0..MaxFaults, baseline' \subseteq Frames,
           excused' \subseteq Holes \X Frames
    PROVE  Typed'
BY DEF Typed, Active

\* when openSession loads the history (two numbers are owed from here),
LEMMA LoadTyped ==
    ASSUME Typed, Counted, Load
    PROVE  Typed' /\ Counted'
<1>1. gate' = [Off EXCEPT !.pc = "loaded"] /\ gate' \in Gates /\ gate'.pc = "loaded" /\ ~ gate'.refresh /\ gate.pc = "off"
  BY DEF Load, Off, Gates
<1>3. PICK last \in {0, client.last}, hs \in {{}, History} :
           /\ Loaded(hs) /\ client' = Redrawn(last) /\ baseline' = hs
           /\ LET wiped == {f \in broadcasts \ hs : f.seq <= last \/ (last = 0 /\ f \in History)}
              IN  excused' = excused \cup Wiped(wiped) \cup Meet("redraw", wiped \ (unstored \cup History))
  BY DEF Load
<1>2. hs \subseteq Frames /\ blips' \in 0..MaxFaults
  BY <1>3, LoadedTyped
<1>4. client' \in Clients /\ client'.last \in Numbers \cup {0}
  BY <1>3 DEF Redrawn, Clients, Typed
<1>5. excused' \subseteq Holes \X Frames
  <2> DEFINE wiped == {f \in broadcasts \ hs : f.seq <= last \/ (last = 0 /\ f \in History)}
  <2>1. wiped \subseteq Frames /\ excused' = excused \cup Wiped(wiped) \cup Meet("redraw", wiped \ (unstored \cup History))
    BY <1>3 DEF Typed
  <2> HIDE DEF wiped
  <2>2. excused \cup Wiped(wiped) \subseteq Holes \X Frames
    BY <2>1, WipedTyped DEF Typed
  <2> QED
    BY <2>1, <2>2, HolesAre, MetTyped
<1>6. connects' = connects + 1 /\ connects' \in 0..MaxConnects /\ connects \in Nat
  BY ReplayAssumption DEF Load, Typed
<1>0. UNCHANGED <<counter, epoch, stream, turn_buffer, unsaved, unstored, task, broadcasts>> /\ baseline' = hs
  BY <1>3 DEF Load
<1>7. Typed'
  <2>1. counter' \in Nat /\ baseline' \subseteq Frames
    BY <1>0, <1>2 DEF Typed
  <2> QED
    BY <1>0, <1>1, <1>2, <1>4, <1>5, <1>6, <2>1, RouteTyped
<1>8. Owed' = 2 /\ Owed = 0 /\ counter \in Nat /\ Cardinality(broadcasts) \in Nat
      /\ counter + Owed <= Cardinality(broadcasts) + 2 * connects
  BY <1>1, FS_CardinalityType DEF Owed, Typed, Counted
<1>9. Counted'
  <2>1. counter' + Owed' <= Cardinality(broadcasts) + 2 * connects' /\ counter' \in Nat /\ counter <= counter'
    BY <1>0, <1>6, <1>8
  <2> QED
    BY <1>0, <1>1, <1>6, <2>1, CountKept
<1> QED
  BY <1>7, <1>9

\* when the ready frame takes the first of them,
LEMMA ConnectTyped ==
    ASSUME Typed, Counted, Connect
    PROVE  /\ Typed' /\ Counted' /\ Stamped("ready") \in Frames
           /\ gate' = [pc |-> "seated", buffer |-> turn_buffer \cup {Stamped("ready")}, extra |-> {},
                       refresh |-> FALSE, batch |-> {}, done |-> {}]
<1>1. gate.pc = "loaded" /\ Owed = 2 /\ ~ gate.refresh /\ counter \in Nat /\ connects \in Nat
  BY DEF Connect, Owed, Counted, Typed
<1>2. counter + 2 <= MaxFrames + 2 * MaxConnects
  BY <1>1, NumbersLeft
<1>3. Stamped("ready") \in Frames
  <2>1. counter + 1 <= MaxFrames + 2 * MaxConnects
    BY <1>1, <1>2, ReplayAssumption
  <2> QED
    BY <2>1, StampedTyped DEF Kinds
<1>4. gate' = [pc |-> "seated", buffer |-> turn_buffer \cup {Stamped("ready")}, extra |-> {},
               refresh |-> FALSE, batch |-> {}, done |-> {}]
  BY DEF Connect, Off
<1>5. gate' \in Gates
  BY <1>3, <1>4 DEF Gates, Typed
<1>6. InFlight \subseteq Frames /\ Unseen \subseteq Frames
  BY InFlightTyped DEF Typed, Unseen
<1>7. excused' \subseteq Holes \X Frames
  <2>1. excused \cup Meet("seating", InFlight \ Unseen) \subseteq Holes \X Frames
    BY <1>6, HolesAre, MetTyped DEF Typed
  <2>2. excused \cup Meet("seating", InFlight \ Unseen) \cup Meet("cleared", Unseen \cap unsaved) \subseteq Holes \X Frames
    BY <1>6, <2>1, HolesAre, MetTyped
  <2>3. excused \cup Meet("seating", InFlight \ Unseen) \cup Meet("cleared", Unseen \cap unsaved)
                \cup Meet("unstored", Unseen \cap unstored) \subseteq Holes \X Frames
    BY <1>6, <2>2, HolesAre, MetTyped
  <2> QED
    BY <1>6, <2>3, HolesAre, MetTyped DEF Connect
<1>0. /\ UNCHANGED <<epoch, stream, turn_buffer, unsaved, unstored, task, connects, client, blips, broadcasts, baseline>>
      /\ counter' = counter + 1
  BY DEF Connect, Count
<1>8. Typed'
  <2>1. /\ counter' \in Nat /\ connects' \in 0..MaxConnects /\ client' \in Clients
        /\ client'.last \in Numbers \cup {0} /\ blips' \in 0..MaxFaults /\ baseline' \subseteq Frames
    BY <1>0, <1>1 DEF Typed
  <2> QED
    BY <1>0, <1>5, <1>7, <2>1, RouteTyped
<1>9. Owed' = 1 /\ Cardinality(broadcasts) \in Nat /\ counter + Owed <= Cardinality(broadcasts) + 2 * connects
  BY <1>4, FS_CardinalityType DEF Owed, Counted
<1>10. Counted'
  <2>1. /\ counter' \in Nat /\ counter <= counter' /\ connects' \in Nat /\ ~ gate'.refresh
        /\ counter' + Owed' <= Cardinality(broadcasts) + 2 * connects'
    BY <1>0, <1>1, <1>4, <1>9
  <2> QED
    BY <1>0, <2>1, CountKept
<1> QED
  BY <1>3, <1>4, <1>8, <1>10

\* replay_since decides what to resend, or that the history is to be loaded.
LEMMA PeekReadIs ==
    ASSUME Typed, Counted, Peek \/ Read \/ ReplaySkipped
    PROVE  /\ gate.pc \in {"seated", "peeked"} /\ Owed = 1 /\ gate.refresh = FALSE
           /\ UNCHANGED <<counter, epoch, stream, turn_buffer, unsaved, unstored, task, connects, client, broadcasts, baseline>>
           /\ gate' \in Gates /\ UNCHANGED <<gate.buffer, gate.batch, gate.done>>
           /\ \/ gate'.pc = "peeked" /\ gate'.refresh = FALSE /\ gate'.extra = gate.extra
              \/ gate'.pc = "decided"
<1>0. gate.pc \in {"seated", "peeked"} /\ Owed = 1 /\ gate.refresh = FALSE
  BY DEF Peek, Read, ReplaySkipped, Owed, Counted, Typed, Gates
<1>1. UNCHANGED <<counter, epoch, stream, turn_buffer, unsaved, unstored, task, connects, client, broadcasts, baseline>>
  BY DEF Peek, Read, ReplaySkipped
<1>2. ASSUME NEW extra \in SUBSET Frames, NEW refresh \in BOOLEAN, Decide(extra, refresh)
      PROVE  gate' \in Gates /\ UNCHANGED <<gate.buffer, gate.batch, gate.done>> /\ gate'.pc = "decided"
  BY <1>2 DEF Decide, Typed, Gates
<1>3. CASE gate' = [gate EXCEPT !.pc = "peeked"]
  BY <1>0, <1>1, <1>3 DEF Typed, Gates
<1>4. CASE Decide({}, FALSE)
  BY <1>0, <1>1, <1>2, <1>4
<1>5. CASE Decide({}, TRUE)
  BY <1>0, <1>1, <1>2, <1>5
<1>6. CASE Decide({f \in Entries : f.seq > client.last}, FALSE)
  <2>1. {f \in Entries : f.seq > client.last} \in SUBSET Frames
    BY DEF Entries, Typed
  <2> QED
    BY <1>0, <1>1, <1>2, <1>6, <2>1
<1> QED
  BY <1>3, <1>4, <1>5, <1>6 DEF Peek, Read, ReplaySkipped

\* when replay_since returns,
LEMMA DecideTyped ==
    ASSUME Typed, Counted, Peek \/ Read \/ ReplaySkipped
    PROVE  Typed' /\ Counted'
<1>1. excused' \subseteq Holes \X Frames /\ blips' \in 0..MaxFaults
  <2>1. CASE Peek \/ Read
    BY <2>1 DEF Peek, Read, Typed
  <2>2. CASE ReplaySkipped
    <3>1. excused' \subseteq Holes \X Frames
      BY <2>2, HolesAre, MetTyped DEF ReplaySkipped, Typed
    <3>2. blips' \in 0..MaxFaults
      BY <2>2, ReplayAssumption DEF ReplaySkipped, Typed, Blip
    <3> QED
      BY <3>1, <3>2
  <2> QED
    BY <2>1, <2>2
<1>2. counter' \in Nat /\ connects' \in 0..MaxConnects /\ client' \in Clients
      /\ client'.last \in Numbers \cup {0} /\ baseline' \subseteq Frames
  BY PeekReadIs DEF Typed
<1>3. Typed'
  BY <1>1, <1>2, PeekReadIs, RouteTyped
<1>4. /\ UNCHANGED <<counter, connects, epoch, broadcasts>>
      /\ counter \in Nat /\ connects \in Nat /\ Cardinality(broadcasts) \in Nat
  <2>1. UNCHANGED <<counter, connects, epoch, broadcasts>>
    BY PeekReadIs
  <2>2. counter \in Nat /\ connects \in Nat
    BY DEF Typed
  <2>3. Cardinality(broadcasts) \in Nat
    BY FS_CardinalityType DEF Counted
  <2> QED
    BY <2>1, <2>2, <2>3
<1>5. counter' + Owed' <= Cardinality(broadcasts) + 2 * connects'
  <2>1. Owed' \in 0..1
    <3>1. gate'.pc # "loaded"
      BY PeekReadIs
    <3> QED
      BY <3>1 DEF Owed
  <2>2. Owed = 1 /\ counter + Owed <= Cardinality(broadcasts) + 2 * connects
    BY PeekReadIs DEF Counted
  <2> QED
    BY <1>4, <2>1, <2>2
<1>6. gate'.refresh => gate'.pc = "decided"
  BY PeekReadIs
<1>7. Counted'
  BY <1>4, <1>5, <1>6, CountKept
<1> QED
  BY <1>3, <1>7

\* when full_refresh takes the second,
LEMMA SendRefreshTyped ==
    ASSUME Typed, Counted, SendRefresh
    PROVE  Typed' /\ Counted' /\ Stamped("full_refresh") \in Frames
<1>1. gate.pc = "decided" /\ gate.refresh /\ Owed = 1 /\ counter \in Nat /\ connects \in Nat
  BY DEF SendRefresh, Owed, Typed
<1>2. Stamped("full_refresh") \in Frames
  <2>1. counter + 1 <= MaxFrames + 2 * MaxConnects
    BY <1>1, NumbersLeft
  <2> QED
    BY <2>1, StampedTyped DEF Kinds
<1>3. gate' \in Gates /\ gate'.refresh = FALSE /\ gate'.pc = "decided"
  BY <1>1 DEF SendRefresh, Typed, Gates
<1>4. client' \in Clients /\ client'.last \in Numbers \cup {0}
  BY <1>2, ReceivedTyped DEF SendRefresh, Typed
<1>5. baseline' \subseteq Frames /\ excused' \subseteq Holes \X Frames /\ blips' \in 0..MaxFaults
  <2>1. CASE UNCHANGED <<baseline, blips, excused>>
    BY <2>1 DEF Typed
  <2>2. ASSUME NEW hs \in {{}, History}, Loaded(hs), baseline' = hs,
               excused' = excused \cup Meet("cleared", unsaved \ (turn_buffer \cup gate.buffer))
                                  \cup Wiped(broadcasts \ (hs \cup gate.buffer))
                                  \cup Meet("reloading", Met({"seating"}) \ (hs \cup gate.buffer))
        PROVE  baseline' \subseteq Frames /\ excused' \subseteq Holes \X Frames /\ blips' \in 0..MaxFaults
    <3> DEFINE cleared == unsaved \ (turn_buffer \cup gate.buffer)
               wiped == broadcasts \ (hs \cup gate.buffer)
               missed == Met({"seating"}) \ (hs \cup gate.buffer)
               e == excused \cup Meet("cleared", cleared)
    <3>1. cleared \subseteq Frames /\ wiped \subseteq Frames /\ missed \subseteq Frames /\ excused \subseteq Holes \X Frames
      BY DEF Typed, Met
    <3>2. excused' = e \cup Wiped(wiped) \cup Meet("reloading", missed)
      BY <2>2
    <3> HIDE DEF cleared, wiped, missed
    <3>3. e \subseteq Holes \X Frames
      BY <3>1, HolesAre, MetTyped
    <3> HIDE DEF e
    <3>4. e \cup Wiped(wiped) \subseteq Holes \X Frames
      BY <3>1, <3>3, WipedTyped
    <3>5. excused' \subseteq Holes \X Frames
      BY <3>1, <3>2, <3>4, HolesAre, MetTyped
    <3> QED
      BY <2>2, <3>5, LoadedTyped
  <2> QED
    BY <2>1, <2>2 DEF SendRefresh
<1>0. UNCHANGED <<epoch, stream, turn_buffer, unsaved, unstored, task, connects, broadcasts>> /\ counter' = counter + 1
  BY DEF SendRefresh, Count
<1>6. Typed'
  <2>1. counter' \in Nat /\ connects' \in 0..MaxConnects
    BY <1>0, <1>1 DEF Typed
  <2> QED
    BY <1>0, <1>3, <1>4, <1>5, <2>1, RouteTyped
<1>7. Owed' = 0 /\ Cardinality(broadcasts) \in Nat /\ counter + Owed <= Cardinality(broadcasts) + 2 * connects
  BY <1>3, FS_CardinalityType DEF Owed, Counted
<1>8. Counted'
  <2>1. /\ counter' \in Nat /\ counter <= counter' /\ connects' \in Nat /\ ~ gate'.refresh
        /\ counter' + Owed' <= Cardinality(broadcasts) + 2 * connects'
    BY <1>0, <1>1, <1>3, <1>7
  <2> QED
    BY <1>0, <2>1, CountKept
<1> QED
  BY <1>2, <1>6, <1>8

\* What StartBatch does to the gate.
LEMMA BatchIs ==
    ASSUME Typed, NEW fs, fs \subseteq Frames, StartBatch(fs)
    PROVE  gate' = [pc |-> "flush", buffer |-> {}, extra |-> {}, refresh |-> gate.refresh,
                    batch |-> Fresh(fs), done |-> gate.done \cup Seqs(fs)]
           /\ gate' \in Gates
<1>1. gate' = [pc |-> "flush", buffer |-> {}, extra |-> {}, refresh |-> gate.refresh,
               batch |-> Fresh(fs), done |-> gate.done \cup Seqs(fs)]
  BY DEF StartBatch, Typed, Gates
<1>2. Seqs(fs) \subseteq Nat
  BY DEF Seqs, Frames, Numbers
<1>3. Fresh(fs) \subseteq Frames
  BY DEF Fresh
<1> QED
  BY <1>1, <1>2, <1>3 DEF Typed, Gates

\* Typed and Counted, of steps that flush, end or forget the replay.
LEMMA GateTyped ==
    ASSUME Typed, Counted, gate' \in Gates, gate'.pc \in {"off", "flush", "open"}, ~ gate'.refresh,
           client' \in Clients, client'.last \in Numbers \cup {0}, excused' \subseteq Holes \X Frames,
           UNCHANGED <<counter, epoch, stream, turn_buffer, unsaved, unstored, task, connects, blips, broadcasts, baseline>>
    PROVE  Typed' /\ Counted'
<1>1. Typed'
  <2>1. counter' \in Nat /\ connects' \in 0..MaxConnects /\ blips' \in 0..MaxFaults /\ baseline' \subseteq Frames
    BY DEF Typed
  <2> QED
    BY <2>1, RouteTyped
<1>2. Owed' = 0 /\ Owed \in Nat /\ Cardinality(broadcasts) \in Nat /\ counter + Owed <= Cardinality(broadcasts) + 2 * connects
      /\ counter \in Nat /\ connects \in Nat
  BY FS_CardinalityType DEF Owed, Counted, Typed
<1>3. counter' + Owed' <= Cardinality(broadcasts) + 2 * connects' /\ counter' = counter /\ connects' = connects
  BY <1>2
<1> QED
  BY <1>1, <1>2, <1>3, CountKept

\* when the gate flushes, opens or goes,
LEMMA FlushTyped ==
    ASSUME Typed, Counted, Release \/ Flush \/ Drain \/ Disconnect
    PROVE  Typed' /\ Counted'
<1>1. CASE Release
  <2>1. Replayed \cup gate.buffer \subseteq Frames /\ Skipped \subseteq Frames
    BY DEF Replayed, Skipped, Typed, Gates
  <2>2. gate' \in Gates /\ gate'.pc = "flush" /\ gate'.refresh = gate.refresh
    BY <1>1, <2>1, BatchIs DEF Release
  <2>3. excused' \subseteq Holes \X Frames
    BY <1>1, <2>1, HolesAre, MetTyped DEF Release, Typed
  <2>4. UNCHANGED <<counter, epoch, stream, turn_buffer, unsaved, unstored, task, connects, client, blips, broadcasts, baseline>>
        /\ ~ gate.refresh /\ client \in Clients /\ client.last \in Numbers \cup {0}
    BY <1>1 DEF Release, Typed
  <2> QED
    BY <2>2, <2>3, <2>4, GateTyped
<1>2. CASE Flush
  <2>1. PICK f \in gate.batch : client' = Received(f) /\ gate' = [gate EXCEPT !.batch = @ \ {f}]
    BY <1>2 DEF Flush
  <2>2. f \in Frames /\ gate.pc = "flush" /\ ~ gate.refresh
    BY <1>2 DEF Flush, Typed, Gates, Counted
  <2>3. gate' \in Gates /\ gate'.pc = "flush" /\ ~ gate'.refresh
    BY <2>1, <2>2 DEF Typed, Gates
  <2>4. client' \in Clients /\ client'.last \in Numbers \cup {0}
    BY <2>1, <2>2, ReceivedTyped DEF Typed
  <2>5. UNCHANGED <<counter, epoch, stream, turn_buffer, unsaved, unstored, task, connects, blips, broadcasts, baseline, excused>>
        /\ excused \subseteq Holes \X Frames
    BY <1>2 DEF Flush, Typed
  <2> QED
    BY <2>3, <2>4, <2>5, GateTyped
<1>3. CASE Drain
  <2>1. gate.pc = "flush" /\ ~ gate.refresh /\ gate.buffer \subseteq Frames
    BY <1>3 DEF Drain, Typed, Gates, Counted
  <2>2. gate' \in Gates /\ gate'.pc \in {"flush", "open"} /\ ~ gate'.refresh
    <3>1. CASE gate' = [gate EXCEPT !.pc = "open"]
      BY <2>1, <3>1 DEF Typed, Gates
    <3>2. CASE StartBatch(gate.buffer)
      BY <2>1, <3>2, BatchIs
    <3> QED
      BY <1>3, <3>1, <3>2 DEF Drain
  <2>3. UNCHANGED <<counter, epoch, stream, turn_buffer, unsaved, unstored, task, connects, client, blips, broadcasts, baseline, excused>>
        /\ excused \subseteq Holes \X Frames /\ client \in Clients /\ client.last \in Numbers \cup {0}
    BY <1>3 DEF Drain, Typed
  <2> QED
    BY <2>2, <2>3, GateTyped
<1>4. CASE Disconnect
  <2>1. gate' \in Gates /\ gate'.pc = "off" /\ ~ gate'.refresh
    BY <1>4 DEF Disconnect, Off, Gates
  <2>2. UNCHANGED <<counter, epoch, stream, turn_buffer, unsaved, unstored, task, connects, client, blips, broadcasts, baseline, excused>>
        /\ excused \subseteq Holes \X Frames /\ client \in Clients /\ client.last \in Numbers \cup {0}
    BY <1>4 DEF Disconnect, Typed
  <2> QED
    BY <2>1, <2>2, GateTyped
<1> QED
  BY <1>1, <1>2, <1>3, <1>4

\* and when the backend loses its state.
LEMMA LossTyped == ASSUME Typed, Counted, BackendFlush PROVE Typed' /\ Counted'
<1>1. epoch' = epoch + 1 /\ epoch' \in 0..MaxFlushes /\ epoch \in Nat /\ counter' = 0 /\ stream' = <<>>
  BY ReplayAssumption DEF BackendFlush, Typed
<1>2. UNCHANGED <<turn_buffer, unsaved, unstored, task, connects, gate, client, blips, broadcasts, baseline, excused>>
  BY DEF BackendFlush
<1>3. Typed'
  BY <1>1, <1>2, ReplayAssumption DEF Typed, Active
<1>4. Owed' = Owed /\ Owed \in Nat /\ Cardinality(broadcasts) \in Nat /\ counter + Owed <= Cardinality(broadcasts) + 2 * connects
      /\ counter \in Nat /\ connects \in Nat
  BY <1>2, FS_CardinalityType DEF Owed, Counted, Typed
<1>5. counter' + Owed' <= Cardinality(broadcasts') + 2 * connects'
  BY <1>1, <1>2, <1>4
<1>6. ASSUME NEW f \in broadcasts PROVE f.epoch <= epoch' /\ f.epoch # epoch'
  <2>1. f.epoch \in Nat /\ f.epoch <= epoch
    BY <1>6, ReplayAssumption DEF Counted, Typed, Frames
  <2> QED
    BY <2>1, <1>1
<1> QED
  BY <1>2, <1>3, <1>5, <1>6 DEF Counted

\* Typed and Counted are inductive.
LEMMA TypedStep == ASSUME Typed, Counted, [Next]_vars PROVE Typed' /\ Counted'
<1>1. CASE UNCHANGED vars
  BY <1>1 DEF vars, Typed, Counted, Active, Owed
<1>2. CASE PumpFrame \/ Notice
  BY <1>2, StampTyped, ReplayAssumption DEF PumpFrame, Notice, Broadcast
<1>3. CASE PumpDies \/ RunnerEnds \/ UserMessage
  BY <1>3, RestTyped, ReplayAssumption
<1>4. ASSUME NEW t \in Tasks, TaskNext(t) PROVE Typed' /\ Counted'
  BY <1>4, DeliverTyped, AppendTyped, RestTyped DEF TaskNext
<1>5. CASE GateNext \/ ReplaySkipped \/ Disconnect
  BY <1>5, DecideTyped, SendRefreshTyped, FlushTyped DEF GateNext
<1> QED
  BY <1>1, <1>2, <1>3, <1>4, <1>5, LoadTyped, ConnectTyped, LossTyped DEF Next

-----------------------------------------------------------------------------
(* The invariant while the backend keeps its state: common steps *)

\* Numbers of frames are positive.
LEMMA FrameSeq == /\ \A f \in Frames : f.seq \in Nat /\ f.seq > 0
                  /\ Typed => /\ broadcasts \subseteq Frames /\ counter \in Nat /\ client.last \in Nat
                              /\ \A t \in Tasks : Active(t) => task[t].frame \in broadcasts
<1>1. \A f \in Frames : f.seq \in Nat /\ f.seq > 0
  BY ReplayAssumption DEF Frames, Numbers
<1> QED
  BY <1>1 DEF Typed, Clients

\* A hole that a frame met is not forgotten.
LEMMA MetGrows ==
    ASSUME broadcasts \subseteq broadcasts', excused \subseteq excused'
    PROVE  Met(Holes) \subseteq Met(Holes)'
BY DEF Met

\* A frame for which a hole is noted has met it.
LEMMA MetNew ==
    ASSUME NEW h \in Holes, NEW fs, Meet(h, fs) \subseteq excused', NEW f \in fs, f \in broadcasts'
    PROVE  f \in Met(Holes)'
BY DEF Met, Meet

\* What a redraw wipes has met a hole.
LEMMA WipedMet ==
    ASSUME NEW fs, Wiped(fs) \subseteq excused', NEW f \in fs, f \in broadcasts', f \in unstored \cup History
    PROVE  f \in Met(Holes)'
<1>1. CASE f \in unstored
  BY <1>1, MetNew, HolesAre DEF Wiped
<1>2. CASE f \in History
  BY <1>2, MetNew, HolesAre DEF Wiped
<1> QED
  BY <1>1, <1>2

\* What is shown stays so as long as the page is not redrawn.
LEMMA SafeGrows ==
    ASSUME broadcasts \subseteq broadcasts', excused \subseteq excused', baseline' = baseline,
           client.applied \subseteq client'.applied
    PROVE  Safe \subseteq Safe'
BY MetGrows DEF Safe, Shown

\* The stages of a _broadcast.
LEMMA PendingActive == \A t \in Tasks : /\ Going(t) => Pending(t)
                                        /\ Pending(t) => Active(t)
                                        /\ task[t].pc = "fanout" => Pending(t)
                                        /\ task[t].pc = "append" => Pending(t)
                                        /\ Active(t) => task[t].frame \in InFlight
BY DEF Going, Pending, Active, InFlight

\* Steps that change neither the tasks nor the stream.
LEMMA RouteFrames ==
    ASSUME Typed, FramesInv, StreamInv, UNCHANGED <<stream, turn_buffer, unsaved, unstored, task, broadcasts>>,
           excused \subseteq excused', baseline' \subseteq broadcasts, gate'.extra \subseteq gate.extra \cup Entries,
           counter' \in Nat, counter <= counter', client'.last <= counter'
    PROVE  FramesInv' /\ StreamInv'
<1>1. Entries' = Entries
  BY DEF Entries
<1>2. \A f \in broadcasts : f.epoch = 0 /\ f.seq <= counter' /\ f.kind \in Broadcast
  BY FrameSeq DEF FramesInv
<1>3. FramesInv'
  <2>1. turn_buffer' \cup unsaved' \cup unstored' \cup Entries' \cup baseline' \cup gate'.extra \subseteq broadcasts'
    BY <1>1 DEF FramesInv
  <2>2. \A t, u \in Tasks : Active(t)' /\ Active(u)' /\ task'[t].frame = task'[u].frame => t = u
    BY DEF FramesInv, Active
  <2>3. \A t \in Tasks : task'[t].pc = "fanout" => \A f \in broadcasts' : f.seq <= task'[t].frame.seq
    BY DEF FramesInv
  <2>4. \A t \in Tasks : Pending(t)' => task'[t].frame \notin Entries' \cup gate'.extra
    BY <1>1 DEF FramesInv, Pending
  <2> QED
    BY <1>2, <2>1, <2>2, <2>3, <2>4 DEF FramesInv
<1>4. StreamInv'
  <2>1. Met(Holes) \subseteq Met(Holes)'
    BY MetGrows
  <2>2. \A f : Gone(f) => Gone(f)'
    BY <1>1 DEF Gone, Pending
  <2> QED
    BY <1>1, <2>1, <2>2 DEF StreamInv, Pending
<1> QED
  BY <1>3, <1>4

\* The frame under the lock is the only one there.
LEMMA OneFanout ==
    ASSUME Typed, FramesInv, NEW t \in Tasks, NEW u \in Tasks, task[t].pc = "fanout", task[u].pc = "fanout"
    PROVE  t = u
<1>1. Active(t) /\ Active(u)
  BY DEF Active
<1>2. task[t].frame \in broadcasts /\ task[u].frame \in broadcasts /\ broadcasts \subseteq Frames
  BY <1>1 DEF Typed
<1>3. task[t].frame.seq <= task[u].frame.seq /\ task[u].frame.seq <= task[t].frame.seq
  BY <1>2 DEF FramesInv
<1>4. task[t].frame.seq = task[u].frame.seq
  BY <1>2, <1>3, FrameSeq
<1> QED
  BY <1>1, <1>2, <1>4 DEF FramesInv

-----------------------------------------------------------------------------
(* _broadcast *)

\* The frame stamped has the highest number and goes to the gate that listens.
LEMMA StampFrames ==
    ASSUME Typed, ReplayInv, epoch = 0, NEW t \in Tasks, NEW kind \in Broadcast, Stamp(t, kind)
    PROVE  ReplayInv'
<1> DEFINE n == Stamped(kind)
           x == [pc |-> "fanout", frame |-> n, to |-> IF gate.pc \in {"off", "loaded"} THEN 0 ELSE connects]
<1>1. /\ broadcasts' = broadcasts \cup {n} /\ counter' = counter + 1 /\ counter \in Nat
      /\ task' = [task EXCEPT ![t] = x] /\ task[t].pc = "idle"
      /\ UNCHANGED <<epoch, stream, turn_buffer, unsaved, unstored, connects, gate, client, blips, baseline, excused>>
  BY FrameSeq DEF Stamp, Count
<1>2. n.seq = counter + 1 /\ n.epoch = 0 /\ n.kind \in Broadcast
  BY DEF Stamped
<1>3. x.pc = "fanout" /\ x.frame = n /\ x.to = IF gate.pc \in {"off", "loaded"} THEN 0 ELSE connects
  OBVIOUS
<1>0. \A u \in Tasks : task[u].pc # "fanout"
  BY DEF Stamp
<1> HIDE DEF n, x
<1>4. \A f \in broadcasts : f.seq \in Nat /\ f.seq < n.seq /\ f.seq <= counter
  BY <1>1, <1>2, FrameSeq DEF ReplayInv, FramesInv
<1>5. \A u \in Tasks : u # t => task'[u] = task[u]
  BY <1>1 DEF Typed
<1>6. task'[t] = x
  BY <1>1 DEF Typed
<1>7. /\ \A u \in Tasks : u # t => (Active(u)' <=> Active(u)) /\ (Pending(u)' <=> Pending(u)) /\ (Going(u)' <=> Going(u))
      /\ ~ Active(t) /\ ~ Pending(t) /\ ~ Going(t) /\ Active(t)' /\ Pending(t)'
  BY <1>1, <1>3, <1>5, <1>6 DEF Active, Pending, Going
<1>8. Listening' = Listening /\ Waiting' = Waiting /\ Held' = Held /\ Entries' = Entries
  BY <1>1 DEF Listening, Waiting, Held, Entries
<1>9. Listening => Going(t)'
  BY <1>1, <1>3, <1>6 DEF Listening, Going
<1>10. Met(Holes) \subseteq Met(Holes)' /\ Safe \subseteq Safe'
  BY <1>1, MetGrows, SafeGrows
<1>11. FramesInv'
  <2>1. turn_buffer' \cup unsaved' \cup unstored' \cup Entries' \cup baseline' \cup gate'.extra \subseteq broadcasts'
    BY <1>1, <1>8 DEF ReplayInv, FramesInv
  <2>2. \A f \in broadcasts' : f.epoch = 0 /\ f.seq <= counter' /\ f.kind \in Broadcast
    BY <1>1, <1>2, <1>4 DEF ReplayInv, FramesInv
  <2>3. \A f, g \in broadcasts' : f.seq = g.seq => f = g
    BY <1>1, <1>2, <1>4 DEF ReplayInv, FramesInv
  <2>4. ASSUME NEW u \in Tasks, NEW v \in Tasks, Active(u)', Active(v)', task'[u].frame = task'[v].frame PROVE u = v
    <3>1. \A w \in Tasks : w # t /\ Active(w)' => task'[w].frame \in broadcasts /\ Active(w)
      BY <1>5, <1>7, FrameSeq
    <3>2. task'[t].frame = n /\ n \notin broadcasts
      BY <1>1, <1>2, <1>3, <1>4, <1>6
    <3> QED
      BY <2>4, <3>1, <3>2, <1>5 DEF ReplayInv, FramesInv
  <2>5. \A u \in Tasks : task'[u].pc = "fanout" => \A f \in broadcasts' : f.seq <= task'[u].frame.seq
    <3>1. \A f \in broadcasts' : f.seq <= n.seq
      BY <1>1, <1>2, <1>4
    <3> QED
      BY <3>1, <1>0, <1>3, <1>5, <1>6
  <2>6. \A u \in Tasks : Pending(u)' => task'[u].frame \notin Entries' \cup gate'.extra
    <3>1. n \notin Entries \cup gate'.extra
      BY <1>1, <1>2, <1>4 DEF ReplayInv, FramesInv
    <3> QED
      BY <3>1, <1>1, <1>3, <1>5, <1>6, <1>7, <1>8 DEF ReplayInv, FramesInv
  <2>7. client'.last <= counter'
    BY <1>1, FrameSeq DEF ReplayInv, FramesInv
  <2> QED
    BY <2>1, <2>2, <2>3, <2>4, <2>5, <2>6, <2>7 DEF FramesInv
<1>12. ASSUME NEW f \in broadcasts, Gone(f) PROVE Gone(f)'
  BY <1>12, <1>3, <1>4, <1>5, <1>6, <1>7, <1>8 DEF Gone
<1>13. StreamInv'
  <2>1. ASSUME NEW f \in broadcasts PROVE f \in Met(Holes)' \cup Entries' \/ Gone(f)' \/ \E u \in Tasks : Pending(u)' /\ task'[u].frame = f
    <3>1. CASE f \in Met(Holes) \cup Entries \/ Gone(f)
      BY <3>1, <1>8, <1>10, <1>12
    <3>2. CASE \E u \in Tasks : Pending(u) /\ task[u].frame = f
      BY <3>2, <1>5, <1>7
    <3> QED
      BY <3>1, <3>2 DEF ReplayInv, StreamInv
  <2>2. Pending(t)' /\ task'[t].frame = n
    BY <1>3, <1>6, <1>7
  <2> QED
    BY <1>1, <2>1, <2>2 DEF StreamInv
<1>14. \A f \in Held : f.seq \in Nat /\ f.seq <= counter /\ f.seq < n.seq
  <2>1. \A f \in Held : f.seq \in Nat /\ f.seq <= counter
    BY FrameSeq DEF ReplayInv, GateInv, Typed, Held, Gates
  <2> QED
    BY <1>1, <1>2, <2>1
<1>15. GateInv'
  <2>1. \A u \in Tasks : task'[u].to <= connects'
    <3>1. x.to <= connects
      BY <1>3 DEF Typed
    <3> QED
      BY <3>1, <1>1, <1>5, <1>6 DEF ReplayInv, GateInv
  <2>2. gate'.pc = "loaded" => connects' > 0 /\ \A u \in Tasks : ~ Going(u)'
    BY <1>1, <1>3, <1>5, <1>6, <1>7 DEF ReplayInv, GateInv, Going, Typed
  <2>3. /\ ~ Listening' => Held' = {}
        /\ gate'.pc # "flush" => gate'.batch = {}
        /\ gate'.pc = "open" => gate'.buffer = {}
        /\ gate'.pc # "decided" => gate'.extra = {}
    BY <1>1, <1>8 DEF ReplayInv, GateInv
  <2>4. Waiting' => gate'.done = {} /\ client'.last < counter'
    BY <1>1, <1>8, FrameSeq DEF ReplayInv, GateInv
  <2>5. \A m \in gate'.done : m <= counter' /\ m < n.seq
    BY <1>1, <1>2 DEF ReplayInv, GateInv, Typed, Gates
  <2>6. \A f \in Held' : f.epoch = 0 /\ f.seq <= counter' /\ f.kind # "full_refresh"
    BY <1>1, <1>2, <1>8, <1>14 DEF ReplayInv, GateInv
  <2>7. \A f \in Held', g \in Held' \cup broadcasts' : f.seq = g.seq => f = g
    BY <1>1, <1>8, <1>14 DEF ReplayInv, GateInv
  <2>8. gate'.pc = "flush" => \A f \in gate'.buffer : /\ f.seq > client'.last /\ f.seq \notin gate'.done
                                                     /\ \A g \in gate'.batch : g.seq < f.seq
    BY <1>1 DEF ReplayInv, GateInv
  <2>9. ASSUME Listening', NEW u \in Tasks, Going(u)'
        PROVE  /\ client'.last < task'[u].frame.seq
               /\ \A f \in Held' : f.seq < task'[u].frame.seq
               /\ \A m \in gate'.done : m < task'[u].frame.seq
    <3>1. u = t
      BY <2>9, <1>0, <1>7 DEF Going
    <3>2. client.last < n.seq
      BY <1>1, <1>2, FrameSeq DEF ReplayInv, FramesInv
    <3> QED
      BY <3>1, <3>2, <2>5, <1>1, <1>3, <1>6, <1>8, <1>14
  <2> QED
    BY <2>1, <2>2, <2>3, <2>4, <2>5, <2>6, <2>7, <2>8, <2>9 DEF GateInv
<1>16. DropInv'
  <2>1. ~ (n.seq <= client.last)
    BY <1>1, <1>2, FrameSeq DEF ReplayInv, FramesInv
  <2> QED
    BY <2>1, <1>1, <1>8, <1>10 DEF ReplayInv, DropInv
<1>17. InFlight' \subseteq InFlight \cup {n}
  BY <1>3, <1>5, <1>6, <1>7 DEF InFlight, Active
<1>18. BufferInv'
  <2> SUFFICES ASSUME Waiting', NEW f \in turn_buffer' \cup InFlight'
               PROVE  f \in gate'.buffer \cup Met(Holes)' \/ \E u \in Tasks : Going(u)' /\ task'[u].frame = f
    BY DEF BufferInv
  <2>1. CASE f = n
    BY <2>1, <1>3, <1>6, <1>8, <1>9 DEF Waiting, Listening
  <2>2. CASE f \in turn_buffer \cup InFlight
    <3>1. f \in gate.buffer \cup Met(Holes) \/ \E u \in Tasks : Going(u) /\ task[u].frame = f
      BY <2>2, <1>8 DEF ReplayInv, BufferInv
    <3> QED
      BY <3>1, <1>1, <1>5, <1>7, <1>10
  <2> QED
    BY <2>1, <2>2, <1>1, <1>17
<1>19. DueInv'
  <2> SUFFICES ASSUME Listening', NEW f \in broadcasts' PROVE Due(f)'
    BY DEF DueInv
  <2>1. CASE f = n
    BY <2>1, <1>3, <1>6, <1>8, <1>9 DEF Due
  <2>2. CASE f \in broadcasts
    <3>1. Due(f)
      BY <2>2, <1>8 DEF ReplayInv, DueInv
    <3>2. CASE f \in Safe \cup Held
      BY <3>2, <1>8, <1>10 DEF Due
    <3>3. CASE \E u \in Tasks : Going(u) /\ task[u].frame = f
      BY <3>3, <1>5, <1>7 DEF Due
    <3>4. CASE gate.pc = "decided" /\ (gate.refresh \/ f \in gate.extra)
      BY <3>4, <1>1 DEF Due
    <3>5. CASE /\ gate.pc \in {"seated", "peeked"} /\ client.last # 0 /\ client.last < f.seq
               /\ f \in Entries \/ Gone(f)
      BY <2>2, <3>5, <1>1, <1>8, <1>12 DEF Due
    <3> QED
      BY <3>1, <3>2, <3>3, <3>4, <3>5 DEF Due
  <2> QED
    BY <2>1, <2>2, <1>1
<1> QED
  BY <1>11, <1>13, <1>15, <1>16, <1>18, <1>19 DEF ReplayInv

\* The sink's send_json: the gate takes the frame, or the client does.
LEMMA DeliverFrames ==
    ASSUME Typed, ReplayInv, epoch = 0, NEW t \in Tasks, Deliver(t)
    PROVE  ReplayInv'
<1> DEFINE f == task[t].frame
<1>1. /\ task' = [task EXCEPT ![t].pc = "append"] /\ task[t].pc = "fanout"
      /\ UNCHANGED <<counter, epoch, stream, turn_buffer, unsaved, unstored, connects, blips, broadcasts, baseline, excused>>
  BY DEF Deliver
<1>2. \/ (task[t].to # connects \/ gate.pc = "off") /\ UNCHANGED <<gate, client>>
      \/ task[t].to = connects /\ gate.pc = "open" /\ client' = Received(f) /\ UNCHANGED gate
      \/ /\ task[t].to = connects /\ gate.pc \notin {"off", "open"}
         /\ gate' = [gate EXCEPT !.buffer = gate.buffer \cup {f}] /\ UNCHANGED client
  BY DEF Deliver, PassesThrough
<1>3. \A u \in Tasks : u # t => task'[u] = task[u]
  BY <1>1 DEF Typed
<1>4. task'[t].pc = "append" /\ task'[t].frame = f /\ task'[t].to = task[t].to
  BY <1>1 DEF Typed, TaskStates
<1>5. f \in broadcasts /\ f \in Frames /\ f.epoch = 0 /\ f.kind \in Broadcast /\ f.seq <= counter /\ f.seq \in Nat
      /\ broadcasts \subseteq Frames /\ client.last \in Nat /\ counter \in Nat
  BY <1>1, FrameSeq DEF Active, ReplayInv, FramesInv
<1>6. \A u \in Tasks : u # t => ~ Going(u)
  BY <1>1, OneFanout DEF Going, ReplayInv
<1>7. \A u \in Tasks : (Active(u)' <=> Active(u)) /\ (Pending(u)' <=> Pending(u)) /\ ~ Going(u)' /\ task'[u].frame = task[u].frame
                       /\ task'[u].to = task[u].to
  BY <1>1, <1>3, <1>4, <1>6 DEF Active, Pending, Going
<1>8. Entries' = Entries /\ Met(Holes)' = Met(Holes) /\ InFlight' = InFlight
  <2>1. InFlight' = InFlight
    BY <1>7 DEF InFlight, Active
  <2> QED
    BY <1>1, <2>1 DEF Entries, Met
<1>9. \A b : Gone(b) => Gone(b)'
  BY <1>7, <1>8 DEF Gone
<1>10. ASSUME gate'.extra = gate.extra, client'.last <= counter PROVE FramesInv' /\ StreamInv'
  <2>1. turn_buffer' \cup unsaved' \cup unstored' \cup Entries' \cup baseline' \cup gate'.extra \subseteq broadcasts'
    BY <1>1, <1>8, <1>10 DEF ReplayInv, FramesInv
  <2>2. \A u, v \in Tasks : Active(u)' /\ Active(v)' /\ task'[u].frame = task'[v].frame => u = v
    BY <1>7 DEF ReplayInv, FramesInv
  <2>3. \A u \in Tasks : task'[u].pc = "fanout" => \A b \in broadcasts' : b.seq <= task'[u].frame.seq
    BY <1>1, <1>3, <1>4 DEF ReplayInv, FramesInv
  <2>4. \A u \in Tasks : Pending(u)' => task'[u].frame \notin Entries' \cup gate'.extra
    BY <1>7, <1>8, <1>10 DEF ReplayInv, FramesInv
  <2>5. FramesInv'
    BY <1>1, <1>10, <2>1, <2>2, <2>3, <2>4 DEF ReplayInv, FramesInv
  <2>6. StreamInv'
    BY <1>1, <1>7, <1>8, <1>9 DEF ReplayInv, StreamInv
  <2> QED
    BY <2>5, <2>6
<1>11. ASSUME gate' = [gate EXCEPT !.buffer = gate'.buffer], gate'.buffer = gate.buffer \/ gate'.buffer = gate.buffer \cup {f},
              Safe \subseteq Safe', client'.last = client.last,
              task[t].to = connects => gate.pc = "off" \/ f \in Safe' \cup gate'.buffer
       PROVE  BufferInv' /\ DueInv'
  <2>1. /\ gate'.pc = gate.pc /\ gate'.extra = gate.extra /\ gate'.refresh = gate.refresh
        /\ Listening' = Listening /\ Waiting' = Waiting /\ Held \subseteq Held' /\ gate.buffer \subseteq gate'.buffer
        /\ gate'.buffer \subseteq Held'
    BY <1>11 DEF Typed, Gates, Listening, Waiting, Held
  <2>2. ASSUME Listening, NEW u \in Tasks, Going(u) PROVE task[u].frame \in Safe' \cup gate'.buffer
    BY <2>2, <1>6, <1>11 DEF Going, Listening
  <2>3. ASSUME NEW b \in broadcasts, Due(b), Listening PROVE Due(b)'
    <3>1. CASE b \in Safe \cup Held
      BY <3>1, <1>11, <2>1 DEF Due
    <3>2. CASE \E u \in Tasks : Going(u) /\ task[u].frame = b
      BY <3>2, <2>1, <2>2, <2>3 DEF Due
    <3>3. CASE gate.pc = "decided" /\ (gate.refresh \/ b \in gate.extra)
      BY <3>3, <2>1 DEF Due
    <3>4. CASE /\ gate.pc \in {"seated", "peeked"} /\ client.last # 0 /\ client.last < b.seq
               /\ b \in Entries \/ Gone(b)
      BY <3>4, <1>8, <1>9, <1>11, <2>1 DEF Due
    <3> QED
      BY <2>3, <3>1, <3>2, <3>3, <3>4 DEF Due
  <2>4. DueInv'
    BY <1>1, <2>1, <2>3 DEF ReplayInv, DueInv
  <2>5. Waiting => Listening /\ gate.pc # "off" /\ gate.pc # "open"
    BY DEF Waiting, Listening
  <2>6. ASSUME Waiting PROVE task[t].to = connects => f \in gate'.buffer
    BY <1>2, <2>5, <2>6, <1>11 DEF Typed, Gates
  <2>7. ASSUME Waiting, NEW u \in Tasks, Going(u) PROVE task[u].frame \in gate'.buffer
    BY <1>6, <2>6, <2>7 DEF Going
  <2>8. BufferInv'
    BY <1>1, <1>8, <2>1, <2>7 DEF ReplayInv, BufferInv
  <2> QED
    BY <2>4, <2>8
<1>12. CASE (task[t].to # connects \/ gate.pc = "off") /\ UNCHANGED <<gate, client>>
  <2>1. Safe' = Safe /\ Held' = Held /\ Listening' = Listening /\ Waiting' = Waiting
    BY <1>1, <1>8, <1>12 DEF Safe, Shown, Held, Listening, Waiting
  <2>2. FramesInv' /\ StreamInv'
    BY <1>10, <1>12 DEF ReplayInv, FramesInv
  <2>3. GateInv'
    BY <1>1, <1>7, <1>12, <2>1 DEF ReplayInv, GateInv
  <2>4. DropInv'
    BY <1>1, <1>12, <2>1 DEF ReplayInv, DropInv
  <2>5. gate' = [gate EXCEPT !.buffer = gate'.buffer]
    BY <1>12 DEF Typed, Gates
  <2>6. BufferInv' /\ DueInv'
    BY <1>11, <1>12, <2>1, <2>5
  <2> QED
    BY <2>2, <2>3, <2>4, <2>6 DEF ReplayInv
<1>13. CASE task[t].to = connects /\ gate.pc = "open" /\ client' = Received(f) /\ UNCHANGED gate
  <2>1. Held = {} /\ Listening
    BY <1>13 DEF ReplayInv, GateInv, Held, Listening
  <2>2. Going(t) /\ client.last < f.seq
    BY <1>1, <1>13, <2>1 DEF Going, ReplayInv, GateInv
  <2>3. client' = [last |-> f.seq, applied |-> client.applied \cup {f}, dropped |-> client.dropped]
    <3>1. client \in Clients /\ ~ (f.seq <= client.last) /\ f.kind # "full_refresh"
      BY <1>5, <2>2 DEF Typed, Broadcast
    <3> QED
      BY <1>5, <1>13, <3>1, ReceivedIs
  <2>4. Safe \subseteq Safe' /\ Held' = Held /\ Listening' = Listening /\ ~ Waiting' /\ f \in Safe'
    BY <1>1, <1>8, <1>13, <2>3 DEF Safe, Shown, Held, Listening, Waiting
  <2>5. FramesInv' /\ StreamInv'
    BY <1>5, <1>10, <1>13, <2>3
  <2>6. GateInv'
    BY <1>1, <1>7, <1>13, <2>1, <2>4 DEF ReplayInv, GateInv
  <2>7. DropInv'
    BY <1>13, <2>1, <2>3, <2>4 DEF ReplayInv, DropInv
  <2>8. DueInv'
    <3>1. ASSUME NEW b \in broadcasts PROVE b \in Safe'
      BY <3>1, <1>6, <1>13, <2>1, <2>4 DEF ReplayInv, DueInv, Due
    <3> QED
      BY <1>1, <3>1 DEF DueInv, Due
  <2>9. BufferInv'
    BY <2>4 DEF BufferInv
  <2> QED
    BY <2>5, <2>6, <2>7, <2>8, <2>9 DEF ReplayInv
<1>14. CASE /\ task[t].to = connects /\ gate.pc \notin {"off", "open"}
            /\ gate' = [gate EXCEPT !.buffer = gate.buffer \cup {f}] /\ UNCHANGED client
  <2>1. Going(t) /\ Listening
    BY <1>1, <1>14 DEF Going, Listening, ReplayInv, GateInv
  <2>2. /\ gate'.pc = gate.pc /\ gate'.extra = gate.extra /\ gate'.refresh = gate.refresh /\ gate'.batch = gate.batch
        /\ gate'.done = gate.done /\ gate'.buffer = gate.buffer \cup {f} /\ Held' = Held \cup {f}
        /\ gate' = [gate EXCEPT !.buffer = gate'.buffer]
        /\ Listening' = Listening /\ Waiting' = Waiting /\ gate.buffer \subseteq Held /\ gate.batch \subseteq Held
        /\ Held \subseteq Frames /\ gate.done \subseteq Nat
    BY <1>14 DEF Typed, Gates, Held, Listening, Waiting
  <2>3. /\ client.last < f.seq /\ \A b \in Held : b.seq \in Nat /\ b.seq < f.seq
        /\ \A n \in gate.done : n \in Nat /\ n < f.seq
    BY <2>1, <2>2, FrameSeq DEF ReplayInv, GateInv
  <2>4. Safe' = Safe
    BY <1>1, <1>8, <1>14 DEF Safe, Shown
  <2>5. FramesInv' /\ StreamInv'
    BY <1>10, <1>14, <2>2 DEF ReplayInv, FramesInv
  <2>6. GateInv'
    <3>1. \A b \in Held' : b.epoch = 0 /\ b.seq <= counter' /\ b.kind # "full_refresh"
      BY <1>1, <1>5, <2>2 DEF ReplayInv, GateInv, Broadcast
    <3>2. \A b \in Held', c \in Held' \cup broadcasts' : b.seq = c.seq => b = c
      <4>1. \A b \in Held : b.seq # f.seq
        BY <1>5, <2>3
      <4>2. \A c \in broadcasts : f.seq = c.seq => f = c
        BY <1>5 DEF ReplayInv, FramesInv
      <4>3. \A b \in Held, c \in Held \cup broadcasts : b.seq = c.seq => b = c
        BY DEF ReplayInv, GateInv
      <4> QED
        BY <1>1, <2>2, <4>1, <4>2, <4>3
    <3>3. gate'.pc = "flush" => \A b \in gate'.buffer : /\ b.seq > client'.last /\ b.seq \notin gate'.done
                                                       /\ \A c \in gate'.batch : c.seq < b.seq
      <4>1. f.seq > client.last /\ f.seq \notin gate.done /\ \A c \in gate.batch : c.seq < f.seq
        BY <1>5, <2>2, <2>3
      <4> QED
        BY <1>14, <2>2, <4>1 DEF ReplayInv, GateInv
    <3>4. /\ ~ Listening' => Held' = {}
          /\ gate'.pc = "loaded" => connects' > 0 /\ \A u \in Tasks : ~ Going(u)'
          /\ \A u \in Tasks : task'[u].to <= connects'
          /\ gate'.pc # "flush" => gate'.batch = {}
          /\ gate'.pc = "open" => gate'.buffer = {}
          /\ Waiting' => gate'.done = {} /\ client'.last < counter'
          /\ gate'.pc # "decided" => gate'.extra = {}
          /\ \A n \in gate'.done : n <= counter'
      BY <1>1, <1>7, <1>14, <2>1, <2>2 DEF ReplayInv, GateInv
    <3> QED
      BY <1>7, <3>1, <3>2, <3>3, <3>4 DEF GateInv
  <2>7. DropInv'
    <3>1. ~ (f.seq <= client.last)
      BY <1>5, <2>3
    <3> QED
      BY <1>1, <1>14, <2>2, <2>4, <3>1 DEF ReplayInv, DropInv
  <2>8. BufferInv' /\ DueInv'
    BY <1>11, <1>14, <2>2, <2>4
  <2> QED
    BY <2>5, <2>6, <2>7, <2>8 DEF ReplayInv
<1> QED
  BY <1>2, <1>12, <1>13, <1>14

\* What append_frame does to the entries.
LEMMA AppendedEntries ==
    ASSUME Typed, NEW x \in Frames, stream' = Trimmed(Append(stream, x))
    PROVE  /\ Entries' \subseteq Entries \cup {x} /\ x \in Entries'
           /\ \A b \in Entries : b \in Entries' \/ b \in TrimmedOutOfOrder(Append(stream, x))
                                 \/ /\ \A g \in Entries' : ~ (g.seq < b.seq)
                                    /\ \A u \in Tasks : task[u].pc = "append" => ~ (task[u].frame.seq < b.seq)
<1> DEFINE s == Append(stream, x)
<1>1. s \in Seq(Frames) /\ Len(s) = Len(stream) + 1 /\ stream \in Seq(Frames) /\ Len(stream) \in Nat /\ STREAM_MAXLEN \in Nat \ {0}
  BY ReplayAssumption DEF Typed
<1>2. \A i \in 1..Len(stream) : s[i] = stream[i]
  BY <1>1
<1>3. s[Len(s)] = x
  BY <1>1
<1>4. CASE ~ (Len(s) > STREAM_MAXLEN)
  <2>1. stream' = s
    BY <1>4 DEF Trimmed
  <2>2. Entries' = {s[i] : i \in 1..Len(s)}
    BY <2>1 DEF Entries
  <2>3. Entries \subseteq Entries'
    <3> SUFFICES ASSUME NEW i \in 1..Len(stream) PROVE stream[i] \in Entries'
      BY DEF Entries
    <3>1. i \in 1..Len(s)
      BY <1>1
    <3> QED
      BY <1>2, <2>2, <3>1
  <2>4. x \in Entries'
    BY <1>1, <1>3, <2>2
  <2>5. Entries' \subseteq Entries \cup {x}
    <3> SUFFICES ASSUME NEW i \in 1..Len(s) PROVE s[i] \in Entries \cup {x}
      BY <2>2
    <3>1. i \in 1..Len(stream) \/ i = Len(s)
      BY <1>1
    <3> QED
      BY <3>1, <1>2, <1>3 DEF Entries
  <2> QED
    BY <2>3, <2>4, <2>5
<1>5. CASE Len(s) > STREAM_MAXLEN
  <2>1. stream' = Tail(s) /\ Len(s) \in Nat /\ Len(s) >= 2
    BY <1>1, <1>5 DEF Trimmed
  <2>2. Len(Tail(s)) = Len(s) - 1 /\ \A i \in 1..Len(s) - 1 : Tail(s)[i] = s[i + 1]
    BY <1>1, <2>1
  <2>3. Entries' = {s[i] : i \in 2..Len(s)}
    <3>1. Entries' = {Tail(s)[i] : i \in 1..Len(s) - 1}
      BY <2>1, <2>2 DEF Entries
    <3>2. ASSUME NEW i \in 1..Len(s) - 1 PROVE i + 1 \in 2..Len(s) /\ Tail(s)[i] = s[i + 1]
      BY <2>1, <2>2
    <3>3. ASSUME NEW i \in 2..Len(s) PROVE i - 1 \in 1..Len(s) - 1 /\ Tail(s)[i - 1] = s[i]
      <4>1. i - 1 \in 1..Len(s) - 1 /\ (i - 1) + 1 = i
        BY <2>1
      <4> QED
        BY <2>2, <4>1
    <3>4. {Tail(s)[i] : i \in 1..Len(s) - 1} \subseteq {s[i] : i \in 2..Len(s)}
      BY <3>2
    <3>5. {s[i] : i \in 2..Len(s)} \subseteq {Tail(s)[i] : i \in 1..Len(s) - 1}
      BY <3>3
    <3> QED
      BY <3>1, <3>4, <3>5
  <2>4. x \in Entries'
    <3>1. Len(s) \in 2..Len(s)
      BY <2>1
    <3> QED
      BY <1>3, <2>3, <3>1
  <2>5. Entries' \subseteq Entries \cup {x}
    <3> SUFFICES ASSUME NEW i \in 2..Len(s) PROVE s[i] \in Entries \cup {x}
      BY <2>3
    <3>1. i \in 1..Len(stream) \/ i = Len(s)
      BY <1>1
    <3> QED
      BY <3>1, <1>2, <1>3 DEF Entries
  <2>6. ASSUME NEW b \in Entries PROVE b \in Entries' \/ b = s[1]
    <3>1. PICK i \in 1..Len(stream) : b = stream[i]
      BY <2>6 DEF Entries
    <3>2. i = 1 \/ i \in 2..Len(s)
      BY <1>1
    <3> QED
      BY <1>2, <2>3, <3>1, <3>2
  <2>7. ASSUME NEW b, b = s[1], b \notin TrimmedOutOfOrder(s)
        PROVE  /\ \A g \in Entries' : ~ (g.seq < b.seq)
               /\ \A u \in Tasks : task[u].pc = "append" => ~ (task[u].frame.seq < b.seq)
    BY <1>5, <2>3, <2>7 DEF TrimmedOutOfOrder
  <2> QED
    BY <2>4, <2>5, <2>6, <2>7
<1> QED
  BY <1>4, <1>5

\* The append: a frame leaves the stream as the oldest, or met the hole trimmed.
LEMMA AppendFrames ==
    ASSUME Typed, ReplayInv, epoch = 0, NEW t \in Tasks, AppendFrame(t)
    PROVE  ReplayInv'
<1> DEFINE f == task[t].frame
           s == Append(stream, f)
<1>1. /\ task' = [task EXCEPT ![t].pc = "appended"] /\ task[t].pc = "append"
      /\ UNCHANGED <<counter, epoch, turn_buffer, unsaved, unstored, connects, gate, client, broadcasts, baseline>>
  BY DEF AppendFrame
<1>2. \/ stream' = Trimmed(s) /\ excused' = excused \cup Meet("trimmed", TrimmedOutOfOrder(s))
      \/ UNCHANGED stream /\ excused' = excused \cup Meet("unavailable", {f})
  BY DEF AppendFrame
<1>3. \A u \in Tasks : u # t => task'[u] = task[u]
  BY <1>1 DEF Typed
<1>4. task'[t].pc = "appended" /\ task'[t].frame = f /\ task'[t].to = task[t].to
  BY <1>1 DEF Typed, TaskStates
<1>5. f \in broadcasts /\ f \in Frames /\ f.seq \in Nat /\ broadcasts \subseteq Frames
      /\ Entries \subseteq broadcasts
  BY <1>1, FrameSeq DEF Active, ReplayInv, FramesInv
<1>6. \A u \in Tasks : /\ Active(u)' <=> Active(u)
                       /\ Pending(u)' <=> Pending(u) /\ u # t
                       /\ Going(u)' <=> Going(u)
                       /\ task'[u].frame = task[u].frame /\ task'[u].to = task[u].to
                       /\ task'[u].pc = "fanout" <=> task[u].pc = "fanout"
  BY <1>1, <1>3, <1>4 DEF Active, Pending, Going
<1>7. InFlight' = InFlight
  BY <1>6 DEF InFlight, Active
<1>8. /\ Met(Holes) \subseteq Met(Holes)' /\ Safe \subseteq Safe' /\ Shown' = Shown
      /\ Held' = Held /\ Listening' = Listening /\ Waiting' = Waiting
  BY <1>1, <1>2, MetGrows, SafeGrows DEF Shown, Held, Listening, Waiting
<1>9. Entries' \subseteq Entries \cup {f} /\ f \in Entries' \cup Met(Holes)'
  <2>1. CASE stream' = Trimmed(s)
    BY <1>5, <2>1, AppendedEntries
  <2>2. CASE UNCHANGED stream /\ excused' = excused \cup Meet("unavailable", {f})
    <3>1. f \in Met(Holes)'
      BY <1>1, <1>5, <2>2, MetNew, HolesAre
    <3>2. Entries' = Entries
      BY <2>2 DEF Entries
    <3> QED
      BY <3>1, <3>2
  <2> QED
    BY <1>2, <2>1, <2>2
<1>10. Pending(t) /\ f \notin Entries
  BY <1>1 DEF Pending, ReplayInv, FramesInv
<1>11. ASSUME NEW b \in broadcasts, b \in Entries \/ Gone(b) PROVE b \in Entries' \cup Met(Holes)' \/ Gone(b)'
  <2>1. CASE Gone(b)
    <3>1. \A g \in Entries' : b.seq < g.seq
      BY <1>9, <1>10, <2>1 DEF Gone
    <3>2. \A u \in Tasks : Pending(u)' => b.seq < task'[u].frame.seq
      BY <1>6, <2>1 DEF Gone
    <3> QED
      BY <3>1, <3>2 DEF Gone
  <2>2. CASE b \in Entries /\ UNCHANGED stream
    BY <2>2 DEF Entries
  <2>3. CASE b \in Entries /\ stream' = Trimmed(s) /\ excused' = excused \cup Meet("trimmed", TrimmedOutOfOrder(s))
    <3>1. CASE b \in TrimmedOutOfOrder(s)
      BY <1>1, <1>11, <2>3, <3>1, MetNew, HolesAre
    <3>2. CASE b \notin Entries' /\ b \notin TrimmedOutOfOrder(s)
      <4>1. /\ \A g \in Entries' : ~ (g.seq < b.seq)
            /\ \A u \in Tasks : task[u].pc = "append" => ~ (task[u].frame.seq < b.seq)
        BY <1>5, <2>3, <3>2, AppendedEntries
      <4>2. \A g \in broadcasts : g.seq \in Nat /\ (g.seq = b.seq => g = b)
        BY <1>5, <1>11, FrameSeq DEF ReplayInv, FramesInv
      <4>3. \A g \in Entries' : b.seq < g.seq
        BY <1>5, <1>9, <1>11, <3>2, <4>1, <4>2
      <4>4. ASSUME NEW u \in Tasks, Pending(u)' PROVE b.seq < task'[u].frame.seq
        <5>1. Pending(u) /\ task'[u].frame = task[u].frame
          BY <1>6, <4>4
        <5>2. task[u].frame \in broadcasts /\ task[u].frame # b
          BY <2>3, <5>1, FrameSeq, PendingActive DEF ReplayInv, FramesInv
        <5>3. ~ (task[u].frame.seq < b.seq)
          <6>1. CASE task[u].pc = "append"
            BY <4>1, <6>1
          <6>2. CASE task[u].pc = "fanout"
            <7>1. b.seq <= task[u].frame.seq
              BY <1>11, <6>2 DEF ReplayInv, FramesInv
            <7> QED
              BY <4>2, <5>2, <7>1
          <6> QED
            BY <5>1, <6>1, <6>2 DEF Pending
        <5> QED
          BY <4>2, <5>1, <5>2, <5>3
      <4> QED
        BY <4>3, <4>4 DEF Gone
    <3> QED
      BY <3>1, <3>2
  <2> QED
    BY <1>2, <1>11, <2>1, <2>2, <2>3
<1>12. FramesInv'
  <2>1. turn_buffer' \cup unsaved' \cup unstored' \cup Entries' \cup baseline' \cup gate'.extra \subseteq broadcasts'
    BY <1>1, <1>5, <1>9 DEF ReplayInv, FramesInv
  <2>2. \A u, v \in Tasks : Active(u)' /\ Active(v)' /\ task'[u].frame = task'[v].frame => u = v
    BY <1>6 DEF ReplayInv, FramesInv
  <2>3. \A u \in Tasks : task'[u].pc = "fanout" => \A b \in broadcasts' : b.seq <= task'[u].frame.seq
    BY <1>1, <1>6 DEF ReplayInv, FramesInv
  <2>4. ASSUME NEW u \in Tasks, Pending(u)' PROVE task'[u].frame \notin Entries' \cup gate'.extra
    <3>1. Pending(u) /\ u # t /\ task'[u].frame = task[u].frame /\ Active(u) /\ Active(t)
      BY <1>6, <1>10, <2>4, PendingActive
    <3>2. task[u].frame # f /\ task[u].frame \notin Entries \cup gate'.extra
      BY <1>1, <3>1 DEF ReplayInv, FramesInv
    <3> QED
      BY <1>9, <3>1, <3>2
  <2> QED
    BY <1>1, <2>1, <2>2, <2>3, <2>4 DEF ReplayInv, FramesInv
<1>13. StreamInv'
  <2> SUFFICES ASSUME NEW b \in broadcasts
               PROVE  b \in Met(Holes)' \cup Entries' \/ Gone(b)' \/ \E u \in Tasks : Pending(u)' /\ task'[u].frame = b
    BY <1>1 DEF StreamInv
  <2>1. CASE b \in Met(Holes)
    BY <1>8, <2>1
  <2>2. CASE b \in Entries \/ Gone(b)
    BY <1>11, <2>2
  <2>3. ASSUME NEW u \in Tasks, Pending(u), task[u].frame = b
        PROVE  b \in Met(Holes)' \cup Entries' \/ \E v \in Tasks : Pending(v)' /\ task'[v].frame = b
    BY <1>6, <1>9, <2>3
  <2> QED
    BY <2>1, <2>2, <2>3 DEF ReplayInv, StreamInv
<1>14. GateInv'
  BY <1>1, <1>6, <1>8 DEF ReplayInv, GateInv
<1>15. DropInv'
  BY <1>1, <1>8 DEF ReplayInv, DropInv
<1>16. BufferInv'
  BY <1>1, <1>6, <1>7, <1>8 DEF ReplayInv, BufferInv
<1>17. DueInv'
  <2> SUFFICES ASSUME Listening, NEW b \in broadcasts, Due(b) PROVE Due(b)'
    BY <1>1, <1>8 DEF ReplayInv, DueInv
  <2>1. CASE b \in Safe \cup Held
    BY <2>1, <1>8 DEF Due
  <2>2. CASE \E u \in Tasks : Going(u) /\ task[u].frame = b
    BY <2>2, <1>6 DEF Due
  <2>3. CASE gate.pc = "decided" /\ (gate.refresh \/ b \in gate.extra)
    BY <2>3, <1>1 DEF Due
  <2>4. CASE /\ gate.pc \in {"seated", "peeked"} /\ client.last # 0 /\ client.last < b.seq
             /\ b \in Entries \/ Gone(b)
    <3>1. b \in Entries' \cup Met(Holes)' \/ Gone(b)'
      BY <1>11, <2>4
    <3>2. Met(Holes)' \subseteq Safe'
      BY DEF Safe
    <3> QED
      BY <1>1, <2>4, <3>1, <3>2 DEF Due
  <2> QED
    BY <2>1, <2>2, <2>3, <2>4 DEF Due
<1> QED
  BY <1>12, <1>13, <1>14, <1>15, <1>16, <1>17 DEF ReplayInv

\* A call that has appended its frame returns, the pump dies between two
\* frames, the runner ends, or the turn buffer is cleared: nothing that is owed to a client changes.
LEMMA RestFrames ==
    ASSUME Typed, ReplayInv, epoch = 0, NEW t \in Tasks, Finish(t) \/ PumpDies \/ RunnerEnds \/ UserMessage
    PROVE  ReplayInv'
<1>1. UNCHANGED <<counter, epoch, stream, connects, gate, client, broadcasts, baseline, excused>>
  BY DEF Finish, PumpDies, RunnerEnds, UserMessage
<1>2. turn_buffer' \subseteq turn_buffer \cup InFlight /\ unsaved' \cup unstored' \subseteq unsaved \cup unstored \cup InFlight
  <2>1. CASE Finish(t)
    <3>1. task[t].frame \in InFlight
      BY <2>1, PendingActive DEF Finish, Active
    <3>2. CASE task[t].frame.kind = "turn"
      BY <2>1, <3>1, <3>2 DEF Finish
    <3>3. CASE task[t].frame.kind = "end"
      BY <2>1, <3>3 DEF Finish
    <3>4. CASE task[t].frame.kind = "done"
      BY <2>1, <3>1, <3>4 DEF Finish
    <3>5. CASE task[t].frame.kind \notin {"turn", "end", "done"}
      BY <2>1, <3>1, <3>5 DEF Finish
    <3> QED
      BY <3>2, <3>3, <3>4, <3>5
  <2>2. CASE PumpDies \/ RunnerEnds \/ UserMessage
    BY <2>2 DEF PumpDies, RunnerEnds, UserMessage
  <2> QED
    BY <2>1, <2>2
<1>3. \A u \in Tasks : /\ Active(u)' => Active(u) /\ task'[u] = task[u]
                       /\ Pending(u) => task'[u] = task[u]
                       /\ task'[u] = task[u] \/ task'[u].to = 0
  <2>1. CASE Finish(t)
    <3>1. task'[t] = Resting /\ \A v \in Tasks : v # t => task'[v] = task[v]
      BY <2>1 DEF Finish, Typed
    <3>2. task[t].pc = "appended"
      BY <2>1 DEF Finish
    <3> QED
      BY <3>1, <3>2 DEF Resting, Active, Pending
  <2>2. CASE PumpDies
    <3>1. task'[Pump] = [Resting EXCEPT !.pc = "dead"] /\ (\A v \in Tasks : v # Pump => task'[v] = task[v]) /\ Pump \in Tasks
      BY <2>2, ReplayAssumption DEF PumpDies, Typed
    <3>2. task[Pump].pc = "idle"
      BY <2>2 DEF PumpDies
    <3> QED
      BY <3>1, <3>2 DEF Resting, Active, Pending
  <2>3. CASE RunnerEnds \/ UserMessage
    BY <2>3 DEF RunnerEnds, UserMessage, Active
  <2> QED
    BY <2>1, <2>2, <2>3
<1>4. \A u \in Tasks : /\ Pending(u)' <=> Pending(u)
                       /\ Going(u)' <=> Going(u)
                       /\ Pending(u) => task'[u] = task[u]
                       /\ Active(u)' => Active(u) /\ task'[u].frame = task[u].frame
                       /\ task'[u].pc = "fanout" => task'[u] = task[u]
  BY <1>1, <1>3 DEF Pending, Going, Active
<1>5. InFlight' \subseteq InFlight /\ InFlight \subseteq broadcasts
  BY <1>4, InFlightTyped DEF InFlight, Active
<1>6. /\ Entries' = Entries /\ Met(Holes)' = Met(Holes) /\ Safe' = Safe /\ Held' = Held
      /\ Listening' = Listening /\ Waiting' = Waiting
  BY <1>1 DEF Entries, Met, Safe, Shown, Held, Listening, Waiting
<1>7. \A b : Gone(b) => Gone(b)'
  BY <1>4, <1>6 DEF Gone
<1>8. FramesInv'
  <2>1. turn_buffer' \cup unsaved' \cup unstored' \cup Entries' \cup baseline' \cup gate'.extra \subseteq broadcasts'
    BY <1>1, <1>2, <1>5, <1>6 DEF ReplayInv, FramesInv
  <2>2. \A u, v \in Tasks : Active(u)' /\ Active(v)' /\ task'[u].frame = task'[v].frame => u = v
    BY <1>4 DEF ReplayInv, FramesInv
  <2>3. \A u \in Tasks : task'[u].pc = "fanout" => \A b \in broadcasts' : b.seq <= task'[u].frame.seq
    BY <1>1, <1>4 DEF ReplayInv, FramesInv
  <2>4. \A u \in Tasks : Pending(u)' => task'[u].frame \notin Entries' \cup gate'.extra
    BY <1>1, <1>4, <1>6 DEF ReplayInv, FramesInv
  <2> QED
    BY <1>1, <1>2, <2>1, <2>2, <2>3, <2>4 DEF ReplayInv, FramesInv
<1>9. StreamInv'
  BY <1>1, <1>4, <1>6, <1>7 DEF ReplayInv, StreamInv
<1>10. GateInv'
  <2>1. \A u \in Tasks : task'[u].to <= connects'
    BY <1>1, <1>3 DEF ReplayInv, GateInv, Typed
  <2>2. Listening' => \A u \in Tasks : Going(u)' =>
          /\ client'.last < task'[u].frame.seq
          /\ \A b \in Held' : b.seq < task'[u].frame.seq
          /\ \A n \in gate'.done : n < task'[u].frame.seq
    BY <1>1, <1>4, <1>6, PendingActive DEF ReplayInv, GateInv
  <2>3. gate'.pc = "loaded" => connects' > 0 /\ \A u \in Tasks : ~ Going(u)'
    BY <1>1, <1>4 DEF ReplayInv, GateInv
  <2> QED
    BY <1>1, <1>6, <2>1, <2>2, <2>3 DEF ReplayInv, GateInv
<1>11. DropInv'
  BY <1>1, <1>6 DEF ReplayInv, DropInv
<1>12. BufferInv'
  BY <1>1, <1>2, <1>4, <1>5, <1>6, PendingActive DEF ReplayInv, BufferInv
<1>13. DueInv'
  <2> SUFFICES ASSUME Listening, NEW b \in broadcasts, Due(b) PROVE Due(b)'
    BY <1>1, <1>6 DEF ReplayInv, DueInv
  <2>1. CASE \E u \in Tasks : Going(u) /\ task[u].frame = b
    BY <2>1, <1>4, PendingActive DEF Due
  <2>2. CASE b \in Safe \cup Held \/ (gate.pc = "decided" /\ (gate.refresh \/ b \in gate.extra))
    BY <2>2, <1>1, <1>6 DEF Due
  <2>3. CASE /\ gate.pc \in {"seated", "peeked"} /\ client.last # 0 /\ client.last < b.seq
             /\ b \in Entries \/ Gone(b)
    BY <2>3, <1>1, <1>6, <1>7 DEF Due
  <2> QED
    BY <2>1, <2>2, <2>3 DEF Due
<1> QED
  BY <1>8, <1>9, <1>10, <1>11, <1>12, <1>13 DEF ReplayInv

-----------------------------------------------------------------------------
(* Connecting *)

\* A load: what the page loses and the history does not have is noted.
LEMMA LoadFrames ==
    ASSUME Typed, ReplayInv, epoch = 0, Load
    PROVE  ReplayInv'
<1>1. /\ UNCHANGED <<counter, epoch, stream, turn_buffer, unsaved, unstored, task, broadcasts>>
      /\ gate' = [Off EXCEPT !.pc = "loaded"] /\ connects' = connects + 1
  BY DEF Load
<1>2. PICK last \in {0, client.last}, hs \in {{}, History} :
           /\ Loaded(hs) /\ client' = Redrawn(last) /\ baseline' = hs
           /\ LET wiped == {f \in broadcasts \ hs : f.seq <= last \/ (last = 0 /\ f \in History)}
              IN  excused' = excused \cup Wiped(wiped) \cup Meet("redraw", wiped \ (unstored \cup History))
  BY DEF Load
<1>3. client'.last = last /\ client'.applied = {} /\ client'.dropped = {} /\ last <= counter
  BY <1>2, FrameSeq DEF Redrawn, ReplayInv, FramesInv
<1>4. gate'.pc = "loaded" /\ gate'.extra = {} /\ gate'.buffer = {} /\ gate'.batch = {} /\ gate'.done = {}
  BY <1>1 DEF Off
<1>5. FramesInv' /\ StreamInv'
  <2>1. baseline' \subseteq broadcasts /\ counter' \in Nat
    BY <1>1, <1>2, FrameSeq, LoadedTyped
  <2>2. excused \subseteq excused'
    BY <1>2
  <2> QED
    BY <1>1, <1>3, <1>4, <2>1, <2>2, FrameSeq, RouteFrames DEF ReplayInv
<1>6. Held' = {} /\ ~ Listening' /\ ~ Waiting'
  BY <1>4 DEF Held, Listening, Waiting
<1>7. connects \in Nat /\ connects' = connects + 1 /\ \A u \in Tasks : task'[u] = task[u] /\ task[u].to \in Nat /\ task[u].to <= connects
  BY <1>1 DEF Typed, TaskStates, ReplayInv, GateInv
<1>8. \A u \in Tasks : ~ Going(u)' /\ task'[u].to <= connects'
  BY <1>7 DEF Going
<1>9. GateInv'
  BY <1>4, <1>6, <1>7, <1>8 DEF GateInv
<1>10. DropInv'
  <2>1. ASSUME NEW f \in broadcasts, f.seq <= last PROVE f \in Safe'
    <3> DEFINE wiped == {g \in broadcasts \ hs : g.seq <= last \/ (last = 0 /\ g \in History)}
    <3>1. CASE f \in hs
      BY <1>2, <3>1 DEF Safe, Shown
    <3>2. CASE f \notin hs
      <4>1. /\ f \in wiped /\ f \in broadcasts'
            /\ Wiped(wiped) \subseteq excused' /\ Meet("redraw", wiped \ (unstored \cup History)) \subseteq excused'
        BY <1>1, <1>2, <2>1, <3>2
      <4> HIDE DEF wiped
      <4>2. f \in Met(Holes)'
        <5>1. CASE f \in unstored \cup History
          BY <4>1, <5>1, WipedMet
        <5>2. CASE f \notin unstored \cup History
          BY <4>1, <5>2, MetNew, HolesAre
        <5> QED
          BY <5>1, <5>2
      <4> QED
        BY <4>2 DEF Safe
    <3> QED
      BY <3>1, <3>2
  <2> QED
    BY <1>1, <1>3, <1>6, <2>1 DEF DropInv
<1> QED
  BY <1>5, <1>6, <1>9, <1>10 DEF ReplayInv, BufferInv, DueInv

\* The gate is seated with the turn buffer and its ready frame.
LEMMA ConnectFrames ==
    ASSUME Typed, Counted, ReplayInv, epoch = 0, Connect
    PROVE  ReplayInv'
<1> DEFINE r == Stamped("ready")
<1>1. /\ UNCHANGED <<epoch, stream, turn_buffer, unsaved, unstored, task, connects, client, broadcasts, baseline>>
      /\ counter' = counter + 1 /\ counter \in Nat /\ gate.pc = "loaded"
      /\ excused' = excused \cup Meet("seating", InFlight \ Unseen)
                           \cup Meet("cleared", Unseen \cap unsaved)
                           \cup Meet("unstored", Unseen \cap unstored)
                           \cup Meet("opening", Unseen \ (unsaved \cup unstored \cup Met({"unloaded"})))
  BY FrameSeq DEF Connect, Count
<1>2. /\ gate'.pc = "seated" /\ gate'.buffer = turn_buffer \cup {r} /\ gate'.extra = {} /\ gate'.batch = {}
      /\ gate'.done = {} /\ r \in Frames
  BY ConnectTyped
<1>3. r.seq = counter + 1 /\ r.epoch = 0 /\ r.kind = "ready"
  BY DEF Stamped
<1> HIDE DEF r
<1>4. FramesInv' /\ StreamInv'
  <2>1. counter' \in Nat /\ counter <= counter' /\ client'.last <= counter' /\ baseline' \subseteq broadcasts
    BY <1>1, FrameSeq DEF ReplayInv, FramesInv
  <2> QED
    BY <1>1, <1>2, <2>1, RouteFrames DEF ReplayInv
<1>5. Held' = turn_buffer \cup {r} /\ Listening' /\ Waiting' /\ Held = {} /\ ~ Listening
  BY <1>1, <1>2 DEF Held, Listening, Waiting, ReplayInv, GateInv
<1>6. \A u \in Tasks : ~ Going(u)' /\ (Pending(u)' <=> Pending(u)) /\ (Active(u)' <=> Active(u))
  BY <1>1 DEF Going, Pending, Active, ReplayInv, GateInv
<1>7. \A b \in broadcasts : b.seq \in Nat /\ b.seq <= counter /\ b.seq < r.seq /\ b.epoch = 0 /\ b.kind # "full_refresh"
  BY <1>1, <1>3, FrameSeq DEF ReplayInv, FramesInv, Broadcast
<1>8. turn_buffer \subseteq broadcasts /\ InFlight \subseteq broadcasts
  BY InFlightTyped DEF ReplayInv, FramesInv
<1>9. Safe \subseteq Safe' /\ Met(Holes) \subseteq Met(Holes)' /\ Entries' = Entries /\ InFlight' = InFlight
      /\ Met(Holes)' \subseteq Safe'
  BY <1>1, MetGrows, SafeGrows DEF Entries, InFlight, Safe
<1>10. GateInv'
  <2>1. \A f \in Held' : f.epoch = 0 /\ f.seq <= counter' /\ f.kind # "full_refresh"
    BY <1>1, <1>3, <1>5, <1>7, <1>8
  <2>2. \A f \in Held', g \in Held' \cup broadcasts' : f.seq = g.seq => f = g
    BY <1>1, <1>3, <1>5, <1>7, <1>8 DEF ReplayInv, FramesInv
  <2>3. client'.last < counter'
    BY <1>1, FrameSeq DEF ReplayInv, FramesInv
  <2>4. \A u \in Tasks : task'[u].to <= connects'
    BY <1>1 DEF ReplayInv, GateInv
  <2> QED
    BY <1>2, <1>5, <1>6, <2>1, <2>2, <2>3, <2>4 DEF GateInv
<1>11. ~ (r.seq <= client.last)
  BY <1>1, <1>3, FrameSeq DEF ReplayInv, FramesInv
<1>12. DropInv'
  BY <1>1, <1>5, <1>8, <1>9, <1>11 DEF ReplayInv, DropInv
<1>13. ASSUME NEW f \in broadcasts, f \in InFlight \cup Unseen PROVE f \in Met(Holes)'
  <2>1. CASE f \in InFlight \ Unseen
    BY <1>1, <2>1, MetNew, HolesAre
  <2>2. CASE f \in Unseen \cap unsaved
    BY <1>1, <2>2, MetNew, HolesAre
  <2>3. CASE f \in Unseen \cap unstored
    BY <1>1, <2>3, MetNew, HolesAre
  <2>4. CASE f \in Met({"unloaded"})
    BY <1>9, <2>4, HolesAre DEF Met
  <2>5. CASE f \in Unseen \ (unsaved \cup unstored \cup Met({"unloaded"}))
    BY <1>1, <2>5, MetNew, HolesAre
  <2> QED
    BY <1>13, <2>1, <2>2, <2>3, <2>4, <2>5
<1>14. BufferInv'
  BY <1>1, <1>2, <1>8, <1>9, <1>13 DEF BufferInv
<1>15. DueInv'
  <2> SUFFICES ASSUME NEW f \in broadcasts PROVE Due(f)'
    BY <1>1 DEF DueInv
  <2>1. CASE f \in baseline \cup turn_buffer \cup Met(Holes)'
    <3>1. baseline' \subseteq Safe'
      BY DEF Safe, Shown
    <3> QED
      BY <2>1, <3>1, <1>1, <1>5, <1>9 DEF Due
  <2>2. CASE client.last = 0 /\ f \notin baseline \cup turn_buffer
    <3>1. f \in Unseen
      BY <2>2 DEF Unseen
    <3> QED
      BY <3>1, <1>9, <1>13 DEF Due
  <2>3. CASE f \in InFlight
    BY <2>3, <1>9, <1>13 DEF Due
  <2>4. CASE f \notin InFlight /\ f.seq <= client.last
    <3>1. f \in Safe
      BY <1>1, <2>4 DEF ReplayInv, DropInv
    <3> QED
      BY <3>1, <1>9 DEF Due
  <2>5. CASE f \notin InFlight /\ client.last # 0 /\ ~ (f.seq <= client.last) /\ f \notin Met(Holes)'
    <3>1. f \in Entries \/ Gone(f)
      BY <1>9, <2>5, PendingActive DEF ReplayInv, StreamInv
    <3>2. f \in Entries' \/ Gone(f)'
      BY <1>1, <1>6, <1>9, <3>1 DEF Gone
    <3>3. client'.last < f.seq /\ client'.last # 0
      BY <1>1, <1>7, <2>5, FrameSeq
    <3> QED
      BY <1>2, <3>2, <3>3 DEF Due
  <2> QED
    BY <2>1, <2>2, <2>3, <2>4, <2>5
<1> QED
  BY <1>4, <1>10, <1>12, <1>14, <1>15 DEF ReplayInv

\* Steps of the route leave the tasks alone.
LEMMA TasksSame ==
    ASSUME UNCHANGED <<task, connects>>
    PROVE  /\ \A u \in Tasks : (Going(u)' <=> Going(u)) /\ (Pending(u)' <=> Pending(u)) /\ (Active(u)' <=> Active(u))
                               /\ task'[u] = task[u]
           /\ InFlight' = InFlight
BY DEF Going, Pending, Active, InFlight

\* replay_since: the gap is in the stream, or the client is sent a refresh.
LEMMA DecideFrames ==
    ASSUME Typed, Counted, ReplayInv, epoch = 0, Peek \/ Read \/ ReplaySkipped
    PROVE  ReplayInv'
<1>1. /\ UNCHANGED <<counter, epoch, stream, turn_buffer, unsaved, unstored, task, connects, client, broadcasts, baseline>>
      /\ gate.pc \in {"seated", "peeked"} /\ gate.refresh = FALSE
      /\ gate'.buffer = gate.buffer /\ gate'.batch = gate.batch /\ gate'.done = gate.done
      /\ \/ gate'.pc = "peeked" /\ gate'.extra = gate.extra
         \/ gate'.pc = "decided"
  BY PeekReadIs
<1>2. Waiting /\ Waiting' /\ Listening /\ Listening' /\ Held' = Held /\ gate.extra = {} /\ Entries' = Entries
  BY <1>1 DEF Waiting, Listening, Held, ReplayInv, GateInv, Entries
<1>3. gate.done = {} /\ client.last < counter /\ gate.batch = {}
  BY <1>1, <1>2 DEF ReplayInv, GateInv
<1>4. excused \subseteq excused'
  BY DEF Peek, Read, ReplaySkipped
<1>5. Safe \subseteq Safe' /\ Met(Holes) \subseteq Met(Holes)' /\ Met(Holes)' \subseteq Safe'
  BY <1>1, <1>4, MetGrows, SafeGrows DEF Safe
<1>6. \A b : Gone(b) => Gone(b)'
  BY <1>1, <1>2, TasksSame DEF Gone
<1> DEFINE Next7(b) == gate'.pc = "peeked" \/ (gate'.pc = "decided" /\ (gate'.refresh \/ b \in gate'.extra))
<1>20. Entries \subseteq broadcasts /\ \A b \in broadcasts : b.seq \in Nat
  BY FrameSeq DEF ReplayInv, FramesInv
<1>21. \A e, r : Decide(e, r) => gate'.pc = "decided" /\ gate'.extra = e /\ gate'.refresh = r
  BY DEF Decide, Typed, Gates
<1>22. ASSUME Peek, client.last # 0 PROVE gate'.pc = "peeked"
  <2>1. ~ (counter = client.last) /\ ~ (counter < client.last)
    BY <1>3, FrameSeq
  <2>2. gate' = [gate EXCEPT !.pc = "peeked"]
    BY <1>22, <2>1 DEF Peek
  <2> QED
    BY <2>2 DEF Typed, Gates
<1>23. ASSUME Read PROVE \/ gate'.pc = "decided" /\ gate'.refresh
                         \/ /\ gate'.pc = "decided" /\ gate'.extra = {f \in Entries : f.seq > client.last}
                            /\ ~ Evicted(client.last)
  BY <1>21, <1>23 DEF Read
<1>24. ASSUME ReplaySkipped PROVE (\A b \in broadcasts : b \in Met(Holes)') /\ gate'.extra = {}
  <2>1. excused' = excused \cup Meet("unavailable", broadcasts) /\ Decide({}, FALSE)
    BY <1>24 DEF ReplaySkipped
  <2> QED
    BY <1>1, <1>21, <2>1, MetNew, HolesAre
<1>25. gate'.extra \subseteq gate.extra \cup Entries
  <2>1. CASE Peek
    <3>1. Decide({}, FALSE) \/ Decide({}, TRUE) \/ gate'.pc = "peeked"
      BY <2>1 DEF Peek, Typed, Gates
    <3> QED
      BY <1>1, <1>2, <1>21, <3>1
  <2>2. CASE Read
    <3>1. gate'.extra = {} \/ gate'.extra = {f \in Entries : f.seq > client.last}
      BY <1>21, <2>2 DEF Read
    <3> QED
      BY <3>1
  <2> QED
    BY <1>24, <2>1, <2>2
<1>7. ASSUME NEW b \in broadcasts, b \notin Met(Holes)', b \in Entries \/ Gone(b),
             client.last # 0, client.last < b.seq
      PROVE  Next7(b)
  <2>1. CASE Peek
    BY <1>7, <1>22, <2>1
  <2>2. CASE Read
    <3>1. CASE gate'.extra = {f \in Entries : f.seq > client.last} /\ gate'.pc = "decided" /\ ~ Evicted(client.last)
      <4>1. PICK g \in Entries : ~ (client.last + 1 < g.seq)
        BY <3>1 DEF Evicted
      <4>2. CASE Gone(b)
        <5>1. b.seq < g.seq
          BY <4>1, <4>2 DEF Gone
        <5>2. b.seq \in Nat /\ g.seq \in Nat /\ client.last \in Nat
          BY <1>7, <1>20, <4>1, FrameSeq
        <5> QED
          BY <1>7, <4>1, <5>1, <5>2
      <4>3. CASE b \in Entries
        <5>1. b.seq > client.last
          BY <1>7, <1>20, FrameSeq
        <5> QED
          BY <3>1, <4>3, <5>1
      <4> QED
        BY <1>7, <4>2, <4>3
    <3> QED
      BY <1>23, <2>2, <3>1
  <2>3. CASE ReplaySkipped
    BY <1>7, <1>24, <2>3
  <2> QED
    BY <2>1, <2>2, <2>3
<1> HIDE DEF Next7
<1>8. FramesInv' /\ StreamInv'
  <2>1. counter' \in Nat /\ counter <= counter' /\ client'.last <= counter' /\ baseline' \subseteq broadcasts
    BY <1>1, FrameSeq DEF ReplayInv, FramesInv
  <2> QED
    BY <1>1, <1>4, <1>25, <2>1, RouteFrames DEF ReplayInv
<1>9. GateInv'
  <2>1. \A u \in Tasks : Going(u)' =>
          /\ client'.last < task'[u].frame.seq
          /\ \A f \in Held' : f.seq < task'[u].frame.seq
          /\ \A n \in gate'.done : n < task'[u].frame.seq
    BY <1>1, <1>2, TasksSame DEF ReplayInv, GateInv
  <2>2. gate'.pc # "decided" => gate'.extra = {}
    BY <1>1, <1>2
  <2>3. /\ \A u \in Tasks : task'[u].to <= connects'
        /\ \A f \in Held' : f.epoch = 0 /\ f.seq <= counter' /\ f.kind # "full_refresh"
        /\ \A f \in Held', g \in Held' \cup broadcasts' : f.seq = g.seq => f = g
    BY <1>1, <1>2 DEF ReplayInv, GateInv
  <2> QED
    BY <1>1, <1>2, <1>3, <2>1, <2>2, <2>3 DEF GateInv
<1>10. DropInv'
  BY <1>1, <1>2, <1>5 DEF ReplayInv, DropInv
<1>11. BufferInv'
  BY <1>1, <1>2, <1>5, TasksSame DEF ReplayInv, BufferInv
<1>12. DueInv'
  <2> SUFFICES ASSUME NEW b \in broadcasts, Due(b) PROVE Due(b)'
    BY <1>1, <1>2 DEF ReplayInv, DueInv
  <2>1. CASE b \in Safe \cup Held \/ b \in Met(Holes)'
    BY <2>1, <1>2, <1>5 DEF Due
  <2>2. CASE \E u \in Tasks : Going(u) /\ task[u].frame = b
    BY <2>2, <1>1, TasksSame DEF Due
  <2>3. CASE gate.pc = "decided"
    BY <1>1, <2>3
  <2>4. CASE /\ client.last # 0 /\ client.last < b.seq
             /\ b \in Entries \/ Gone(b)
             /\ b \notin Met(Holes)'
    <3>1. Next7(b)
      BY <1>7, <2>4
    <3>2. (b \in Entries)' \/ Gone(b)'
      BY <1>2, <1>6, <2>4
    <3> QED
      BY <1>1, <2>4, <3>1, <3>2 DEF Due, Next7
  <2> QED
    BY <2>1, <2>2, <2>3, <2>4 DEF Due
<1> QED
  BY <1>8, <1>9, <1>10, <1>11, <1>12 DEF ReplayInv

\* The client takes the refresh: its page is the history, and what is not
\* there yet waits in the gate.
LEMMA SendRefreshFrames ==
    ASSUME Typed, Counted, ReplayInv, epoch = 0, SendRefresh
    PROVE  ReplayInv'
<1> DEFINE r == Stamped("full_refresh")
<1>1. /\ UNCHANGED <<epoch, stream, turn_buffer, unsaved, unstored, task, connects, broadcasts>>
      /\ counter' = counter + 1 /\ counter \in Nat /\ client.last \in Nat
      /\ gate.pc = "decided" /\ gate' = [gate EXCEPT !.refresh = FALSE] /\ client' = Received(r)
      /\ r \in Frames /\ r.seq = counter + 1 /\ r.kind = "full_refresh"
  BY SendRefreshTyped, FrameSeq DEF SendRefresh, Count, Stamped
<1>2. ~ (r.seq <= client.last) /\ ~ Dropped(r)
  BY <1>1, FrameSeq DEF ReplayInv, FramesInv, Dropped
<1>3. PICK hs \in {{}, History} :
           /\ Loaded(hs) /\ baseline' = hs
           /\ excused' = excused \cup Meet("cleared", unsaved \ (turn_buffer \cup gate.buffer))
                                \cup Wiped(broadcasts \ (hs \cup gate.buffer))
                                \cup Meet("reloading", Met({"seating"}) \ (hs \cup gate.buffer))
  BY <1>2 DEF SendRefresh
<1>4. client'.last = 0 /\ client'.applied = {} /\ client'.dropped = {}
  <2>1. client \in Clients
    BY DEF Typed
  <2> QED
    BY <1>1, <1>2, <2>1, ReceivedIs
<1> HIDE DEF r
<1>5. /\ gate'.pc = "decided" /\ gate'.buffer = gate.buffer /\ gate'.extra = gate.extra /\ gate'.batch = gate.batch
      /\ gate'.done = gate.done
  BY <1>1 DEF Typed, Gates
<1>6. Held' = Held /\ Waiting /\ Waiting' /\ Listening /\ Listening' /\ gate.batch = {}
  BY <1>1, <1>5 DEF Held, Waiting, Listening, ReplayInv, GateInv
<1>7. Met(Holes) \subseteq Met(Holes)' /\ Met(Holes)' \subseteq Safe' /\ baseline' \subseteq Safe'
  BY <1>1, <1>3, MetGrows DEF Safe, Shown
<1>8. FramesInv' /\ StreamInv'
  <2>1. counter' \in Nat /\ counter <= counter' /\ client'.last <= counter' /\ baseline' \subseteq broadcasts
    BY <1>1, <1>3, <1>4, LoadedTyped
  <2>2. gate'.extra \subseteq gate.extra /\ excused \subseteq excused'
    BY <1>3, <1>5
  <2> QED
    BY <1>1, <2>1, <2>2, RouteFrames DEF ReplayInv
<1>9. GateInv'
  <2>1. \A f \in Held : f.seq \in Nat /\ f.seq <= counter
    BY FrameSeq DEF ReplayInv, GateInv, Typed, Held, Gates
  <2>2. \A u \in Tasks : Going(u)' =>
          /\ client'.last < task'[u].frame.seq
          /\ \A f \in Held' : f.seq < task'[u].frame.seq
          /\ \A n \in gate'.done : n < task'[u].frame.seq
    <3>1. \A u \in Tasks : Going(u) => task[u].frame.seq > 0
      BY FrameSeq, PendingActive
    <3> QED
      BY <1>1, <1>4, <1>5, <1>6, <3>1, TasksSame DEF ReplayInv, GateInv
  <2>3. \A f \in Held' : f.epoch = 0 /\ f.seq <= counter' /\ f.kind # "full_refresh"
    BY <1>1, <1>6, <2>1 DEF ReplayInv, GateInv
  <2>4. \A f \in Held', g \in Held' \cup broadcasts' : f.seq = g.seq => f = g
    BY <1>1, <1>6 DEF ReplayInv, GateInv
  <2>5. gate'.done = {} /\ client'.last < counter' /\ \A u \in Tasks : task'[u].to <= connects'
    BY <1>1, <1>4, <1>5, <1>6 DEF ReplayInv, GateInv
  <2> QED
    BY <1>5, <1>6, <2>2, <2>3, <2>4, <2>5 DEF GateInv
<1>10. DropInv'
  <2>1. \A f \in broadcasts' \cup Held' : ~ (f.seq <= client'.last)
    BY <1>1, <1>4, <1>6, FrameSeq DEF Typed, Held, Gates
  <2> QED
    BY <1>4, <2>1 DEF DropInv
<1>11. BufferInv'
  BY <1>1, <1>5, <1>6, <1>7, TasksSame DEF ReplayInv, BufferInv
<1>12. DueInv'
  <2> SUFFICES ASSUME NEW b \in broadcasts PROVE Due(b)'
    BY <1>1 DEF DueInv
  <2>1. CASE b \in hs \cup gate.buffer
    BY <2>1, <1>3, <1>5, <1>7 DEF Due, Held
  <2>2. CASE b \in turn_buffer \cup InFlight
    <3>1. b \in gate.buffer \cup Met(Holes) \/ \E u \in Tasks : Going(u) /\ task[u].frame = b
      BY <1>6, <2>2 DEF ReplayInv, BufferInv
    <3>2. CASE b \in gate.buffer \cup Met(Holes)
      BY <3>2, <1>5, <1>7 DEF Due, Held
    <3>3. CASE \E u \in Tasks : Going(u) /\ task[u].frame = b
      BY <3>3, <1>1, TasksSame DEF Due
    <3> QED
      BY <3>1, <3>2, <3>3
  <2>3. CASE b \in unsaved \ (turn_buffer \cup gate.buffer)
    <3>1. b \in Met(Holes)'
      BY <1>1, <1>3, <2>3, MetNew, HolesAre
    <3> QED
      BY <3>1, <1>7 DEF Due
  <2>4. CASE b \in (unstored \cup History) \ (hs \cup gate.buffer)
    <3>1. b \in broadcasts \ (hs \cup gate.buffer) /\ b \in broadcasts' /\ Wiped(broadcasts \ (hs \cup gate.buffer)) \subseteq excused'
      BY <1>1, <1>3, <2>4
    <3>2. b \in Met(Holes)'
      BY <2>4, <3>1, WipedMet
    <3> QED
      BY <3>2, <1>7 DEF Due
  <2> QED
    BY <2>1, <2>2, <2>3, <2>4 DEF History
<1> QED
  BY <1>8, <1>9, <1>10, <1>11, <1>12 DEF ReplayInv

\* A batch: what it has keeps the order of the gate, and what waited is in it.
LEMMA BatchFrames ==
    ASSUME Typed, ReplayInv, Listening, NEW fs, fs \subseteq Frames, StartBatch(fs), Held \subseteq fs,
           \A f \in fs : f.epoch = 0 /\ f.seq <= counter /\ f.kind # "full_refresh" /\ f.seq \notin gate.done,
           \A f \in fs : f.seq <= client.last => f \in Safe,
           \A f \in fs, g \in fs \cup broadcasts : f.seq = g.seq => f = g,
           \A f \in fs, t \in Tasks : Going(t) => f.seq < task[t].frame.seq,
           gate.pc \in {"decided", "flush"}, ~ gate.refresh,
           gate.pc = "decided" => \A f \in gate.extra : f \in fs \cup Met(Holes)',
           excused \subseteq excused',
           UNCHANGED <<counter, epoch, stream, turn_buffer, unsaved, unstored, task, connects, client, broadcasts, baseline>>
    PROVE  ReplayInv'
<1>1. gate' = [pc |-> "flush", buffer |-> {}, extra |-> {}, refresh |-> gate.refresh,
               batch |-> Fresh(fs), done |-> gate.done \cup Seqs(fs)]
  BY BatchIs
<1>2. Fresh(fs) = fs
  BY DEF Fresh
<1>3. /\ gate'.pc = "flush" /\ gate'.buffer = {} /\ gate'.extra = {} /\ gate'.batch = fs
      /\ gate'.done = gate.done \cup {f.seq : f \in fs} /\ Held' = fs /\ Listening' /\ ~ Waiting'
  BY <1>1, <1>2 DEF Seqs, Held, Listening, Waiting
<1>4. Safe \subseteq Safe' /\ Met(Holes)' \subseteq Safe'
  BY SafeGrows DEF Safe
<1>5. FramesInv' /\ StreamInv'
  <2>1. counter' \in Nat /\ counter <= counter' /\ client'.last <= counter' /\ baseline' \subseteq broadcasts
    BY FrameSeq DEF ReplayInv, FramesInv
  <2> QED
    BY <1>3, <2>1, RouteFrames DEF ReplayInv
<1>6. GateInv'
  <2>1. \A n \in gate'.done : n <= counter'
    BY <1>3 DEF ReplayInv, GateInv
  <2>2. \A t \in Tasks : Going(t)' =>
          /\ client'.last < task'[t].frame.seq
          /\ \A f \in Held' : f.seq < task'[t].frame.seq
          /\ \A n \in gate'.done : n < task'[t].frame.seq
    <3>1. \A t \in Tasks : Going(t)' => Going(t) /\ task'[t].frame = task[t].frame
      BY TasksSame
    <3> QED
      BY <1>3, <3>1 DEF ReplayInv, GateInv
  <2>3. \A t \in Tasks : task'[t].to <= connects'
    BY DEF ReplayInv, GateInv
  <2>4. \A f \in Held' : f.epoch = 0 /\ f.seq <= counter' /\ f.kind # "full_refresh"
    BY <1>3
  <2>5. \A f \in Held', g \in Held' \cup broadcasts' : f.seq = g.seq => f = g
    BY <1>3
  <2> QED
    BY <1>3, <2>1, <2>2, <2>3, <2>4, <2>5 DEF GateInv
<1>7. DropInv'
  BY <1>3, <1>4 DEF ReplayInv, DropInv
<1>8. BufferInv'
  BY <1>3 DEF BufferInv
<1>9. DueInv'
  <2> SUFFICES ASSUME NEW b \in broadcasts, Due(b) PROVE Due(b)'
    BY DEF ReplayInv, DueInv
  <2>1. CASE b \in Safe \cup Held
    BY <2>1, <1>3, <1>4 DEF Due
  <2>2. CASE \E t \in Tasks : Going(t) /\ task[t].frame = b
    BY <2>2, TasksSame DEF Due
  <2>3. CASE gate.pc = "decided" /\ (gate.refresh \/ b \in gate.extra)
    BY <2>3, <1>3, <1>4 DEF Due
  <2> QED
    BY <2>1, <2>2, <2>3 DEF Due
<1> QED
  BY <1>5, <1>6, <1>7, <1>8, <1>9 DEF ReplayInv

\* release(): the entries before the turn buffer's first frame and the buffer.
LEMMA ReleaseFrames ==
    ASSUME Typed, ReplayInv, Release
    PROVE  ReplayInv'
<1> DEFINE fs == Replayed \cup gate.buffer
<1>1. /\ gate.pc = "decided" /\ ~ gate.refresh /\ StartBatch(fs)
      /\ excused' = excused \cup Meet("watermark", Skipped)
      /\ UNCHANGED <<counter, epoch, stream, turn_buffer, unsaved, unstored, task, connects, client, broadcasts, baseline>>
  BY DEF Release
<1>2. Waiting /\ Listening /\ Held = gate.buffer /\ gate.done = {}
  BY <1>1 DEF Waiting, Listening, Held, ReplayInv, GateInv
<1>3. /\ gate.extra \subseteq broadcasts /\ fs \subseteq gate.extra \cup gate.buffer /\ gate.buffer \subseteq fs
      /\ gate.extra \subseteq Frames /\ gate.buffer \subseteq Frames
  BY DEF Replayed, Typed, Gates, ReplayInv, FramesInv
<1>4. fs \subseteq Frames
  BY <1>3
<1>5. \A f \in gate.extra : f \in fs \cup Met(Holes)'
  <2> SUFFICES ASSUME NEW f \in gate.extra, f \notin fs PROVE f \in Met(Holes)'
    OBVIOUS
  <2>1. f \in Skipped
    BY DEF Skipped
  <2> QED
    BY <1>1, <1>3, <2>1, MetNew, HolesAre
<1> HIDE DEF fs
<1>6. \A f \in fs : f.epoch = 0 /\ f.seq <= counter /\ f.kind # "full_refresh" /\ f.seq \notin gate.done
  BY <1>2, <1>3 DEF ReplayInv, FramesInv, GateInv, Broadcast
<1>7. \A f \in fs : f.seq <= client.last => f \in Safe
  BY <1>2, <1>3 DEF ReplayInv, DropInv
<1>8. \A f \in fs, g \in fs \cup broadcasts : f.seq = g.seq => f = g
  BY <1>2, <1>3 DEF ReplayInv, FramesInv, GateInv
<1>9. ASSUME NEW f \in fs, NEW t \in Tasks, Going(t) PROVE f.seq < task[t].frame.seq
  <2>1. CASE f \in gate.buffer
    BY <1>2, <1>9, <2>1 DEF ReplayInv, GateInv
  <2>2. CASE f \in gate.extra
    <3>1. task[t].frame \in broadcasts /\ task[t].frame # f /\ f \in broadcasts
      BY <1>3, <1>9, <2>2, PendingActive, FrameSeq DEF ReplayInv, FramesInv
    <3>2. f.seq <= task[t].frame.seq /\ f.seq # task[t].frame.seq
      BY <1>9, <3>1 DEF ReplayInv, FramesInv, Going
    <3> QED
      BY <3>1, <3>2, FrameSeq
  <2> QED
    BY <1>3, <2>1, <2>2
<1>10. excused \subseteq excused'
  BY <1>1
<1> QED
  BY <1>1, <1>2, <1>3, <1>4, <1>5, <1>6, <1>7, <1>8, <1>9, <1>10, BatchFrames

\* The end of a batch: what came in meanwhile is the next one.
LEMMA DrainFrames ==
    ASSUME Typed, Counted, ReplayInv, Drain
    PROVE  ReplayInv'
<1>1. /\ gate.pc = "flush" /\ gate.batch = {} /\ ~ gate.refresh
      /\ UNCHANGED <<counter, epoch, stream, turn_buffer, unsaved, unstored, task, connects, client, broadcasts, baseline, excused>>
  BY DEF Drain, Counted
<1>2. Listening /\ Held = gate.buffer /\ gate.buffer \subseteq Frames
  BY <1>1 DEF Listening, Held, Typed, Gates
<1>3. CASE gate.buffer # {}
  <2>1. StartBatch(gate.buffer)
    BY <1>3 DEF Drain
  <2>2. \A f \in gate.buffer : f.epoch = 0 /\ f.seq <= counter /\ f.kind # "full_refresh" /\ f.seq \notin gate.done
    BY <1>1, <1>2 DEF ReplayInv, GateInv
  <2>3. \A f \in gate.buffer : f.seq <= client.last => f \in Safe
    BY <1>2 DEF ReplayInv, DropInv
  <2>4. \A f \in gate.buffer, g \in gate.buffer \cup broadcasts : f.seq = g.seq => f = g
    BY <1>2 DEF ReplayInv, GateInv
  <2>5. \A f \in gate.buffer, t \in Tasks : Going(t) => f.seq < task[t].frame.seq
    BY <1>2 DEF ReplayInv, GateInv
  <2> QED
    BY <1>1, <1>2, <2>1, <2>2, <2>3, <2>4, <2>5, BatchFrames
<1>4. CASE gate.buffer = {}
  <2>1. /\ gate'.pc = "open" /\ gate'.buffer = {} /\ gate'.batch = {} /\ gate'.extra = {} /\ gate'.done = gate.done
    BY <1>1, <1>4 DEF Drain, Typed, Gates, ReplayInv, GateInv
  <2>2. Held' = {} /\ Held = {} /\ ~ Waiting' /\ Listening'
    BY <1>1, <1>2, <1>4, <2>1 DEF Held, Waiting, Listening
  <2>3. Safe' = Safe
    BY <1>1 DEF Safe, Shown, Met
  <2>4. FramesInv' /\ StreamInv'
    <3>1. counter' \in Nat /\ counter <= counter' /\ client'.last <= counter' /\ baseline' \subseteq broadcasts
      BY <1>1, FrameSeq DEF ReplayInv, FramesInv
    <3> QED
      BY <1>1, <2>1, <3>1, RouteFrames DEF ReplayInv
  <2>5. GateInv'
    <3>1. \A t \in Tasks : Going(t)' =>
            /\ client'.last < task'[t].frame.seq
            /\ \A n \in gate'.done : n < task'[t].frame.seq
      BY <1>1, <1>2, <2>1, TasksSame DEF ReplayInv, GateInv
    <3>2. (\A t \in Tasks : task'[t].to <= connects') /\ \A n \in gate'.done : n <= counter'
      BY <1>1, <2>1 DEF ReplayInv, GateInv
    <3> QED
      BY <2>1, <2>2, <3>1, <3>2 DEF GateInv
  <2>6. DropInv' /\ BufferInv'
    BY <1>1, <2>1, <2>2, <2>3 DEF ReplayInv, DropInv, BufferInv
  <2>7. DueInv'
    <3>1. \A b \in broadcasts : b \in Safe \/ \E t \in Tasks : Going(t) /\ task[t].frame = b
      BY <1>1, <1>2, <2>2 DEF ReplayInv, DueInv, Due
    <3>2. \A b \in broadcasts : b \in Safe' \/ \E t \in Tasks : Going(t)' /\ task'[t].frame = b
      BY <1>1, <2>3, <3>1, TasksSame
    <3> QED
      BY <1>1, <3>2 DEF DueInv, Due
  <2> QED
    BY <2>4, <2>5, <2>6, <2>7 DEF ReplayInv
<1> QED
  BY <1>3, <1>4

\* The batch goes out in the order of the numbers.
LEMMA FlushFrames ==
    ASSUME Typed, ReplayInv, Flush
    PROVE  ReplayInv'
<1>1. PICK f \in gate.batch : /\ \A g \in gate.batch : f.seq <= g.seq
                              /\ client' = Received(f)
                              /\ gate' = [gate EXCEPT !.batch = @ \ {f}]
  BY DEF Flush
<1>2. /\ gate.pc = "flush"
      /\ UNCHANGED <<counter, epoch, stream, turn_buffer, unsaved, unstored, task, connects, broadcasts, baseline, excused>>
  BY DEF Flush
<1>3. /\ gate'.pc = "flush" /\ gate'.buffer = gate.buffer /\ gate'.batch = gate.batch \ {f}
      /\ gate'.extra = gate.extra /\ gate'.done = gate.done /\ f \in Frames
  BY <1>1, <1>2 DEF Typed, Gates
<1>4. /\ Listening /\ Listening' /\ ~ Waiting' /\ f \in Held /\ Held' \subseteq Held /\ Held \subseteq Held' \cup {f}
      /\ f.kind # "full_refresh" /\ f.seq <= counter /\ gate.extra = {}
  BY <1>2, <1>3 DEF Listening, Waiting, Held, ReplayInv, GateInv
<1>5. \/ /\ f.seq <= client.last /\ client'.last = client.last /\ client'.applied = client.applied
         /\ client'.dropped = client.dropped \cup {f} /\ f \in Safe
      \/ /\ ~ (f.seq <= client.last) /\ client'.last = f.seq /\ client'.applied = client.applied \cup {f}
         /\ client'.dropped = client.dropped
  <2>1. client \in Clients
    BY DEF Typed
  <2>2. f.seq <= client.last => f \in Safe
    BY <1>4 DEF ReplayInv, DropInv
  <2> QED
    BY <1>1, <1>3, <1>4, <2>1, <2>2, ReceivedIs
<1>6. Safe \subseteq Safe'
  BY <1>2, <1>5, SafeGrows
<1>7. f \in Safe'
  BY <1>5, <1>6 DEF Safe, Shown
<1>8. ASSUME NEW g \in Held' PROVE client'.last = client.last \/ client'.last < g.seq
  <2>1. CASE g \in gate.buffer
    BY <1>2, <1>5, <2>1 DEF ReplayInv, GateInv
  <2>2. CASE g \in gate.batch \ {f}
    <3>1. f.seq <= g.seq /\ f.seq # g.seq /\ g \in Held
      BY <1>1, <1>4, <2>2 DEF ReplayInv, GateInv, Held
    <3>2. g \in Frames
      BY <2>2 DEF Typed, Gates
    <3> QED
      BY <1>3, <1>5, <3>1, <3>2, FrameSeq
  <2> QED
    BY <1>3, <1>8, <2>1, <2>2 DEF Held
<1>9. FramesInv' /\ StreamInv'
  <2>1. counter' \in Nat /\ counter <= counter' /\ client'.last <= counter' /\ baseline' \subseteq broadcasts
    BY <1>2, <1>4, <1>5, FrameSeq DEF ReplayInv, FramesInv
  <2> QED
    BY <1>2, <1>3, <2>1, RouteFrames DEF ReplayInv
<1>10. GateInv'
  <2>1. \A t \in Tasks : Going(t)' =>
          /\ client'.last < task'[t].frame.seq
          /\ \A g \in Held' : g.seq < task'[t].frame.seq
          /\ \A n \in gate'.done : n < task'[t].frame.seq
    BY <1>2, <1>3, <1>4, <1>5, TasksSame DEF ReplayInv, GateInv
  <2>2. \A g \in gate'.buffer : /\ g.seq > client'.last /\ g.seq \notin gate'.done
                                /\ \A h \in gate'.batch : h.seq < g.seq
    <3>1. \A g \in gate.buffer : g.seq > client.last /\ f.seq < g.seq /\ g.seq \in Nat
      BY <1>2, FrameSeq DEF ReplayInv, GateInv, Typed, Gates
    <3> QED
      BY <1>2, <1>3, <1>5, <3>1, FrameSeq DEF ReplayInv, GateInv
  <2>3. /\ \A t \in Tasks : task'[t].to <= connects'
        /\ \A g \in Held' : g.epoch = 0 /\ g.seq <= counter' /\ g.kind # "full_refresh"
        /\ \A g \in Held', h \in Held' \cup broadcasts' : g.seq = h.seq => g = h
        /\ \A n \in gate'.done : n <= counter'
    BY <1>2, <1>3, <1>4 DEF ReplayInv, GateInv
  <2> QED
    BY <1>3, <1>4, <2>1, <2>2, <2>3 DEF GateInv
<1>11. DropInv'
  <2>1. client'.dropped \subseteq Safe'
    BY <1>5, <1>6, <1>7 DEF ReplayInv, DropInv
  <2>2. ASSUME NEW g \in Held', g.seq <= client'.last PROVE g \in Safe'
    <3>1. g.seq \in Nat /\ client'.last \in Nat
      BY <1>3, <1>4, <1>5, FrameSeq DEF Typed, Gates, Held
    <3>2. client'.last = client.last
      BY <1>8, <2>2, <3>1
    <3> QED
      BY <1>4, <1>6, <2>2, <3>2 DEF ReplayInv, DropInv
  <2> QED
    BY <1>3, <1>4, <2>1, <2>2 DEF DropInv
<1>12. BufferInv'
  BY <1>4 DEF BufferInv
<1>13. DueInv'
  <2>1. \A b \in broadcasts : b \in Safe \cup Held \/ \E t \in Tasks : Going(t) /\ task[t].frame = b
    BY <1>2, <1>4 DEF ReplayInv, DueInv, Due
  <2>2. \A b \in broadcasts : b \in Safe' \cup Held' \/ \E t \in Tasks : Going(t)' /\ task'[t].frame = b
    BY <1>2, <1>4, <1>6, <1>7, <2>1, TasksSame
  <2> QED
    BY <1>2, <2>2 DEF DueInv, Due
<1> QED
  BY <1>9, <1>10, <1>11, <1>12, <1>13 DEF ReplayInv

\* A connection that breaks holds nothing.
LEMMA DisconnectFrames ==
    ASSUME Typed, ReplayInv, Disconnect
    PROVE  ReplayInv'
<1>1. /\ gate' = Off
      /\ UNCHANGED <<counter, epoch, stream, turn_buffer, unsaved, unstored, task, connects, client, broadcasts, baseline, excused>>
  BY DEF Disconnect
<1>2. /\ gate'.pc = "off" /\ gate'.buffer = {} /\ gate'.batch = {} /\ gate'.extra = {} /\ gate'.done = {}
      /\ ~ Listening' /\ ~ Waiting' /\ Held' = {}
  BY <1>1 DEF Off, Listening, Waiting, Held
<1>3. FramesInv' /\ StreamInv'
  <2>1. counter' \in Nat /\ counter <= counter' /\ client'.last <= counter' /\ baseline' \subseteq broadcasts
    BY <1>1, FrameSeq DEF ReplayInv, FramesInv
  <2> QED
    BY <1>1, <1>2, <2>1, RouteFrames DEF ReplayInv
<1>4. GateInv'
  <2>1. \A t \in Tasks : task'[t].to <= connects'
    BY <1>1 DEF ReplayInv, GateInv
  <2> QED
    BY <1>2, <2>1 DEF GateInv
<1>5. DropInv'
  <2>1. Safe' = Safe
    BY <1>1 DEF Safe, Shown, Met
  <2> QED
    BY <1>1, <1>2, <2>1 DEF ReplayInv, DropInv
<1> QED
  BY <1>2, <1>3, <1>4, <1>5 DEF ReplayInv, BufferInv, DueInv

-----------------------------------------------------------------------------
(* The invariant of the specification and what follows from it *)

\* It holds initially, before any connection.
LEMMA ReplayInit == Init => ReplayInv
<1> SUFFICES ASSUME Init PROVE ReplayInv
  OBVIOUS
<1>1. /\ counter = 0 /\ stream = <<>> /\ turn_buffer = {} /\ unsaved = {} /\ unstored = {} /\ connects = 0
      /\ broadcasts = {} /\ baseline = {} /\ client.last = 0 /\ client.dropped = {}
      /\ \A t \in Tasks : task[t] = Resting
  BY DEF Init
<1>2. /\ gate.pc = "off" /\ gate.buffer = {} /\ gate.batch = {} /\ gate.extra = {} /\ gate.done = {}
      /\ ~ Listening /\ ~ Waiting /\ Held = {}
  BY DEF Init, Off, Listening, Waiting, Held
<1>3. Entries = {} /\ \A t \in Tasks : ~ Active(t) /\ ~ Pending(t) /\ ~ Going(t) /\ task[t].pc # "fanout" /\ task[t].to = 0
  BY <1>1 DEF Entries, Active, Pending, Going, Resting
<1>4. FramesInv /\ StreamInv
  BY <1>1, <1>2, <1>3 DEF FramesInv, StreamInv
<1>5. GateInv
  BY <1>1, <1>2, <1>3 DEF GateInv
<1>6. DropInv /\ BufferInv /\ DueInv
  BY <1>1, <1>2 DEF DropInv, BufferInv, DueInv
<1> QED
  BY <1>4, <1>5, <1>6 DEF ReplayInv

\* Every step keeps it; a lost state never comes back.
LEMMA FullInvStep ==
    ASSUME FullInv, [Next]_vars
    PROVE  FullInv'
<1>1. Typed' /\ Counted'
  BY TypedStep DEF FullInv
<1>2. ASSUME epoch' = 0 PROVE ReplayInv'
  <2>1. CASE BackendFlush
    BY <1>2, <2>1 DEF BackendFlush, FullInv, Typed
  <2>2. CASE UNCHANGED vars
    <3>1. ReplayInv
      BY <1>2, <2>2 DEF vars, FullInv
    <3>2. UNCHANGED <<counter, stream, turn_buffer, unsaved, unstored, task, connects, gate, client, broadcasts, baseline, excused>>
      BY <2>2 DEF vars
    <3>3. /\ Held' = Held /\ Safe' = Safe /\ Met(Holes)' = Met(Holes) /\ Entries' = Entries /\ InFlight' = InFlight
          /\ Listening' = Listening /\ Waiting' = Waiting
      BY <3>2 DEF Held, Safe, Shown, Met, Entries, InFlight, Listening, Waiting
    <3>4. \A f : Gone(f) <=> Gone(f)'
      BY <3>2, <3>3, TasksSame DEF Gone
    <3>5. FramesInv' /\ StreamInv'
      BY <3>1, <3>2, <3>3, <3>4 DEF ReplayInv, FramesInv, StreamInv, Active, Pending
    <3>6. GateInv'
      BY <3>1, <3>2, <3>3, TasksSame DEF ReplayInv, GateInv
    <3>7. DropInv' /\ BufferInv'
      BY <3>1, <3>2, <3>3, TasksSame DEF ReplayInv, DropInv, BufferInv
    <3>8. DueInv'
      <4>1. \A f : Due(f) => Due(f)'
        BY <3>2, <3>3, <3>4, TasksSame DEF Due
      <4> QED
        BY <3>1, <3>2, <3>3, <4>1 DEF ReplayInv, DueInv
    <3> QED
      BY <3>5, <3>6, <3>7, <3>8 DEF ReplayInv
  <2>3. CASE Next /\ ~ BackendFlush
    <3>1. epoch' = epoch
      BY <2>3 DEF Next, PumpFrame, Notice, TaskNext, GateNext, Stamp, PumpDies, RunnerEnds, UserMessage, Deliver, AppendFrame,
                  Finish, Load, Connect, Peek, Read, SendRefresh, Release, Flush, Drain, ReplaySkipped, Disconnect
    <3>2. epoch = 0 /\ Typed /\ Counted /\ ReplayInv
      BY <1>2, <3>1 DEF FullInv
    <3>3. ASSUME NEW t \in Tasks, NEW kind \in Broadcast, Stamp(t, kind) PROVE ReplayInv'
      BY <3>2, <3>3, StampFrames
    <3>4. CASE PumpFrame \/ Notice
      BY <3>3, <3>4, ReplayAssumption DEF PumpFrame, Notice, Broadcast
    <3>5. CASE \E t \in Tasks : TaskNext(t)
      BY <3>2, <3>5, DeliverFrames, AppendFrames, RestFrames DEF TaskNext
    <3>6. CASE PumpDies \/ RunnerEnds \/ UserMessage
      BY <3>2, <3>6, RestFrames, ReplayAssumption
    <3>7. CASE Load \/ Connect
      BY <3>2, <3>7, LoadFrames, ConnectFrames
    <3>8. CASE GateNext \/ ReplaySkipped
      BY <3>2, <3>8, DecideFrames, SendRefreshFrames, ReleaseFrames, FlushFrames, DrainFrames DEF GateNext
    <3>9. CASE Disconnect
      BY <3>2, <3>9, DisconnectFrames
    <3> QED
      BY <2>3, <3>4, <3>5, <3>6, <3>7, <3>8, <3>9 DEF Next
  <2> QED
    BY <2>1, <2>2, <2>3
<1> QED
  BY <1>1, <1>2 DEF FullInv

\* The invariant of a chat's frames: what the connection has to hand, the
\* order in which it hands it over, and what it may no longer miss
\* (_broadcast, replay_since, GapReplayGate and handleFrame together).
THEOREM ReplayInvariant == Spec => []FullInv
<1>1. Init => FullInv
  BY InitTyped, ReplayInit DEF FullInv
<1>2. FullInv /\ [Next]_vars => FullInv'
  BY FullInvStep
<1> QED
  BY <1>1, <1>2, PTL DEF Spec

\* The variables keep their types, and the numbers stay within the bound:
\* a frame of a connection is numbered like any broadcast, at most two per
\* connection (the ready frame of attach, the full_refresh of ws_stream).
THEOREM ReplayTyped == Spec => []TypeOK
<1>1. FullInv => TypeOK
  <2> SUFFICES ASSUME FullInv PROVE TypeOK
    OBVIOUS
  <2>1. Typed /\ Counted
    BY DEF FullInv
  <2>2. counter \in Numbers \cup {0}
    BY <2>1, NumbersLeft
  <2>3. gate.buffer \cup gate.extra \cup gate.batch \subseteq Frames
        /\ gate.pc \in {"off", "loaded", "seated", "peeked", "decided", "flush", "open"}
        /\ client.applied \cup client.dropped \subseteq Frames
    BY <2>1 DEF Typed, Gates, Clients
  <2> QED
    BY <2>1, <2>2, <2>3 DEF TypeOK, Typed, TaskStates
<1> QED
  BY <1>1, ReplayInvariant, PTL

\* Once the gate is open the page shows every frame fanned out, but for the
\* known holes: an open gate holds nothing, so that what is due has been
\* shown or is in the hands of a _broadcast (GapReplayGate.release).
THEOREM GapsClosed == Spec => []GapClosed
<1>1. FullInv => GapClosed
  <2> SUFFICES ASSUME FullInv, epoch = 0, gate.pc = "open", NEW b \in FannedOut
               PROVE  b \in Shown \cup Met(Holes)
    BY DEF GapClosed, CompleteBut
  <2>1. ReplayInv /\ Listening /\ Held = {}
    BY DEF FullInv, ReplayInv, GateInv, Listening, Held
  <2>2. b \in broadcasts /\ ~ \E t \in Tasks : Going(t) /\ task[t].frame = b
    BY DEF FannedOut, Going
  <2>3. Due(b)
    BY <2>1, <2>2 DEF ReplayInv, DueInv
  <2> QED
    BY <2>1, <2>2, <2>3 DEF Due, Safe
<1> QED
  BY <1>1, ReplayInvariant, PTL

\* The client's dedup by seq (handleFrame) drops what the page shows or what
\* met a known hole, and nothing else.
THEOREM DuplicatesOnly == Spec => []OnlyDuplicatesDropped
<1>1. FullInv => OnlyDuplicatesDropped
  BY DEF FullInv, ReplayInv, DropInv, Safe, OnlyDuplicatesDropped
<1> QED
  BY <1>1, ReplayInvariant, PTL

=============================================================================
