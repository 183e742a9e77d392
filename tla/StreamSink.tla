----------------------------- MODULE StreamSink -----------------------------
(***************************************************************************)
(* Sink<sink_policy::Immediate> and Sink<sink_policy::Buffered>            *)
(* (include/vosp/logger.hpp): text sinks over a std::ostream that may fail *)
(* in the middle of a write, throw when its exception mask says so, and be *)
(* repaired by the application between calls.                              *)
(*                                                                         *)
(* The buffered policy keeps a shard for each producer of each sink and a  *)
(* thread_local pointer to the shard used last.  What registry_mutex_      *)
(* protects is one action; a section under a shard's mutex or under        *)
(* output_mutex_ is split where it waits for another lock or for the       *)
(* stream.  A stream operation writes pieces of lines, any number of them  *)
(* if it fails.                                                            *)
(***************************************************************************)
EXTENDS Naturals, Sequences, SequencesExt, TextRecord

CONSTANTS
  Threads,
  Sinks,        \* instance_id_ of each sink; each has a stream of its own
  Records,      \* the log entries
  FlushThreshold,
  FlushLimit,   \* bound: calls of flush() and destructions
  RepairLimit   \* bound: repairs of the streams

ASSUME RecordsAssumption == \A r \in Records : Entry(r)
ASSUME SinksAssumption == Sinks \subseteq Nat \ {0}
ASSUME ThresholdAssumption == FlushThreshold \in Nat \ {0}
ASSUME LimitsAssumption == FlushLimit \in Nat /\ RepairLimit \in Nat

VARIABLES
  buffered, throwing,  \* the policy, and whether the streams throw
  alive,               \* the sinks that are not being destroyed
  shards,              \* of each sink, in the order of registration
  cached,              \* thread_local: cached_instance_id and cached_shard
  locks,               \* held: <<s, 0>> is output_mutex_, <<s, i>> shard i's
  good, output,        \* of each stream: its state, the pieces written
  pc, op, sink,        \* where each thread is, and in which call
  todo,                \* local: the pieces, or the shards, that remain
  success,             \* what the call returns, or is about to
  issued,              \* history: the records each thread wrote to each sink
  accepted,            \* history: of each sink, what write accepted
  covered,             \* history: what a flush found accepted and buffered
  told,                \* history: the sinks that reported a failure
  flushes, repairs     \* bounds

streams == <<good, output>>
locals == <<pc, op, sink, todo, success, covered>>
fates == <<accepted, told>>
bounds == <<flushes, repairs>>
vars == <<buffered, throwing, alive, shards, cached, locks, good, output, pc,
          op, sink, todo, success, issued, accepted, covered, told,
          flushes, repairs>>

Init ==
  /\ buffered \in BOOLEAN /\ throwing \in BOOLEAN
  /\ alive = Sinks /\ shards = [s \in Sinks |-> <<>>] /\ locks = {}
  /\ cached = [t \in Threads |-> [id |-> 0, shard |-> 0]]
  /\ good = [s \in Sinks |-> TRUE] /\ output = [s \in Sinks |-> <<>>]
  /\ pc = [t \in Threads |-> "idle"] /\ op = [t \in Threads |-> "none"]
  /\ sink = [t \in Threads |-> 0] /\ todo = [t \in Threads |-> <<>>]
  /\ success = [t \in Threads |-> "true"]
  /\ covered = [t \in Threads |-> {}]
  /\ issued = [w \in Threads \X Sinks |-> <<>>]
  /\ accepted = [s \in Sinks |-> {}] /\ told = {} /\ flushes = 0 /\ repairs = 0

Set(f, t, value) == f' = [f EXCEPT ![t] = value]
\* The record of the write that t is in.
record(t) == Last(issued[<<t, sink[t]>>])
Busy(s) == \E t \in Threads : pc[t] # "idle" /\ sink[t] = s

\* What a line consists of: the prefix holds the whole of a short one.
Pieces(r) ==
  IF message_is_buffered(r) THEN <<<<r, "line">>>>
  ELSE <<<<r, "prefix">>, <<r, "message">>, <<r, "newline">>>>
Lines(buffer) == FlattenSeq([i \in DOMAIN buffer |-> Pieces(buffer[i])])
Written(pieces) == {r \in Records : Contains(pieces, Last(Pieces(r)))}
Buffered(s) == UNION {ToSet(shards[s][i].buffer) : i \in DOMAIN shards[s]}

\* How an operation that writes "pieces" may end.  A bad stream ignores it,
\* or throws again.
Outcomes(s, pieces) ==
  IF good[s]
  THEN {[good |-> TRUE, put |-> pieces, throws |-> FALSE]} \cup
       {[good |-> FALSE, put |-> SubSeq(pieces, 1, n), throws |-> throwing] :
          n \in 0 .. Len(pieces)}
  ELSE [good : {FALSE}, put : {<<>>}, throws : {FALSE, throwing}]
Stream(s, o) ==
  Set(good, s, o.good) /\ Set(output, s, output[s] \o o.put)

\* The call of t returns, or throws; destructors keep both to themselves.
Return(t, value) ==
  /\ Set(pc, t, "idle") /\ Set(op, t, "none") /\ Set(sink, t, 0)
  /\ Set(todo, t, <<>>) /\ Set(success, t, value) /\ Set(covered, t, {})
  /\ accepted' = IF op[t] = "write" /\ value = "true"
                 THEN [accepted EXCEPT ![sink[t]] = @ \cup {record(t)}]
                 ELSE accepted
  /\ told' = IF value = "true" \/ op[t] = "destroy" THEN told
             ELSE told \cup {sink[t]}
Truth(b) == IF b THEN "true" ELSE "false"
-----------------------------------------------------------------------------
(* The application.                                                        *)

\* The application calls clear() on a stream that no call is using.
Repair(s) ==
  /\ ~good[s] /\ ~Busy(s) /\ repairs < RepairLimit
  /\ Set(good, s, TRUE) /\ repairs' = repairs + 1
  /\ UNCHANGED <<buffered, throwing, alive, shards, cached, locks, output,
                 locals, issued, fates, flushes>>

\* A thread ends, and a new one gets its id.
Restart(t) ==
  /\ pc[t] = "idle" /\ cached[t].id # 0
  /\ Set(cached, t, [id |-> 0, shard |-> 0])
  /\ UNCHANGED <<buffered, throwing, alive, shards, locks, streams, locals,
                 issued, fates, bounds>>
-----------------------------------------------------------------------------
(* The calls, up to their first lock.                                      *)

Begin(t, s, call, label, work) ==
  /\ pc[t] = "idle" /\ s \in alive
  /\ Set(pc, t, label) /\ Set(op, t, call) /\ Set(sink, t, s)
  /\ Set(success, t, "true") /\ Set(todo, t, work)
  /\ UNCHANGED <<buffered, throwing, locks, streams, fates, repairs>>

CacheHitAnySink(t, s) == cached[t].id # 0                      \* mutant
CacheHit(t, s) == cached[t].id = s
\* current_thread_shard.
Own(t, s) == {i \in DOMAIN shards[s] : shards[s][i].producer = t}
Found(t, s) == IF CacheHit(t, s) THEN cached[t].shard
               ELSE IF Own(t, s) = {} THEN Len(shards[s]) + 1
               ELSE CHOOSE i \in Own(t, s) : \A j \in Own(t, s) : i <= j
Register(t, s) ==
  IF CacheHit(t, s) \/ Own(t, s) # {} THEN UNCHANGED shards
  ELSE Set(shards, s, Append(shards[s], [producer |-> t, buffer |-> <<>>]))

CallWrite(t, s) ==
  /\ \E r \in Records :
       /\ \A w \in DOMAIN issued : ~Contains(issued[w], r)
       /\ issued' = [issued EXCEPT ![<<t, s>>] = Append(@, r)]
       /\ IF buffered
          THEN /\ Begin(t, s, "write", "append", <<Found(t, s)>>)
               /\ Set(cached, t, [id |-> s, shard |-> Found(t, s)])
               /\ Register(t, s)
          ELSE /\ Begin(t, s, "write", "output", Pieces(r))
               /\ UNCHANGED <<cached, shards>>
  /\ UNCHANGED <<alive, covered, flushes>>

FlushOrderButLast(s) == [i \in 1 .. Len(shards[s]) - 1 |-> i]  \* mutant
FlushOrder(s) == [i \in DOMAIN shards[s] |-> i]

CallFlush(t, s) ==
  /\ buffered /\ flushes < FlushLimit /\ flushes' = flushes + 1
  /\ \/ Begin(t, s, "flush", "next", FlushOrder(s)) /\ UNCHANGED alive
     \/ /\ ~Busy(s) /\ Begin(t, s, "destroy", "next", FlushOrder(s))
        /\ alive' = alive \ {s}
  /\ Set(covered, t, accepted[s] \cap Buffered(s))
  /\ UNCHANGED <<shards, cached, issued>>
-----------------------------------------------------------------------------
(* write.                                                                  *)

ShardLock(t) == <<sink[t], Head(todo[t])>>
OutputLock(t) == <<sink[t], 0>>
Buffer(t) == shards[sink[t]][Head(todo[t])].buffer
SetBuffer(t, b) ==
  shards' = [shards EXCEPT ![sink[t]][Head(todo[t])].buffer = b]
BelowThresholdOrEqual(b) ==                                    \* mutant
  FoldLeft(LAMBDA n, r : n + LineSize(r), 0, b) <= FlushThreshold
BelowThreshold(b) ==
  FoldLeft(LAMBDA n, r : n + LineSize(r), 0, b) < FlushThreshold

AppendRecord(t) ==
  /\ pc[t] = "append" /\ ShardLock(t) \notin locks
  /\ LET b == Append(Buffer(t), record(t)) IN
     /\ SetBuffer(t, b)
     /\ IF BelowThreshold(b)
        THEN Return(t, "true") /\ UNCHANGED locks
        ELSE /\ locks' = locks \cup {ShardLock(t)} /\ Set(pc, t, "output")
             /\ UNCHANGED <<op, sink, todo, success, covered, fates>>
  /\ UNCHANGED <<buffered, throwing, alive, cached, streams, issued, bounds>>

LockOutputNever(t) ==                                          \* mutant
  /\ pc[t] = "output" /\ Set(pc, t, "stream")
  /\ UNCHANGED <<buffered, throwing, alive, shards, cached, locks, streams, op,
                 sink, todo, success, covered, issued, fates, bounds>>
LockOutput(t) ==
  /\ pc[t] = "output" /\ OutputLock(t) \notin locks
  /\ locks' = locks \cup {OutputLock(t)} /\ Set(pc, t, "stream")
  /\ UNCHANGED <<buffered, throwing, alive, shards, cached, streams, op, sink,
                 todo, success, covered, issued, fates, bounds>>

\* Immediate: the next piece; write_view does nothing on a bad stream.
WritePiece(t) ==
  LET s == sink[t]
      skipped == Head(todo[t])[2] = "message" /\ ~good[s] IN
  /\ pc[t] = "stream" /\ ~buffered
  /\ \E o \in Outcomes(s, <<Head(todo[t])>>) :
       /\ skipped => ~o.throws
       /\ Stream(s, o)
       /\ IF o.throws \/ Len(todo[t]) = 1
          THEN /\ Return(t, IF o.throws THEN "throws" ELSE Truth(o.good))
               /\ locks' = locks \ {OutputLock(t)}
          ELSE /\ Set(todo, t, Tail(todo[t]))
               /\ UNCHANGED <<pc, op, sink, success, covered, fates, locks>>
  /\ UNCHANGED <<buffered, throwing, alive, shards, cached, issued, bounds>>
-----------------------------------------------------------------------------
(* flush_shard with its caller's lock, and flush.                          *)

\* What flush_shard leaves in the buffer, and what it returns.
RestAlways(o, buffer) == buffer                                \* mutant
Rest(o, buffer) == IF o.throws THEN buffer ELSE <<>>
ShardResultTrue(o) == TRUE                                     \* mutant
ShardResult(o) == o.good
\* The locks that an end of flush_shard releases, by return or exception.
ReleasedOnReturn(t, o) ==                                      \* mutant
  IF o.throws THEN {} ELSE {ShardLock(t), OutputLock(t)}
Released(t, o) == {ShardLock(t), OutputLock(t)}

FlushShard(t) ==
  /\ pc[t] = "stream" /\ buffered
  /\ \E o \in Outcomes(sink[t], Lines(Buffer(t))) :
       /\ Stream(sink[t], o)
       /\ SetBuffer(t, Rest(o, Buffer(t)))
       /\ locks' = locks \ Released(t, o)
       /\ IF o.throws THEN Return(t, "throws")
          ELSE IF op[t] = "write" THEN Return(t, Truth(ShardResult(o)))
          ELSE /\ Set(todo, t, Tail(todo[t])) /\ Set(pc, t, "next")
               /\ Set(success, t,
                      IF ShardResult(o) THEN success[t] ELSE "false")
               /\ UNCHANGED <<op, sink, covered, fates>>
  /\ UNCHANGED <<buffered, throwing, alive, cached, issued, bounds>>

FlushNext(t) ==
  /\ pc[t] = "next" /\ todo[t] # <<>> /\ ShardLock(t) \notin locks
  /\ IF Buffer(t) = <<>>
     THEN Set(todo, t, Tail(todo[t])) /\ UNCHANGED <<pc, locks>>
     ELSE /\ locks' = locks \cup {ShardLock(t)} /\ Set(pc, t, "output")
          /\ UNCHANGED todo
  /\ UNCHANGED <<buffered, throwing, alive, shards, cached, streams, op, sink,
                 success, covered, issued, fates, bounds>>

FlushEnd(t) ==
  /\ pc[t] = "next" /\ todo[t] = <<>> /\ OutputLock(t) \notin locks
  /\ \E o \in Outcomes(sink[t], <<>>) :
       /\ Stream(sink[t], o)
       /\ Return(t, IF o.throws THEN "throws"
                    ELSE Truth(o.good /\ success[t] = "true"))
  /\ UNCHANGED <<buffered, throwing, alive, shards, cached, locks, issued,
                 bounds>>
-----------------------------------------------------------------------------
(* The specification.                                                      *)

Step(t) ==
  \/ AppendRecord(t) \/ LockOutput(t) \/ WritePiece(t)
  \/ FlushShard(t) \/ FlushNext(t) \/ FlushEnd(t)
Next ==
  \/ \E t \in Threads : \/ Step(t) \/ Restart(t)
                        \/ \E s \in Sinks : CallWrite(t, s) \/ CallFlush(t, s)
  \/ \E s \in Sinks : Repair(s)

Spec == Init /\ [][Next]_vars
\* A call that can take a step takes one, and stream operations end.
FairSpec == Spec /\ \A t \in Threads : WF_vars(Step(t))
-----------------------------------------------------------------------------
(* Properties.                                                             *)

\* The type of every variable; an unlocked shard of a stream that does not
\* throw stays below the threshold.
TypeOK ==
  /\ buffered \in BOOLEAN /\ throwing \in BOOLEAN /\ alive \subseteq Sinks
  /\ \A s \in Sinks : \A i \in DOMAIN shards[s] :
       /\ shards[s][i].producer \in Threads
       /\ shards[s][i].buffer \in Seq(Records)
       /\ LET b == shards[s][i].buffer IN
          \/ throwing \/ <<s, i>> \in locks
          \/ FoldLeft(LAMBDA n, r : n + LineSize(r), 0, b) < FlushThreshold
  /\ cached \in [Threads -> [id : Sinks \cup {0}, shard : Nat]]
  /\ locks \subseteq Sinks \X Nat
  /\ good \in [Sinks -> BOOLEAN]
  /\ \A s \in Sinks : ToSet(output[s]) \subseteq
       Records \X {"line", "prefix", "message", "newline"}
  /\ pc \in [Threads -> {"idle", "append", "output", "stream", "next"}]
  /\ op \in [Threads -> {"none", "write", "flush", "destroy"}]
  /\ sink \in [Threads -> Sinks \cup {0}]
  /\ success \in [Threads -> {"true", "false", "throws"}]
  /\ issued \in [Threads \X Sinks -> Seq(Records)]
  /\ accepted \in [Sinks -> SUBSET Records]
  /\ covered \in [Threads -> SUBSET Records] /\ told \subseteq Sinks
  /\ flushes \in 0 .. FlushLimit /\ repairs \in 0 .. RepairLimit

\* prepare_text_record writes inside its array, for the record of every write.
RecordFits ==
  \A w \in DOMAIN issued : \A r \in ToSet(issued[w]) :
    prefix_size(r) <= PrefixCapacity

\* The thread_local pointer is never used for another sink or producer, and a
\* producer has one shard in a sink, also when its thread id is used again.
ShardsOwned ==
  /\ \A s \in Sinks : \A i, j \in DOMAIN shards[s] :
       shards[s][i].producer = shards[s][j].producer => i = j
  /\ \A t \in Threads : pc[t] = "append" =>
       /\ Head(todo[t]) \in DOMAIN shards[sink[t]]
       /\ shards[sink[t]][Head(todo[t])].producer = t

\* No piece of a line stands after a piece of another one, whatever fails.
LinesWhole ==
  \A s \in Sinks : \A i \in DOMAIN output[s] :
    LET r == output[s][i][1] IN
    /\ output[s][i][2] = "message" => i > 1 /\ output[s][i-1] = <<r, "prefix">>
    /\ output[s][i][2] = "newline" => i > 1 /\ output[s][i-1] = <<r, "message">>

\* The lines of a producer appear once and in the order of its writes; only
\* a stream that throws after it wrote something gets it a second time.
Begun(s) == {i \in DOMAIN output[s] : output[s][i][2] \in {"line", "prefix"}}
ProducerOrder ==
  \A s \in Sinks, t \in Threads : ~(throwing /\ s \in told) =>
    LET written == issued[<<t, s>>] IN
    \A i, j \in Begun(s) : \A m, n \in DOMAIN written :
      i < j /\ written[m] = output[s][i][1] /\ written[n] = output[s][j][1]
      => m < n

\* An accepted record is buffered or on the stream, unless a call on its sink
\* has reported a failure or is about to.
LossReported ==
  \A s \in alive :
    \/ accepted[s] \subseteq Buffered(s) \cup Written(output[s])
    \/ s \in told
    \/ \E t \in Threads : pc[t] # "idle" /\ sink[t] = s /\ success[t] = "false"

\* When flush() returns true, every record that was accepted before the call
\* and still buffered is on the stream.
FlushCovers ==
  [][\A t \in Threads :
       pc[t] = "next" /\ pc'[t] = "idle" /\ success'[t] = "true"
       => covered[t] \subseteq Written(output'[sink[t]])]_vars

\* Every call returns, also past a stream that threw in another one.
CallsReturn == \A t \in Threads : (pc[t] # "idle") ~> (pc[t] = "idle")
=============================================================================
