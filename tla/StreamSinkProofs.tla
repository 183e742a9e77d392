-------------------------- MODULE StreamSinkProofs --------------------------
(***************************************************************************)
(* Proofs about StreamSink and TextRecord, for any threads, sinks and      *)
(* records, and any threshold: prepare_text_record stays inside its array, *)
(* the thread_local pointer leads every write to the one shard that its    *)
(* thread has in its sink, no line on a stream is broken by another, no    *)
(* record is lost in silence, flush() covers what was buffered, and the    *)
(* lines of a producer are in the order of its writes.                     *)
(*                                                                         *)
(* The inductive invariant is IInv (the shards and their owners), SInv     *)
(* (types, and where a call is), DInv (what shards and streams hold) and   *)
(* OInv (the order in which they hold it).                                 *)
(* What FlattenSeq and FoldLeft give for sequences of any length is shown  *)
(* by taking the least length for which it would be false (Least).         *)
(***************************************************************************)
EXTENDS StreamSink, SequenceTheorems, WellFoundedInduction, TLAPS

Shard == [producer : Threads, buffer : Seq(Records)]

Indexed(f) == f = [t \in Threads |-> f[t]]
Types ==
  /\ shards \in [Sinks -> Seq(Shard)]
  /\ cached \in [Threads -> [id : Sinks \cup {0}, shard : Nat]]
  /\ issued \in [Threads \X Sinks -> Seq(Records)]
  /\ Indexed(pc) /\ Indexed(sink) /\ Indexed(todo)

\* A producer has one shard in a sink.
OneShard(s) ==
  \A i, j \in DOMAIN shards[s] :
    shards[s][i].producer = shards[s][j].producer => i = j

\* Shard i of sink s is that of t.
Owns(t, s, i) == i \in DOMAIN shards[s] /\ shards[s][i].producer = t
\* What the cache of t says is true, for every sink it may be asked about.
CacheTrue(t) == cached[t].id \in Sinks => Owns(t, cached[t].id, cached[t].shard)
\* A write on its way to its shard.
Directed(t) ==
  pc[t] = "append" =>
    /\ sink[t] \in Sinks /\ issued[<<t, sink[t]>>] # <<>>
    /\ Owns(t, sink[t], Head(todo[t]))

IInv ==
  /\ Types
  /\ \A s \in Sinks : OneShard(s)
  /\ \A t \in Threads : CacheTrue(t) /\ Directed(t)

\* The layout of a record: the longest header leaves room, and a message is
\* copied only where it fits with its newline.
LEMMA PrefixFits ==
  ASSUME NEW e, Entry(e) PROVE prefix_size(e) <= PrefixCapacity
<1>1. LevelLength[e.level] \in 4 .. 8
  BY DEF Entry, LevelLength
<1>2. CategoryLength[e.category] \in 4 .. 10
  BY DEF Entry, CategoryLength
<1>3. HeaderSize(e) \in 0 .. 48 /\ e.length \in Nat
  BY <1>1, <1>2 DEF Entry, HeaderSize
<1> QED
  BY <1>3 DEF prefix_size, message_is_buffered, PrefixCapacity

\* A change of a buffer leaves the shards and their producers.
LEMMA BufferStep ==
  ASSUME shards \in [Sinks -> Seq(Shard)], NEW s, NEW i, NEW b,
         s \in Sinks /\ i \in DOMAIN shards[s] => b \in Seq(Records),
         shards' = [shards EXCEPT ![s][i].buffer = b]
  PROVE  /\ shards' \in [Sinks -> Seq(Shard)]
         /\ \A q \in Sinks :
              /\ DOMAIN shards'[q] = DOMAIN shards[q]
              /\ \A j \in DOMAIN shards[q] :
                   shards'[q][j].producer = shards[q][j].producer
<1>1. ASSUME NEW q \in Sinks, q # s
      PROVE  shards'[q] = shards[q]
  BY <1>1
<1>2. CASE s \in Sinks
  <2>1. /\ shards'[s] = [shards[s] EXCEPT ![i].buffer = b]
        /\ DOMAIN shards[s] = 1 .. Len(shards[s])
    BY <1>2
  <2>2. CASE i \in DOMAIN shards[s]
    <3> DEFINE e == [shards[s][i] EXCEPT !.buffer = b]
    <3>1. shards[s] \in Seq(Shard) /\ shards[s][i] \in Shard
      BY <1>2, <2>2, <2>1
    <3>2. e \in Shard /\ e.producer = shards[s][i].producer
      BY <1>2, <2>2, <3>1 DEF Shard
    <3>3. shards'[s] = [shards[s] EXCEPT ![i] = e]
      BY <2>1
    <3> HIDE DEF e
    <3>4. i \in 1 .. Len(shards[s]) /\ e \in Shard
      BY <2>1, <2>2, <3>2
    <3>5. shards'[s] \in Seq(Shard)
      BY ONLY <3>1, <3>3, <3>4, ExceptSeq
    <3>6. \A j \in DOMAIN shards[s] :
            shards'[s][j] = IF j = i THEN e ELSE shards[s][j]
      BY <3>3
    <3>7. DOMAIN shards'[s] = DOMAIN shards[s]
      BY <3>3
    <3> QED
      BY <1>1, <1>2, <3>2, <3>5, <3>6, <3>7
  <2>3. CASE i \notin DOMAIN shards[s]
    <3>1. shards'[s] = shards[s]
      BY <2>1, <2>3, <1>2
    <3> QED
      BY <1>1, <3>1
  <2> QED
    BY <2>2, <2>3
<1>3. CASE s \notin Sinks
  BY <1>1, <1>3
<1> QED
  BY <1>2, <1>3

\* A step that starts no write, and at most changes a buffer or forgets what a
\* thread_local pointer says.
LEMMA QuietStep ==
  ASSUME IInv, UNCHANGED issued,
         shards' \in [Sinks -> Seq(Shard)],
         \A q \in Sinks :
           /\ DOMAIN shards'[q] = DOMAIN shards[q]
           /\ \A j \in DOMAIN shards[q] :
                shards'[q][j].producer = shards[q][j].producer,
         Indexed(pc'), Indexed(sink'), Indexed(todo'),
         cached' \in [Threads -> [id : Sinks \cup {0}, shard : Nat]],
         \A t \in Threads : cached'[t] = cached[t] \/ cached'[t].id = 0,
         \A t \in Threads : pc'[t] = "append" =>
           pc[t] = "append" /\ sink'[t] = sink[t] /\ todo'[t] = todo[t]
  PROVE  IInv'
<1>1. Types'
  BY DEF IInv, Types, Indexed
<1>2. \A s \in Sinks : OneShard(s)'
  BY DEF IInv, OneShard
<1>3. ASSUME NEW t \in Threads PROVE CacheTrue(t)'
  <2>1. CASE cached'[t].id = 0
    BY <2>1, SinksAssumption DEF CacheTrue
  <2>2. CASE cached'[t] = cached[t]
    BY <2>2 DEF IInv, CacheTrue, Owns
  <2> QED
    BY <2>1, <2>2
<1>4. ASSUME NEW t \in Threads PROVE Directed(t)'
  <2>1. SUFFICES ASSUME pc'[t] = "append" PROVE Directed(t)'
    BY DEF Directed
  <2>2. /\ sink'[t] = sink[t] /\ todo'[t] = todo[t]
        /\ sink[t] \in Sinks /\ issued[<<t, sink[t]>>] # <<>>
        /\ Owns(t, sink[t], Head(todo[t]))
    BY <2>1 DEF IInv, Directed
  <2>3. Owns(t, sink[t], Head(todo[t]))'
    BY <2>2 DEF Owns
  <2> QED
    BY <2>2, <2>3 DEF Directed
<1> QED
  BY <1>1, <1>2, <1>3, <1>4 DEF IInv

\* A step of t that neither starts a write nor directs one.
Elsewhere(t) ==
  /\ \E x : x # "append" /\ pc' = [pc EXCEPT ![t] = x]
  /\ \E x : sink' = [sink EXCEPT ![t] = x]
  /\ \E x : todo' = [todo EXCEPT ![t] = x]
  /\ UNCHANGED <<cached, issued>>

LEMMA SameIndexed ==
  ASSUME NEW f, Indexed(f), NEW t \in Threads PROVE f = [f EXCEPT ![t] = f[t]]
BY DEF Indexed

LEMMA ElsewhereStep ==
  ASSUME IInv, NEW t \in Threads, Elsewhere(t),
         shards' \in [Sinks -> Seq(Shard)],
         \A q \in Sinks :
           /\ DOMAIN shards'[q] = DOMAIN shards[q]
           /\ \A j \in DOMAIN shards[q] :
                shards'[q][j].producer = shards[q][j].producer
  PROVE  IInv'
<1>1. Indexed(pc') /\ Indexed(sink') /\ Indexed(todo')
  BY DEF IInv, Types, Indexed, Elsewhere
<1>2. cached' \in [Threads -> [id : Sinks \cup {0}, shard : Nat]]
  BY DEF IInv, Types, Elsewhere
<1>3. \A u \in Threads : pc'[u] = "append" =>
        pc[u] = "append" /\ sink'[u] = sink[u] /\ todo'[u] = todo[u]
  BY DEF IInv, Types, Indexed, Elsewhere
<1> QED
  BY <1>1, <1>2, <1>3, QuietStep DEF Elsewhere

LEMMA UnbufferedStep ==
  ASSUME IInv, NEW t \in Threads, Elsewhere(t), UNCHANGED shards PROVE IInv'
BY ElsewhereStep DEF IInv, Types

LEMMA BufferedStep ==
  ASSUME IInv, NEW t \in Threads, Elsewhere(t), NEW b, SetBuffer(t, b),
         sink[t] \in Sinks /\ Head(todo[t]) \in DOMAIN shards[sink[t]]
           => b \in Seq(Records)
  PROVE  IInv'
<1> DEFINE s == sink[t]
           i == Head(todo[t])
<1>1. /\ shards' = [shards EXCEPT ![s][i].buffer = b]
      /\ shards \in [Sinks -> Seq(Shard)]
  BY DEF SetBuffer, IInv, Types
<1> HIDE DEF s, i
<1>2. s \in Sinks /\ i \in DOMAIN shards[s] => b \in Seq(Records)
  BY DEF s, i
<1>3. /\ shards' \in [Sinks -> Seq(Shard)]
      /\ \A q \in Sinks :
           /\ DOMAIN shards'[q] = DOMAIN shards[q]
           /\ \A j \in DOMAIN shards[q] :
                shards'[q][j].producer = shards[q][j].producer
  BY <1>1, <1>2, BufferStep
<1> QED
  BY <1>3, ElsewhereStep

LEMMA BufferType ==
  ASSUME Types, NEW t,
         sink[t] \in Sinks, Head(todo[t]) \in DOMAIN shards[sink[t]]
  PROVE  Buffer(t) \in Seq(Records)
<1>1. \A s \in Sinks : \A i \in DOMAIN shards[s] : shards[s][i] \in Shard
  BY DEF Types
<1>2. shards[sink[t]][Head(todo[t])] \in Shard
  BY <1>1
<1> QED
  BY <1>2 DEF Shard, Buffer

LEMMA AppendStep ==
  ASSUME IInv, NEW t \in Threads, AppendRecord(t) PROVE IInv'
<1> DEFINE b == Append(Buffer(t), record(t))
<1>1. pc[t] = "append" /\ SetBuffer(t, b) /\ UNCHANGED <<cached, issued>>
  BY DEF AppendRecord
<1>2. Elsewhere(t)
  <2>1. CASE Return(t, "true")
    BY <1>1, <2>1 DEF Return, Set, Elsewhere
  <2>2. CASE Set(pc, t, "output") /\ UNCHANGED <<sink, todo>>
    <3>1. /\ sink' = [sink EXCEPT ![t] = sink[t]]
          /\ todo' = [todo EXCEPT ![t] = todo[t]]
      BY <2>2, SameIndexed DEF IInv, Types
    <3> QED
      BY <1>1, <2>2, <3>1 DEF Set, Elsewhere
  <2> QED
    BY <2>1, <2>2 DEF AppendRecord
<1>3. Buffer(t) \in Seq(Records)
  BY <1>1, BufferType DEF IInv, Directed, Owns
<1>4. record(t) \in Records
  <2>1. issued[<<t, sink[t]>>] \in Seq(Records) /\ issued[<<t, sink[t]>>] # <<>>
    BY <1>1 DEF IInv, Types, Directed
  <2> QED
    BY <2>1 DEF record, Last
<1>5. b \in Seq(Records)
  BY <1>3, <1>4
<1> HIDE DEF b
<1> QED
  BY <1>1, <1>2, <1>5, BufferedStep

LEMMA FlushShardStep ==
  ASSUME IInv, NEW t \in Threads, FlushShard(t) PROVE IInv'
<1>1. PICK o : /\ SetBuffer(t, Rest(o, Buffer(t)))
               /\ \/ \E value : Return(t, value)
                  \/ \E x : /\ Set(todo, t, x) /\ Set(pc, t, "next")
                            /\ UNCHANGED sink
  BY DEF FlushShard
<1>2. UNCHANGED <<cached, issued>>
  BY DEF FlushShard
<1>3. Elsewhere(t)
  <2>1. ASSUME NEW value, Return(t, value) PROVE Elsewhere(t)
    BY <1>2, <2>1 DEF Return, Set, Elsewhere
  <2>2. ASSUME NEW x, Set(todo, t, x), Set(pc, t, "next"), UNCHANGED sink
        PROVE  Elsewhere(t)
    <3>1. sink' = [sink EXCEPT ![t] = sink[t]]
      BY <2>2, SameIndexed DEF IInv, Types
    <3> QED
      BY <1>2, <2>2, <3>1 DEF Set, Elsewhere
  <2> QED
    BY <1>1, <2>1, <2>2
<1>4. sink[t] \in Sinks /\ Head(todo[t]) \in DOMAIN shards[sink[t]]
        => Rest(o, Buffer(t)) \in Seq(Records)
  BY BufferType DEF IInv, Rest
<1> QED
  BY <1>1, <1>3, <1>4, BufferedStep

\* The other steps of a call that has begun, and the calls of flush().
LEMMA OtherCallStep ==
  ASSUME IInv, NEW t \in Threads,
         \/ LockOutput(t) \/ WritePiece(t) \/ FlushNext(t) \/ FlushEnd(t)
         \/ \E s \in Sinks : CallFlush(t, s)
  PROVE  IInv'
<1>1. /\ pc = [pc EXCEPT ![t] = pc[t]]
      /\ sink = [sink EXCEPT ![t] = sink[t]]
      /\ todo = [todo EXCEPT ![t] = todo[t]]
  BY SameIndexed DEF IInv, Types
<1>2. ASSUME NEW value, Return(t, value), UNCHANGED <<cached, issued>>
      PROVE  Elsewhere(t)
  BY <1>2 DEF Return, Set, Elsewhere
<1>3. CASE LockOutput(t)
  <2>1. Elsewhere(t) /\ UNCHANGED shards
    BY <1>1, <1>3 DEF LockOutput, Set, Elsewhere
  <2> QED
    BY <2>1, UnbufferedStep
<1>4. CASE WritePiece(t)
  <2>1. /\ pc[t] = "stream" /\ UNCHANGED <<shards, cached, issued>>
        /\ \/ \E value : Return(t, value)
           \/ \E x : Set(todo, t, x) /\ UNCHANGED <<pc, sink>>
    BY <1>4 DEF WritePiece
  <2>2. Elsewhere(t)
    BY <1>1, <1>2, <2>1 DEF Set, Elsewhere
  <2> QED
    BY <2>1, <2>2, UnbufferedStep
<1>5. CASE FlushNext(t)
  <2>1. /\ pc[t] = "next" /\ UNCHANGED <<shards, cached, issued, sink>>
        /\ \/ \E x : Set(todo, t, x) /\ UNCHANGED pc
           \/ Set(pc, t, "output") /\ UNCHANGED todo
    BY <1>5 DEF FlushNext
  <2>2. Elsewhere(t)
    BY <1>1, <2>1 DEF Set, Elsewhere
  <2> QED
    BY <2>1, <2>2, UnbufferedStep
<1>6. CASE FlushEnd(t)
  <2>1. UNCHANGED <<shards, cached, issued>>
    BY <1>6 DEF FlushEnd
  <2>2. PICK o \in Outcomes(sink[t], <<>>) :
          /\ Stream(sink[t], o)
          /\ Return(t, IF o.throws THEN "throws"
                       ELSE Truth(o.good /\ success[t] = "true"))
    BY <1>6, Zenon DEF FlushEnd
  <2>3. Elsewhere(t)
    <3>1. pc' = [pc EXCEPT ![t] = "idle"] /\ sink' = [sink EXCEPT ![t] = 0]
          /\ todo' = [todo EXCEPT ![t] = <<>>]
      BY <2>2, Zenon DEF Return, Set
    <3> QED
      BY <2>1, <3>1 DEF Elsewhere
  <2> QED
    BY <2>1, <2>3, UnbufferedStep
<1>7. ASSUME NEW s \in Sinks, CallFlush(t, s) PROVE IInv'
  <2>1. /\ UNCHANGED <<shards, cached, issued>>
        /\ \/ Begin(t, s, "flush", "next", FlushOrder(s))
           \/ Begin(t, s, "destroy", "next", FlushOrder(s))
    BY <1>7 DEF CallFlush
  <2>2. Elsewhere(t)
    BY <2>1 DEF Begin, Set, Elsewhere
  <2> QED
    BY <2>1, <2>2, UnbufferedStep
<1> QED
  BY <1>3, <1>4, <1>5, <1>6, <1>7

\* A thread that takes the id of an ended one starts with an empty cache.
LEMMA RestartStep ==
  ASSUME IInv, NEW t \in Threads, Restart(t) PROVE IInv'
<1>1. UNCHANGED <<shards, issued, pc, sink, todo>>
  BY DEF Restart, locals
<1>2. cached' = [cached EXCEPT ![t] = [id |-> 0, shard |-> 0]]
  BY DEF Restart, Set
<1>3. cached' \in [Threads -> [id : Sinks \cup {0}, shard : Nat]]
  BY <1>2 DEF IInv, Types
<1>4. \A u \in Threads : cached'[u] = cached[u] \/ cached'[u].id = 0
  BY <1>2 DEF IInv, Types
<1> QED
  BY <1>1, <1>3, <1>4, QuietStep DEF IInv, Types

LEMMA RepairStep ==
  ASSUME IInv, UNCHANGED <<shards, cached, issued, pc, sink, todo>> PROVE IInv'
BY QuietStep DEF IInv, Types
-----------------------------------------------------------------------------
(* The start of a write: what current_thread_shard returns.                *)

\* The shard is in place, and belongs to the caller.
LEMMA FoundOwned ==
  ASSUME IInv, NEW t \in Threads, NEW s \in Sinks, Register(t, s),
         NEW k, k = Found(t, s)
  PROVE  /\ shards' \in [Sinks -> Seq(Shard)]
         /\ \A q \in Sinks : OneShard(q)'
         /\ Owns(t, s, k)' /\ k \in Nat
         /\ \A q \in Sinks : \A u, i : Owns(u, q, i) => Owns(u, q, i)'
<1>1. Types /\ OneShard(s) /\ CacheTrue(t)
  BY DEF IInv
<1>2. CASE CacheHit(t, s)
  <2>1. shards' = shards /\ k = cached[t].shard /\ cached[t].id = s
    BY <1>2 DEF Register, Found, CacheHit
  <2>2. cached[t].shard \in Nat
    BY <1>1 DEF Types
  <2> QED
    BY <1>1, <2>1, <2>2 DEF IInv, Types, CacheTrue, Owns, OneShard
<1>3. CASE ~CacheHit(t, s) /\ Own(t, s) # {}
  <2>1. shards' = shards
    BY <1>3 DEF Register
  <2>2. PICK i \in Own(t, s) : TRUE
    BY <1>3
  <2>3. \A j \in Own(t, s) : j = i
    BY <1>1 DEF Own, OneShard
  <2>4. i \in Nat
    BY <1>1 DEF Own, Types
  <2>5. k = i
    <3>1. \A j \in Own(t, s) : i <= j
      BY <2>3, <2>4
    <3>2. (CHOOSE x \in Own(t, s) : \A j \in Own(t, s) : x <= j) \in Own(t, s)
      BY <2>2, <3>1, Zenon
    <3> QED
      BY <1>3, <2>3, <3>2, Zenon DEF Found
  <2>6. Owns(t, s, i)
    BY DEF Own, Owns
  <2> QED
    BY <1>1, <2>1, <2>4, <2>5, <2>6 DEF IInv, Types, Owns, OneShard
<1>4. CASE ~CacheHit(t, s) /\ Own(t, s) = {}
  <2> DEFINE new == [producer |-> t, buffer |-> <<>>]
             n == Len(shards[s])
  <2>1. shards[s] \in Seq(Shard) /\ n \in Nat /\ DOMAIN shards[s] = 1 .. n
    BY <1>1 DEF Types
  <2>2. shards' = [shards EXCEPT ![s] = Append(shards[s], new)] /\ k = n + 1
    BY <1>4 DEF Register, Set, Found
  <2>3. new \in Shard /\ new.producer = t
    BY DEF Shard
  <2> HIDE DEF new
  <2>4. /\ Append(shards[s], new) \in Seq(Shard)
        /\ DOMAIN Append(shards[s], new) = 1 .. n + 1
        /\ \A i \in 1 .. n : Append(shards[s], new)[i] = shards[s][i]
        /\ Append(shards[s], new)[n + 1] = new
    BY <2>1, <2>3
  <2>5. /\ shards'[s] = Append(shards[s], new)
        /\ \A q \in Sinks \ {s} : shards'[q] = shards[q]
    BY <1>1, <2>2 DEF Types
  <2>6. shards' \in [Sinks -> Seq(Shard)]
    BY <1>1, <2>2, <2>4 DEF Types
  <2>7. \A i \in 1 .. n : shards[s][i].producer # t
    BY <1>4, <2>1 DEF Own
  <2>8. OneShard(s)'
    BY <1>1, <2>1, <2>3, <2>4, <2>5, <2>7 DEF OneShard
  <2>9. \A q \in Sinks : OneShard(q)'
    BY <2>5, <2>8 DEF IInv, OneShard
  <2>10. Owns(t, s, k)' /\ k \in Nat
    BY <2>1, <2>2, <2>3, <2>4, <2>5 DEF Owns
  <2>11. \A q \in Sinks : \A u, i : Owns(u, q, i) => Owns(u, q, i)'
    BY <2>1, <2>4, <2>5 DEF Owns
  <2> QED
    BY <2>6, <2>9, <2>10, <2>11
<1> QED
  BY <1>2, <1>3, <1>4

LEMMA WriteStep ==
  ASSUME IInv, NEW t \in Threads, NEW s \in Sinks, CallWrite(t, s) PROVE IInv'
<1>1. PICK r \in Records :
        /\ issued' = [issued EXCEPT ![<<t, s>>] = Append(@, r)]
        /\ IF buffered
           THEN /\ Begin(t, s, "write", "append", <<Found(t, s)>>)
                /\ Set(cached, t, [id |-> s, shard |-> Found(t, s)])
                /\ Register(t, s)
           ELSE /\ Begin(t, s, "write", "output", Pieces(r))
                /\ UNCHANGED <<cached, shards>>
  BY DEF CallWrite
<1>2. /\ issued' \in [Threads \X Sinks -> Seq(Records)]
      /\ issued'[<<t, s>>] # <<>>
      /\ \A w \in Threads \X Sinks : w # <<t, s>> => issued'[w] = issued[w]
  <2>1. issued[<<t, s>>] \in Seq(Records) /\ <<t, s>> \in Threads \X Sinks
    BY DEF IInv, Types
  <2>2. ASSUME NEW old \in Seq(Records)
        PROVE  /\ Append(old, r) \in Seq(Records) /\ Append(old, r) # <<>>
    <3>1. Append(old, r) \in Seq(Records) /\ Len(Append(old, r)) = Len(old) + 1
      OBVIOUS
    <3> QED
      BY <3>1
  <2> QED
    BY <1>1, <2>1, <2>2 DEF IInv, Types
<1>3. /\ Indexed(pc') /\ Indexed(sink') /\ Indexed(todo') /\ sink'[t] = s
      /\ \A u \in Threads \ {t} :
           pc'[u] = pc[u] /\ sink'[u] = sink[u] /\ todo'[u] = todo[u]
  BY <1>1 DEF IInv, Types, Indexed, Begin, Set
<1>4. CASE buffered
  <2>0. PICK k : k = Found(t, s)
    OBVIOUS
  <2>1. /\ pc'[t] = "append" /\ todo'[t] = <<k>>
        /\ cached' = [cached EXCEPT ![t] = [id |-> s, shard |-> k]]
    BY <1>1, <1>4, <2>0 DEF IInv, Types, Indexed, Begin, Set
  <2>2. Register(t, s)
    BY <1>1, <1>4
  <2>3. /\ shards' \in [Sinks -> Seq(Shard)]
        /\ \A q \in Sinks : OneShard(q)'
        /\ Owns(t, s, k)' /\ k \in Nat
        /\ \A q \in Sinks : \A u, i : Owns(u, q, i) => Owns(u, q, i)'
    BY <2>0, <2>2, FoundOwned
  <2>4. /\ cached' \in [Threads -> [id : Sinks \cup {0}, shard : Nat]]
        /\ cached'[t] = [id |-> s, shard |-> k]
        /\ \A u \in Threads \ {t} : cached'[u] = cached[u]
    BY <2>1, <2>3 DEF IInv, Types
  <2>5. \A u \in Threads : CacheTrue(u)'
    <3>1. CacheTrue(t)'
      BY <2>3, <2>4 DEF CacheTrue, Owns
    <3>2. ASSUME NEW u \in Threads \ {t} PROVE CacheTrue(u)'
      <4>1. CacheTrue(u) /\ cached'[u] = cached[u]
        BY <2>4 DEF IInv
      <4> QED
        BY <2>3, <4>1 DEF CacheTrue, Owns
    <3> QED
      BY <3>1, <3>2
  <2>6. \A u \in Threads : Directed(u)'
    <3>1. Directed(t)'
      <4>1. Head(todo'[t]) = k
        BY <2>1
      <4> QED
        BY <1>2, <1>3, <2>1, <2>3, <4>1 DEF Directed, Owns
    <3>2. ASSUME NEW u \in Threads \ {t} PROVE Directed(u)'
      <4>1. /\ Directed(u) /\ pc'[u] = pc[u] /\ sink'[u] = sink[u]
            /\ todo'[u] = todo[u]
            /\ sink[u] \in Sinks =>
                 issued'[<<u, sink[u]>>] = issued[<<u, sink[u]>>]
        BY <1>2, <1>3 DEF IInv
      <4> QED
        BY <2>3, <4>1 DEF Directed, Owns
    <3> QED
      BY <3>1, <3>2
  <2>7. Types'
    BY <1>2, <1>3, <2>3, <2>4 DEF Types
  <2> QED
    BY <2>3, <2>5, <2>6, <2>7 DEF IInv
<1>5. CASE ~buffered
  <2>1. UNCHANGED <<shards, cached>> /\ pc'[t] = "output"
    BY <1>1, <1>5 DEF IInv, Types, Indexed, Begin, Set
  <2>2. Types'
    BY <1>2, <1>3, <2>1 DEF IInv, Types
  <2>3. \A u \in Threads : Directed(u)'
    BY <1>2, <1>3, <2>1 DEF IInv, Directed, Owns
  <2> QED
    BY <2>1, <2>2, <2>3 DEF IInv, OneShard, CacheTrue, Owns
<1> QED
  BY <1>4, <1>5
-----------------------------------------------------------------------------
(* The invariant, and what follows from it.                                *)

LEMMA IInvInit == Init => IInv
BY SinksAssumption
   DEF Init, IInv, Types, Indexed, OneShard, CacheTrue, Directed

LEMMA IInvStep == IInv /\ [Next]_vars => IInv'
<1> SUFFICES ASSUME IInv, [Next]_vars PROVE IInv'
  OBVIOUS
<1>1. ASSUME NEW t \in Threads, Step(t) PROVE IInv'
  BY <1>1, AppendStep, FlushShardStep, OtherCallStep DEF Step
<1>2. ASSUME NEW t \in Threads, Restart(t) PROVE IInv'
  BY <1>2, RestartStep
<1>3. ASSUME NEW t \in Threads, NEW s \in Sinks,
             CallWrite(t, s) \/ CallFlush(t, s)
      PROVE  IInv'
  BY <1>3, WriteStep, OtherCallStep
<1>4. ASSUME NEW s \in Sinks, Repair(s) PROVE IInv'
  BY <1>4, RepairStep DEF Repair, locals
<1>5. CASE UNCHANGED vars
  BY <1>5, RepairStep DEF vars
<1> QED
  BY <1>1, <1>2, <1>3, <1>4, <1>5 DEF Next

\* prepare_text_record never writes past the 512 bytes of its array, for any
\* set of records.
THEOREM RecordsFit == Spec => []RecordFits
<1>1. IInv => RecordFits
  <2> SUFFICES ASSUME IInv, NEW w \in DOMAIN issued, NEW r \in ToSet(issued[w])
               PROVE  prefix_size(r) <= PrefixCapacity
    BY DEF RecordFits
  <2>1. issued[w] \in Seq(Records)
    BY DEF IInv, Types
  <2>2. r \in Records
    BY <2>1 DEF ToSet
  <2> QED
    BY <2>2, RecordsAssumption, PrefixFits
<1> QED
  BY <1>1, IInvInit, IInvStep, PTL DEF Spec

\* Whatever sinks a thread alternates between, and whenever its id passes to a
\* new thread: a write works on the one shard of its producer in its sink.
THEOREM ShardsHaveOneOwner == Spec => []ShardsOwned
<1>1. IInv => ShardsOwned
  BY DEF IInv, ShardsOwned, OneShard, Directed, Owns
<1> QED
  BY <1>1, IInvInit, IInvStep, PTL DEF Spec
-----------------------------------------------------------------------------
(* Lines of a buffer.  The induction is over the numbers for which a fact  *)
(* holds, as a set.                                                        *)

LEMMA Least ==
  ASSUME NEW T \in SUBSET Nat, T # {}
  PROVE  \E x \in T : \A y \in T : x <= y
<1> DEFINE Smaller == OpToRel(<, Nat)
<1>1. IsWellFoundedOn(Smaller, Nat)
  BY NatLessThanWellFounded
<1>2. PICK x \in T : \A y \in T : <<y, x>> \notin Smaller
  <2> HIDE DEF Smaller
  <2> QED
    BY <1>1, WFMin
<1>3. \A y \in T : ~(y < x)
  BY <1>2 DEF OpToRel
<1> HIDE DEF Smaller
<1> QED
  BY <1>3

LEMMA Induction ==
  ASSUME NEW P, 0 \in P, \A n \in Nat : n \in P => n + 1 \in P
  PROVE  \A n \in Nat : n \in P
<1> DEFINE T == {n \in Nat : n \notin P}
<1> SUFFICES ASSUME T # {} PROVE FALSE
  OBVIOUS
<1>1. PICK x \in T : \A y \in T : x <= y
  <2>1. T \in SUBSET Nat
    OBVIOUS
  <2> HIDE DEF T
  <2> QED
    BY <2>1, Least
<1>2. x \in Nat /\ x # 0 /\ x \notin P
  OBVIOUS
<1>3. x - 1 \in Nat /\ x - 1 \notin T
  BY <1>1, <1>2
<1>4. x - 1 \in P /\ (x - 1) + 1 = x
  BY <1>2, <1>3
<1> QED
  BY <1>2, <1>4

\* The function that FlattenSeq computes, over the first n sequences.
Partial(seqs, n, f) ==
  f = [i \in 1 .. n |-> IF i = 1 THEN seqs[i] ELSE f[i - 1] \o seqs[i]]

LEMMA PartialExists ==
  ASSUME NEW seqs PROVE \A n \in Nat : \E f : Partial(seqs, n, f)
<1> DEFINE P == {n \in Nat : \E f : Partial(seqs, n, f)}
<1>1. 0 \in P
  <2>1. Partial(seqs, 0, <<>>)
    BY DEF Partial
  <2> QED
    BY <2>1
<1>2. ASSUME NEW n \in Nat, n \in P PROVE n + 1 \in P
  <2>1. PICK f : Partial(seqs, n, f)
    BY <1>2
  <2> DEFINE g == [i \in 1 .. n + 1 |-> IF i = 1 THEN seqs[i]
                                        ELSE f[i - 1] \o seqs[i]]
  <2>2. \A i \in 1 .. n : g[i] = f[i]
    <3>1. \A i \in 1 .. n : i \in 1 .. n + 1
      OBVIOUS
    <3>2. f = [i \in 1 .. n |-> IF i = 1 THEN seqs[i] ELSE f[i - 1] \o seqs[i]]
      BY <2>1, Zenon DEF Partial
    <3>3. \A i \in 1 .. n :
            f[i] = IF i = 1 THEN seqs[i] ELSE f[i - 1] \o seqs[i]
      BY <3>2, Zenon
    <3>4. \A i \in 1 .. n + 1 :
            g[i] = IF i = 1 THEN seqs[i] ELSE f[i - 1] \o seqs[i]
      BY Zenon
    <3> HIDE DEF g
    <3> QED
      BY <3>1, <3>3, <3>4
  <2>3. \A i \in 1 .. n + 1 : i # 1 => g[i - 1] = f[i - 1]
    <3>1. \A i \in 1 .. n + 1 : i # 1 => i - 1 \in 1 .. n
      OBVIOUS
    <3> HIDE DEF g
    <3> QED
      BY <2>2, <3>1
  <2>4. Partial(seqs, n + 1, g)
    BY <2>3 DEF Partial
  <2> HIDE DEF g
  <2> QED
    BY <2>4
<1> HIDE DEF P
<1>3. \A n \in Nat : n \in P
  BY <1>1, <1>2, Induction
<1> QED
  BY <1>3 DEF P

\* z holds every element of the first k sequences, each after the one before
\* it, and the elements of earlier sequences before those of later ones.
Before(i, j, u, v) == i < u \/ (i = u /\ j < v)
Concatenates(S, seqs, k, z) ==
  /\ z \in Seq(S)
  /\ \A i \in 1 .. k : \A j \in 1 .. Len(seqs[i]) :
       \E p \in 1 .. Len(z) : z[p] = seqs[i][j]
  /\ \A p \in 1 .. Len(z) : \E i \in 1 .. k : \E j \in 1 .. Len(seqs[i]) :
       z[p] = seqs[i][j] /\ (j > 1 => p > 1 /\ z[p - 1] = seqs[i][j - 1])
  /\ \A p, q \in 1 .. Len(z) : p < q =>
       \E i, u \in 1 .. k :
       \E j \in 1 .. Len(seqs[i]) : \E v \in 1 .. Len(seqs[u]) :
         z[p] = seqs[i][j] /\ z[q] = seqs[u][v] /\ Before(i, j, u, v)

LEMMA ConcatenatesOne ==
  ASSUME NEW S, NEW seqs, seqs[1] \in Seq(S)
  PROVE  Concatenates(S, seqs, 1, seqs[1])
<1>1. PICK z \in Seq(S) : z = seqs[1]
  OBVIOUS
<1>2. Len(z) \in Nat /\ \A i \in 1 .. 1 : i = 1 /\ seqs[i] = z
  BY <1>1, LenProperties
<1>3. ASSUME NEW p \in 1 .. Len(z)
      PROVE  \E i \in 1 .. 1 : \E j \in 1 .. Len(seqs[i]) :
               z[p] = seqs[i][j] /\ (j > 1 => p > 1 /\ z[p - 1] = seqs[i][j - 1])
  BY <1>1, <1>2
<1>4. ASSUME NEW p \in 1 .. Len(z), NEW q \in 1 .. Len(z), p < q
      PROVE  \E i, u \in 1 .. 1 :
             \E j \in 1 .. Len(seqs[i]) : \E v \in 1 .. Len(seqs[u]) :
               z[p] = seqs[i][j] /\ z[q] = seqs[u][v] /\ Before(i, j, u, v)
  BY <1>1, <1>2, <1>4 DEF Before
<1>5. \A i \in 1 .. 1 : \A j \in 1 .. Len(seqs[i]) :
        \E p \in 1 .. Len(z) : z[p] = seqs[i][j]
  BY <1>2
<1> QED
  BY <1>1, <1>3, <1>4, <1>5 DEF Concatenates

LEMMA ConcatenatesNext ==
  ASSUME NEW S, NEW seqs, NEW k \in Nat, NEW z, Concatenates(S, seqs, k, z),
         seqs[k + 1] \in Seq(S)
  PROVE  Concatenates(S, seqs, k + 1, z \o seqs[k + 1])
<1>1. PICK s \in Seq(S) : s = seqs[k + 1]
  OBVIOUS
<1>2. PICK m \in Nat : z \in Seq(S) /\ m = Len(z)
  BY LenProperties DEF Concatenates
<1>3. PICK n \in Nat : n = Len(s)
  BY LenProperties
<1>4. PICK w : w = z \o s
  OBVIOUS
<1>5. /\ w \in Seq(S) /\ Len(w) = m + n
      /\ \A p \in 1 .. m : w[p] = z[p]
      /\ \A j \in 1 .. n : w[m + j] = s[j]
  <2>1. /\ w \in Seq(S) /\ Len(w) = m + n
        /\ \A i \in 1 .. m + n : w[i] = IF i <= m THEN z[i] ELSE s[i - m]
    BY <1>2, <1>3, <1>4, ConcatProperties
  <2>2. ASSUME NEW p \in 1 .. m PROVE w[p] = z[p]
    BY <2>1
  <2>3. ASSUME NEW j \in 1 .. n PROVE w[m + j] = s[j]
    <3>1. m + j \in 1 .. m + n /\ ~(m + j <= m) /\ (m + j) - m = j
      OBVIOUS
    <3> QED
      BY <2>1, <3>1
  <2> QED
    BY <2>1, <2>2, <2>3
<1>6. /\ k + 1 \in 1 .. k + 1 /\ \A i \in 1 .. k : i \in 1 .. k + 1 /\ i < k + 1
      /\ \A i \in 1 .. k + 1 : i \in 1 .. k \/ i = k + 1
  OBVIOUS
<1>7. \A p \in 1 .. m + n : p \in 1 .. m \/ \E j \in 1 .. n : p = m + j
  <2> SUFFICES ASSUME NEW p \in 1 .. m + n, p \notin 1 .. m
               PROVE  \E j \in 1 .. n : p = m + j
    OBVIOUS
  <2>1. p - m \in 1 .. n /\ p = m + (p - m)
    OBVIOUS
  <2> QED
    BY <2>1
<1>8. ASSUME NEW i \in 1 .. k + 1, NEW j \in 1 .. Len(seqs[i])
      PROVE  \E p \in 1 .. m + n : w[p] = seqs[i][j]
  <2>1. CASE i \in 1 .. k
    <3>1. PICK p \in 1 .. m : z[p] = seqs[i][j]
      BY <1>2, <2>1 DEF Concatenates
    <3>2. p \in 1 .. m + n
      OBVIOUS
    <3> QED
      BY <1>5, <3>1, <3>2
  <2>2. CASE i = k + 1
    <3>1. j \in 1 .. n /\ seqs[i] = s
      BY <1>1, <1>3, <2>2
    <3>2. m + j \in 1 .. m + n /\ w[m + j] = s[j]
      BY <1>5, <3>1
    <3> QED
      BY <3>1, <3>2
  <2> QED
    BY <1>6, <2>1, <2>2
<1>9. ASSUME NEW p \in 1 .. m + n
      PROVE  \E i \in 1 .. k + 1 : \E j \in 1 .. Len(seqs[i]) :
               w[p] = seqs[i][j] /\ (j > 1 => p > 1 /\ w[p - 1] = seqs[i][j - 1])
  <2>1. CASE p \in 1 .. m
    <3>1. PICK i \in 1 .. k : \E j \in 1 .. Len(seqs[i]) :
            z[p] = seqs[i][j] /\ (j > 1 => p > 1 /\ z[p - 1] = seqs[i][j - 1])
      BY <1>2, <2>1 DEF Concatenates
    <3>2. p > 1 => p - 1 \in 1 .. m
      BY <2>1
    <3> QED
      BY <1>5, <1>6, <2>1, <3>1, <3>2
  <2>2. ASSUME NEW j \in 1 .. n, p = m + j
        PROVE  \E i \in 1 .. k + 1 : \E v \in 1 .. Len(seqs[i]) :
               w[p] = seqs[i][v] /\ (v > 1 => p > 1 /\ w[p - 1] = seqs[i][v - 1])
    <3>1. w[p] = s[j]
      BY <1>5, <2>2
    <3>2. j > 1 => p > 1 /\ w[p - 1] = s[j - 1]
      <4>1. SUFFICES ASSUME j > 1 PROVE p > 1 /\ w[p - 1] = s[j - 1]
        OBVIOUS
      <4>2. j - 1 \in 1 .. n /\ p - 1 = m + (j - 1) /\ p > 1
        BY <2>2, <4>1
      <4> QED
        BY <1>5, <4>2
    <3> QED
      BY <1>1, <1>3, <1>6, <3>1, <3>2
  <2> QED
    BY <1>7, <2>1, <2>2
<1>10. ASSUME NEW p \in 1 .. m + n, NEW q \in 1 .. m + n, p < q
       PROVE  \E i, u \in 1 .. k + 1 :
              \E j \in 1 .. Len(seqs[i]) : \E v \in 1 .. Len(seqs[u]) :
                w[p] = seqs[i][j] /\ w[q] = seqs[u][v] /\ Before(i, j, u, v)
  <2>1. CASE p \in 1 .. m /\ q \in 1 .. m
    <3>1. PICK i \in 1 .. k, u \in 1 .. k :
            \E j \in 1 .. Len(seqs[i]) : \E v \in 1 .. Len(seqs[u]) :
              z[p] = seqs[i][j] /\ z[q] = seqs[u][v] /\ Before(i, j, u, v)
      BY <1>2, <1>10, <2>1 DEF Concatenates
    <3> QED
      BY <1>5, <1>6, <2>1, <3>1
  <2>2. ASSUME p \in 1 .. m, NEW v \in 1 .. n, q = m + v
        PROVE  \E i, u \in 1 .. k + 1 :
               \E j \in 1 .. Len(seqs[i]) : \E x \in 1 .. Len(seqs[u]) :
                 w[p] = seqs[i][j] /\ w[q] = seqs[u][x] /\ Before(i, j, u, x)
    <3>1. PICK i \in 1 .. k : \E j \in 1 .. Len(seqs[i]) : z[p] = seqs[i][j]
      BY <1>2, <2>2 DEF Concatenates
    <3>2. PICK j \in 1 .. Len(seqs[i]) : z[p] = seqs[i][j]
      BY <3>1
    <3>3. w[p] = seqs[i][j] /\ w[q] = seqs[k + 1][v] /\ Before(i, j, k + 1, v)
      BY <1>1, <1>5, <1>6, <2>2, <3>2 DEF Before
    <3> QED
      BY <1>1, <1>3, <1>6, <3>3
  <2>3. ASSUME NEW j \in 1 .. n, p = m + j, NEW v \in 1 .. n, q = m + v
        PROVE  \E i, u \in 1 .. k + 1 :
               \E x \in 1 .. Len(seqs[i]) : \E y \in 1 .. Len(seqs[u]) :
                 w[p] = seqs[i][x] /\ w[q] = seqs[u][y] /\ Before(i, x, u, y)
    <3>1. j < v
      BY <1>10, <2>3
    <3>2. /\ w[p] = seqs[k + 1][j] /\ w[q] = seqs[k + 1][v]
          /\ Before(k + 1, j, k + 1, v)
      BY <1>1, <1>5, <2>3, <3>1 DEF Before
    <3> QED
      BY <1>1, <1>3, <1>6, <3>2
  <2>4. q \in 1 .. m => p \in 1 .. m
    BY <1>10
  <2> QED
    BY <1>7, <2>1, <2>2, <2>3, <2>4
<1> QED
  <2>1. 1 .. Len(w) = 1 .. m + n
    BY <1>5
  <2>2. \A i \in 1 .. k + 1 : \A j \in 1 .. Len(seqs[i]) :
          \E p \in 1 .. Len(w) : w[p] = seqs[i][j]
    BY <1>8, <2>1, Zenon
  <2>3. \A p \in 1 .. Len(w) : \E i \in 1 .. k + 1 : \E j \in 1 .. Len(seqs[i]) :
          w[p] = seqs[i][j] /\ (j > 1 => p > 1 /\ w[p - 1] = seqs[i][j - 1])
    BY <1>9, <2>1, Zenon
  <2>4. \A p, q \in 1 .. Len(w) : p < q =>
          \E i, u \in 1 .. k + 1 :
          \E j \in 1 .. Len(seqs[i]) : \E v \in 1 .. Len(seqs[u]) :
            w[p] = seqs[i][j] /\ w[q] = seqs[u][v] /\ Before(i, j, u, v)
    <3> SUFFICES ASSUME NEW p \in 1 .. Len(w), NEW q \in 1 .. Len(w), p < q
                 PROVE  \E i, u \in 1 .. k + 1 :
                        \E j \in 1 .. Len(seqs[i]) : \E v \in 1 .. Len(seqs[u]) :
                          w[p] = seqs[i][j] /\ w[q] = seqs[u][v]
                            /\ Before(i, j, u, v)
      OBVIOUS
    <3>1. p \in 1 .. m + n /\ q \in 1 .. m + n
      BY <2>1, Zenon
    <3> QED
      BY <1>10, <3>1, Zenon
  <2>5. Concatenates(S, seqs, k + 1, w)
    BY <1>5, <2>2, <2>3, <2>4, Zenon DEF Concatenates
  <2> QED
    BY <1>1, <1>4, <2>5, Zenon

LEMMA FlattenConcatenates ==
  ASSUME NEW S, NEW seqs \in Seq(Seq(S)), Len(seqs) # 0
  PROVE  Concatenates(S, seqs, Len(seqs), FlattenSeq(seqs))
<1>1. PICK n \in Nat : n = Len(seqs) /\ \A i \in 1 .. n : seqs[i] \in Seq(S)
  BY LenProperties, ElementOfSeq
<1>2. PICK f : Partial(seqs, n, f) /\ FlattenSeq(seqs) = f[n]
  <2>1. \E f : Partial(seqs, Len(seqs), f)
    BY <1>1, PartialExists
  <2> QED
    BY <1>1, <2>1 DEF FlattenSeq, Partial
<1>3. n # 0
  BY <1>1
<1> DEFINE P == {k \in Nat : k + 1 \in 1 .. n =>
                               Concatenates(S, seqs, k + 1, f[k + 1])}
<1>4. 0 \in P
  <2>1. f[1] = seqs[1] /\ seqs[1] \in Seq(S)
    BY <1>1, <1>2, <1>3 DEF Partial
  <2> QED
    BY <2>1, ConcatenatesOne
<1>5. ASSUME NEW k \in Nat, k \in P PROVE k + 1 \in P
  <2> SUFFICES ASSUME (k + 1) + 1 \in 1 .. n
               PROVE  Concatenates(S, seqs, (k + 1) + 1, f[(k + 1) + 1])
    OBVIOUS
  <2>1. Concatenates(S, seqs, k + 1, f[k + 1])
    BY <1>1, <1>5
  <2>2. f[(k + 1) + 1] = f[k + 1] \o seqs[(k + 1) + 1]
    <3>1. f = [i \in 1 .. n |-> IF i = 1 THEN seqs[i] ELSE f[i - 1] \o seqs[i]]
      BY <1>2, Zenon DEF Partial
    <3>2. PICK i \in 1 .. n : i = (k + 1) + 1
      OBVIOUS
    <3>3. f[i] = IF i = 1 THEN seqs[i] ELSE f[i - 1] \o seqs[i]
      BY <3>1, Zenon
    <3>4. i # 1 /\ i - 1 = k + 1
      BY <3>2
    <3> QED
      BY <3>2, <3>3, <3>4
  <2>3. seqs[(k + 1) + 1] \in Seq(S) /\ k + 1 \in Nat
    BY <1>1
  <2> QED
    BY <2>1, <2>2, <2>3, ConcatenatesNext
<1> HIDE DEF P
<1>6. \A k \in Nat : k \in P
  BY <1>4, <1>5, Induction
<1>7. n - 1 \in Nat /\ (n - 1) + 1 = n /\ n \in 1 .. n
  BY <1>3
<1> QED
  BY <1>1, <1>2, <1>6, <1>7 DEF P
-----------------------------------------------------------------------------
(* Types, and what is known of a thread that is in a call.                 *)

Piece == Records \X {"line", "prefix", "message", "newline"}
Sorted ==
  /\ buffered \in BOOLEAN /\ throwing \in BOOLEAN /\ alive \subseteq Sinks
  /\ locks \subseteq Sinks \X Nat
  /\ good \in [Sinks -> BOOLEAN] /\ output \in [Sinks -> Seq(Piece)]
  /\ pc \in [Threads -> {"idle", "append", "output", "stream", "next"}]
  /\ op \in [Threads -> {"none", "write", "flush", "destroy"}]
  /\ sink \in [Threads -> Sinks \cup {0}]
  /\ success \in [Threads -> {"true", "false", "throws"}]
  /\ accepted \in [Sinks -> SUBSET Records]
  /\ covered \in [Threads -> SUBSET Records] /\ told \subseteq Sinks
  /\ flushes \in 0 .. FlushLimit /\ repairs \in 0 .. RepairLimit

\* What remains of the pieces of a record: something, and nothing but their end.
Remains(r, pieces) ==
  \/ pieces = Pieces(r)
  \/ /\ ~message_is_buffered(r)
     /\ \/ pieces = <<<<r, "message">>, <<r, "newline">>>>
        \/ pieces = <<<<r, "newline">>>>

InCall(t) ==
  pc[t] # "idle" =>
    /\ sink[t] \in Sinks /\ op[t] # "none" /\ success[t] # "throws"
    /\ op[t] = "write" =>
         issued[<<t, sink[t]>>] # <<>> /\ success[t] = "true"
    /\ op[t] = "destroy" => sink[t] \notin alive
    /\ buffered =>
         /\ todo[t] \in Seq(1 .. Len(shards[sink[t]]))
         /\ pc[t] # "next" => todo[t] # <<>>
         /\ pc[t] = "append" => op[t] = "write"
         /\ pc[t] = "next" => op[t] # "write"
    /\ ~buffered =>
         /\ op[t] = "write" /\ pc[t] \in {"output", "stream"}
         /\ Remains(record(t), todo[t])
    /\ pc[t] = "stream" => OutputLock(t) \in locks

\* One thread at a time works on a stream.
Exclusive ==
  \A t, u \in Threads :
    pc[t] = "stream" /\ pc[u] = "stream" /\ sink[t] = sink[u] => t = u

SInv == Sorted /\ (\A t \in Threads : InCall(t)) /\ Exclusive

\* The other threads stay where they are.
Alone(t) ==
  \A u \in Threads \ {t} :
    /\ pc'[u] = pc[u] /\ op'[u] = op[u] /\ sink'[u] = sink[u]
    /\ todo'[u] = todo[u] /\ success'[u] = success[u]
    /\ covered'[u] = covered[u]

LEMMA PiecesType ==
  ASSUME NEW r \in Records
  PROVE  /\ Pieces(r) \in Seq(Piece) /\ Len(Pieces(r)) \in {1, 3}
         /\ Last(Pieces(r)) \in {<<r, "line">>, <<r, "newline">>}
<1>1. CASE message_is_buffered(r)
  <2>1. Pieces(r) = <<<<r, "line">>>>
    BY <1>1 DEF Pieces
  <2> QED
    BY <2>1 DEF Piece, Last
<1>2. CASE ~message_is_buffered(r)
  <2>1. Pieces(r) = <<<<r, "prefix">>, <<r, "message">>, <<r, "newline">>>>
    BY <1>2 DEF Pieces
  <2> QED
    BY <2>1 DEF Piece, Last
<1> QED
  BY <1>1, <1>2

LEMMA RemainsFacts ==
  ASSUME NEW r \in Records, NEW w, Remains(r, w)
  PROVE  /\ w \in Seq(Piece) /\ w # <<>> /\ Head(w) \in Piece
         /\ Head(w)[1] = r
         /\ Len(w) = 1 => Head(w) = Last(Pieces(r))
         /\ Len(w) # 1 => Remains(r, Tail(w))
<1>1. CASE w = Pieces(r)
  <2>1. CASE message_is_buffered(r)
    <3>1. w = <<<<r, "line">>>>
      BY <1>1, <2>1 DEF Pieces
    <3> QED
      BY <1>1, <3>1 DEF Piece, Last
  <2>2. CASE ~message_is_buffered(r)
    <3>1. w = <<<<r, "prefix">>, <<r, "message">>, <<r, "newline">>>>
      BY <1>1, <2>2 DEF Pieces
    <3>2. Tail(w) = <<<<r, "message">>, <<r, "newline">>>>
      BY <3>1
    <3> QED
      BY <2>2, <3>1, <3>2 DEF Piece, Remains
  <2> QED
    BY <2>1, <2>2
<1>2. CASE ~message_is_buffered(r) /\ w = <<<<r, "message">>, <<r, "newline">>>>
  <2>1. Tail(w) = <<<<r, "newline">>>>
    BY <1>2
  <2> QED
    BY <1>2, <2>1 DEF Piece, Remains
<1>3. CASE ~message_is_buffered(r) /\ w = <<<<r, "newline">>>>
  <2>1. Pieces(r) = <<<<r, "prefix">>, <<r, "message">>, <<r, "newline">>>>
    BY <1>3 DEF Pieces
  <2>2. Last(Pieces(r)) = <<r, "newline">>
    BY <2>1 DEF Last
  <2> QED
    BY <1>3, <2>2 DEF Piece
<1> QED
  BY <1>1, <1>2, <1>3 DEF Remains

LEMMA NoPieces ==
  ASSUME NEW p \in Seq(Piece), Len(p) = 0 PROVE p = <<>>
<1> SUFFICES ASSUME p # <<>> PROVE FALSE
  OBVIOUS
<1>1. Len(p) \in Nat \ {0}
  BY EmptySeq
<1> QED
  BY <1>1

\* The record of a write is one of the records.
LEMMA RecordType ==
  ASSUME Types, NEW t \in Threads, sink[t] \in Sinks,
         issued[<<t, sink[t]>>] # <<>>
  PROVE  record(t) \in Records
<1>1. issued[<<t, sink[t]>>] \in Seq(Records)
  BY DEF Types
<1> QED
  BY <1>1 DEF record, Last

\* How a stream operation may end.
LEMMA OutcomeFacts ==
  ASSUME Sorted, NEW s \in Sinks, NEW pieces \in Seq(Piece),
         NEW o \in Outcomes(s, pieces)
  PROVE  /\ o.good \in BOOLEAN /\ o.throws \in BOOLEAN
         /\ o.put \in Seq(Piece) /\ Len(o.put) <= Len(pieces)
         /\ \A i \in 1 .. Len(o.put) : o.put[i] = pieces[i]
         /\ o.good => good[s] /\ ~o.throws /\ o.put = pieces
         /\ o.throws => throwing
         /\ ~good[s] => o.put = <<>>
<1>1. throwing \in BOOLEAN /\ good[s] \in BOOLEAN
  BY DEF Sorted
<1>2. CASE ~good[s]
  <2>1. o \in [good : {FALSE}, put : {<<>>}, throws : {FALSE, throwing}]
    BY <1>2 DEF Outcomes
  <2>2. /\ o.good = FALSE /\ o.put = <<>> /\ o.throws \in BOOLEAN
        /\ o.throws => throwing
    BY <1>1, <2>1
  <2>3. <<>> \in Seq(Piece) /\ Len(<<>>) = 0 /\ Len(pieces) \in Nat
    BY EmptySeq, LenProperties
  <2>4. /\ o.put \in Seq(Piece) /\ Len(o.put) <= Len(pieces)
        /\ \A i \in 1 .. Len(o.put) : o.put[i] = pieces[i]
    BY <2>2, <2>3
  <2> QED
    BY <1>2, <2>2, <2>4
<1>3. CASE good[s] /\ o = [good |-> TRUE, put |-> pieces, throws |-> FALSE]
  BY <1>3
<1>4. ASSUME good[s], NEW n \in 0 .. Len(pieces),
             o = [good |-> FALSE, put |-> SubSeq(pieces, 1, n),
                  throws |-> throwing]
      PROVE  /\ o.good = FALSE /\ o.throws = throwing
             /\ o.put \in Seq(Piece) /\ Len(o.put) <= Len(pieces)
             /\ \A i \in 1 .. Len(o.put) : o.put[i] = pieces[i]
  <2>1. \A i \in 1 .. n : pieces[i] \in Piece
    OBVIOUS
  <2>2. /\ SubSeq(pieces, 1, n) \in Seq(Piece) /\ Len(SubSeq(pieces, 1, n)) = n
        /\ \A i \in 1 .. n : SubSeq(pieces, 1, n)[i] = pieces[i]
    <3>1. /\ SubSeq(pieces, 1, n) \in Seq(Piece)
          /\ Len(SubSeq(pieces, 1, n)) = IF 1 <= n THEN n - 1 + 1 ELSE 0
          /\ \A i \in 1 .. n - 1 + 1 : SubSeq(pieces, 1, n)[i] = pieces[1 + i - 1]
      <4>1. n \in Int /\ 1 \in Int
        OBVIOUS
      <4> QED
        BY <2>1, <4>1, SubSeqProperties
    <3> QED
      BY <3>1
  <2> QED
    BY <1>4, <2>2
<1>5. \/ ~good[s]
      \/ o = [good |-> TRUE, put |-> pieces, throws |-> FALSE]
      \/ \E n \in 0 .. Len(pieces) :
           o = [good |-> FALSE, put |-> SubSeq(pieces, 1, n),
                throws |-> throwing]
  BY DEF Outcomes
<1> QED
  BY <1>1, <1>2, <1>3, <1>4, <1>5

LEMMA StreamFacts ==
  ASSUME Sorted, NEW s \in Sinks, NEW o, Stream(s, o), o.good \in BOOLEAN,
         o.put \in Seq(Piece)
  PROVE  /\ good' \in [Sinks -> BOOLEAN] /\ output' \in [Sinks -> Seq(Piece)]
         /\ good'[s] = o.good /\ output'[s] = output[s] \o o.put
         /\ \A q \in Sinks \ {s} : good'[q] = good[q] /\ output'[q] = output[q]
<1>1. output[s] \in Seq(Piece)
  BY DEF Sorted
<1>2. output[s] \o o.put \in Seq(Piece)
  BY <1>1, ConcatProperties
<1>3. /\ good' = [good EXCEPT ![s] = o.good]
      /\ output' = [output EXCEPT ![s] = output[s] \o o.put]
  BY DEF Stream, Set
<1> QED
  BY <1>2, <1>3 DEF Sorted

LEMMA ReturnFacts ==
  ASSUME IInv, SInv, NEW t \in Threads, NEW value, Return(t, value),
         value \in {"true", "false", "throws"}, sink[t] \in Sinks,
         op[t] = "write" => issued[<<t, sink[t]>>] # <<>>
  PROVE  /\ Alone(t) /\ pc'[t] = "idle"
         /\ pc' \in [Threads -> {"idle", "append", "output", "stream", "next"}]
         /\ op' \in [Threads -> {"none", "write", "flush", "destroy"}]
         /\ sink' \in [Threads -> Sinks \cup {0}]
         /\ success' \in [Threads -> {"true", "false", "throws"}]
         /\ covered' \in [Threads -> SUBSET Records]
         /\ accepted' \in [Sinks -> SUBSET Records]
         /\ told' \subseteq Sinks /\ told \subseteq told'
         /\ success'[t] = value
         /\ \A q \in Sinks : q # sink[t] => accepted'[q] = accepted[q]
         /\ op[t] = "write" /\ value = "true" =>
              accepted'[sink[t]] = accepted[sink[t]] \cup {record(t)}
         /\ op[t] # "write" \/ value # "true" => accepted' = accepted
         /\ value # "true" /\ op[t] # "destroy" => sink[t] \in told'
<1>1. /\ pc' = [pc EXCEPT ![t] = "idle"] /\ op' = [op EXCEPT ![t] = "none"]
      /\ sink' = [sink EXCEPT ![t] = 0] /\ todo' = [todo EXCEPT ![t] = <<>>]
      /\ success' = [success EXCEPT ![t] = value]
      /\ covered' = [covered EXCEPT ![t] = {}]
  BY Zenon DEF Return, Set
<1>2. Sorted /\ Types
  BY DEF SInv, IInv
<1>3. Alone(t)
  BY <1>1, <1>2 DEF Alone, Sorted, Types, Indexed
<1>4. CASE op[t] = "write" /\ value = "true"
  <2>1. accepted' = [accepted EXCEPT ![sink[t]] = @ \cup {record(t)}]
    BY <1>4 DEF Return
  <2>2. record(t) \in Records
    BY <1>2, <1>4, RecordType
  <2>3. told' = told
    BY <1>4 DEF Return
  <2> QED
    BY <1>1, <1>2, <1>3, <1>4, <2>1, <2>2, <2>3 DEF Sorted
<1>5. CASE op[t] # "write" \/ value # "true"
  <2>1. accepted' = accepted
    BY <1>5 DEF Return
  <2>2. told' = IF value = "true" \/ op[t] = "destroy" THEN told
                ELSE told \cup {sink[t]}
    BY DEF Return
  <2> QED
    BY <1>1, <1>2, <1>3, <1>5, <2>1, <2>2 DEF Sorted
<1> QED
  BY <1>4, <1>5
-----------------------------------------------------------------------------
(* What the steps do to a buffer, and what flush_shard writes.             *)

LEMMA SetBufferFacts ==
  ASSUME Types, NEW t, NEW s \in Sinks, s = sink[t],
         NEW i \in 1 .. Len(shards[s]), i = Head(todo[t]),
         NEW b \in Seq(Records), SetBuffer(t, b)
  PROVE  /\ shards' \in [Sinks -> Seq(Shard)]
         /\ \A q \in Sinks : Len(shards'[q]) = Len(shards[q])
         /\ \A q \in Sinks \ {s} : shards'[q] = shards[q]
         /\ \A j \in 1 .. Len(shards[s]) : j # i => shards'[s][j] = shards[s][j]
         /\ shards'[s][i].buffer = b
<1>1. /\ shards[s] \in Seq(Shard) /\ shards[s][i] \in Shard
      /\ Len(shards[s]) \in Nat
  BY ElementOfSeq, LenProperties DEF Types
<1>2. PICK e : e = [shards[s][i] EXCEPT !.buffer = b]
  OBVIOUS
<1>3. e \in Shard /\ e.buffer = b
  BY <1>1, <1>2 DEF Shard
<1>4. shards' = [shards EXCEPT ![s] = [shards[s] EXCEPT ![i] = e]]
  <2>1. shards' = [shards EXCEPT ![sink[t]][Head(todo[t])].buffer = b]
    BY Zenon DEF SetBuffer
  <2> QED
    BY <1>2, <2>1
<1>5. PICK w : w = [shards[s] EXCEPT ![i] = e]
  OBVIOUS
<1>6. /\ w \in Seq(Shard) /\ Len(w) = Len(shards[s])
      /\ \A j \in 1 .. Len(shards[s]) : w[j] = IF j = i THEN e ELSE shards[s][j]
  BY <1>1, <1>3, <1>5, ExceptSeq
<1>7. shards' = [shards EXCEPT ![s] = w] /\ shards \in [Sinks -> Seq(Shard)]
  BY <1>4, <1>5 DEF Types
<1> QED
  BY <1>3, <1>6, <1>7

\* Every record of the buffer is written whole, and nothing else is.
LEMMA LinesFacts ==
  ASSUME NEW b \in Seq(Records)
  PROVE  /\ Lines(b) \in Seq(Piece)
         /\ \A i \in 1 .. Len(b) : Contains(Lines(b), Last(Pieces(b[i])))
         /\ \A p \in 1 .. Len(Lines(b)) :
              \E r \in Records : \E j \in 1 .. Len(Pieces(r)) :
                /\ Lines(b)[p] = Pieces(r)[j]
                /\ j > 1 => p > 1 /\ Lines(b)[p - 1] = Pieces(r)[j - 1]
<1>1. PICK n \in Nat : n = Len(b) /\ DOMAIN b = 1 .. n
  BY LenProperties
<1>2. PICK seqs : seqs = [i \in 1 .. n |-> Pieces(b[i])]
  OBVIOUS
<1>3. /\ seqs \in Seq(Seq(Piece)) /\ Len(seqs) = n
      /\ \A i \in 1 .. n : seqs[i] = Pieces(b[i]) /\ b[i] \in Records
  <2>1. \A i \in 1 .. n : b[i] \in Records /\ Pieces(b[i]) \in Seq(Piece)
    BY <1>1, ElementOfSeq, PiecesType
  <2>2. seqs \in [1 .. n -> Seq(Piece)]
    BY <1>2, <2>1
  <2> QED
    BY <1>2, <2>1, <2>2
<1>4. Lines(b) = FlattenSeq(seqs)
  BY <1>1, <1>2, Zenon DEF Lines
<1>5. CASE n = 0
  <2>1. Lines(b) = seqs
    BY <1>3, <1>4, <1>5 DEF FlattenSeq
  <2>2. seqs \in Seq(Piece) /\ Len(seqs) = 0
    BY <1>2, <1>5
  <2> QED
    BY <1>1, <1>5, <2>1, <2>2
<1>6. CASE n # 0
  <2>1. PICK z : z = Lines(b)
    OBVIOUS
  <2>2. Concatenates(Piece, seqs, n, z)
    BY <1>3, <1>4, <1>6, <2>1, FlattenConcatenates
  <2>3. z \in Seq(Piece)
    BY <2>2 DEF Concatenates
  <2>4. ASSUME NEW i \in 1 .. n PROVE Contains(z, Last(Pieces(b[i])))
    <3>1. seqs[i] = Pieces(b[i]) /\ Len(seqs[i]) \in 1 .. Len(seqs[i])
      <4>1. seqs[i] = Pieces(b[i]) /\ b[i] \in Records
        BY <1>3
      <4>2. Len(Pieces(b[i])) \in {1, 3}
        BY <4>1, PiecesType
      <4>3. \A m \in {1, 3} : m \in 1 .. m
        OBVIOUS
      <4> QED
        BY <4>1, <4>2, <4>3
    <3>2. \E p \in 1 .. Len(z) : z[p] = seqs[i][Len(seqs[i])]
      BY <2>2, <3>1 DEF Concatenates
    <3> QED
      BY <3>1, <3>2 DEF Contains, Last
  <2>5. ASSUME NEW p \in 1 .. Len(z)
        PROVE  \E r \in Records : \E j \in 1 .. Len(Pieces(r)) :
                 /\ z[p] = Pieces(r)[j]
                 /\ j > 1 => p > 1 /\ z[p - 1] = Pieces(r)[j - 1]
    <3>1. PICK i \in 1 .. n : \E j \in 1 .. Len(seqs[i]) :
            z[p] = seqs[i][j] /\ (j > 1 => p > 1 /\ z[p - 1] = seqs[i][j - 1])
      BY <2>2 DEF Concatenates
    <3>2. seqs[i] = Pieces(b[i]) /\ b[i] \in Records
      BY <1>3
    <3> QED
      BY <3>1, <3>2
  <2> QED
    BY <1>1, <2>1, <2>3, <2>4, <2>5
<1> QED
  BY <1>5, <1>6

\* Where a buffered call is: at a shard of its sink.
LEMMA AtShard ==
  ASSUME IInv, SInv, NEW t \in Threads, buffered, pc[t] # "idle",
         todo[t] # <<>>
  PROVE  /\ sink[t] \in Sinks /\ Head(todo[t]) \in 1 .. Len(shards[sink[t]])
         /\ Tail(todo[t]) \in Seq(1 .. Len(shards[sink[t]]))
         /\ Buffer(t) \in Seq(Records) /\ Lines(Buffer(t)) \in Seq(Piece)
         /\ ShardLock(t) \in Sinks \X (Nat \ {0}) /\ Len(shards[sink[t]]) \in Nat
<1>1. sink[t] \in Sinks /\ todo[t] \in Seq(1 .. Len(shards[sink[t]]))
  BY DEF SInv, InCall
<1>2. /\ Head(todo[t]) \in 1 .. Len(shards[sink[t]])
      /\ Tail(todo[t]) \in Seq(1 .. Len(shards[sink[t]]))
  BY <1>1, HeadTailProperties
<1>3. /\ DOMAIN shards[sink[t]] = 1 .. Len(shards[sink[t]])
      /\ Len(shards[sink[t]]) \in Nat
  BY <1>1 DEF IInv, Types
<1>4. Buffer(t) \in Seq(Records)
  BY <1>1, <1>2, <1>3, BufferType DEF IInv
<1> QED
  BY <1>1, <1>2, <1>3, <1>4, LinesFacts DEF ShardLock
-----------------------------------------------------------------------------
(* Every step keeps the types and the place of every call.                 *)

LEMMA SInvInit == Init => SInv
<1> SUFFICES ASSUME Init PROVE SInv
  OBVIOUS
<1>1. <<>> \in Seq(Piece)
  BY EmptySeq
<1>2. Sorted
  BY <1>1, LimitsAssumption DEF Init, Sorted
<1>3. \A t \in Threads : pc[t] = "idle"
  BY DEF Init
<1> QED
  BY <1>2, <1>3 DEF SInv, InCall, Exclusive

\* A step of t that starts no write in another thread, and enters a stream
\* only when nobody holds it.
LEMMA SInvFrame ==
  ASSUME SInv, NEW t \in Threads, Sorted', Alone(t), InCall(t)',
         UNCHANGED buffered, alive' \subseteq alive,
         \A u \in Threads \ {t}, q \in Sinks :
           issued'[<<u, q>>] = issued[<<u, q>>],
         \A q \in Sinks : \A w \in Seq(1 .. Len(shards[q])) :
           w \in Seq(1 .. Len(shards'[q])),
         \A u \in Threads \ {t} :
           pc[u] = "stream" => <<sink[u], 0>> \in locks',
         pc'[t] = "stream" =>
           \/ pc[t] = "stream" /\ sink'[t] = sink[t]
           \/ <<sink'[t], 0>> \notin locks
  PROVE  SInv'
<1>1. ASSUME NEW u \in Threads \ {t} PROVE InCall(u)'
  <2> SUFFICES ASSUME pc'[u] # "idle" PROVE InCall(u)'
    BY DEF InCall
  <2>1. /\ pc'[u] = pc[u] /\ op'[u] = op[u] /\ sink'[u] = sink[u]
        /\ todo'[u] = todo[u] /\ success'[u] = success[u]
    BY DEF Alone
  <2>2. InCall(u) /\ sink[u] \in Sinks
    BY <2>1 DEF SInv, InCall
  <2>3. /\ issued'[<<u, sink[u]>>] = issued[<<u, sink[u]>>]
        /\ record(u)' = record(u)
    BY <2>1, <2>2 DEF record
  <2>4. pc[u] = "stream" => OutputLock(u)' \in locks'
    BY <2>1 DEF OutputLock
  <2>5. /\ op[u] = "destroy" => sink[u] \notin alive'
        /\ buffered => todo[u] \in Seq(1 .. Len(shards'[sink[u]]))
    BY <2>1, <2>2 DEF InCall
  <2> QED
    BY <2>1, <2>2, <2>3, <2>4, <2>5 DEF InCall
<1>2. ASSUME NEW u \in Threads, NEW v \in Threads, pc'[u] = "stream",
             pc'[v] = "stream", sink'[u] = sink'[v]
      PROVE  u = v
  <2>1. \A x \in Threads \ {t} : pc'[x] = pc[x] /\ sink'[x] = sink[x]
    BY DEF Alone
  <2>2. \A x, y \in Threads :
          pc[x] = "stream" /\ pc[y] = "stream" /\ sink[x] = sink[y] => x = y
    BY DEF SInv, Exclusive
  <2>3. \A x \in Threads : pc[x] = "stream" => <<sink[x], 0>> \in locks
    BY DEF SInv, InCall, OutputLock
  <2> QED
    BY <1>2, <2>1, <2>2, <2>3
<1> QED
  BY <1>1, <1>2 DEF SInv, Exclusive

\* What is held under the locks of others stays held.
LEMMA OthersHold ==
  ASSUME SInv, NEW t \in Threads,
         \/ locks \subseteq locks'
         \/ /\ pc[t] = "stream"
            /\ \E s \in Sinks : \E i \in Nat \ {0} :
                 locks \ {<<s, i>>, <<sink[t], 0>>} \subseteq locks'
  PROVE  \A u \in Threads \ {t} :
           pc[u] = "stream" => <<sink[u], 0>> \in locks'
<1> SUFFICES ASSUME NEW u \in Threads \ {t}, pc[u] = "stream"
             PROVE  <<sink[u], 0>> \in locks'
  OBVIOUS
<1>1. <<sink[u], 0>> \in locks
  BY DEF SInv, InCall, OutputLock
<1>2. pc[t] = "stream" => sink[u] # sink[t]
  BY DEF SInv, Exclusive
<1> QED
  BY <1>1, <1>2

LEMMA AppendSorted ==
  ASSUME IInv, SInv, NEW t \in Threads, AppendRecord(t) PROVE SInv'
<1> DEFINE b == Append(Buffer(t), record(t))
<1>1. /\ pc[t] = "append" /\ SetBuffer(t, b)
      /\ UNCHANGED <<buffered, throwing, alive, streams, issued, bounds>>
  BY DEF AppendRecord
<1>2. /\ buffered /\ op[t] = "write" /\ todo[t] # <<>>
      /\ issued[<<t, sink[t]>>] # <<>> /\ success[t] = "true"
  BY <1>1 DEF SInv, InCall, Sorted
<1>3. /\ sink[t] \in Sinks /\ Head(todo[t]) \in 1 .. Len(shards[sink[t]])
      /\ Buffer(t) \in Seq(Records) /\ ShardLock(t) \in Sinks \X (Nat \ {0})
  BY <1>1, <1>2, AtShard
<1>4. record(t) \in Records
  BY <1>2, <1>3, RecordType DEF IInv
<1>5. b \in Seq(Records)
  BY <1>3, <1>4
<1> HIDE DEF b
<1>6. \A q \in Sinks : Len(shards'[q]) = Len(shards[q])
  BY <1>1, <1>3, <1>5, SetBufferFacts DEF IInv
<1>7. CASE Return(t, "true") /\ UNCHANGED locks
  <2>1. /\ Alone(t) /\ pc'[t] = "idle"
        /\ pc' \in [Threads -> {"idle", "append", "output", "stream", "next"}]
        /\ op' \in [Threads -> {"none", "write", "flush", "destroy"}]
        /\ sink' \in [Threads -> Sinks \cup {0}]
        /\ success' \in [Threads -> {"true", "false", "throws"}]
        /\ covered' \in [Threads -> SUBSET Records]
        /\ accepted' \in [Sinks -> SUBSET Records] /\ told' \subseteq Sinks
    BY <1>2, <1>3, <1>7, ReturnFacts
  <2>2. Sorted'
    BY <1>1, <1>7, <2>1 DEF SInv, Sorted, streams, bounds
  <2>3. InCall(t)'
    BY <2>1 DEF InCall
  <2>4. \A u \in Threads \ {t} :
          pc[u] = "stream" => <<sink[u], 0>> \in locks'
    BY <1>7, OthersHold
  <2> QED
    BY <1>1, <1>6, <2>1, <2>2, <2>3, <2>4, SInvFrame
<1>8. CASE /\ locks' = locks \cup {ShardLock(t)} /\ Set(pc, t, "output")
           /\ UNCHANGED <<op, sink, todo, success, covered, fates>>
  <2>1. pc' = [pc EXCEPT ![t] = "output"]
    BY <1>8 DEF Set
  <2>2. Alone(t) /\ pc'[t] = "output"
    BY <1>8, <2>1 DEF Alone, SInv, Sorted
  <2>3. Sorted'
    BY <1>1, <1>3, <1>8, <2>1 DEF SInv, Sorted, streams, bounds, fates
  <2>4. InCall(t)'
    BY <1>1, <1>2, <1>3, <1>6, <1>8, <2>2 DEF SInv, InCall
  <2>5. \A u \in Threads \ {t} :
          pc[u] = "stream" => <<sink[u], 0>> \in locks'
    BY <1>8, OthersHold
  <2> QED
    BY <1>1, <1>6, <2>2, <2>3, <2>4, <2>5, SInvFrame
<1> QED
  BY <1>7, <1>8 DEF AppendRecord, b

LEMMA LockOutputSorted ==
  ASSUME IInv, SInv, NEW t \in Threads, LockOutput(t) PROVE SInv'
<1>1. /\ pc[t] = "output" /\ <<sink[t], 0>> \notin locks
      /\ locks' = locks \cup {<<sink[t], 0>>} /\ pc' = [pc EXCEPT ![t] = "stream"]
      /\ UNCHANGED <<buffered, throwing, alive, shards, cached, streams, op, sink,
                     todo, success, covered, issued, fates, bounds>>
  BY DEF LockOutput, Set, OutputLock
<1>2. sink[t] \in Sinks
  BY <1>1 DEF SInv, InCall
<1>3. Alone(t) /\ pc'[t] = "stream"
  BY <1>1 DEF Alone, SInv, Sorted
<1>4. Sorted'
  BY <1>1, <1>2 DEF SInv, Sorted, streams, bounds, fates
<1>5. record(t)' = record(t) /\ OutputLock(t)' \in locks'
  BY <1>1 DEF record, OutputLock
<1>6. InCall(t)'
  BY <1>1, <1>3, <1>5 DEF SInv, InCall
<1>7. \A u \in Threads \ {t} :
        pc[u] = "stream" => <<sink[u], 0>> \in locks'
  BY <1>1, OthersHold
<1> QED
  BY <1>1, <1>3, <1>4, <1>6, <1>7, SInvFrame

LEMMA WritePieceSorted ==
  ASSUME IInv, SInv, NEW t \in Threads, WritePiece(t) PROVE SInv'
<1>1. /\ pc[t] = "stream" /\ ~buffered
      /\ UNCHANGED <<buffered, throwing, alive, shards, cached, issued, bounds>>
  BY DEF WritePiece
<1>2. /\ sink[t] \in Sinks /\ op[t] = "write" /\ Remains(record(t), todo[t])
      /\ issued[<<t, sink[t]>>] # <<>> /\ success[t] = "true"
      /\ <<sink[t], 0>> \in locks
  BY <1>1 DEF SInv, InCall, OutputLock
<1>3. record(t) \in Records
  BY <1>2, RecordType DEF IInv
<1>4. /\ todo[t] \in Seq(Piece) /\ todo[t] # <<>> /\ Head(todo[t]) \in Piece
      /\ Len(todo[t]) # 1 => Remains(record(t), Tail(todo[t]))
  BY <1>2, <1>3, RemainsFacts
<1>5. PICK o \in Outcomes(sink[t], <<Head(todo[t])>>) :
        /\ Stream(sink[t], o)
        /\ IF o.throws \/ Len(todo[t]) = 1
           THEN /\ Return(t, IF o.throws THEN "throws" ELSE Truth(o.good))
                /\ locks' = locks \ {OutputLock(t)}
           ELSE /\ Set(todo, t, Tail(todo[t]))
                /\ UNCHANGED <<pc, op, sink, success, covered, fates, locks>>
  BY DEF WritePiece
<1>6. <<Head(todo[t])>> \in Seq(Piece)
  BY <1>4
<1>7. o.good \in BOOLEAN /\ o.put \in Seq(Piece)
  BY <1>2, <1>5, <1>6, OutcomeFacts DEF SInv
<1>8. good' \in [Sinks -> BOOLEAN] /\ output' \in [Sinks -> Seq(Piece)]
  <2>1. PICK s \in Sinks : s = sink[t]
    BY <1>2
  <2>2. Sorted /\ Stream(s, o)
    BY <1>5, <2>1 DEF SInv, Stream, Set
  <2> QED
    BY <1>7, <2>2, StreamFacts
<1>9. CASE o.throws \/ Len(todo[t]) = 1
  <2>1. PICK v \in {"true", "false", "throws"} : Return(t, v)
    BY <1>5, <1>9 DEF Truth
  <2>2. /\ Alone(t) /\ pc'[t] = "idle"
        /\ pc' \in [Threads -> {"idle", "append", "output", "stream", "next"}]
        /\ op' \in [Threads -> {"none", "write", "flush", "destroy"}]
        /\ sink' \in [Threads -> Sinks \cup {0}]
        /\ success' \in [Threads -> {"true", "false", "throws"}]
        /\ covered' \in [Threads -> SUBSET Records]
        /\ accepted' \in [Sinks -> SUBSET Records] /\ told' \subseteq Sinks
    BY <1>2, <2>1, ReturnFacts
  <2>3. locks' = locks \ {<<sink[t], 0>>}
    BY <1>5, <1>9 DEF OutputLock
  <2>4. Sorted'
    BY <1>1, <1>8, <2>2, <2>3 DEF SInv, Sorted, bounds
  <2>5. InCall(t)'
    BY <2>2 DEF InCall
  <2>6. \A u \in Threads \ {t} :
          pc[u] = "stream" => <<sink[u], 0>> \in locks'
    <3>1. locks \ {<<sink[t], 1>>, <<sink[t], 0>>} \subseteq locks'
      BY <2>3
    <3> QED
      BY <1>1, <1>2, <3>1, OthersHold
  <2> QED
    BY <1>1, <2>2, <2>4, <2>5, <2>6, SInvFrame
<1>10. CASE ~(o.throws \/ Len(todo[t]) = 1)
  <2>1. /\ todo' = [todo EXCEPT ![t] = Tail(todo[t])]
        /\ UNCHANGED <<pc, op, sink, success, covered, fates, locks>>
    BY <1>5, <1>10 DEF Set
  <2>2. Alone(t) /\ todo'[t] = Tail(todo[t])
    BY <2>1 DEF Alone, IInv, Types, Indexed
  <2>3. Sorted'
    BY <1>1, <1>8, <2>1 DEF SInv, Sorted, bounds, fates
  <2>4. record(t)' = record(t) /\ OutputLock(t)' \in locks'
    BY <1>1, <1>2, <2>1 DEF record, OutputLock
  <2>5. InCall(t)'
    BY <1>1, <1>2, <1>4, <1>10, <2>1, <2>2, <2>4 DEF SInv, InCall
  <2>6. \A u \in Threads \ {t} :
          pc[u] = "stream" => <<sink[u], 0>> \in locks'
    BY <2>1, OthersHold
  <2> QED
    BY <1>1, <2>1, <2>2, <2>3, <2>5, <2>6, SInvFrame
<1> QED
  BY <1>9, <1>10

LEMMA FlushShardSorted ==
  ASSUME IInv, SInv, NEW t \in Threads, FlushShard(t) PROVE SInv'
<1>1. /\ pc[t] = "stream" /\ buffered
      /\ UNCHANGED <<buffered, throwing, alive, cached, issued, bounds>>
  BY DEF FlushShard
<1>2. /\ sink[t] \in Sinks /\ op[t] # "none" /\ todo[t] # <<>>
      /\ success[t] # "throws" /\ <<sink[t], 0>> \in locks
      /\ op[t] = "write" => issued[<<t, sink[t]>>] # <<>>
      /\ op[t] = "destroy" => sink[t] \notin alive
  BY <1>1 DEF SInv, InCall, OutputLock
<1>3. /\ Head(todo[t]) \in 1 .. Len(shards[sink[t]])
      /\ Tail(todo[t]) \in Seq(1 .. Len(shards[sink[t]]))
      /\ Buffer(t) \in Seq(Records) /\ Lines(Buffer(t)) \in Seq(Piece)
      /\ ShardLock(t) \in Sinks \X (Nat \ {0}) /\ Len(shards[sink[t]]) \in Nat
  BY <1>1, <1>2, AtShard
<1>4. PICK o \in Outcomes(sink[t], Lines(Buffer(t))) :
        /\ Stream(sink[t], o)
        /\ SetBuffer(t, Rest(o, Buffer(t)))
        /\ locks' = locks \ Released(t, o)
        /\ IF o.throws THEN Return(t, "throws")
           ELSE IF op[t] = "write" THEN Return(t, Truth(ShardResult(o)))
           ELSE /\ Set(todo, t, Tail(todo[t])) /\ Set(pc, t, "next")
                /\ Set(success, t,
                       IF ShardResult(o) THEN success[t] ELSE "false")
                /\ UNCHANGED <<op, sink, covered, fates>>
  BY DEF FlushShard
<1>5. o.good \in BOOLEAN /\ o.put \in Seq(Piece)
  BY <1>2, <1>3, <1>4, OutcomeFacts DEF SInv
<1>6. good' \in [Sinks -> BOOLEAN] /\ output' \in [Sinks -> Seq(Piece)]
  <2>1. PICK s \in Sinks : s = sink[t]
    BY <1>2
  <2>2. Sorted /\ Stream(s, o)
    BY <1>4, <2>1 DEF SInv, Stream, Set
  <2> QED
    BY <1>5, <2>2, StreamFacts
<1>7. Rest(o, Buffer(t)) \in Seq(Records)
  BY <1>3, EmptySeq DEF Rest
<1>8. \A q \in Sinks : Len(shards'[q]) = Len(shards[q])
  BY <1>2, <1>3, <1>4, <1>7, SetBufferFacts DEF IInv
<1>9. /\ locks' \subseteq locks
      /\ \A u \in Threads \ {t} :
           pc[u] = "stream" => <<sink[u], 0>> \in locks'
  <2>1. PICK i \in Nat \ {0} : ShardLock(t) = <<sink[t], i>>
    BY <1>3 DEF ShardLock
  <2>2. locks' = locks \ {<<sink[t], i>>, <<sink[t], 0>>}
    BY <1>4, <2>1 DEF Released, OutputLock
  <2> QED
    BY <1>1, <1>2, <2>2, OthersHold
<1>10. CASE o.throws \/ op[t] = "write"
  <2>1. PICK v \in {"true", "false", "throws"} : Return(t, v)
    BY <1>4, <1>10 DEF Truth
  <2>2. /\ Alone(t) /\ pc'[t] = "idle"
        /\ pc' \in [Threads -> {"idle", "append", "output", "stream", "next"}]
        /\ op' \in [Threads -> {"none", "write", "flush", "destroy"}]
        /\ sink' \in [Threads -> Sinks \cup {0}]
        /\ success' \in [Threads -> {"true", "false", "throws"}]
        /\ covered' \in [Threads -> SUBSET Records]
        /\ accepted' \in [Sinks -> SUBSET Records] /\ told' \subseteq Sinks
    BY <1>2, <2>1, ReturnFacts
  <2>3. Sorted'
    BY <1>1, <1>6, <1>9, <2>2 DEF SInv, Sorted, bounds
  <2>4. InCall(t)'
    BY <2>2 DEF InCall
  <2> QED
    BY <1>1, <1>8, <1>9, <2>2, <2>3, <2>4, SInvFrame
<1>11. CASE ~(o.throws \/ op[t] = "write")
  <2>1. PICK v \in {"true", "false"} : success' = [success EXCEPT ![t] = v]
    BY <1>2, <1>4, <1>11 DEF Set, SInv, Sorted
  <2>2. /\ todo' = [todo EXCEPT ![t] = Tail(todo[t])]
        /\ pc' = [pc EXCEPT ![t] = "next"]
        /\ UNCHANGED <<op, sink, covered, fates>>
    BY <1>4, <1>11 DEF Set
  <2>3. Alone(t) /\ todo'[t] = Tail(todo[t]) /\ pc'[t] = "next" /\ success'[t] = v
    BY <2>1, <2>2 DEF Alone, IInv, Types, Indexed, SInv, Sorted
  <2>4. Sorted'
    BY <1>1, <1>6, <1>9, <2>1, <2>2 DEF SInv, Sorted, bounds, fates
  <2>5. InCall(t)'
    BY <1>1, <1>2, <1>3, <1>8, <1>11, <2>2, <2>3 DEF SInv, InCall
  <2> QED
    BY <1>1, <1>8, <1>9, <2>2, <2>3, <2>4, <2>5, SInvFrame
<1> QED
  BY <1>10, <1>11

LEMMA FlushNextSorted ==
  ASSUME IInv, SInv, NEW t \in Threads, FlushNext(t) PROVE SInv'
<1>1. /\ pc[t] = "next" /\ todo[t] # <<>>
      /\ UNCHANGED <<buffered, throwing, alive, shards, cached, streams, op,
                     sink, success, covered, issued, fates, bounds>>
      /\ \/ /\ todo' = [todo EXCEPT ![t] = Tail(todo[t])]
            /\ UNCHANGED <<pc, locks>>
         \/ /\ locks' = locks \cup {ShardLock(t)}
            /\ pc' = [pc EXCEPT ![t] = "output"] /\ UNCHANGED todo
  BY DEF FlushNext, Set
<1>2. buffered
  BY <1>1 DEF SInv, InCall
<1>3. /\ sink[t] \in Sinks /\ ShardLock(t) \in Sinks \X (Nat \ {0})
      /\ Tail(todo[t]) \in Seq(1 .. Len(shards[sink[t]]))
  BY <1>1, <1>2, AtShard
<1>4. Alone(t) /\ pc'[t] # "stream"
  BY <1>1 DEF Alone, IInv, Types, Indexed, SInv, Sorted
<1>5. Sorted'
  BY <1>1, <1>3 DEF SInv, Sorted, streams, bounds, fates
<1>6. InCall(t)'
  <2>1. CASE todo' = [todo EXCEPT ![t] = Tail(todo[t])] /\ UNCHANGED pc
    <3>1. todo'[t] = Tail(todo[t])
      BY <2>1 DEF IInv, Types, Indexed
    <3> QED
      BY <1>1, <1>2, <1>3, <2>1, <3>1 DEF SInv, InCall
  <2>2. CASE pc' = [pc EXCEPT ![t] = "output"] /\ UNCHANGED todo
    <3>1. pc'[t] = "output"
      BY <2>2 DEF SInv, Sorted
    <3> QED
      BY <1>1, <1>2, <2>2, <3>1 DEF SInv, InCall
  <2> QED
    BY <1>1, <2>1, <2>2
<1>7. \A u \in Threads \ {t} :
        pc[u] = "stream" => <<sink[u], 0>> \in locks'
  BY <1>1, OthersHold
<1> QED
  BY <1>1, <1>4, <1>5, <1>6, <1>7, SInvFrame

LEMMA FlushEndSorted ==
  ASSUME IInv, SInv, NEW t \in Threads, FlushEnd(t) PROVE SInv'
<1>1. /\ pc[t] = "next"
      /\ UNCHANGED <<buffered, throwing, alive, shards, cached, locks, issued,
                     bounds>>
  BY DEF FlushEnd
<1>2. sink[t] \in Sinks /\ op[t] # "write"
  BY <1>1 DEF SInv, InCall, Sorted
<1>3. PICK o \in Outcomes(sink[t], <<>>) :
        /\ Stream(sink[t], o)
        /\ Return(t, IF o.throws THEN "throws"
                     ELSE Truth(o.good /\ success[t] = "true"))
  BY Zenon DEF FlushEnd
<1>4. o.good \in BOOLEAN /\ o.put \in Seq(Piece)
  <2>1. <<>> \in Seq(Piece)
    BY EmptySeq
  <2> QED
    BY <1>2, <1>3, <2>1, OutcomeFacts DEF SInv
<1>5. good' \in [Sinks -> BOOLEAN] /\ output' \in [Sinks -> Seq(Piece)]
  <2>1. PICK s \in Sinks : s = sink[t]
    BY <1>2
  <2>2. Sorted /\ Stream(s, o)
    BY <1>3, <2>1 DEF SInv, Stream, Set
  <2> QED
    BY <1>4, <2>2, StreamFacts
<1>6. PICK v \in {"true", "false", "throws"} : Return(t, v)
  <2>1. PICK v : v = IF o.throws THEN "throws"
                      ELSE Truth(o.good /\ success[t] = "true")
    OBVIOUS
  <2>2. v \in {"true", "false", "throws"}
    BY <2>1 DEF Truth
  <2> QED
    BY <1>3, <2>1, <2>2 DEF Return, Set
<1>7. /\ Alone(t) /\ pc'[t] = "idle"
      /\ pc' \in [Threads -> {"idle", "append", "output", "stream", "next"}]
      /\ op' \in [Threads -> {"none", "write", "flush", "destroy"}]
      /\ sink' \in [Threads -> Sinks \cup {0}]
      /\ success' \in [Threads -> {"true", "false", "throws"}]
      /\ covered' \in [Threads -> SUBSET Records]
      /\ accepted' \in [Sinks -> SUBSET Records] /\ told' \subseteq Sinks
  BY <1>2, <1>6, ReturnFacts
<1>8. Sorted'
  BY <1>1, <1>5, <1>7 DEF SInv, Sorted, bounds
<1>9. InCall(t)'
  BY <1>7 DEF InCall
<1>10. \A u \in Threads \ {t} :
        pc[u] = "stream" => <<sink[u], 0>> \in locks'
  BY <1>1, OthersHold
<1> QED
  BY <1>1, <1>7, <1>8, <1>9, <1>10, SInvFrame

\* What the start of a call does, whichever it is.
LEMMA BeginFacts ==
  ASSUME IInv, SInv, NEW t \in Threads, NEW s \in Sinks, NEW call, NEW label,
         NEW work, Begin(t, s, call, label, work),
         call \in {"write", "flush", "destroy"},
         label \in {"append", "output", "next"},
         \A u \in Threads \ {t} : covered'[u] = covered[u]
  PROVE  /\ Alone(t) /\ pc[t] = "idle" /\ s \in alive
         /\ pc'[t] = label /\ op'[t] = call /\ sink'[t] = s
         /\ success'[t] = "true" /\ todo'[t] = work
         /\ pc' \in [Threads -> {"idle", "append", "output", "stream", "next"}]
         /\ op' \in [Threads -> {"none", "write", "flush", "destroy"}]
         /\ sink' \in [Threads -> Sinks \cup {0}]
         /\ success' \in [Threads -> {"true", "false", "throws"}]
         /\ UNCHANGED <<buffered, throwing, locks, streams, fates, repairs>>
<1>1. /\ pc' = [pc EXCEPT ![t] = label] /\ op' = [op EXCEPT ![t] = call]
      /\ sink' = [sink EXCEPT ![t] = s] /\ todo' = [todo EXCEPT ![t] = work]
      /\ success' = [success EXCEPT ![t] = "true"]
      /\ pc[t] = "idle" /\ s \in alive
      /\ UNCHANGED <<buffered, throwing, locks, streams, fates, repairs>>
  BY DEF Begin, Set
<1>2. Sorted /\ Indexed(todo)
  BY DEF SInv, IInv, Types
<1> QED
  <2>1. todo'[t] = work /\ \A u \in Threads \ {t} : todo'[u] = todo[u]
    <3>1. DOMAIN todo = Threads
      BY <1>2 DEF Indexed
    <3>2. todo' = [todo EXCEPT ![t] = work]
      BY <1>1
    <3> QED
      BY <3>1, <3>2
  <2> QED
    BY <1>1, <1>2, <2>1 DEF Alone, Sorted

LEMMA CallWriteSorted ==
  ASSUME IInv, SInv, NEW t \in Threads, NEW s \in Sinks, CallWrite(t, s)
  PROVE  SInv'
<1>1. PICK r \in Records :
        /\ issued' = [issued EXCEPT ![<<t, s>>] = Append(@, r)]
        /\ IF buffered
           THEN /\ Begin(t, s, "write", "append", <<Found(t, s)>>)
                /\ Set(cached, t, [id |-> s, shard |-> Found(t, s)])
                /\ Register(t, s)
           ELSE /\ Begin(t, s, "write", "output", Pieces(r))
                /\ UNCHANGED <<cached, shards>>
  BY DEF CallWrite
<1>2. UNCHANGED <<alive, covered, flushes>>
  BY DEF CallWrite
<1>3. PICK label, work :
        /\ label \in {"append", "output"}
        /\ Begin(t, s, "write", label, work)
        /\ buffered => label = "append" /\ work = <<Found(t, s)>>
        /\ ~buffered => label = "output" /\ work = Pieces(r)
  <2>1. PICK work : work = IF buffered THEN <<Found(t, s)>> ELSE Pieces(r)
    OBVIOUS
  <2>2. PICK label \in {"append", "output"} :
          label = IF buffered THEN "append" ELSE "output"
    OBVIOUS
  <2>3. Begin(t, s, "write", label, work)
    BY <1>1, <2>1, <2>2 DEF Begin, Set
  <2> QED
    BY <2>1, <2>2, <2>3
<1>4. /\ Alone(t) /\ pc[t] = "idle" /\ s \in alive
      /\ pc'[t] = label /\ op'[t] = "write" /\ sink'[t] = s
      /\ success'[t] = "true" /\ todo'[t] = work
      /\ pc' \in [Threads -> {"idle", "append", "output", "stream", "next"}]
      /\ op' \in [Threads -> {"none", "write", "flush", "destroy"}]
      /\ sink' \in [Threads -> Sinks \cup {0}]
      /\ success' \in [Threads -> {"true", "false", "throws"}]
      /\ UNCHANGED <<buffered, throwing, locks, streams, fates, repairs>>
  BY <1>2, <1>3, BeginFacts
<1>5. /\ issued'[<<t, s>>] = Append(issued[<<t, s>>], r)
      /\ issued[<<t, s>>] \in Seq(Records)
      /\ \A u \in Threads \ {t}, q \in Sinks :
           issued'[<<u, q>>] = issued[<<u, q>>]
  BY <1>1 DEF IInv, Types
<1>6. issued'[<<t, s>>] # <<>> /\ Last(issued'[<<t, s>>]) = r
  <2>1. ASSUME NEW w \in Seq(Records)
        PROVE  Append(w, r) # <<>> /\ Last(Append(w, r)) = r
    BY <2>1, AppendProperties DEF Last
  <2> QED
    BY <1>5, <2>1
<1>7. Sorted'
  BY <1>2, <1>4 DEF SInv, Sorted, streams, fates
<1>8. /\ \A q \in Sinks : Len(shards[q]) \in Nat /\ Len(shards'[q]) \in Nat
                          /\ Len(shards[q]) <= Len(shards'[q])
      /\ buffered => Found(t, s) \in 1 .. Len(shards'[s])
  <2>0. \A q \in Sinks : /\ Len(shards[q]) \in Nat
                         /\ DOMAIN shards[q] = 1 .. Len(shards[q])
    BY DEF IInv, Types
  <2>1. CASE buffered
    <3>1. PICK k : k = Found(t, s)
      OBVIOUS
    <3>2. /\ shards' \in [Sinks -> Seq(Shard)] /\ Owns(t, s, k)'
      BY <1>1, <2>1, <3>1, FoundOwned
    <3>3. \A q \in Sinks : /\ Len(shards'[q]) \in Nat
                           /\ DOMAIN shards'[q] = 1 .. Len(shards'[q])
      BY <3>2
    <3>4. k \in 1 .. Len(shards'[s])
      BY <3>2, <3>3 DEF Owns
    <3>5. ASSUME NEW q \in Sinks PROVE Len(shards[q]) <= Len(shards'[q])
      <4>1. CASE shards' = shards
        BY <2>0, <4>1
      <4>2. CASE shards' = [shards EXCEPT ![s] =
                      Append(shards[s], [producer |-> t, buffer |-> <<>>])]
        <5>1. CASE q = s
          <6>1. PICK e : e = [producer |-> t, buffer |-> <<>>]
            OBVIOUS
          <6>2. e \in Shard /\ shards[s] \in Seq(Shard)
            BY <6>1, EmptySeq DEF Shard, IInv, Types
          <6>3. Len(Append(shards[s], e)) = Len(shards[s]) + 1
            BY <6>2, AppendProperties
          <6>4. shards'[s] = Append(shards[s], e)
            BY <4>2, <6>1 DEF IInv, Types
          <6> QED
            BY <2>0, <5>1, <6>3, <6>4
        <5>2. CASE q # s
          <6>1. shards'[q] = shards[q]
            BY <4>2, <5>2
          <6> QED
            BY <2>0, <6>1
        <5> QED
          BY <5>1, <5>2
      <4> QED
        BY <1>1, <2>1, <4>1, <4>2 DEF Register, Set
    <3> QED
      BY <2>0, <3>1, <3>3, <3>4, <3>5
  <2>2. CASE ~buffered
    BY <1>1, <2>0, <2>2
  <2> QED
    BY <2>1, <2>2
<1>9. \A q \in Sinks : \A w \in Seq(1 .. Len(shards[q])) :
        w \in Seq(1 .. Len(shards'[q]))
  <2> SUFFICES ASSUME NEW q \in Sinks, NEW w \in Seq(1 .. Len(shards[q]))
               PROVE  w \in Seq(1 .. Len(shards'[q]))
    OBVIOUS
  <2>1. 1 .. Len(shards[q]) \subseteq 1 .. Len(shards'[q])
    BY <1>8
  <2> QED
    BY <2>1, SeqMonotonic, Zenon
<1>10. InCall(t)'
  <2>1. record(t)' = r
    BY <1>4, <1>6 DEF record
  <2>2. CASE buffered
    <3>1. <<Found(t, s)>> \in Seq(1 .. Len(shards'[s]))
      BY <1>8, <2>2
    <3>2. <<Found(t, s)>> # <<>>
      OBVIOUS
    <3> QED
      BY <1>3, <1>4, <1>6, <2>2, <3>1, <3>2 DEF InCall
  <2>3. CASE ~buffered
    BY <1>3, <1>4, <1>6, <2>1, <2>3 DEF InCall, Remains
  <2> QED
    BY <2>2, <2>3
<1>11. \A u \in Threads \ {t} :
        pc[u] = "stream" => <<sink[u], 0>> \in locks'
  BY <1>4, OthersHold
<1>12. pc'[t] # "stream"
  BY <1>3, <1>4
<1> QED
  BY <1>2, <1>4, <1>5, <1>7, <1>9, <1>10, <1>11, <1>12, SInvFrame

LEMMA CallFlushSorted ==
  ASSUME IInv, SInv, NEW t \in Threads, NEW s \in Sinks, CallFlush(t, s)
  PROVE  SInv'
<1>1. /\ buffered /\ flushes < FlushLimit /\ flushes' = flushes + 1
      /\ covered' = [covered EXCEPT ![t] = accepted[s] \cap Buffered(s)]
      /\ UNCHANGED <<shards, cached, issued>>
  BY DEF CallFlush, Set
<1>9. PICK work : work = FlushOrder(s)
  OBVIOUS
<1>2. PICK call \in {"flush", "destroy"} :
        /\ Begin(t, s, call, "next", work)
        /\ call = "flush" => UNCHANGED alive
        /\ call = "destroy" => alive' = alive \ {s}
  <2>2. CASE Begin(t, s, "flush", "next", FlushOrder(s)) /\ UNCHANGED alive
    BY <1>9, <2>2 DEF Begin, Set
  <2>3. CASE /\ Begin(t, s, "destroy", "next", FlushOrder(s))
             /\ alive' = alive \ {s}
    BY <1>9, <2>3 DEF Begin, Set
  <2> QED
    BY <2>2, <2>3 DEF CallFlush
<1>3. /\ Alone(t) /\ pc[t] = "idle" /\ s \in alive
      /\ pc'[t] = "next" /\ op'[t] = call /\ sink'[t] = s
      /\ success'[t] = "true" /\ todo'[t] = work
      /\ pc' \in [Threads -> {"idle", "append", "output", "stream", "next"}]
      /\ op' \in [Threads -> {"none", "write", "flush", "destroy"}]
      /\ sink' \in [Threads -> Sinks \cup {0}]
      /\ success' \in [Threads -> {"true", "false", "throws"}]
      /\ UNCHANGED <<buffered, throwing, locks, streams, fates, repairs>>
  <2>1. \A u \in Threads \ {t} : covered'[u] = covered[u]
    BY <1>1 DEF SInv, Sorted
  <2> QED
    BY <1>2, <2>1, BeginFacts
<1>4. alive' \subseteq alive
  BY <1>2
<1>5. Sorted'
  <2>1. flushes' \in 0 .. FlushLimit
    BY <1>1, LimitsAssumption DEF SInv, Sorted
  <2>2. covered' \in [Threads -> SUBSET Records]
    BY <1>1 DEF SInv, Sorted
  <2> QED
    BY <1>3, <1>4, <2>1, <2>2 DEF SInv, Sorted, streams, fates
<1>6. InCall(t)'
  <2>1. work \in Seq(1 .. Len(shards'[s]))
    <3>1. DOMAIN shards[s] = 1 .. Len(shards[s]) /\ Len(shards[s]) \in Nat
      BY DEF IInv, Types
    <3>2. work = [i \in 1 .. Len(shards[s]) |-> i]
      BY <1>9, <3>1 DEF FlushOrder
    <3> QED
      BY <1>1, <3>1, <3>2
  <2> QED
    BY <1>1, <1>2, <1>3, <2>1 DEF InCall
<1>7. \A u \in Threads \ {t} :
        pc[u] = "stream" => <<sink[u], 0>> \in locks'
  BY <1>3, OthersHold
<1>8. Alone(t) /\ pc'[t] # "stream"
  BY <1>3
<1> QED
  BY <1>1, <1>3, <1>4, <1>5, <1>6, <1>7, <1>8, SInvFrame

\* A step that no call takes.
LEMMA ApplicationSorted ==
  ASSUME SInv,
         UNCHANGED <<buffered, throwing, alive, shards, locks, output, pc, op,
                     sink, todo, success, covered, issued, accepted, told>>,
         good' \in [Sinks -> BOOLEAN], flushes' \in 0 .. FlushLimit,
         repairs' \in 0 .. RepairLimit
  PROVE  SInv'
<1>1. Sorted'
  BY DEF SInv, Sorted
<1>2. ASSUME NEW t \in Threads PROVE InCall(t)'
  BY DEF SInv, InCall, record, OutputLock
<1>3. Exclusive'
  BY DEF SInv, Exclusive
<1> QED
  BY <1>1, <1>2, <1>3 DEF SInv

LEMMA SInvStep == IInv /\ SInv /\ [Next]_vars => SInv'
<1> SUFFICES ASSUME IInv, SInv, [Next]_vars PROVE SInv'
  OBVIOUS
<1>1. ASSUME NEW t \in Threads, Step(t) PROVE SInv'
  BY <1>1, AppendSorted, LockOutputSorted, WritePieceSorted, FlushShardSorted,
     FlushNextSorted, FlushEndSorted DEF Step
<1>2. ASSUME NEW t \in Threads, Restart(t) PROVE SInv'
  <2>1. UNCHANGED <<buffered, throwing, alive, shards, locks, streams, locals,
                    issued, fates, bounds>>
    BY <1>2 DEF Restart
  <2> QED
    BY <2>1, ApplicationSorted DEF streams, locals, fates, bounds, SInv, Sorted
<1>3. ASSUME NEW t \in Threads, NEW s \in Sinks,
             CallWrite(t, s) \/ CallFlush(t, s)
      PROVE  SInv'
  BY <1>3, CallWriteSorted, CallFlushSorted
<1>4. ASSUME NEW s \in Sinks, Repair(s) PROVE SInv'
  <2>1. /\ good' = [good EXCEPT ![s] = TRUE] /\ repairs' = repairs + 1
        /\ repairs < RepairLimit
        /\ UNCHANGED <<buffered, throwing, alive, shards, locks, output,
                       locals, issued, fates, flushes>>
    BY <1>4 DEF Repair, Set
  <2>2. good' \in [Sinks -> BOOLEAN] /\ repairs' \in 0 .. RepairLimit
    BY <2>1, LimitsAssumption DEF SInv, Sorted
  <2> QED
    BY <2>1, <2>2, ApplicationSorted DEF locals, fates, SInv, Sorted
<1>5. CASE UNCHANGED vars
  BY <1>5, ApplicationSorted DEF vars, streams, locals, fates, bounds, SInv, Sorted
<1> QED
  BY <1>1, <1>2, <1>3, <1>4, <1>5 DEF Next
-----------------------------------------------------------------------------
(* The type invariant of the runs: the bytes of a shard.                   *)

LEMMA BelowThresholdSays ==
  ASSUME NEW b
  PROVE  BelowThreshold(b) <=>
           FoldLeft(LAMBDA n, r : n + LineSize(r), 0, b) < FlushThreshold
BY DEF BelowThreshold

LEMMA FoldOfNothing ==
  ASSUME NEW b, DOMAIN b = {}
  PROVE  FoldLeft(LAMBDA n, r : n + LineSize(r), 0, b) = 0
<1> DEFINE Adds(f) == f = [s \in SUBSET DOMAIN b |->
                             IF s = {} THEN 0
                             ELSE LET x == Max(s)
                                  IN  f[s \ {x}] + LineSize(b[x])]
<1>1. \E f : Adds(f)
  <2>1. Adds([s \in SUBSET DOMAIN b |-> 0])
    OBVIOUS
  <2> QED
    BY <2>1
<1>2. ASSUME NEW f, Adds(f) PROVE f[DOMAIN b] = 0
  BY <1>2
<1>3. FoldLeft(LAMBDA n, r : n + LineSize(r), 0, b)
        = (CHOOSE f : Adds(f))[DOMAIN b]
  BY Zenon DEF FoldLeft, MapThenFoldSet
<1> HIDE DEF Adds
<1>4. Adds(CHOOSE f : Adds(f))
  BY <1>1, Zenon
<1> QED
  BY <1>2, <1>3, <1>4, Zenon

LEMMA EmptyIsBelow ==
  ASSUME NEW b, DOMAIN b = {} PROVE BelowThreshold(b)
<1>1. PICK k : k = FoldLeft(LAMBDA n, r : n + LineSize(r), 0, b)
  OBVIOUS
<1>2. k = 0
  BY <1>1, FoldOfNothing, Zenon
<1>3. k < FlushThreshold
  BY <1>2, ThresholdAssumption
<1> QED
  BY <1>1, <1>3, Zenon DEF BelowThreshold
-----------------------------------------------------------------------------
(* The contents of the buffers and of the streams.                         *)

\* What the runs say of one shard, of one stream and of one sink.
Low ==
  \A s \in Sinks : \A i \in DOMAIN shards[s] :
    throwing \/ <<s, i>> \in locks \/ BelowThreshold(shards[s][i].buffer)
Whole(z) ==
  \A i \in 1 .. Len(z) :
    /\ z[i][2] = "message" => i > 1 /\ z[i - 1] = <<z[i][1], "prefix">>
    /\ z[i][2] = "newline" => i > 1 /\ z[i - 1] = <<z[i][1], "message">>
Loss(s) ==
  \/ accepted[s] \subseteq Buffered(s) \cup Written(output[s])
  \/ s \in told
  \/ \E t \in Threads : pc[t] # "idle" /\ sink[t] = s /\ success[t] = "false"

\* A line that was begun on a stream that still works is its last one.
Continued(t) ==
  pc[t] # "idle" /\ ~buffered =>
    \/ todo[t] = Pieces(record(t))
    \/ /\ pc[t] = "stream"
       /\ good[sink[t]] =>
            /\ output[sink[t]] # <<>>
            /\ Last(output[sink[t]]) =
                 <<record(t), IF Head(todo[t])[2] = "message" THEN "prefix"
                              ELSE "message">>

\* Where a call that has not failed finds what it has to bring out: on the
\* stream, or in a shard that it still visits.
Wanted(t) == IF op[t] = "write" THEN {record(t)} ELSE covered[t]
Held(s, i, r) == i \in DOMAIN shards[s] /\ r \in ToSet(shards[s][i].buffer)
Covers(t) ==
  buffered /\ pc[t] \in {"next", "output", "stream"} /\ success[t] = "true" =>
    \A r \in Wanted(t) :
      \/ ~good[sink[t]]
      \/ r \in Written(output[sink[t]])
      \/ \E k \in 1 .. Len(todo[t]) : Held(sink[t], todo[t][k], r)

DInv ==
  /\ Low
  /\ \A s \in Sinks : Whole(output[s])
  /\ \A s \in alive : Loss(s)
  /\ \A t \in Threads : Continued(t) /\ Covers(t)

LEMMA ContainsConcat ==
  ASSUME NEW S, NEW z \in Seq(S), NEW w \in Seq(S), NEW e
  PROVE  Contains(z \o w, e) <=> Contains(z, e) \/ Contains(w, e)
<1>1. PICK m \in Nat, n \in Nat : m = Len(z) /\ n = Len(w)
  BY LenProperties
<1>2. PICK y : y = z \o w
  OBVIOUS
<1>3. /\ Len(y) = m + n
      /\ \A i \in 1 .. m + n : y[i] = IF i <= m THEN z[i] ELSE w[i - m]
  BY <1>1, <1>2, ConcatProperties
<1>4. ASSUME NEW i \in 1 .. m + n PROVE i \in 1 .. m \/ i - m \in 1 .. n
  OBVIOUS
<1>5. Contains(y, e) => Contains(z, e) \/ Contains(w, e)
  BY <1>1, <1>3, <1>4 DEF Contains
<1>6. Contains(z, e) => Contains(y, e)
  <2>1. \A i \in 1 .. m : i \in 1 .. m + n /\ i <= m
    OBVIOUS
  <2> QED
    BY <1>1, <1>3, <2>1 DEF Contains
<1>7. Contains(w, e) => Contains(y, e)
  <2> SUFFICES ASSUME NEW i \in 1 .. n, w[i] = e PROVE Contains(y, e)
    BY <1>1 DEF Contains
  <2>1. m + i \in 1 .. m + n /\ ~(m + i <= m) /\ (m + i) - m = i
    OBVIOUS
  <2>2. y[m + i] = e
    BY <1>3, <2>1
  <2> QED
    BY <1>3, <2>1, <2>2 DEF Contains
<1> QED
  BY <1>2, <1>5, <1>6, <1>7

LEMMA WrittenConcat ==
  ASSUME NEW z \in Seq(Piece), NEW w \in Seq(Piece)
  PROVE  Written(z \o w) = Written(z) \cup Written(w)
BY ContainsConcat DEF Written

\* A line that follows a whole text, or the beginning of one.
LEMMA WholeConcat ==
  ASSUME NEW z \in Seq(Piece), Whole(z), NEW w \in Seq(Piece),
         \A i \in 2 .. Len(w) :
           /\ w[i][2] = "message" => w[i - 1] = <<w[i][1], "prefix">>
           /\ w[i][2] = "newline" => w[i - 1] = <<w[i][1], "message">>,
         w # <<>> =>
           /\ w[1][2] = "message" =>
                z # <<>> /\ Last(z) = <<w[1][1], "prefix">>
           /\ w[1][2] = "newline" =>
                z # <<>> /\ Last(z) = <<w[1][1], "message">>
  PROVE  Whole(z \o w)
<1>1. PICK m \in Nat, n \in Nat : m = Len(z) /\ n = Len(w)
  BY LenProperties
<1>2. PICK y : y = z \o w
  OBVIOUS
<1>3. /\ Len(y) = m + n
      /\ \A i \in 1 .. m + n : y[i] = IF i <= m THEN z[i] ELSE w[i - m]
  BY <1>1, <1>2, ConcatProperties
<1>4. ASSUME NEW i \in 1 .. m + n
      PROVE  /\ y[i][2] = "message" => i > 1 /\ y[i - 1] = <<y[i][1], "prefix">>
             /\ y[i][2] = "newline" => i > 1 /\ y[i - 1] = <<y[i][1], "message">>
  <2>1. CASE i <= m
    <3>1. i \in 1 .. m /\ y[i] = z[i]
      BY <1>3, <2>1
    <3>2. i > 1 => i - 1 \in 1 .. m + n /\ i - 1 <= m
      BY <2>1
    <3>3. i > 1 => y[i - 1] = z[i - 1]
      BY <1>3, <3>2
    <3>4. /\ z[i][2] = "message" => i > 1 /\ z[i - 1] = <<z[i][1], "prefix">>
          /\ z[i][2] = "newline" => i > 1 /\ z[i - 1] = <<z[i][1], "message">>
      BY <1>1, <3>1 DEF Whole
    <3> QED
      BY <3>1, <3>3, <3>4
  <2>2. CASE i = m + 1
    <3>1. n # 0 /\ w # <<>> /\ 1 \in 1 .. n
      BY <1>1, <2>2
    <3>2. y[i] = w[1]
      <4>1. ~(i <= m) /\ i - m = 1
        BY <2>2
      <4> QED
        BY <1>3, <4>1
    <3>3. ASSUME z # <<>> PROVE i > 1 /\ y[i - 1] = Last(z)
      <4>1. m # 0
        BY <1>1, <3>3, EmptySeq
      <4>2. m \in 1 .. m + n /\ m <= m /\ i - 1 = m /\ i > 1
        BY <2>2, <4>1
      <4> QED
        BY <1>1, <1>3, <4>2 DEF Last
    <3> QED
      BY <3>1, <3>2, <3>3
  <2>3. CASE i > m + 1
    <3>1. /\ i - m \in 2 .. n /\ ~(i <= m) /\ i > 1
          /\ i - 1 \in 1 .. m + n /\ ~(i - 1 <= m) /\ (i - 1) - m = (i - m) - 1
      BY <2>3
    <3>2. y[i] = w[i - m] /\ y[i - 1] = w[(i - m) - 1]
      BY <1>3, <3>1
    <3> QED
      BY <1>1, <3>1, <3>2
  <2> QED
    BY <2>1, <2>2, <2>3
<1> QED
  BY <1>2, <1>3, <1>4 DEF Whole

LEMMA HeldIsBuffered ==
  ASSUME NEW s, NEW r
  PROVE  r \in Buffered(s) <=> \E i \in DOMAIN shards[s] : Held(s, i, r)
BY DEF Buffered, Held

LEMMA PieceOrder ==
  ASSUME NEW r \in Records, NEW j \in 1 .. Len(Pieces(r))
  PROVE  /\ Pieces(r)[j][2] = "message" =>
              j > 1 /\ Pieces(r)[j - 1] = <<Pieces(r)[j][1], "prefix">>
         /\ Pieces(r)[j][2] = "newline" =>
              j > 1 /\ Pieces(r)[j - 1] = <<Pieces(r)[j][1], "message">>
<1>1. CASE message_is_buffered(r)
  <2>1. Pieces(r) = <<<<r, "line">>>>
    BY <1>1 DEF Pieces
  <2> QED
    BY <2>1
<1>2. CASE ~message_is_buffered(r)
  <2>1. Pieces(r) = <<<<r, "prefix">>, <<r, "message">>, <<r, "newline">>>>
    BY <1>2 DEF Pieces
  <2>2. j = 1 \/ j = 2 \/ j = 3
    BY <2>1
  <2> QED
    BY <2>1, <2>2
<1> QED
  BY <1>1, <1>2

\* However much of the lines of a buffer is written, it is well begun.
LEMMA LinesFollow ==
  ASSUME NEW b \in Seq(Records), NEW z \in Seq(Piece), Whole(z),
         NEW w \in Seq(Piece), Len(w) <= Len(Lines(b)),
         \A i \in 1 .. Len(w) : w[i] = Lines(b)[i]
  PROVE  Whole(z \o w)
<1>1. PICK n \in Nat : n = Len(w)
  BY LenProperties
<1>2. PICK y \in Seq(Piece) : y = Lines(b)
  BY LinesFacts
<1>3. \A p \in 1 .. Len(y) :
        \E r \in Records : \E j \in 1 .. Len(Pieces(r)) :
          /\ y[p] = Pieces(r)[j]
          /\ j > 1 => p > 1 /\ y[p - 1] = Pieces(r)[j - 1]
  BY <1>2, LinesFacts
<1>4. ASSUME NEW p \in 1 .. n
      PROVE  /\ w[p][2] = "message" => p > 1 /\ w[p - 1] = <<w[p][1], "prefix">>
             /\ w[p][2] = "newline" => p > 1 /\ w[p - 1] = <<w[p][1], "message">>
  <2>1. p \in 1 .. Len(y) /\ w[p] = y[p]
    <3>1. Len(y) \in Nat /\ n <= Len(y)
      BY <1>1, <1>2, LenProperties
    <3> QED
      BY <1>1, <1>2, <3>1
  <2>2. PICK r \in Records : \E j \in 1 .. Len(Pieces(r)) :
          /\ y[p] = Pieces(r)[j]
          /\ j > 1 => p > 1 /\ y[p - 1] = Pieces(r)[j - 1]
    BY <1>3, <2>1
  <2>3. PICK j \in 1 .. Len(Pieces(r)) :
          /\ y[p] = Pieces(r)[j]
          /\ j > 1 => p > 1 /\ y[p - 1] = Pieces(r)[j - 1]
    BY <2>2
  <2>4. p > 1 => w[p - 1] = y[p - 1]
    <3>1. p > 1 => p - 1 \in 1 .. n
      OBVIOUS
    <3> QED
      BY <1>1, <1>2, <3>1
  <2> QED
    BY <2>1, <2>3, <2>4, PieceOrder
<1>5. \A i \in 2 .. n : i \in 1 .. n
  OBVIOUS
<1>6. w # <<>> => 1 \in 1 .. n
  <2>1. w # <<>> => n # 0
    BY <1>1, EmptySeq
  <2> QED
    BY <2>1
<1>7. /\ \A i \in 2 .. Len(w) :
           /\ w[i][2] = "message" => w[i - 1] = <<w[i][1], "prefix">>
           /\ w[i][2] = "newline" => w[i - 1] = <<w[i][1], "message">>
      /\ w # <<>> => w[1][2] # "message" /\ w[1][2] # "newline"
  BY <1>1, <1>4, <1>5, <1>6
<1> QED
  BY <1>7, WholeConcat

LEMMA DInvInit == Init => DInv
<1> SUFFICES ASSUME Init PROVE DInv
  OBVIOUS
<1>1. \A s \in Sinks : shards[s] = <<>> /\ output[s] = <<>> /\ accepted[s] = {}
  BY DEF Init
<1>2. Low
  BY <1>1 DEF Low
<1>3. \A s \in Sinks : Whole(output[s])
  BY <1>1 DEF Whole
<1>4. \A s \in alive : Loss(s)
  BY <1>1 DEF Init, Loss
<1>5. \A t \in Threads : Continued(t) /\ Covers(t)
  BY DEF Init, Continued, Covers
<1> QED
  BY <1>2, <1>3, <1>4, <1>5 DEF DInv

\* A step that leaves every record in its place, or brings it out.
Preserves ==
  \A s \in Sinks :
    /\ Written(output[s]) \subseteq Written(output'[s])
    /\ \A i, r : Held(s, i, r) => Held(s, i, r)' \/ r \in Written(output'[s])
\* The same, but what a bad stream was given is gone.
KeepsOrFails ==
  \A s \in Sinks :
    /\ Written(output[s]) \subseteq Written(output'[s])
    /\ \A i, r : Held(s, i, r) =>
         Held(s, i, r)' \/ r \in Written(output'[s]) \/ ~good'[s]

LEMMA PreservesKept ==
  ASSUME Preserves, NEW s \in Sinks
  PROVE  Buffered(s) \cup Written(output[s])
           \subseteq Buffered(s)' \cup Written(output'[s])
<1> SUFFICES ASSUME NEW r \in Buffered(s) \cup Written(output[s])
             PROVE  r \in Buffered(s)' \/ r \in Written(output'[s])
  OBVIOUS
<1>1. CASE r \in Written(output[s])
  BY <1>1 DEF Preserves
<1>2. CASE r \in Buffered(s)
  <2>1. PICK i \in DOMAIN shards[s] : Held(s, i, r)
    BY <1>2, HeldIsBuffered
  <2>2. Held(s, i, r)' \/ r \in Written(output'[s])
    BY <2>1 DEF Preserves
  <2>3. ASSUME Held(s, i, r)' PROVE r \in Buffered(s)'
    BY <2>3 DEF Held, Buffered
  <2> QED
    BY <2>2, <2>3
<1> QED
  BY <1>1, <1>2

\* The flushes of the other threads still find everything.
LEMMA CoversFrame ==
  ASSUME SInv, NEW t \in Threads, Alone(t), KeepsOrFails, UNCHANGED buffered,
         NEW u \in Threads, u # t, Covers(u),
         \A q \in Sinks : issued'[<<u, q>>] = issued[<<u, q>>],
         \A q \in Sinks : ~good[q] => ~good'[q] \/ sink[u] # q
  PROVE  Covers(u)'
<1>1. /\ pc'[u] = pc[u] /\ op'[u] = op[u] /\ sink'[u] = sink[u]
      /\ todo'[u] = todo[u] /\ success'[u] = success[u]
      /\ covered'[u] = covered[u]
  BY DEF Alone
<1> SUFFICES ASSUME buffered, pc[u] \in {"next", "output", "stream"},
                    success[u] = "true"
             PROVE  Covers(u)'
  BY <1>1 DEF Covers
<1>2. PICK q \in Sinks : q = sink[u]
  BY DEF SInv, InCall
<1>7. Wanted(u)' = Wanted(u)
  BY <1>1, <1>2 DEF Wanted, record
<1> SUFFICES ASSUME NEW r \in Wanted(u)
             PROVE  \/ ~good'[sink[u]]
                    \/ r \in Written(output'[sink[u]])
                    \/ \E k \in 1 .. Len(todo[u]) : Held(sink[u], todo[u][k], r)'
  BY <1>1, <1>7 DEF Covers, Held
<1>3. \/ ~good[q] \/ r \in Written(output[q])
      \/ \E k \in 1 .. Len(todo[u]) : Held(q, todo[u][k], r)
  BY <1>2 DEF Covers, Held
<1>4. CASE ~good[q]
  BY <1>2, <1>4
<1>5. CASE r \in Written(output[q])
  BY <1>2, <1>5 DEF KeepsOrFails
<1>6. ASSUME NEW k \in 1 .. Len(todo[u]), Held(q, todo[u][k], r)
      PROVE  \/ ~good'[q] \/ r \in Written(output'[q])
             \/ Held(sink[u], todo[u][k], r)'
  <2>1. PICK i : i = todo[u][k]
    OBVIOUS
  <2>2. Held(q, i, r)
    BY <1>6, <2>1 DEF Held
  <2>3. Held(q, i, r)' \/ r \in Written(output'[q]) \/ ~good'[q]
    BY <2>2 DEF KeepsOrFails
  <2>4. Held(q, i, r)' => Held(sink[u], todo[u][k], r)'
    BY <1>1, <1>2, <2>1 DEF Held
  <2> QED
    BY <2>3, <2>4
<1> QED
  BY <1>2, <1>3, <1>4, <1>5, <1>6

LEMMA LossFrame ==
  ASSUME NEW t \in Threads, Alone(t), Preserves, alive' \subseteq alive,
         told \subseteq told', NEW s \in Sinks, Loss(s),
         accepted'[s] \subseteq
           accepted[s] \cup Buffered(s)' \cup Written(output'[s]),
         pc[t] # "idle" /\ sink[t] = s /\ success[t] = "false" =>
           \/ s \in told'
           \/ pc'[t] # "idle" /\ sink'[t] = s /\ success'[t] = "false"
  PROVE  Loss(s)'
<1>1. CASE accepted[s] \subseteq Buffered(s) \cup Written(output[s])
  <2>1. Buffered(s) \cup Written(output[s])
          \subseteq Buffered(s)' \cup Written(output'[s])
    BY PreservesKept
  <2> QED
    BY <1>1, <2>1 DEF Loss
<1>2. CASE s \in told
  BY <1>2 DEF Loss
<1>3. ASSUME NEW u \in Threads, pc[u] # "idle", sink[u] = s,
             success[u] = "false"
      PROVE  Loss(s)'
  <2>1. CASE u = t
    BY <1>3, <2>1 DEF Loss
  <2>2. CASE u # t
    <3>1. pc'[u] = pc[u] /\ sink'[u] = sink[u] /\ success'[u] = success[u]
      BY <2>2 DEF Alone
    <3> QED
      BY <1>3, <3>1 DEF Loss
  <2> QED
    BY <2>1, <2>2
<1> QED
  BY <1>1, <1>2, <1>3 DEF Loss

\* The parts of the invariant that a step of t has to bring.
LEMMA DInvFrame ==
  ASSUME SInv, SInv', DInv, NEW t \in Threads, Alone(t), UNCHANGED buffered,
         \A u \in Threads \ {t}, q \in Sinks :
           issued'[<<u, q>>] = issued[<<u, q>>],
         Low', \A s \in Sinks : Whole(output'[s]), \A s \in alive' : Loss(s)',
         Continued(t)', Covers(t)', KeepsOrFails,
         \A s \in Sinks : ~good[s] => ~good'[s],
         ~buffered => \A s \in Sinks :
           (s = sink[t] /\ pc[t] = "stream") \/ UNCHANGED <<good[s], output[s]>>
  PROVE  DInv'
<1>1. ASSUME NEW u \in Threads, u # t PROVE Covers(u)'
  BY <1>1, CoversFrame DEF DInv
<1>2. ASSUME NEW u \in Threads, u # t PROVE Continued(u)'
  <2>1. /\ pc'[u] = pc[u] /\ sink'[u] = sink[u] /\ todo'[u] = todo[u]
    BY <1>2 DEF Alone
  <2> SUFFICES ASSUME pc[u] # "idle", ~buffered PROVE Continued(u)'
    BY <2>1 DEF Continued
  <2>2. PICK q \in Sinks : q = sink[u]
    BY DEF SInv, InCall
  <2>3. record(u)' = record(u)
    BY <1>2, <2>1, <2>2 DEF record
  <2>4. pc[u] = "stream" => good'[q] = good[q] /\ output'[q] = output[q]
    BY <1>2, <2>2 DEF SInv, Exclusive
  <2>5. Continued(u)
    BY DEF DInv
  <2> QED
    BY <2>1, <2>2, <2>3, <2>4, <2>5 DEF Continued
<1>3. Low' /\ (\A s \in Sinks : Whole(output[s])') /\ \A s \in alive' : Loss(s)'
  BY DEF Whole
<1> QED
  BY <1>1, <1>2, <1>3 DEF DInv

\* A step that leaves the shards and the streams.
LEMMA LowFrame ==
  ASSUME IInv, Low, UNCHANGED <<shards, throwing>>,
         \A s \in Sinks : \A i \in Nat \ {0} :
           <<s, i>> \in locks => <<s, i>> \in locks'
  PROVE  Low'
<1>1. \A s \in Sinks : DOMAIN shards[s] \subseteq Nat \ {0}
  BY DEF IInv, Types
<1> QED
  BY <1>1 DEF Low

LEMMA StillPreserves ==
  ASSUME UNCHANGED <<shards, output>> PROVE Preserves /\ KeepsOrFails
BY DEF Preserves, KeepsOrFails, Held

LEMMA AppendKeeps ==
  ASSUME IInv, SInv, SInv', DInv, NEW t \in Threads, AppendRecord(t)
  PROVE  DInv'
<1>1. PICK b : /\ b = Append(Buffer(t), record(t)) /\ SetBuffer(t, b)
               /\ \/ /\ BelowThreshold(b) /\ Return(t, "true")
                     /\ UNCHANGED locks
                  \/ /\ locks' = locks \cup {ShardLock(t)}
                     /\ pc' = [pc EXCEPT ![t] = "output"]
                     /\ UNCHANGED <<op, sink, todo, success, covered, fates>>
  BY DEF AppendRecord, SetBuffer, Set
<1>2. /\ pc[t] = "append"
      /\ UNCHANGED <<buffered, throwing, alive, streams, issued>>
  BY DEF AppendRecord
<1>3. /\ buffered /\ op[t] = "write" /\ todo[t] # <<>> /\ success[t] = "true"
      /\ issued[<<t, sink[t]>>] # <<>> /\ sink[t] \in Sinks
  BY <1>2 DEF SInv, InCall, Sorted
<1>4. /\ Head(todo[t]) \in 1 .. Len(shards[sink[t]])
      /\ Buffer(t) \in Seq(Records) /\ Len(shards[sink[t]]) \in Nat
  BY <1>2, <1>3, AtShard
<1>5. PICK r \in Records : r = record(t)
  BY <1>3, RecordType DEF IInv
<1>6. PICK s \in Sinks, i \in 1 .. Len(shards[sink[t]]) :
        s = sink[t] /\ i = Head(todo[t])
  BY <1>3, <1>4
<1>7. /\ b \in Seq(Records)
      /\ \A x : x \in ToSet(b) <=> x = r \/ x \in ToSet(Buffer(t))
  <2>1. PICK a \in Seq(Records) : a = Buffer(t)
    BY <1>4
  <2>2. /\ b \in Seq(Records) /\ Len(b) = Len(a) + 1 /\ b[Len(a) + 1] = r
        /\ \A j \in 1 .. Len(a) : b[j] = a[j]
    BY <1>1, <1>5, <2>1, AppendProperties
  <2>3. Len(a) \in Nat /\ DOMAIN a = 1 .. Len(a) /\ DOMAIN b = 1 .. Len(a) + 1
    BY <2>2
  <2>4. /\ Len(a) + 1 \in 1 .. Len(a) + 1
        /\ \A j \in 1 .. Len(a) : j \in 1 .. Len(a) + 1
        /\ \A j \in 1 .. Len(a) + 1 : j \in 1 .. Len(a) \/ j = Len(a) + 1
    BY <2>3
  <2> QED
    BY <2>1, <2>2, <2>3, <2>4 DEF ToSet
<1>8. /\ \A q \in Sinks : Len(shards'[q]) = Len(shards[q])
      /\ \A q \in Sinks \ {s} : shards'[q] = shards[q]
      /\ \A j \in 1 .. Len(shards[s]) : j # i => shards'[s][j] = shards[s][j]
      /\ shards'[s][i].buffer = b
      /\ \A q \in Sinks : /\ DOMAIN shards'[q] = DOMAIN shards[q]
                          /\ DOMAIN shards[q] = 1 .. Len(shards[q])
  <2>1. /\ shards' \in [Sinks -> Seq(Shard)]
        /\ \A q \in Sinks : Len(shards'[q]) = Len(shards[q])
        /\ \A q \in Sinks \ {s} : shards'[q] = shards[q]
        /\ \A j \in 1 .. Len(shards[s]) : j # i => shards'[s][j] = shards[s][j]
        /\ shards'[s][i].buffer = b
    <3>1. /\ Types /\ s = sink[t] /\ i \in 1 .. Len(shards[s])
          /\ i = Head(todo[t]) /\ b \in Seq(Records) /\ SetBuffer(t, b)
      BY <1>1, <1>6, <1>7 DEF IInv
    <3> QED
      BY <3>1, SetBufferFacts
  <2>2. \A q \in Sinks : /\ DOMAIN shards'[q] = 1 .. Len(shards'[q])
                         /\ DOMAIN shards[q] = 1 .. Len(shards[q])
    BY <2>1 DEF IInv, Types
  <2> QED
    BY <2>1, <2>2
<1>9. Buffer(t) = shards[s][i].buffer
  BY <1>6 DEF Buffer
<1>10. /\ \A q \in Sinks : \A j, x : Held(q, j, x) => Held(q, j, x)'
       /\ Held(s, i, r)'
  BY <1>6, <1>7, <1>8, <1>9 DEF Held
<1>11. Preserves /\ KeepsOrFails
  BY <1>2, <1>10 DEF Preserves, KeepsOrFails, streams
<1>12. r \in Buffered(s)'
  BY <1>10 DEF Held, Buffered
<1>13. /\ Alone(t) /\ told \subseteq told' /\ pc'[t] \in {"idle", "output"}
       /\ \A q \in Sinks : accepted'[q] \subseteq accepted[q] \cup
                             (IF q = s THEN {r} ELSE {})
  <2>1. CASE Return(t, "true")
    <3>1. /\ Alone(t) /\ pc'[t] = "idle" /\ told \subseteq told'
          /\ \A q \in Sinks : q # sink[t] => accepted'[q] = accepted[q]
          /\ accepted'[sink[t]] = accepted[sink[t]] \cup {record(t)}
      BY <1>3, <2>1, ReturnFacts
    <3> QED
      BY <1>5, <1>6, <3>1
  <2>2. CASE /\ pc' = [pc EXCEPT ![t] = "output"]
             /\ UNCHANGED <<op, sink, todo, success, covered, fates>>
    BY <1>3, <2>2 DEF Alone, fates, SInv, Sorted
  <2> QED
    BY <1>1, <2>1, <2>2
<1>14. Low'
  <2> SUFFICES ASSUME NEW q \in Sinks, NEW j \in DOMAIN shards'[q]
               PROVE  throwing' \/ <<q, j>> \in locks'
                        \/ BelowThreshold(shards'[q][j].buffer)
    BY DEF Low
  <2>1. /\ locks \subseteq locks'
        /\ <<s, i>> \in locks' \/ BelowThreshold(b)
    BY <1>1, <1>6 DEF ShardLock
  <2>2. CASE q = s /\ j = i
    BY <1>8, <2>1, <2>2
  <2>3. CASE ~(q = s /\ j = i)
    <3>1. j \in DOMAIN shards[q] /\ shards'[q][j] = shards[q][j]
      BY <1>8, <2>3
    <3> QED
      BY <1>2, <2>1, <3>1 DEF DInv, Low
  <2> QED
    BY <2>2, <2>3
<1>15. \A q \in alive' : Loss(q)'
  <2> SUFFICES ASSUME NEW q \in alive PROVE Loss(q)'
    BY <1>2
  <2>1. q \in Sinks /\ Loss(q)
    BY DEF DInv, SInv, Sorted
  <2>2. accepted'[q] \subseteq
          accepted[q] \cup Buffered(q)' \cup Written(output'[q])
    BY <1>12, <1>13, <2>1
  <2> QED
    BY <1>2, <1>3, <1>11, <1>13, <2>1, <2>2, LossFrame
<1>16. (\A q \in Sinks : Whole(output'[q])) /\ Continued(t)'
  BY <1>2, <1>3 DEF DInv, Whole, Continued, streams
<1>17. Covers(t)'
  <2>1. CASE pc'[t] = "idle"
    BY <2>1 DEF Covers
  <2>2. CASE /\ pc' = [pc EXCEPT ![t] = "output"]
             /\ UNCHANGED <<op, sink, todo, success, covered, fates>>
    <3>1. Wanted(t)' = {r} /\ todo'[t] = todo[t] /\ sink'[t] = s
      BY <1>2, <1>3, <1>5, <1>6, <2>2 DEF Wanted, record
    <3>2. 1 \in 1 .. Len(todo[t]) /\ todo[t][1] = i
      BY <1>2, <1>3, <1>6 DEF SInv, InCall
    <3>3. Held(sink[t], todo[t][1], r)'
      BY <1>10, <3>1, <3>2 DEF Held
    <3> QED
      BY <3>1, <3>2, <3>3 DEF Covers, Held
  <2>3. pc'[t] = "idle" \/
          /\ pc' = [pc EXCEPT ![t] = "output"]
          /\ UNCHANGED <<op, sink, todo, success, covered, fates>>
    BY <1>1 DEF Return, Set, SInv, Sorted
  <2> QED
    BY <2>1, <2>2, <2>3
<1> QED
  BY <1>2, <1>3, <1>11, <1>13, <1>14, <1>15, <1>16, <1>17,
     DInvFrame DEF streams

LEMMA LockOutputKeeps ==
  ASSUME IInv, SInv, SInv', DInv, NEW t \in Threads, LockOutput(t)
  PROVE  DInv'
<1>1. /\ pc[t] = "output" /\ pc' = [pc EXCEPT ![t] = "stream"]
      /\ locks \subseteq locks'
      /\ UNCHANGED <<buffered, throwing, alive, shards, cached, streams, op,
                     sink, todo, success, covered, issued, fates>>
  BY DEF LockOutput, Set
<1>2. Alone(t) /\ pc'[t] = "stream"
  BY <1>1 DEF Alone, SInv, Sorted
<1>3. Preserves /\ KeepsOrFails
  BY <1>1, StillPreserves DEF streams
<1>4. Low'
  BY <1>1, LowFrame DEF DInv
<1>5. \A s \in alive' : Loss(s)'
  <2> SUFFICES ASSUME NEW s \in alive PROVE Loss(s)'
    BY <1>1
  <2>1. s \in Sinks /\ Loss(s)
    BY DEF DInv, SInv, Sorted
  <2> QED
    BY <1>1, <1>2, <1>3, <2>1, LossFrame DEF fates
<1>6. Continued(t)'
  <2>1. record(t)' = record(t) /\ Continued(t)
    BY <1>1 DEF record, DInv
  <2> QED
    BY <1>1, <2>1 DEF Continued
<1>7. Covers(t)'
  <2>1. Covers(t) /\ pc[t] = "output" /\ Wanted(t)' = Wanted(t)
    BY <1>1 DEF DInv, Wanted, record
  <2> QED
    BY <1>1, <2>1 DEF Covers, Held, streams
<1>8. \A s \in Sinks : Whole(output'[s])
  BY <1>1 DEF DInv, Whole, streams
<1> QED
  BY <1>1, <1>2, <1>3, <1>4, <1>5, <1>6, <1>7, <1>8, DInvFrame DEF streams

LEMMA FlushNextKeeps ==
  ASSUME IInv, SInv, SInv', DInv, NEW t \in Threads, FlushNext(t)
  PROVE  DInv'
<1>1. /\ pc[t] = "next" /\ todo[t] # <<>> /\ locks \subseteq locks'
      /\ UNCHANGED <<buffered, throwing, alive, shards, cached, streams, op,
                     sink, success, covered, issued, fates>>
      /\ \/ /\ Buffer(t) = <<>> /\ todo' = [todo EXCEPT ![t] = Tail(todo[t])]
            /\ UNCHANGED pc
         \/ pc' = [pc EXCEPT ![t] = "output"] /\ UNCHANGED todo
  BY DEF FlushNext, Set
<1>2. buffered
  BY <1>1 DEF SInv, InCall
<1>3. Alone(t) /\ pc'[t] # "idle"
  BY <1>1 DEF Alone, IInv, Types, Indexed, SInv, Sorted
<1>4. Preserves /\ KeepsOrFails
  BY <1>1, StillPreserves DEF streams
<1>5. Low'
  BY <1>1, LowFrame DEF DInv
<1>6. \A s \in alive' : Loss(s)'
  <2> SUFFICES ASSUME NEW s \in alive PROVE Loss(s)'
    BY <1>1
  <2>1. s \in Sinks /\ Loss(s)
    BY DEF DInv, SInv, Sorted
  <2> QED
    BY <1>1, <1>3, <1>4, <2>1, LossFrame DEF fates
<1>7. Continued(t)'
  BY <1>1, <1>2 DEF Continued
<1>8. Covers(t)'
  <2>1. /\ Covers(t) /\ pc[t] = "next" /\ Wanted(t)' = Wanted(t)
    BY <1>1 DEF DInv, Wanted, record
  <2>2. CASE UNCHANGED todo
    BY <1>1, <2>1, <2>2 DEF Covers, Held, streams
  <2>3. CASE Buffer(t) = <<>> /\ todo' = [todo EXCEPT ![t] = Tail(todo[t])]
    <3>1. PICK rest : rest = Tail(todo[t])
      OBVIOUS
    <3>2. todo'[t] = rest
      BY <2>3, <3>1 DEF IInv, Types, Indexed
    <3>3. PICK w \in Seq(1 .. Len(shards[sink[t]])) : w = todo[t] /\ w # <<>>
      BY <1>1, <1>2 DEF SInv, InCall
    <3>4. /\ Len(w) \in Nat /\ Len(rest) = Len(w) - 1
          /\ \A k \in 1 .. Len(rest) : rest[k] = w[k + 1]
          /\ Head(w) = w[1]
      BY <3>1, <3>3, HeadTailProperties, LenProperties
    <3>5. ASSUME NEW r PROVE ~Held(sink[t], w[1], r)
      <4>1. Buffer(t) = shards[sink[t]][w[1]].buffer
        BY <3>3, <3>4 DEF Buffer
      <4> QED
        BY <2>3, <4>1 DEF Held, ToSet
    <3>6. ASSUME NEW r, NEW k \in 1 .. Len(w), Held(sink[t], w[k], r)
          PROVE  \E j \in 1 .. Len(rest) : Held(sink[t], rest[j], r)
      <4>1. k # 1
        BY <3>5, <3>6
      <4>2. k - 1 \in 1 .. Len(rest) /\ (k - 1) + 1 = k
        BY <3>4, <4>1
      <4>3. rest[k - 1] = w[k]
        BY <3>4, <4>2
      <4> QED
        BY <3>6, <4>2, <4>3
    <3>7. ASSUME NEW j \in 1 .. Len(rest), NEW r, Held(sink[t], rest[j], r)
          PROVE  Held(sink[t], todo[t][j], r)'
      BY <1>1, <3>2, <3>7 DEF Held
    <3>8. ASSUME success[t] = "true", NEW r \in Wanted(t)
          PROVE  \/ ~good[sink[t]] \/ r \in Written(output[sink[t]])
                 \/ \E j \in 1 .. Len(rest) : Held(sink[t], rest[j], r)
      <4>1. \/ ~good[sink[t]] \/ r \in Written(output[sink[t]])
            \/ \E k \in 1 .. Len(w) : Held(sink[t], w[k], r)
        BY <1>2, <2>1, <3>3, <3>8 DEF Covers
      <4> QED
        BY <3>6, <4>1
    <3> QED
      BY <1>1, <2>1, <3>2, <3>7, <3>8 DEF Covers, streams
  <2> QED
    BY <1>1, <2>2, <2>3
<1>9. \A s \in Sinks : Whole(output'[s])
  BY <1>1 DEF DInv, Whole, streams
<1> QED
  BY <1>1, <1>3, <1>4, <1>5, <1>6, <1>7, <1>8, <1>9, DInvFrame DEF streams

LEMMA WritePieceKeeps ==
  ASSUME IInv, SInv, SInv', DInv, NEW t \in Threads, WritePiece(t)
  PROVE  DInv'
<1>1. /\ pc[t] = "stream" /\ ~buffered
      /\ UNCHANGED <<buffered, throwing, alive, shards, cached, issued>>
  BY DEF WritePiece
<1>2. /\ sink[t] \in Sinks /\ op[t] = "write" /\ Remains(record(t), todo[t])
      /\ issued[<<t, sink[t]>>] # <<>> /\ success[t] = "true"
  BY <1>1 DEF SInv, InCall
<1>3. PICK r \in Records : r = record(t)
  BY <1>2, RecordType DEF IInv
<1>4. PICK s \in Sinks : s = sink[t]
  BY <1>2
<1>5. PICK e \in Piece, w \in Seq(Piece) : e = Head(todo[t]) /\ w = todo[t]
  BY <1>2, <1>3, RemainsFacts
<1>6. PICK o \in Outcomes(sink[t], <<Head(todo[t])>>) :
        /\ Stream(sink[t], o)
        /\ IF o.throws \/ Len(todo[t]) = 1
           THEN /\ Return(t, IF o.throws THEN "throws" ELSE Truth(o.good))
                /\ locks' = locks \ {OutputLock(t)}
           ELSE /\ Set(todo, t, Tail(todo[t]))
                /\ UNCHANGED <<pc, op, sink, success, covered, fates, locks>>
  BY DEF WritePiece
<1>7. <<e>> \in Seq(Piece) /\ Len(<<e>>) = 1 /\ <<e>>[1] = e
  OBVIOUS
<1>8. /\ o.good \in BOOLEAN /\ o.throws \in BOOLEAN
      /\ o.put \in Seq(Piece) /\ Len(o.put) <= 1
      /\ \A i \in 1 .. Len(o.put) : o.put[i] = <<e>>[i]
      /\ o.good => good[s] /\ ~o.throws /\ o.put = <<e>>
      /\ ~good[s] => o.put = <<>>
  <2>1. Sorted /\ o \in Outcomes(s, <<e>>)
    BY <1>4, <1>5, <1>6 DEF SInv
  <2>2. /\ o.good \in BOOLEAN /\ o.throws \in BOOLEAN
        /\ o.put \in Seq(Piece) /\ Len(o.put) <= Len(<<e>>)
        /\ \A i \in 1 .. Len(o.put) : o.put[i] = <<e>>[i]
        /\ o.good => good[s] /\ ~o.throws /\ o.put = <<e>>
        /\ ~good[s] => o.put = <<>>
    <3>1. PICK y \in Seq(Piece) : y = <<e>>
      BY <1>7
    <3>2. o \in Outcomes(s, y)
      BY <2>1, <3>1
    <3>3. /\ o.good \in BOOLEAN /\ o.throws \in BOOLEAN
          /\ o.put \in Seq(Piece) /\ Len(o.put) <= Len(y)
          /\ \A i \in 1 .. Len(o.put) : o.put[i] = y[i]
          /\ o.good => good[s] /\ ~o.throws /\ o.put = y
          /\ ~good[s] => o.put = <<>>
      BY <2>1, <3>2, OutcomeFacts
    <3> QED
      BY <3>1, <3>3, Zenon
  <2> QED
    BY <1>7, <2>2
<1>9. /\ good'[s] = o.good /\ output'[s] = output[s] \o o.put
      /\ \A q \in Sinks \ {s} : good'[q] = good[q] /\ output'[q] = output[q]
  <2>1. Sorted /\ Stream(s, o)
    BY <1>4, <1>6 DEF SInv, Stream, Set
  <2> QED
    BY <1>8, <2>1, StreamFacts
<1>10. \A q \in Sinks : Written(output[q]) \subseteq Written(output'[q])
  <2>1. Written(output'[s]) = Written(output[s]) \cup Written(o.put)
    BY <1>8, <1>9, WrittenConcat DEF SInv, Sorted
  <2> QED
    BY <1>9, <2>1
<1>11. Preserves /\ KeepsOrFails
  BY <1>1, <1>10 DEF Preserves, KeepsOrFails, Held
<1>12. Whole(output'[s])
  <2>0. PICK p \in Seq(Piece) : p = o.put
    BY <1>8
  <2>1. p = <<>> \/ (p[1] = e /\ Len(p) = 1)
    <3>1. CASE Len(p) = 0
      BY <3>1, NoPieces, Zenon
    <3>2. CASE Len(p) # 0
      <4>1. Len(p) = 1
        BY <1>8, <2>0, <3>2, LenProperties
      <4> QED
        BY <1>7, <1>8, <2>0, <4>1
    <3> QED
      BY <3>1, <3>2
  <2>2. PICK z \in Seq(Piece) : z = output[s] /\ Whole(z)
    BY DEF DInv, SInv, Sorted
  <2>3. ASSUME p # <<>>
        PROVE  /\ e[2] = "message" => z # <<>> /\ Last(z) = <<e[1], "prefix">>
               /\ e[2] = "newline" => z # <<>> /\ Last(z) = <<e[1], "message">>
    <3>1. good[s] /\ e[1] = r
      BY <1>2, <1>3, <1>5, <1>8, <2>0, <2>3, RemainsFacts DEF SInv, Sorted
    <3>2. CASE todo[t] = Pieces(r)
      <4>1. e[2] \in {"line", "prefix"}
        BY <1>5, <3>2 DEF Pieces
      <4> QED
        BY <4>1
    <3>3. CASE /\ output[s] # <<>>
               /\ Last(output[s]) =
                    <<r, IF e[2] = "message" THEN "prefix" ELSE "message">>
      BY <2>2, <3>1, <3>3
    <3> QED
      BY <1>1, <1>3, <1>4, <1>5, <3>1, <3>2, <3>3 DEF DInv, Continued
  <2>4. \A i \in 2 .. Len(p) : FALSE
    BY <1>8, <2>0, LenProperties
  <2>5. p # <<>> => p[1] = e
    BY <2>1
  <2>6. Whole(z \o p)
    BY <2>2, <2>3, <2>4, <2>5, WholeConcat
  <2> QED
    BY <1>9, <2>0, <2>2, <2>6
<1>13. \A q \in Sinks : Whole(output'[q])
  BY <1>9, <1>12 DEF DInv
<1>14. CASE o.throws \/ Len(todo[t]) = 1
  <2>1. PICK v \in {"true", "false", "throws"} :
          /\ Return(t, v)
          /\ v = IF o.throws THEN "throws" ELSE Truth(o.good)
    BY <1>6, <1>14 DEF Truth, Return, Set
  <2>2. /\ Alone(t) /\ pc'[t] = "idle" /\ told \subseteq told'
        /\ \A q \in Sinks : q # sink[t] => accepted'[q] = accepted[q]
        /\ v = "true" =>
             accepted'[sink[t]] = accepted[sink[t]] \cup {record(t)}
        /\ v # "true" => accepted' = accepted
    BY <1>2, <2>1, ReturnFacts
  <2>3. locks' = locks \ {<<s, 0>>}
    BY <1>4, <1>6, <1>14 DEF OutputLock
  <2>4. Low'
    BY <1>1, <2>3, LowFrame DEF DInv
  <2>5. v = "true" => r \in Written(output'[s])
    <3> SUFFICES ASSUME v = "true" PROVE r \in Written(output'[s])
      OBVIOUS
    <3>1. o.good /\ ~o.throws
      BY <1>8, <2>1 DEF Truth
    <3>2. e = Last(Pieces(r)) /\ o.put = <<e>>
      BY <1>2, <1>3, <1>5, <1>8, <1>14, <3>1, RemainsFacts
    <3>3. r \in Written(o.put)
      <4>1. Contains(<<e>>, e)
        BY DEF Contains
      <4> QED
        BY <3>2, <4>1 DEF Written
    <3> QED
      BY <1>8, <1>9, <3>3, WrittenConcat DEF SInv, Sorted
  <2>6. \A q \in alive' : Loss(q)'
    <3> SUFFICES ASSUME NEW q \in alive PROVE Loss(q)'
      BY <1>1
    <3>1. q \in Sinks /\ Loss(q)
      BY DEF DInv, SInv, Sorted
    <3>2. accepted'[q] \subseteq
            accepted[q] \cup Buffered(q)' \cup Written(output'[q])
      BY <1>3, <1>4, <2>2, <2>5, <3>1
    <3> QED
      BY <1>1, <1>2, <1>11, <2>2, <3>1, <3>2, LossFrame
  <2>7. Continued(t)' /\ Covers(t)'
    BY <2>2 DEF Continued, Covers
  <2> QED
    BY <1>1, <1>4, <1>8, <1>9, <1>11, <1>13, <2>2, <2>4, <2>6, <2>7, DInvFrame
<1>15. CASE ~(o.throws \/ Len(todo[t]) = 1)
  <2>1. /\ todo' = [todo EXCEPT ![t] = Tail(todo[t])]
        /\ UNCHANGED <<pc, op, sink, success, covered, fates, locks>>
    BY <1>6, <1>15 DEF Set
  <2>2. Alone(t) /\ todo'[t] = Tail(todo[t])
    BY <2>1 DEF Alone, IInv, Types, Indexed
  <2>3. Low'
    BY <1>1, <2>1, LowFrame DEF DInv
  <2>4. \A q \in alive' : Loss(q)'
    <3> SUFFICES ASSUME NEW q \in alive PROVE Loss(q)'
      BY <1>1
    <3>1. q \in Sinks /\ Loss(q)
      BY DEF DInv, SInv, Sorted
    <3> QED
      BY <1>1, <1>2, <1>11, <2>1, <2>2, <3>1, LossFrame DEF fates
  <2>5. Covers(t)'
    BY <1>1 DEF Covers
  <2>6. Continued(t)'
    <3>1. record(t)' = r
      BY <1>1, <1>3, <2>1 DEF record
    <3>2. ASSUME good'[s]
          PROVE  /\ output'[s] # <<>>
                 /\ Last(output'[s]) =
                      <<r, IF Head(Tail(todo[t]))[2] = "message" THEN "prefix"
                           ELSE "message">>
      <4>1. o.put = <<e>>
        BY <1>8, <1>9, <3>2
      <4>2. PICK z \in Seq(Piece) : z = output[s]
        BY DEF SInv, Sorted
      <4>3. output'[s] = Append(z, e)
        BY <1>9, <4>1, <4>2, AppendIsConcat
      <4>4. /\ Append(z, e) # <<>> /\ Len(Append(z, e)) = Len(z) + 1
            /\ Append(z, e)[Len(z) + 1] = e
        BY AppendProperties
      <4>5. output'[s] # <<>> /\ Last(output'[s]) = e
        BY <4>3, <4>4 DEF Last
      <4>6. e = <<r, IF Head(Tail(todo[t]))[2] = "message" THEN "prefix"
                     ELSE "message">>
        <5>1. CASE todo[t] = Pieces(r)
          <6>1. ~message_is_buffered(r)
            BY <1>15, <5>1 DEF Pieces
          <6>2. todo[t] = <<<<r, "prefix">>, <<r, "message">>, <<r, "newline">>>>
            BY <5>1, <6>1 DEF Pieces
          <6>3. Tail(todo[t]) = <<<<r, "message">>, <<r, "newline">>>>
            BY <6>2
          <6> QED
            BY <1>5, <6>2, <6>3
        <5>2. CASE todo[t] = <<<<r, "message">>, <<r, "newline">>>>
          <6>1. Tail(todo[t]) = <<<<r, "newline">>>>
            BY <5>2
          <6> QED
            BY <1>5, <5>2, <6>1
        <5>3. CASE todo[t] = <<<<r, "newline">>>>
          BY <1>15, <5>3
        <5> QED
          BY <1>2, <1>3, <5>1, <5>2, <5>3 DEF Remains
      <4> QED
        BY <4>5, <4>6
    <3> QED
      BY <1>1, <1>4, <2>1, <2>2, <3>1, <3>2 DEF Continued
  <2> QED
    BY <1>1, <1>4, <1>8, <1>9, <1>11, <1>13, <2>2, <2>3, <2>4, <2>5, <2>6,
       DInvFrame
<1> QED
  BY <1>14, <1>15

\* A sink that the step does not touch.
LEMMA LossElsewhere ==
  ASSUME NEW t \in Threads, Alone(t), NEW s \in Sinks, Loss(s), sink[t] # s,
         shards'[s] = shards[s], output'[s] = output[s],
         accepted'[s] = accepted[s], told \subseteq told'
  PROVE  Loss(s)'
<1>1. Buffered(s)' = Buffered(s) /\ Written(output'[s]) = Written(output[s])
  BY DEF Buffered
<1>2. ASSUME NEW u \in Threads, pc[u] # "idle", sink[u] = s,
             success[u] = "false"
      PROVE  pc'[u] # "idle" /\ sink'[u] = s /\ success'[u] = "false"
  BY <1>2 DEF Alone
<1> QED
  BY <1>1, <1>2 DEF Loss

LEMMA FlushShardKeeps ==
  ASSUME IInv, SInv, SInv', DInv, NEW t \in Threads, FlushShard(t)
  PROVE  DInv'
<1>1. /\ pc[t] = "stream" /\ buffered
      /\ UNCHANGED <<buffered, throwing, alive, cached, issued>>
  BY DEF FlushShard
<1>2. /\ sink[t] \in Sinks /\ todo[t] # <<>> /\ success[t] # "throws"
      /\ op[t] = "write" =>
           issued[<<t, sink[t]>>] # <<>> /\ success[t] = "true"
      /\ op[t] = "destroy" => sink[t] \notin alive
      /\ todo[t] \in Seq(1 .. Len(shards[sink[t]]))
  BY <1>1 DEF SInv, InCall
<1>3. /\ Head(todo[t]) \in 1 .. Len(shards[sink[t]])
      /\ Buffer(t) \in Seq(Records) /\ Lines(Buffer(t)) \in Seq(Piece)
  BY <1>1, <1>2, AtShard
<1>4. PICK s \in Sinks, i \in 1 .. Len(shards[sink[t]]) :
        s = sink[t] /\ i = Head(todo[t])
  BY <1>2, <1>3
<1>5. PICK b \in Seq(Records) : b = Buffer(t) /\ b = shards[s][i].buffer
  BY <1>3, <1>4 DEF Buffer
<1>6. PICK o \in Outcomes(sink[t], Lines(Buffer(t))) :
        /\ Stream(sink[t], o)
        /\ SetBuffer(t, Rest(o, Buffer(t)))
        /\ locks' = locks \ Released(t, o)
        /\ IF o.throws THEN Return(t, "throws")
           ELSE IF op[t] = "write" THEN Return(t, Truth(ShardResult(o)))
           ELSE /\ Set(todo, t, Tail(todo[t])) /\ Set(pc, t, "next")
                /\ Set(success, t,
                       IF ShardResult(o) THEN success[t] ELSE "false")
                /\ UNCHANGED <<op, sink, covered, fates>>
  BY DEF FlushShard
<1>7. PICK y \in Seq(Piece) : y = Lines(b)
  BY <1>3, <1>5
<1>8. /\ o.good \in BOOLEAN /\ o.throws \in BOOLEAN
      /\ o.put \in Seq(Piece) /\ Len(o.put) <= Len(y)
      /\ \A k \in 1 .. Len(o.put) : o.put[k] = y[k]
      /\ o.good => good[s] /\ ~o.throws /\ o.put = y
      /\ o.throws => throwing
  <2>1. Sorted /\ o \in Outcomes(s, y)
    BY <1>4, <1>5, <1>6, <1>7 DEF SInv
  <2> QED
    BY <2>1, OutcomeFacts
<1>9. /\ good'[s] = o.good /\ output'[s] = output[s] \o o.put
      /\ \A q \in Sinks \ {s} : good'[q] = good[q] /\ output'[q] = output[q]
  <2>1. Sorted /\ Stream(s, o)
    BY <1>4, <1>6 DEF SInv, Stream, Set
  <2> QED
    BY <1>8, <2>1, StreamFacts
<1>10. PICK rest \in Seq(Records) :
         SetBuffer(t, rest) /\ rest = IF o.throws THEN b ELSE <<>>
  <2>1. PICK rest : rest = IF o.throws THEN b ELSE <<>>
    OBVIOUS
  <2>2. rest \in Seq(Records)
    BY <2>1, EmptySeq
  <2>3. SetBuffer(t, rest)
    BY <1>5, <1>6, <2>1 DEF SetBuffer, Rest
  <2> QED
    BY <2>1, <2>2, <2>3
<1>11. /\ \A q \in Sinks \ {s} : shards'[q] = shards[q]
       /\ \A j \in 1 .. Len(shards[s]) : j # i => shards'[s][j] = shards[s][j]
       /\ shards'[s][i].buffer = rest
       /\ \A q \in Sinks : /\ DOMAIN shards'[q] = DOMAIN shards[q]
                           /\ DOMAIN shards[q] = 1 .. Len(shards[q])
                           /\ DOMAIN shards[q] \subseteq Nat \ {0}
  <2>1. /\ shards' \in [Sinks -> Seq(Shard)]
        /\ \A q \in Sinks : Len(shards'[q]) = Len(shards[q])
        /\ \A q \in Sinks \ {s} : shards'[q] = shards[q]
        /\ \A j \in 1 .. Len(shards[s]) : j # i => shards'[s][j] = shards[s][j]
        /\ shards'[s][i].buffer = rest
    <3>1. /\ Types /\ s = sink[t] /\ i \in 1 .. Len(shards[s])
          /\ i = Head(todo[t]) /\ rest \in Seq(Records) /\ SetBuffer(t, rest)
      BY <1>4, <1>10 DEF IInv
    <3> QED
      BY <3>1, SetBufferFacts
  <2>2. \A q \in Sinks : /\ DOMAIN shards'[q] = 1 .. Len(shards'[q])
                         /\ DOMAIN shards[q] = 1 .. Len(shards[q])
    BY <2>1 DEF IInv, Types
  <2> QED
    BY <2>1, <2>2
<1>12. \A q \in Sinks : Written(output[q]) \subseteq Written(output'[q])
  <2>1. Written(output'[s]) = Written(output[s]) \cup Written(o.put)
    BY <1>8, <1>9, WrittenConcat DEF SInv, Sorted
  <2> QED
    BY <1>9, <2>1
<1>13. o.good => \A r \in ToSet(b) : r \in Written(output'[s])
  <2> SUFFICES ASSUME o.good, NEW r \in ToSet(b)
               PROVE  r \in Written(output'[s])
    OBVIOUS
  <2>1. PICK k \in 1 .. Len(b) : r = b[k] /\ r \in Records
    BY DEF ToSet
  <2>2. Contains(y, Last(Pieces(b[k])))
    BY <1>7, LinesFacts
  <2>3. r \in Written(y)
    BY <2>1, <2>2 DEF Written
  <2> QED
    BY <1>8, <1>9, <2>3, WrittenConcat DEF SInv, Sorted
<1>14. \A q \in Sinks : \A j, r : Held(q, j, r) =>
         \/ Held(q, j, r)'
         \/ q = s /\ j = i /\ ~o.throws /\ r \in ToSet(b)
  <2> SUFFICES ASSUME NEW q \in Sinks, NEW j, NEW r, Held(q, j, r)
               PROVE  \/ Held(q, j, r)'
                      \/ q = s /\ j = i /\ ~o.throws /\ r \in ToSet(b)
    OBVIOUS
  <2>1. j \in DOMAIN shards[q] /\ r \in ToSet(shards[q][j].buffer)
        /\ j \in DOMAIN shards'[q]
    BY <1>11 DEF Held
  <2>2. CASE q = s /\ j = i
    BY <1>5, <1>10, <1>11, <2>1, <2>2 DEF Held
  <2>3. CASE ~(q = s /\ j = i)
    <3>1. shards'[q][j] = shards[q][j]
      BY <1>11, <2>1, <2>3
    <3> QED
      BY <2>1, <3>1 DEF Held
  <2> QED
    BY <2>2, <2>3
<1>15. KeepsOrFails
  BY <1>9, <1>12, <1>13, <1>14 DEF KeepsOrFails
<1>16. o.good \/ o.throws => Preserves
  BY <1>12, <1>13, <1>14 DEF Preserves
<1>17. /\ \A q \in Sinks : Whole(output'[q])
       /\ \A q \in Sinks : ~good[q] => ~good'[q]
  <2>1. Whole(output'[s])
    <3>1. PICK z \in Seq(Piece) : z = output[s] /\ Whole(z)
      BY DEF DInv, SInv, Sorted
    <3>2. PICK w \in Seq(Piece) :
            /\ w = o.put /\ Len(w) <= Len(Lines(b))
            /\ \A k \in 1 .. Len(w) : w[k] = Lines(b)[k]
      BY <1>7, <1>8
    <3>3. Whole(z \o w)
      BY <3>1, <3>2, LinesFollow
    <3> QED
      BY <1>9, <3>1, <3>2, <3>3
  <2> QED
    BY <1>8, <1>9, <2>1 DEF DInv
<1>18. Low'
  <2> SUFFICES ASSUME NEW q \in Sinks, NEW j \in DOMAIN shards'[q]
               PROVE  throwing' \/ <<q, j>> \in locks'
                        \/ BelowThreshold(shards'[q][j].buffer)
    BY DEF Low
  <2>1. locks' = locks \ {<<s, i>>, <<s, 0>>}
    BY <1>4, <1>6 DEF Released, ShardLock, OutputLock
  <2>2. CASE q = s /\ j = i
    <3>1. CASE o.throws
      BY <1>1, <1>8, <3>1
    <3>2. CASE ~o.throws
      <4>1. shards'[q][j].buffer = <<>> /\ DOMAIN <<>> = {}
        BY <1>10, <1>11, <2>2, <3>2
      <4> QED
        BY <4>1, EmptyIsBelow
    <3> QED
      BY <1>8, <3>1, <3>2
  <2>3. CASE ~(q = s /\ j = i)
    <3>1. /\ j \in DOMAIN shards[q] /\ shards'[q][j] = shards[q][j] /\ j # 0
          /\ <<q, j>> \in locks => <<q, j>> \in locks'
      BY <1>11, <2>1, <2>3
    <3> QED
      BY <1>1, <3>1 DEF DInv, Low
  <2> QED
    BY <2>2, <2>3
<1>19. CASE o.throws \/ op[t] = "write"
  <2>1. PICK v \in {"true", "false", "throws"} :
          /\ Return(t, v)
          /\ v = IF o.throws THEN "throws" ELSE Truth(o.good)
    BY <1>6, <1>19 DEF Truth, ShardResult, Return, Set
  <2>2. /\ Alone(t) /\ pc'[t] = "idle" /\ told \subseteq told'
        /\ \A q \in Sinks : q # sink[t] => accepted'[q] = accepted[q]
        /\ op[t] = "write" /\ v = "true" =>
             accepted'[sink[t]] = accepted[sink[t]] \cup {record(t)}
        /\ op[t] # "write" \/ v # "true" => accepted' = accepted
        /\ v # "true" /\ op[t] # "destroy" => sink[t] \in told'
    BY <1>2, <2>1, ReturnFacts
  <2>3. Continued(t)' /\ Covers(t)'
    BY <2>2 DEF Continued, Covers
  <2>4. \A q \in alive' : Loss(q)'
    <3> SUFFICES ASSUME NEW q \in alive PROVE Loss(q)'
      BY <1>1
    <3>1. q \in Sinks /\ Loss(q)
      BY DEF DInv, SInv, Sorted
    <3>2. CASE q = s /\ v # "true"
      BY <1>2, <1>4, <2>2, <3>2 DEF Loss
    <3>3. CASE q = s /\ v = "true"
      <4>1. /\ o.good /\ ~o.throws /\ op[t] = "write" /\ success[t] = "true"
            /\ good[s] /\ Preserves
        BY <1>2, <1>8, <1>16, <1>19, <2>1, <3>3 DEF Truth
      <4>2. record(t) \in Buffered(s)' \cup Written(output'[s])
        <5>1. PICK r : r = record(t)
          OBVIOUS
        <5>2. \/ r \in Written(output[s])
              \/ \E k \in 1 .. Len(todo[t]) : Held(s, todo[t][k], r)
          BY <1>1, <1>4, <4>1, <5>1 DEF DInv, Covers, Wanted
        <5>3. r \in Buffered(s) \cup Written(output[s])
          <6>1. ASSUME NEW j, Held(s, j, r) PROVE r \in Buffered(s)
            BY <6>1, HeldIsBuffered DEF Held
          <6> QED
            BY <5>2, <6>1
        <5>4. Buffered(s) \cup Written(output[s])
                \subseteq Buffered(s)' \cup Written(output'[s])
          BY <4>1, PreservesKept
        <5> QED
          BY <5>1, <5>3, <5>4
      <4>3. accepted'[q] \subseteq
              accepted[q] \cup Buffered(q)' \cup Written(output'[q])
        BY <1>4, <2>2, <3>3, <4>1, <4>2
      <4> QED
        BY <1>1, <2>2, <3>1, <4>1, <4>3, LossFrame
    <3>4. CASE q # s
      <4>1. /\ shards'[q] = shards[q] /\ output'[q] = output[q]
            /\ accepted'[q] = accepted[q]
        BY <1>4, <1>9, <1>11, <2>2, <3>1, <3>4
      <4> QED
        BY <1>4, <2>2, <3>1, <3>4, <4>1, LossElsewhere
    <3> QED
      BY <3>2, <3>3, <3>4
  <2> QED
    BY <1>1, <1>15, <1>17, <1>18, <2>2, <2>3, <2>4, DInvFrame
<1>20. CASE ~(o.throws \/ op[t] = "write")
  <2>1. PICK v \in {"true", "false"} :
          /\ success' = [success EXCEPT ![t] = v]
          /\ v = IF o.good THEN success[t] ELSE "false"
    BY <1>2, <1>6, <1>20 DEF Set, ShardResult, SInv, Sorted
  <2>2. /\ todo' = [todo EXCEPT ![t] = Tail(todo[t])]
        /\ pc' = [pc EXCEPT ![t] = "next"]
        /\ UNCHANGED <<op, sink, covered, fates>>
    BY <1>6, <1>20 DEF Set
  <2>3. /\ Alone(t) /\ todo'[t] = Tail(todo[t]) /\ pc'[t] = "next"
        /\ success'[t] = v
    BY <2>1, <2>2 DEF Alone, IInv, Types, Indexed, SInv, Sorted
  <2>4. \A q \in alive' : Loss(q)'
    <3> SUFFICES ASSUME NEW q \in alive PROVE Loss(q)'
      BY <1>1
    <3>1. q \in Sinks /\ Loss(q)
      BY DEF DInv, SInv, Sorted
    <3>2. CASE q = s /\ ~o.good
      BY <1>4, <2>1, <2>2, <2>3, <3>2 DEF Loss
    <3>3. CASE q = s /\ o.good
      <4>1. Preserves
        BY <1>16, <3>3
      <4> QED
        BY <1>1, <2>1, <2>2, <2>3, <3>1, <3>3, <4>1, LossFrame DEF fates
    <3>4. CASE q # s
      <4>1. /\ shards'[q] = shards[q] /\ output'[q] = output[q]
            /\ accepted'[q] = accepted[q] /\ told' = told
        BY <1>9, <1>11, <2>2, <3>1, <3>4 DEF fates
      <4> QED
        BY <1>4, <2>3, <3>1, <3>4, <4>1, LossElsewhere
    <3> QED
      BY <1>8, <3>2, <3>3, <3>4
  <2>5. Continued(t)'
    BY <1>1 DEF Continued
  <2>6. Covers(t)'
    <3> SUFFICES ASSUME v = "true" PROVE Covers(t)'
      BY <2>3 DEF Covers
    <3>1. o.good /\ good[s] /\ success[t] = "true"
      BY <1>8, <2>1
    <3>2. PICK tail : tail = Tail(todo[t])
      OBVIOUS
    <3>3. PICK w \in Seq(1 .. Len(shards[sink[t]])) : w = todo[t] /\ w # <<>>
      BY <1>2
    <3>4. /\ Len(w) \in Nat /\ Len(tail) = Len(w) - 1
          /\ \A k \in 1 .. Len(tail) : tail[k] = w[k + 1]
          /\ Head(w) = w[1]
      BY <3>2, <3>3, HeadTailProperties, LenProperties
    <3>5. Wanted(t)' = Wanted(t) /\ sink'[t] = s /\ todo'[t] = tail
      BY <1>4, <1>20, <2>2, <2>3, <3>2 DEF Wanted
    <3>6. ASSUME NEW r \in Wanted(t)
          PROVE  \/ r \in Written(output'[s])
                 \/ \E k \in 1 .. Len(tail) : Held(s, tail[k], r)'
      <4>1. \/ r \in Written(output[s])
            \/ \E k \in 1 .. Len(w) : Held(s, w[k], r)
        BY <1>1, <1>4, <3>1, <3>3 DEF DInv, Covers
      <4>2. CASE r \in Written(output[s])
        BY <1>12, <4>2
      <4>3. ASSUME NEW k \in 1 .. Len(w), Held(s, w[k], r)
            PROVE  \/ r \in Written(output'[s])
                   \/ \E j \in 1 .. Len(tail) : Held(s, tail[j], r)'
        <5>1. PICK j : j = w[k]
          OBVIOUS
        <5>2. Held(s, j, r)
          BY <4>3, <5>1
        <5>3. CASE j = i
          <6>1. r \in ToSet(b)
            BY <1>5, <5>2, <5>3 DEF Held
          <6> QED
            BY <1>13, <3>1, <6>1
        <5>4. CASE j # i
          <6>1. k # 1
            BY <1>4, <3>3, <3>4, <5>1, <5>4
          <6>2. k - 1 \in 1 .. Len(tail) /\ (k - 1) + 1 = k
            BY <3>4, <6>1
          <6>3. tail[k - 1] = j
            BY <3>4, <5>1, <6>2
          <6>4. Held(s, j, r)'
            BY <1>14, <5>2, <5>4
          <6>5. Held(s, tail[k - 1], r)'
            BY <6>3, <6>4 DEF Held
          <6> QED
            BY <6>2, <6>5
        <5> QED
          BY <5>3, <5>4
      <4> QED
        BY <4>1, <4>2, <4>3
    <3> QED
      BY <3>5, <3>6 DEF Covers, Held
  <2> QED
    BY <1>1, <1>15, <1>17, <1>18, <2>3, <2>4, <2>5, <2>6, DInvFrame
<1> QED
  BY <1>19, <1>20

LEMMA FlushEndKeeps ==
  ASSUME IInv, SInv, SInv', DInv, NEW t \in Threads, FlushEnd(t)
  PROVE  DInv'
<1>1. /\ pc[t] = "next" /\ UNCHANGED <<buffered, throwing, alive, shards,
                                       locks, issued>>
  BY DEF FlushEnd
<1>2. /\ buffered /\ sink[t] \in Sinks /\ op[t] # "write"
      /\ op[t] = "destroy" => sink[t] \notin alive
  BY <1>1 DEF SInv, InCall, Sorted
<1>3. PICK o \in Outcomes(sink[t], <<>>) :
        /\ Stream(sink[t], o)
        /\ Return(t, IF o.throws THEN "throws"
                     ELSE Truth(o.good /\ success[t] = "true"))
  BY Zenon DEF FlushEnd
<1>4. PICK s \in Sinks : s = sink[t]
  BY <1>2
<1>5. PICK y \in Seq(Piece) : y = <<>> /\ Len(y) = 0
  BY EmptySeq
<1>6. /\ o.good \in BOOLEAN /\ o.throws \in BOOLEAN
      /\ o.put \in Seq(Piece) /\ o.put = <<>>
      /\ o.good => good[s]
  <2>1. Sorted /\ o \in Outcomes(s, y)
    BY <1>3, <1>4, <1>5 DEF SInv
  <2>2. /\ o.good \in BOOLEAN /\ o.throws \in BOOLEAN
        /\ o.put \in Seq(Piece) /\ Len(o.put) <= Len(y)
        /\ o.good => good[s]
    BY <2>1, OutcomeFacts
  <2>3. PICK p \in Seq(Piece) : p = o.put
    BY <2>2
  <2>4. Len(p) = 0
    BY <1>5, <2>2, <2>3, LenProperties
  <2>5. p = <<>>
    BY <2>4, NoPieces
  <2>6. o.put = <<>>
    BY <2>3, <2>5, Zenon
  <2> QED
    BY <2>2, <2>6
<1>7. /\ good'[s] = o.good /\ output' = output
      /\ \A q \in Sinks \ {s} : good'[q] = good[q]
  <2>1. Sorted /\ Stream(s, o)
    BY <1>3, <1>4 DEF SInv, Stream, Set
  <2>2. /\ good'[s] = o.good /\ output'[s] = output[s] \o o.put
        /\ \A q \in Sinks \ {s} : good'[q] = good[q] /\ output'[q] = output[q]
        /\ output' \in [Sinks -> Seq(Piece)]
    BY <1>6, <2>1, StreamFacts
  <2>3. output[s] \in Seq(Piece) /\ output \in [Sinks -> Seq(Piece)]
    BY DEF SInv, Sorted
  <2>4. output'[s] = output[s]
    BY <1>6, <2>2, <2>3, ConcatEmptySeq
  <2> QED
    BY <2>2, <2>3, <2>4
<1>8. PICK v \in {"true", "false", "throws"} :
        /\ Return(t, v)
        /\ v = IF o.throws THEN "throws"
               ELSE Truth(o.good /\ success[t] = "true")
  <2>1. PICK v : v = IF o.throws THEN "throws"
                      ELSE Truth(o.good /\ success[t] = "true")
    OBVIOUS
  <2>2. v \in {"true", "false", "throws"}
    BY <2>1 DEF Truth
  <2> QED
    BY <1>3, <2>1, <2>2 DEF Return, Set
<1>9. /\ Alone(t) /\ pc'[t] = "idle" /\ told \subseteq told'
      /\ accepted' = accepted
      /\ v # "true" /\ op[t] # "destroy" => sink[t] \in told'
  BY <1>2, <1>8, ReturnFacts
<1>10. Preserves /\ KeepsOrFails
  BY <1>1, <1>7, StillPreserves
<1>11. Low'
  BY <1>1, LowFrame DEF DInv
<1>12. \A q \in alive' : Loss(q)'
  <2> SUFFICES ASSUME NEW q \in alive PROVE Loss(q)'
    BY <1>1
  <2>1. q \in Sinks /\ Loss(q)
    BY DEF DInv, SInv, Sorted
  <2>2. q = s /\ success[t] = "false" => q \in told'
    BY <1>2, <1>4, <1>8, <1>9 DEF Truth
  <2> QED
    BY <1>1, <1>4, <1>9, <1>10, <2>1, <2>2, LossFrame
<1>13. (\A q \in Sinks : Whole(output'[q])) /\ Continued(t)' /\ Covers(t)'
  <2>1. \A q \in Sinks : Whole(output'[q])
    BY <1>7 DEF DInv, Whole
  <2>2. Continued(t)' /\ Covers(t)'
    BY <1>9 DEF Continued, Covers
  <2> QED
    BY <2>1, <2>2
<1>14. \A q \in Sinks : ~good[q] => ~good'[q]
  BY <1>6, <1>7
<1> QED
  BY <1>1, <1>2, <1>9, <1>10, <1>11, <1>12, <1>13, <1>14, DInvFrame

LEMMA CallFlushKeeps ==
  ASSUME IInv, SInv, SInv', DInv, NEW t \in Threads, NEW s \in Sinks,
         CallFlush(t, s)
  PROVE  DInv'
<1>1. /\ buffered /\ pc[t] = "idle"
      /\ covered' = [covered EXCEPT ![t] = accepted[s] \cap Buffered(s)]
      /\ UNCHANGED <<buffered, throwing, shards, locks, streams, issued, fates>>
      /\ pc' = [pc EXCEPT ![t] = "next"] /\ sink' = [sink EXCEPT ![t] = s]
      /\ todo' = [todo EXCEPT ![t] = FlushOrder(s)]
      /\ success' = [success EXCEPT ![t] = "true"]
      /\ alive' \subseteq alive
      /\ \/ op' = [op EXCEPT ![t] = "flush"]
         \/ op' = [op EXCEPT ![t] = "destroy"]
  BY DEF CallFlush, Begin, Set
<1>2. /\ Alone(t) /\ covered'[t] = accepted[s] \cap Buffered(s)
      /\ pc'[t] = "next" /\ sink'[t] = s /\ todo'[t] = FlushOrder(s)
      /\ op'[t] # "write"
  BY <1>1 DEF Alone, IInv, Types, Indexed, SInv, Sorted
<1>3. Preserves /\ KeepsOrFails
  BY <1>1, StillPreserves DEF streams
<1>4. Low'
  BY <1>1, LowFrame DEF DInv
<1>5. \A q \in alive' : Loss(q)'
  <2> SUFFICES ASSUME NEW q \in alive, q \in alive' PROVE Loss(q)'
    BY <1>1
  <2>1. q \in Sinks /\ Loss(q)
    BY DEF DInv, SInv, Sorted
  <2> QED
    BY <1>1, <1>2, <1>3, <2>1, LossFrame DEF fates
<1>6. Continued(t)'
  BY <1>1 DEF Continued
<1>7. Covers(t)'
  <2>1. Wanted(t)' = accepted[s] \cap Buffered(s)
    BY <1>2 DEF Wanted
  <2>2. ASSUME NEW r \in Buffered(s)
        PROVE  \E k \in 1 .. Len(FlushOrder(s)) : Held(s, FlushOrder(s)[k], r)
    <3>1. PICK i \in DOMAIN shards[s] : Held(s, i, r)
      BY <2>2, HeldIsBuffered
    <3>2. PICK n \in Nat : DOMAIN shards[s] = 1 .. n
      BY LenProperties DEF IInv, Types
    <3>3. Len(FlushOrder(s)) = n /\ FlushOrder(s)[i] = i
      BY <3>1, <3>2 DEF FlushOrder
    <3> QED
      BY <3>1, <3>2, <3>3
  <2>3. PICK w : w = FlushOrder(s)
    OBVIOUS
  <2>4. ASSUME NEW r \in Buffered(s)
        PROVE  \E k \in 1 .. Len(w) : Held(s, w[k], r)'
    <3>1. PICK k \in 1 .. Len(w) : Held(s, w[k], r)
      BY <2>2, <2>3
    <3>2. Held(s, w[k], r)'
      BY <1>1, <3>1 DEF Held
    <3> QED
      BY <3>2
  <2> QED
    BY <1>2, <2>1, <2>3, <2>4 DEF Covers, Held
<1>8. \A q \in Sinks : Whole(output'[q])
  BY <1>1 DEF DInv, Whole, streams
<1> QED
  BY <1>1, <1>2, <1>3, <1>4, <1>5, <1>6, <1>7, <1>8, DInvFrame DEF streams

LEMMA CallWriteKeeps ==
  ASSUME IInv, SInv, SInv', DInv, NEW t \in Threads, NEW s \in Sinks,
         CallWrite(t, s)
  PROVE  DInv'
<1>1. PICK r \in Records :
        /\ issued' = [issued EXCEPT ![<<t, s>>] = Append(@, r)]
        /\ IF buffered
           THEN /\ Begin(t, s, "write", "append", <<Found(t, s)>>)
                /\ Set(cached, t, [id |-> s, shard |-> Found(t, s)])
                /\ Register(t, s)
           ELSE /\ Begin(t, s, "write", "output", Pieces(r))
                /\ UNCHANGED <<cached, shards>>
  BY DEF CallWrite
<1>2. /\ UNCHANGED <<alive, covered>> /\ pc[t] = "idle"
      /\ UNCHANGED <<buffered, throwing, locks, streams, fates>>
      /\ sink' = [sink EXCEPT ![t] = s]
      /\ buffered => pc' = [pc EXCEPT ![t] = "append"]
      /\ ~buffered => /\ pc' = [pc EXCEPT ![t] = "output"]
                      /\ todo' = [todo EXCEPT ![t] = Pieces(r)]
                      /\ UNCHANGED shards
  BY <1>1 DEF CallWrite, Begin, Set
<1>3. Alone(t)
  <2>1. PICK label, work : Begin(t, s, "write", label, work)
    <3>1. CASE buffered
      <4>1. Begin(t, s, "write", "append", <<Found(t, s)>>)
        BY <1>1, <3>1
      <4> QED
        BY <4>1 DEF Begin, Set
    <3>2. CASE ~buffered
      <4>1. Begin(t, s, "write", "output", Pieces(r))
        BY <1>1, <3>2
      <4> QED
        BY <4>1 DEF Begin, Set
    <3> QED
      BY <3>1, <3>2
  <2>2. /\ pc' = [pc EXCEPT ![t] = label] /\ op' = [op EXCEPT ![t] = "write"]
        /\ sink' = [sink EXCEPT ![t] = s] /\ todo' = [todo EXCEPT ![t] = work]
        /\ success' = [success EXCEPT ![t] = "true"] /\ covered' = covered
    BY <1>2, <2>1 DEF Begin, Set
  <2> QED
    BY <2>2 DEF Alone, IInv, Types, Indexed, SInv, Sorted
<1>4. /\ issued'[<<t, s>>] = Append(issued[<<t, s>>], r)
      /\ issued[<<t, s>>] \in Seq(Records)
      /\ \A u \in Threads \ {t}, q \in Sinks :
           issued'[<<u, q>>] = issued[<<u, q>>]
  BY <1>1 DEF IInv, Types
<1>5. /\ \A q \in Sinks : \A i \in DOMAIN shards[q] :
           i \in DOMAIN shards'[q] /\ shards'[q][i] = shards[q][i]
      /\ \A q \in Sinks : \A i \in DOMAIN shards'[q] :
           i \in DOMAIN shards[q] \/ shards'[q][i].buffer = <<>>
  <2>1. CASE UNCHANGED shards
    BY <2>1
  <2>2. CASE shards' = [shards EXCEPT ![s] =
                      Append(shards[s], [producer |-> t, buffer |-> <<>>])]
    <3>0. PICK b \in Seq(Records) : b = <<>>
      BY EmptySeq
    <3>1. PICK e : e = [producer |-> t, buffer |-> b]
      OBVIOUS
    <3>2. e \in Shard /\ e.buffer = b
      BY <3>1 DEF Shard
    <3>3. PICK n \in Nat, w \in Seq(Shard) :
            w = shards[s] /\ n = Len(w) /\ DOMAIN w = 1 .. n
      BY LenProperties DEF IInv, Types
    <3>4. /\ DOMAIN Append(w, e) = 1 .. n + 1
          /\ \A i \in 1 .. n : Append(w, e)[i] = w[i]
          /\ Append(w, e)[n + 1] = e
      BY <3>2, <3>3, AppendProperties, LenProperties
    <3>5. /\ shards'[s] = Append(w, e)
          /\ \A q \in Sinks \ {s} : shards'[q] = shards[q]
      BY <2>2, <3>0, <3>1, <3>3 DEF IInv, Types
    <3>6. \A i \in 1 .. n + 1 : i \in 1 .. n \/ i = n + 1
      OBVIOUS
    <3>7. \A i \in 1 .. n : i \in 1 .. n + 1
      OBVIOUS
    <3> QED
      BY <3>0, <3>2, <3>3, <3>4, <3>5, <3>6, <3>7
  <2> QED
    BY <1>1, <2>1, <2>2 DEF Register, Set
<1>6. Preserves /\ KeepsOrFails
  BY <1>2, <1>5 DEF Preserves, KeepsOrFails, Held, streams
<1>7. Low'
  <2> SUFFICES ASSUME NEW q \in Sinks, NEW i \in DOMAIN shards'[q]
               PROVE  throwing' \/ <<q, i>> \in locks'
                        \/ BelowThreshold(shards'[q][i].buffer)
    BY DEF Low
  <2>1. CASE i \in DOMAIN shards[q]
    BY <1>2, <1>5, <2>1 DEF DInv, Low
  <2>2. CASE shards'[q][i].buffer = <<>>
    BY <2>2, EmptyIsBelow
  <2> QED
    BY <1>5, <2>1, <2>2
<1>8. \A q \in alive' : Loss(q)'
  <2> SUFFICES ASSUME NEW q \in alive PROVE Loss(q)'
    BY <1>2
  <2>1. q \in Sinks /\ Loss(q)
    BY DEF DInv, SInv, Sorted
  <2> QED
    BY <1>2, <1>3, <1>6, <2>1, LossFrame DEF fates
<1>9. Covers(t)'
  <2>1. buffered => pc'[t] = "append"
    BY <1>2 DEF SInv, Sorted
  <2> QED
    BY <1>2, <2>1 DEF Covers
<1>10. Continued(t)'
  <2> SUFFICES ASSUME ~buffered PROVE Continued(t)'
    BY <1>2 DEF Continued
  <2>1. todo'[t] = Pieces(r) /\ sink'[t] = s
    BY <1>2 DEF IInv, Types, Indexed
  <2>2. Last(issued'[<<t, s>>]) = r
    <3>1. PICK w \in Seq(Records) : w = issued[<<t, s>>]
      BY <1>4
    <3>2. Len(Append(w, r)) = Len(w) + 1 /\ Append(w, r)[Len(w) + 1] = r
      BY AppendProperties
    <3> QED
      BY <1>4, <3>1, <3>2 DEF Last
  <2>3. record(t)' = r
    BY <2>1, <2>2 DEF record
  <2> QED
    BY <2>1, <2>3 DEF Continued
<1>11. \A q \in Sinks : Whole(output'[q])
  BY <1>2 DEF DInv, Whole, streams
<1> QED
  BY <1>2, <1>3, <1>4, <1>6, <1>7, <1>8, <1>9, <1>10, <1>11, DInvFrame
     DEF streams

\* What no call does: a thread ends, a stream is repaired, nothing happens.
LEMMA ApplicationKeeps ==
  ASSUME IInv, SInv, DInv,
         UNCHANGED <<buffered, throwing, alive, shards, locks, output, pc, op,
                     sink, todo, success, covered, issued, accepted, told>>,
         \A s \in Sinks : good'[s] # good[s] => ~Busy(s)
  PROVE  DInv'
<1>1. Low'
  BY DEF DInv, Low
<1>2. \A s \in Sinks : Whole(output'[s])
  BY DEF DInv, Whole
<1>3. \A s \in alive' : Loss(s)'
  BY DEF DInv, Loss, Buffered
<1>4. ASSUME NEW t \in Threads PROVE Continued(t)' /\ Covers(t)'
  <2> SUFFICES ASSUME pc[t] # "idle" PROVE Continued(t)' /\ Covers(t)'
    BY DEF Continued, Covers
  <2>1. PICK s \in Sinks : s = sink[t]
    BY DEF SInv, InCall
  <2>2. good'[s] = good[s]
    BY <2>1 DEF Busy
  <2>3. record(t)' = record(t) /\ Wanted(t)' = Wanted(t)
    BY DEF record, Wanted
  <2>4. Continued(t) /\ Covers(t)
    BY DEF DInv
  <2>5. Continued(t)'
    BY <2>1, <2>2, <2>3, <2>4 DEF Continued
  <2>6. Covers(t)'
    BY <2>1, <2>2, <2>3, <2>4 DEF Covers, Held
  <2> QED
    BY <2>5, <2>6
<1> QED
  BY <1>1, <1>2, <1>3, <1>4 DEF DInv, Whole

LEMMA DInvStep == IInv /\ SInv /\ DInv /\ [Next]_vars => DInv'
<1> SUFFICES ASSUME IInv, SInv, DInv, [Next]_vars PROVE DInv'
  OBVIOUS
<1>0. SInv'
  BY SInvStep
<1>1. ASSUME NEW t \in Threads, Step(t) PROVE DInv'
  BY <1>0, <1>1, AppendKeeps, LockOutputKeeps, WritePieceKeeps,
     FlushShardKeeps, FlushNextKeeps, FlushEndKeeps DEF Step
<1>2. ASSUME NEW t \in Threads, Restart(t) PROVE DInv'
  BY <1>2, ApplicationKeeps DEF Restart, streams, locals, fates
<1>3. ASSUME NEW t \in Threads, NEW s \in Sinks,
             CallWrite(t, s) \/ CallFlush(t, s)
      PROVE  DInv'
  BY <1>0, <1>3, CallWriteKeeps, CallFlushKeeps
<1>4. ASSUME NEW s \in Sinks, Repair(s) PROVE DInv'
  <2>1. \A q \in Sinks : good'[q] # good[q] => ~Busy(q)
    BY <1>4 DEF Repair, Set, SInv, Sorted
  <2> QED
    BY <1>4, <2>1, ApplicationKeeps DEF Repair, locals, fates
<1>5. CASE UNCHANGED vars
  BY <1>5, ApplicationKeeps DEF vars
<1> QED
  BY <1>1, <1>2, <1>3, <1>4, <1>5 DEF Next
-----------------------------------------------------------------------------
(* The order in which the records of a producer are buffered and written.  *)

\* t wrote r to s; whoever wrote both q and r to s wrote q first, and once.
Sent(t, s, r) == \E a \in DOMAIN issued[<<t, s>>] : issued[<<t, s>>][a] = r
InOrder(s, q, r) ==
  \A t \in Threads : \A a, b \in DOMAIN issued[<<t, s>>] :
    issued[<<t, s>>][a] = q /\ issued[<<t, s>>][b] = r => a < b

\* No record is written twice.
Distinct ==
  \A w, v \in Threads \X Sinks :
  \A a \in DOMAIN issued[w], b \in DOMAIN issued[v] :
    issued[w][a] = issued[v][b] => w = v /\ a = b

\* Shard i of s holds records of its producer, in the order of its writes.
Queued(s, i) ==
  LET b == shards[s][i].buffer IN
  /\ \A m \in DOMAIN b : Sent(shards[s][i].producer, s, b[m])
  /\ \A m, n \in DOMAIN b : m < n => InOrder(s, b[m], b[n])

\* A stream that throws keeps the records that it may have written, and so
\* does a sink that was destroyed.
Twice(s) == throwing /\ s \in told
Gone(s) == s \notin alive /\ ~Busy(s)

\* Lines of s were written in order, and before those that are still buffered.
Ordered(s) ==
  /\ \A i \in Begun(s) : \E t \in Threads : Sent(t, s, output[s][i][1])
  /\ \A i \in DOMAIN shards[s] : Queued(s, i)
  /\ Twice(s) \/ \A i, j \in Begun(s) :
       i < j => InOrder(s, output[s][i][1], output[s][j][1])
  /\ Twice(s) \/ Gone(s) \/ \A i \in Begun(s), k \in DOMAIN shards[s] :
       \A m \in DOMAIN shards[s][k].buffer :
         InOrder(s, output[s][i][1], shards[s][k].buffer[m])

\* A record that was begun on s or is in one of its shards.
Shown(s, r) ==
  \/ \E i \in Begun(s) : output[s][i][1] = r
  \/ \E k \in DOMAIN shards[s] : Held(s, k, r)
\* The record of a write that has not come that far is nowhere yet.
Pending(t) ==
  pc[t] = "append"
    \/ (~buffered /\ pc[t] # "idle" /\ todo[t] = Pieces(record(t)))
  => ~Shown(sink[t], record(t))

\* Nobody else uses a sink that is being destroyed.
Solo(t) ==
  pc[t] # "idle" /\ op[t] = "destroy" =>
    \A u \in Threads : pc[u] # "idle" /\ sink[u] = sink[t] => u = t

OInv ==
  /\ Distinct
  /\ ~buffered => \A s \in Sinks : shards[s] = <<>>
  /\ \A s \in Sinks : Ordered(s)
  /\ \A t \in Threads : Pending(t) /\ Solo(t)

Begins(p) == p[2] \in {"line", "prefix"}

\* The last record of a producer comes after all its others.
LEMMA LastInOrder ==
  ASSUME Distinct, Types, NEW t \in Threads, NEW s \in Sinks,
         issued[<<t, s>>] # <<>>, NEW r, r = Last(issued[<<t, s>>]),
         NEW q, q # r
  PROVE  InOrder(s, q, r)
<1>1. PICK w : w = <<t, s>>
  OBVIOUS
<1>2. w \in Threads \X Sinks /\ issued[w] \in Seq(Records) /\ issued[w] # <<>>
  BY <1>1 DEF Types
<1>3. PICK n : n = Len(issued[w])
  OBVIOUS
<1>4. n \in Nat \ {0} /\ DOMAIN issued[w] = 1 .. n /\ r = issued[w][n]
  <2>1. /\ Len(issued[w]) \in Nat /\ DOMAIN issued[w] = 1 .. Len(issued[w])
        /\ Len(issued[w]) # 0
    BY <1>2, EmptySeq
  <2> QED
    BY <1>1, <1>3, <2>1 DEF Last
<1> SUFFICES ASSUME NEW u \in Threads,
                    NEW a \in DOMAIN issued[<<u, s>>],
                    NEW b \in DOMAIN issued[<<u, s>>],
                    issued[<<u, s>>][a] = q, issued[<<u, s>>][b] = r
             PROVE  a < b
  BY DEF InOrder
<1>5. n \in DOMAIN issued[w] /\ <<u, s>> \in Threads \X Sinks
  BY <1>4
<1>6. <<u, s>> = w /\ b = n
  BY <1>2, <1>4, <1>5 DEF Distinct
<1>7. a \in 1 .. n /\ a # n
  BY <1>4, <1>6
<1> QED
  BY <1>4, <1>6, <1>7

\* Records of two producers are in order, whichever is first.
LEMMA OthersInOrder ==
  ASSUME Distinct, NEW t \in Threads, NEW u \in Threads, t # u,
         NEW s \in Sinks, NEW q, NEW r, Sent(t, s, q), Sent(u, s, r)
  PROVE  InOrder(s, q, r)
<1> SUFFICES ASSUME NEW v \in Threads,
                    NEW a \in DOMAIN issued[<<v, s>>],
                    NEW b \in DOMAIN issued[<<v, s>>],
                    issued[<<v, s>>][a] = q, issued[<<v, s>>][b] = r
             PROVE  FALSE
  BY DEF InOrder
<1>1. ASSUME NEW x \in Threads, NEW p, NEW c \in DOMAIN issued[<<v, s>>],
             issued[<<v, s>>][c] = p, Sent(x, s, p)
      PROVE  x = v
  <2>1. PICK d \in DOMAIN issued[<<x, s>>] : issued[<<x, s>>][d] = p
    BY <1>1 DEF Sent
  <2>2. <<x, s>> \in Threads \X Sinks /\ <<v, s>> \in Threads \X Sinks
    OBVIOUS
  <2>3. <<x, s>> = <<v, s>>
    BY <1>1, <2>1, <2>2 DEF Distinct
  <2> QED
    BY <2>3
<1> QED
  BY <1>1

LEMMA PieceBegins ==
  ASSUME NEW r \in Records, NEW j \in 1 .. Len(Pieces(r))
  PROVE  Pieces(r)[j][1] = r /\ (Begins(Pieces(r)[j]) => j = 1)
<1>1. CASE message_is_buffered(r)
  <2>1. Pieces(r) = <<<<r, "line">>>>
    BY <1>1 DEF Pieces
  <2> QED
    BY <2>1
<1>2. CASE ~message_is_buffered(r)
  <2>1. Pieces(r) = <<<<r, "prefix">>, <<r, "message">>, <<r, "newline">>>>
    BY <1>2 DEF Pieces
  <2>2. j = 1 \/ j = 2 \/ j = 3
    BY <2>1
  <2> QED
    BY <2>1, <2>2 DEF Begins
<1> QED
  BY <1>1, <1>2

\* The lines of a buffer begin in the order of its records.
LEMMA LinesInOrder ==
  ASSUME NEW b \in Seq(Records), NEW w \in Seq(Piece),
         Len(w) <= Len(Lines(b)), \A i \in 1 .. Len(w) : w[i] = Lines(b)[i]
  PROVE  /\ \A i \in 1 .. Len(w) : \E m \in DOMAIN b : w[i][1] = b[m]
         /\ \A i, j \in 1 .. Len(w) :
              i < j /\ Begins(w[i]) /\ Begins(w[j]) =>
                \E m, n \in DOMAIN b : m < n /\ w[i][1] = b[m] /\ w[j][1] = b[n]
<1>1. PICK n \in Nat : n = Len(b) /\ DOMAIN b = 1 .. n
  BY LenProperties
<1>2. PICK seqs : seqs = [i \in 1 .. n |-> Pieces(b[i])]
  OBVIOUS
<1>3. /\ seqs \in Seq(Seq(Piece)) /\ Len(seqs) = n
      /\ \A i \in 1 .. n : seqs[i] = Pieces(b[i]) /\ b[i] \in Records
  <2>1. \A i \in 1 .. n : b[i] \in Records /\ Pieces(b[i]) \in Seq(Piece)
    BY <1>1, ElementOfSeq, PiecesType
  <2>2. seqs \in [1 .. n -> Seq(Piece)]
    BY <1>2, <2>1
  <2> QED
    BY <1>2, <2>1, <2>2
<1>4. Lines(b) = FlattenSeq(seqs)
  BY <1>1, <1>2, Zenon DEF Lines
<1>5. PICK z \in Seq(Piece) : z = Lines(b)
  BY LinesFacts
<1>6. PICK l \in Nat : l = Len(w) /\ l <= Len(z) /\ Len(z) \in Nat
  BY <1>5, LenProperties
<1>7. \A i \in 1 .. l : i \in 1 .. Len(z) /\ w[i] = z[i]
  BY <1>5, <1>6
<1>8. CASE n = 0
  <2>1. z = seqs
    BY <1>3, <1>4, <1>5, <1>8 DEF FlattenSeq
  <2>2. Len(z) = 0
    BY <1>3, <1>8, <2>1
  <2> QED
    BY <1>6, <2>2
<1>9. CASE n # 0
  <2>1. Concatenates(Piece, seqs, n, z)
    BY <1>3, <1>4, <1>5, <1>9, FlattenConcatenates
  <2>2. ASSUME NEW p \in 1 .. l PROVE \E m \in 1 .. n : w[p][1] = b[m]
    <3>1. PICK i \in 1 .. n : \E j \in 1 .. Len(seqs[i]) : z[p] = seqs[i][j]
      BY <1>7, <2>1 DEF Concatenates
    <3>2. PICK c \in Records : c = b[i] /\ seqs[i] = Pieces(c)
      BY <1>3
    <3>3. PICK j \in 1 .. Len(Pieces(c)) : z[p] = Pieces(c)[j]
      BY <3>1, <3>2
    <3>4. Pieces(c)[j][1] = c
      BY PieceBegins
    <3>5. w[p] = z[p]
      BY <1>7
    <3> QED
      BY <3>2, <3>3, <3>4, <3>5
  <2>3. ASSUME NEW p \in 1 .. l, NEW q \in 1 .. l, p < q,
               Begins(w[p]), Begins(w[q])
        PROVE  \E m, k \in 1 .. n : m < k /\ w[p][1] = b[m] /\ w[q][1] = b[k]
    <3>1. PICK i \in 1 .. n, u \in 1 .. n :
            \E j \in 1 .. Len(seqs[i]) : \E v \in 1 .. Len(seqs[u]) :
              z[p] = seqs[i][j] /\ z[q] = seqs[u][v] /\ Before(i, j, u, v)
      BY <1>7, <2>1, <2>3 DEF Concatenates
    <3>2. PICK j \in 1 .. Len(seqs[i]), v \in 1 .. Len(seqs[u]) :
            z[p] = seqs[i][j] /\ z[q] = seqs[u][v] /\ Before(i, j, u, v)
      BY <3>1
    <3>3. PICK c \in Records, d \in Records :
            /\ c = b[i] /\ seqs[i] = Pieces(c)
            /\ d = b[u] /\ seqs[u] = Pieces(d)
      BY <1>3
    <3>6. /\ Pieces(c)[j][1] = c /\ (Begins(Pieces(c)[j]) => j = 1)
          /\ Pieces(d)[v][1] = d /\ (Begins(Pieces(d)[v]) => v = 1)
      BY <3>2, <3>3, PieceBegins
    <3>7. w[p] = z[p] /\ w[q] = z[q]
      BY <1>7
    <3>4. w[p][1] = b[i] /\ w[q][1] = b[u] /\ j = 1 /\ v = 1
      BY <2>3, <3>2, <3>3, <3>6, <3>7
    <3>5. i < u
      BY <3>2, <3>4 DEF Before
    <3> QED
      BY <3>4, <3>5
  <2>4. DOMAIN b = 1 .. n /\ Len(w) = l
    BY <1>1, <1>6
  <2>5. \A i \in 1 .. l : \E m \in 1 .. n : w[i][1] = b[m]
    BY <2>2
  <2>6. \A p, q \in 1 .. l :
          p < q /\ Begins(w[p]) /\ Begins(w[q]) =>
            \E m, k \in 1 .. n : m < k /\ w[p][1] = b[m] /\ w[q][1] = b[k]
    BY <2>3
  <2>7. ASSUME NEW i \in 1 .. Len(w) PROVE \E m \in DOMAIN b : w[i][1] = b[m]
    BY <2>4, <2>5
  <2>8. ASSUME NEW i \in 1 .. Len(w), NEW j \in 1 .. Len(w),
               i < j, Begins(w[i]), Begins(w[j])
        PROVE  \E m, k \in DOMAIN b : m < k /\ w[i][1] = b[m] /\ w[j][1] = b[k]
    <3>1. i \in 1 .. l /\ j \in 1 .. l
      BY <2>4
    <3>2. PICK m \in 1 .. n, k \in 1 .. n :
            m < k /\ w[i][1] = b[m] /\ w[j][1] = b[k]
      BY <2>6, <2>8, <3>1
    <3>3. m \in DOMAIN b /\ k \in DOMAIN b
      BY <2>4
    <3> QED
      BY <3>2, <3>3
  <2> QED
    BY <2>7, <2>8
<1> QED
  BY <1>8, <1>9
-----------------------------------------------------------------------------
(* What the steps do to the order of the lines.                            *)

LEMMA OInvInit == Init => OInv
<1> SUFFICES ASSUME Init PROVE OInv
  OBVIOUS
<1>1. \A w \in Threads \X Sinks : DOMAIN issued[w] = {}
  BY DEF Init
<1>2. \A s \in Sinks : /\ DOMAIN shards[s] = {} /\ DOMAIN output[s] = {}
                       /\ shards[s] = <<>>
  BY DEF Init
<1>3. \A t \in Threads : pc[t] = "idle"
  BY DEF Init
<1>4. \A s \in Sinks : Begun(s) = {}
  BY <1>2 DEF Begun
<1>5. \A s \in Sinks : Ordered(s)
  BY <1>2, <1>4 DEF Ordered
<1>6. Distinct
  BY <1>1 DEF Distinct
<1> QED
  BY <1>2, <1>3, <1>5, <1>6 DEF OInv, Pending, Solo

\* A sink of which neither the shards nor the stream change.
LEMMA SameOrder ==
  ASSUME NEW s \in Sinks, Ordered(s), UNCHANGED <<issued, throwing>>,
         told \subseteq told', Gone(s) => Gone(s)',
         output'[s] = output[s], shards'[s] = shards[s]
  PROVE  /\ Ordered(s)' /\ Begun(s)' = Begun(s)
         /\ \A r : Shown(s, r)' <=> Shown(s, r)
<1>1. Begun(s)' = Begun(s)
  BY DEF Begun
<1>2. \A r, t : Sent(t, s, r)' <=> Sent(t, s, r)
  BY DEF Sent
<1>3. \A q, r : InOrder(s, q, r)' <=> InOrder(s, q, r)
  BY DEF InOrder
<1>4. \A i : Queued(s, i)' <=> Queued(s, i)
  BY <1>2, <1>3 DEF Queued
<1>5. Twice(s) => Twice(s)'
  BY DEF Twice
<1>6. \A r : Shown(s, r)' <=> Shown(s, r)
  BY <1>1 DEF Shown, Held
<1>7. Ordered(s)'
  BY <1>1, <1>2, <1>3, <1>4, <1>5 DEF Ordered
<1> QED
  BY <1>1, <1>6, <1>7

\* The lines that begin in z, which is x, of m pieces, and the n pieces of w.
BegunIn(z) == {i \in DOMAIN z : Begins(z[i])}
Joined(z, x, m, w, n) ==
  /\ x \in Seq(Piece) /\ m = Len(x)
  /\ w \in Seq(Piece) /\ n = Len(w) /\ z = x \o w
LEMMA BegunJoined ==
  ASSUME NEW z, NEW x, NEW m \in Nat, NEW w, NEW n \in Nat,
         Joined(z, x, m, w, n), NEW i \in BegunIn(z)
  PROVE  \/ i \in BegunIn(x) /\ i <= m /\ z[i] = x[i]
         \/ \E j \in 1 .. n : i = m + j /\ z[i] = w[j] /\ Begins(w[j])
<1>1. /\ z \in Seq(Piece) /\ Len(z) = m + n
      /\ \A k \in 1 .. m + n : z[k] = IF k <= m THEN x[k] ELSE w[k - m]
  BY ConcatProperties DEF Joined
<1>2. i \in 1 .. m + n /\ Begins(z[i])
  BY <1>1 DEF BegunIn
<1>3. CASE i <= m
  <2>1. i \in 1 .. m /\ z[i] = x[i]
    BY <1>1, <1>2, <1>3
  <2>2. DOMAIN x = 1 .. m
    BY DEF Joined
  <2> QED
    BY <1>2, <1>3, <2>1, <2>2 DEF BegunIn
<1>4. CASE ~(i <= m)
  <2>1. i - m \in 1 .. n /\ i = m + (i - m)
    BY <1>2, <1>4
  <2>2. z[i] = w[i - m]
    BY <1>1, <1>2, <1>4
  <2> QED
    BY <1>2, <2>1, <2>2
<1> QED
  BY <1>3, <1>4

\* The lines on a stream that has got the pieces of w are in order if those of
\* w are, also with those that were there.
LEMMA BegunInOrder ==
  ASSUME NEW s \in Sinks, output[s] \in Seq(Piece), NEW w \in Seq(Piece),
         output'[s] = output[s] \o w,
         \A i, j \in Begun(s) :
           i < j => InOrder(s, output[s][i][1], output[s][j][1]),
         \A i \in Begun(s), j \in 1 .. Len(w) :
           Begins(w[j]) => InOrder(s, output[s][i][1], w[j][1]),
         \A i, j \in 1 .. Len(w) : i < j /\ Begins(w[i]) /\ Begins(w[j]) =>
           InOrder(s, w[i][1], w[j][1])
  PROVE  \A i, j \in Begun(s)' :
           i < j => InOrder(s, output'[s][i][1], output'[s][j][1])
<1>1. PICK m \in Nat, n \in Nat : m = Len(output[s]) /\ n = Len(w)
  BY LenProperties
<1>2. \A i \in Begun(s)' :
        \/ i \in Begun(s) /\ i <= m /\ output'[s][i] = output[s][i]
        \/ \E j \in 1 .. n :
             i = m + j /\ output'[s][i] = w[j] /\ Begins(w[j])
  <2> SUFFICES ASSUME NEW i \in Begun(s)'
               PROVE  \/ /\ i \in Begun(s) /\ i <= m
                         /\ output'[s][i] = output[s][i]
                      \/ \E j \in 1 .. n : /\ i = m + j /\ output'[s][i] = w[j]
                                           /\ Begins(w[j])
    OBVIOUS
  <2>1. PICK x, z : x = output[s] /\ z = output'[s]
    OBVIOUS
  <2>2. Joined(z, x, m, w, n)
    BY <1>1, <2>1 DEF Joined
  <2>3. BegunIn(x) = Begun(s) /\ i \in BegunIn(z)
    BY <2>1 DEF BegunIn, Begun, Begins
  <2>4. \/ i \in BegunIn(x) /\ i <= m /\ z[i] = x[i]
        \/ \E j \in 1 .. n : i = m + j /\ z[i] = w[j] /\ Begins(w[j])
    BY <2>2, <2>3, BegunJoined
  <2> QED
    BY <2>1, <2>3, <2>4
<1> SUFFICES ASSUME NEW i \in Begun(s)', NEW j \in Begun(s)', i < j
             PROVE  InOrder(s, output'[s][i][1], output'[s][j][1])
  OBVIOUS
<1>3. CASE \E k \in 1 .. n : j = m + k /\ output'[s][j] = w[k] /\ Begins(w[k])
  <2>1. PICK k \in 1 .. n : j = m + k /\ output'[s][j] = w[k] /\ Begins(w[k])
    BY <1>3
  <2>2. CASE i \in Begun(s) /\ i <= m /\ output'[s][i] = output[s][i]
    BY <1>1, <2>1, <2>2
  <2>3. CASE \E l \in 1 .. n : i = m + l /\ output'[s][i] = w[l] /\ Begins(w[l])
    <3>1. PICK l \in 1 .. n : i = m + l /\ output'[s][i] = w[l] /\ Begins(w[l])
      BY <2>3
    <3>2. l < k
      BY <2>1, <3>1
    <3> QED
      BY <1>1, <2>1, <3>1, <3>2
  <2> QED
    BY <1>2, <2>2, <2>3
<1>4. CASE j \in Begun(s) /\ j <= m /\ output'[s][j] = output[s][j]
  <2>1. i \in Begun(s) /\ output'[s][i] = output[s][i]
    <3>1. ASSUME NEW l \in 1 .. n, i = m + l PROVE FALSE
      <4>1. j \in Nat /\ j <= m
        BY <1>4 DEF Begun
      <4> QED
        BY <3>1, <4>1
    <3> QED
      BY <1>2, <3>1
  <2> QED
    BY <1>4, <2>1
<1> QED
  BY <1>2, <1>3, <1>4

\* Two writes under way are of two records.
LEMMA RecordsDiffer ==
  ASSUME Distinct, Types, NEW t \in Threads, NEW u \in Threads, t # u,
         NEW s \in Sinks, NEW q \in Sinks, s = sink[t], q = sink[u],
         issued[<<t, s>>] # <<>>, issued[<<u, q>>] # <<>>
  PROVE  record(t) # record(u)
<1>1. ASSUME NEW w \in Threads \X Sinks, issued[w] # <<>>
      PROVE  \E a \in DOMAIN issued[w] : issued[w][a] = Last(issued[w])
  <2>1. PICK y \in Seq(Records) : y = issued[w] /\ y # <<>>
    BY <1>1 DEF Types
  <2>2. Len(y) \in DOMAIN y
    <3>1. Len(y) \in Nat /\ DOMAIN y = 1 .. Len(y) /\ Len(y) # 0
      BY <2>1, EmptySeq
    <3> QED
      BY <3>1
  <2> QED
    BY <2>1, <2>2 DEF Last
<1>2. <<t, s>> \in Threads \X Sinks /\ <<u, q>> \in Threads \X Sinks
  OBVIOUS
<1>3. PICK a \in DOMAIN issued[<<t, s>>] : issued[<<t, s>>][a] = record(t)
  BY <1>1, <1>2 DEF record
<1>4. PICK b \in DOMAIN issued[<<u, q>>] : issued[<<u, q>>][b] = record(u)
  BY <1>1, <1>2 DEF record
<1>5. <<t, s>> # <<u, q>>
  OBVIOUS
<1> QED
  BY <1>2, <1>3, <1>4, <1>5 DEF Distinct

\* A step of t inside a call on s, by which at most the record of t comes to s.
LEMMA OInvFrame ==
  ASSUME IInv, SInv, OInv, NEW t \in Threads, NEW s \in Sinks,
         pc[t] # "idle", sink[t] = s, Alone(t),
         UNCHANGED <<buffered, throwing, alive, issued>>,
         told \subseteq told', ~buffered => UNCHANGED shards,
         pc'[t] # "idle" =>
           op'[t] = op[t] /\ sink'[t] = s /\ pc'[t] # "append",
         \A q \in Sinks \ {s} :
           output'[q] = output[q] /\ shards'[q] = shards[q],
         (Gone(s) => Gone(s)') => Ordered(s)',
         \A r : Shown(s, r)' =>
           Shown(s, r) \/ (op[t] = "write" /\ r = record(t)),
         ~buffered /\ pc'[t] # "idle" =>
           todo'[t] # Pieces(record(t)) \/ ~Shown(s, record(t))'
  PROVE  OInv'
<1>1. \A u \in Threads \ {t} :
        /\ pc'[u] = pc[u] /\ op'[u] = op[u] /\ sink'[u] = sink[u]
        /\ todo'[u] = todo[u]
  BY DEF Alone
<1>2. ASSUME NEW q \in Sinks, Gone(q) PROVE Gone(q)'
  BY <1>1, <1>2 DEF Gone, Busy
<1>3. ASSUME NEW q \in Sinks, q # s
      PROVE  Ordered(q)' /\ \A r : Shown(q, r)' <=> Shown(q, r)
  <2>1. Ordered(q) /\ output'[q] = output[q] /\ shards'[q] = shards[q]
    BY <1>3 DEF OInv
  <2> QED
    BY <1>2, <2>1, SameOrder
<1>4. Distinct'
  BY DEF OInv, Distinct
<1>5. ASSUME NEW u \in Threads, u # t PROVE Pending(u)'
  <2> SUFFICES ASSUME \/ pc[u] = "append"
                      \/ /\ ~buffered /\ pc[u] # "idle"
                         /\ todo[u] = Pieces(record(u))
               PROVE  ~Shown(sink[u], record(u))'
    BY <1>1, <1>5 DEF Pending, record
  <2>1. PICK q \in Sinks : q = sink[u]
    BY DEF SInv, InCall
  <2>2. PICK r : r = record(u)
    OBVIOUS
  <2>3. ~Shown(q, r)
    BY <2>1, <2>2 DEF OInv, Pending
  <2>4. record(u)' = r /\ sink'[u] = q
    BY <1>1, <1>5, <2>1, <2>2 DEF record
  <2>5. CASE q # s
    BY <1>3, <2>3, <2>4, <2>5
  <2>6. CASE q = s
    <3>1. op[u] = "write" /\ issued[<<u, q>>] # <<>>
      BY <2>1 DEF SInv, InCall, Sorted
    <3>2. op[t] = "write" => issued[<<t, s>>] # <<>>
      BY DEF SInv, InCall
    <3>3. op[t] = "write" => record(t) # r
      BY <1>5, <2>1, <2>2, <3>1, <3>2, RecordsDiffer DEF OInv, IInv
    <3> QED
      BY <2>3, <2>4, <2>6, <3>3
  <2> QED
    BY <2>5, <2>6
<1>6. Pending(t)'
  <2>1. pc'[t] # "idle" => record(t)' = record(t)
    BY DEF record
  <2> QED
    BY <2>1 DEF Pending
<1>7. ASSUME NEW u \in Threads PROVE Solo(u)'
  <2> SUFFICES ASSUME pc'[u] # "idle", op'[u] = "destroy", NEW v \in Threads,
                      pc'[v] # "idle", sink'[v] = sink'[u]
               PROVE  v = u
    BY DEF Solo
  <2>1. \A x \in Threads : pc'[x] # "idle" =>
          pc[x] # "idle" /\ op'[x] = op[x] /\ sink'[x] = sink[x]
    BY <1>1
  <2> QED
    BY <2>1 DEF OInv, Solo
<1>8. Ordered(s)'
  BY <1>2
<1> QED
  BY <1>3, <1>4, <1>5, <1>6, <1>7, <1>8 DEF OInv

\* A step of t inside a call that changes no shard and no stream.
LEMMA OInvQuiet ==
  ASSUME IInv, SInv, OInv, NEW t \in Threads,
         pc[t] # "idle", Alone(t),
         UNCHANGED <<buffered, throwing, alive, issued, output, shards>>,
         told \subseteq told',
         pc'[t] # "idle" => /\ op'[t] = op[t] /\ sink'[t] = sink[t]
                            /\ pc'[t] # "append"
                            /\ buffered \/ todo'[t] = todo[t]
  PROVE  OInv'
<1>1. PICK s \in Sinks : s = sink[t]
  BY DEF SInv, InCall
<1>2. Ordered(s)
  BY DEF OInv
<1>3. (Gone(s) => Gone(s)') => Ordered(s)'
  BY <1>2, SameOrder
<1>4. Begun(s)' = Begun(s) /\ \A r : Shown(s, r)' <=> Shown(s, r)
  <2>1. Begun(s)' = Begun(s)
    BY DEF Begun
  <2> QED
    BY <2>1 DEF Shown, Held
<1>5. ~buffered /\ pc'[t] # "idle" =>
        todo'[t] # Pieces(record(t)) \/ ~Shown(s, record(t))'
  <2> SUFFICES ASSUME ~buffered, pc'[t] # "idle", todo'[t] = Pieces(record(t))
               PROVE  ~Shown(s, record(t))'
    OBVIOUS
  <2>1. PICK r : r = record(t)
    OBVIOUS
  <2>2. record(t)' = r
    BY <2>1 DEF record
  <2>3. ~Shown(s, r)
    BY <1>1, <2>1 DEF OInv, Pending
  <2> QED
    BY <1>4, <2>2, <2>3
<1> QED
  BY <1>1, <1>3, <1>4, <1>5, OInvFrame

LEMMA LockOutputOrder ==
  ASSUME IInv, SInv, OInv, NEW t \in Threads, LockOutput(t)
  PROVE  OInv'
<1>1. /\ pc[t] = "output" /\ pc' = [pc EXCEPT ![t] = "stream"]
      /\ UNCHANGED <<buffered, throwing, alive, shards, streams, op, sink,
                     todo, success, covered, issued, fates>>
  BY DEF LockOutput, Set
<1>2. Alone(t) /\ pc'[t] = "stream"
  BY <1>1 DEF Alone, SInv, Sorted
<1> QED
  BY <1>1, <1>2, OInvQuiet DEF streams, fates

LEMMA FlushNextOrder ==
  ASSUME IInv, SInv, OInv, NEW t \in Threads, FlushNext(t)
  PROVE  OInv'
<1>1. /\ pc[t] = "next"
      /\ UNCHANGED <<buffered, throwing, alive, shards, streams, op, sink,
                     success, covered, issued, fates>>
      /\ \/ todo' = [todo EXCEPT ![t] = Tail(todo[t])] /\ UNCHANGED pc
         \/ pc' = [pc EXCEPT ![t] = "output"] /\ UNCHANGED todo
  BY DEF FlushNext, Set
<1>2. buffered
  BY <1>1 DEF SInv, InCall
<1>3. Alone(t) /\ pc'[t] # "append"
  BY <1>1 DEF Alone, IInv, Types, Indexed, SInv, Sorted
<1> QED
  BY <1>1, <1>2, <1>3, OInvQuiet DEF streams, fates

LEMMA FlushEndOrder ==
  ASSUME IInv, SInv, OInv, NEW t \in Threads, FlushEnd(t)
  PROVE  OInv'
<1>1. /\ pc[t] = "next" /\ UNCHANGED <<buffered, throwing, alive, shards,
                                       locks, issued>>
  BY DEF FlushEnd
<1>2. /\ buffered /\ sink[t] \in Sinks /\ op[t] # "write"
  BY <1>1 DEF SInv, InCall, Sorted
<1>3. PICK o \in Outcomes(sink[t], <<>>) :
        /\ Stream(sink[t], o)
        /\ Return(t, IF o.throws THEN "throws"
                     ELSE Truth(o.good /\ success[t] = "true"))
  BY Zenon DEF FlushEnd
<1>4. PICK s \in Sinks : s = sink[t]
  BY <1>2
<1>5. PICK y \in Seq(Piece) : y = <<>> /\ Len(y) = 0
  BY EmptySeq
<1>6. /\ o.good \in BOOLEAN /\ o.throws \in BOOLEAN
      /\ o.put \in Seq(Piece) /\ o.put = <<>>
  <2>1. Sorted /\ o \in Outcomes(s, y)
    BY <1>3, <1>4, <1>5 DEF SInv
  <2>2. /\ o.good \in BOOLEAN /\ o.throws \in BOOLEAN
        /\ o.put \in Seq(Piece) /\ Len(o.put) <= Len(y)
    BY <2>1, OutcomeFacts
  <2>3. PICK p \in Seq(Piece) : p = o.put
    BY <2>2
  <2>4. Len(p) = 0
    BY <1>5, <2>2, <2>3, LenProperties
  <2>5. p = <<>>
    BY <2>4, NoPieces
  <2>6. o.put = <<>>
    BY <2>3, <2>5, Zenon
  <2> QED
    BY <2>2, <2>6
<1>7. output' = output
  <2>1. Sorted /\ Stream(s, o)
    BY <1>3, <1>4 DEF SInv, Stream, Set
  <2>2. /\ output'[s] = output[s] \o o.put
        /\ \A q \in Sinks \ {s} : output'[q] = output[q]
        /\ output' \in [Sinks -> Seq(Piece)]
    BY <1>6, <2>1, StreamFacts
  <2>3. output[s] \in Seq(Piece) /\ output \in [Sinks -> Seq(Piece)]
    BY DEF SInv, Sorted
  <2>4. output'[s] = output[s]
    BY <1>6, <2>2, <2>3, ConcatEmptySeq
  <2> QED
    BY <2>2, <2>3, <2>4
<1>8. PICK value \in {"true", "false", "throws"} : Return(t, value)
  <2>1. PICK value : value = IF o.throws THEN "throws"
                             ELSE Truth(o.good /\ success[t] = "true")
    OBVIOUS
  <2>2. Return(t, value)
    BY <1>3, <2>1 DEF Return, Set
  <2>3. value \in {"true", "false", "throws"}
    BY <2>1 DEF Truth
  <2> QED
    BY <2>2, <2>3
<1>9. Alone(t) /\ pc'[t] = "idle" /\ told \subseteq told'
  BY <1>2, <1>8, ReturnFacts
<1> QED
  BY <1>1, <1>7, <1>9, OInvQuiet

\* write appends its record, the last one of its thread, to the shard.
LEMMA AppendOrder ==
  ASSUME IInv, SInv, OInv, NEW t \in Threads, AppendRecord(t)
  PROVE  OInv'
<1>1. PICK b : /\ b = Append(Buffer(t), record(t)) /\ SetBuffer(t, b)
               /\ \/ /\ BelowThreshold(b) /\ Return(t, "true")
                     /\ UNCHANGED locks
                  \/ /\ locks' = locks \cup {ShardLock(t)}
                     /\ pc' = [pc EXCEPT ![t] = "output"]
                     /\ UNCHANGED <<op, sink, todo, success, covered, fates>>
  BY DEF AppendRecord, SetBuffer, Set
<1>2. /\ pc[t] = "append"
      /\ UNCHANGED <<buffered, throwing, alive, streams, issued>>
  BY DEF AppendRecord
<1>3. /\ buffered /\ op[t] = "write" /\ todo[t] # <<>>
      /\ issued[<<t, sink[t]>>] # <<>> /\ sink[t] \in Sinks
      /\ Owns(t, sink[t], Head(todo[t]))
  BY <1>2 DEF SInv, InCall, Sorted, IInv, Directed
<1>4. /\ Head(todo[t]) \in 1 .. Len(shards[sink[t]])
      /\ Buffer(t) \in Seq(Records) /\ Len(shards[sink[t]]) \in Nat
  BY <1>2, <1>3, AtShard
<1>5. PICK r \in Records : r = record(t)
  BY <1>3, RecordType DEF IInv
<1>6. PICK s \in Sinks, i \in 1 .. Len(shards[sink[t]]) :
        s = sink[t] /\ i = Head(todo[t])
  BY <1>3, <1>4
<1>7. PICK a \in Seq(Records) : a = Buffer(t) /\ a = shards[s][i].buffer
  BY <1>4, <1>6 DEF Buffer
<1>8. PICK n \in Nat : n = Len(a)
  BY LenProperties
<1>9. /\ b \in Seq(Records) /\ b[n + 1] = r
      /\ \A j \in 1 .. n : b[j] = a[j]
      /\ DOMAIN a = 1 .. n /\ DOMAIN b = 1 .. n + 1
  <2>1. /\ b \in Seq(Records) /\ Len(b) = Len(a) + 1 /\ b[Len(a) + 1] = r
        /\ \A j \in 1 .. Len(a) : b[j] = a[j]
    <3>1. b = Append(a, r)
      BY <1>1, <1>5, <1>7
    <3> QED
      BY <3>1, AppendProperties
  <2> QED
    BY <1>8, <2>1
<1>10. /\ \A q \in Sinks \ {s} : shards'[q] = shards[q]
       /\ \A j \in DOMAIN shards[s] : j # i => shards'[s][j] = shards[s][j]
       /\ shards'[s][i].buffer = b /\ i \in DOMAIN shards[s]
       /\ DOMAIN shards'[s] = DOMAIN shards[s]
       /\ shards[s][i].producer = t /\ shards'[s][i].producer = t
  <2>1. /\ shards' \in [Sinks -> Seq(Shard)]
        /\ \A q \in Sinks : Len(shards'[q]) = Len(shards[q])
        /\ \A q \in Sinks \ {s} : shards'[q] = shards[q]
        /\ \A j \in 1 .. Len(shards[s]) : j # i => shards'[s][j] = shards[s][j]
        /\ shards'[s][i].buffer = b
    <3>1. /\ Types /\ s = sink[t] /\ i \in 1 .. Len(shards[s])
          /\ i = Head(todo[t]) /\ b \in Seq(Records) /\ SetBuffer(t, b)
      BY <1>1, <1>6, <1>9 DEF IInv
    <3> QED
      BY <3>1, SetBufferFacts
  <2>2. \A q \in Sinks : /\ DOMAIN shards'[q] = 1 .. Len(shards'[q])
                         /\ DOMAIN shards[q] = 1 .. Len(shards[q])
    BY <2>1 DEF IInv, Types
  <2>3. /\ shards \in [Sinks -> Seq(Shard)] /\ b \in Seq(Records)
        /\ shards' = [shards EXCEPT ![s][i].buffer = b]
    BY <1>1, <1>6, <1>9 DEF IInv, Types, SetBuffer
  <2>4. \A j \in DOMAIN shards[s] :
          shards'[s][j].producer = shards[s][j].producer
    BY <2>3, BufferStep
  <2> QED
    BY <1>3, <1>6, <2>1, <2>2, <2>4 DEF Owns
<1>11. Ordered(s) /\ ~Shown(s, r) /\ Types /\ Distinct
  BY <1>2, <1>5, <1>6 DEF OInv, IInv, Pending
<1>12. /\ issued[<<t, s>>] # <<>> /\ r = Last(issued[<<t, s>>])
       /\ Sent(t, s, r)
  <2>1. PICK w \in Seq(Records) : w = issued[<<t, s>>] /\ w # <<>>
    BY <1>3, <1>6 DEF IInv, Types
  <2>2. Len(w) \in DOMAIN w
    <3>1. Len(w) \in Nat /\ DOMAIN w = 1 .. Len(w) /\ Len(w) # 0
      BY <2>1, EmptySeq
    <3> QED
      BY <3>1
  <2>3. r = Last(issued[<<t, s>>]) /\ issued[<<t, s>>] # <<>>
    BY <1>5, <1>6, <2>1 DEF record
  <2> QED
    BY <2>1, <2>2, <2>3 DEF Sent, Last
<1>13. \A q : q # r => InOrder(s, q, r)
  BY <1>11, <1>12, LastInOrder
<1>14. /\ \A q, x : InOrder(s, q, x)' <=> InOrder(s, q, x)
       /\ \A u, x : Sent(u, s, x)' <=> Sent(u, s, x)
       /\ Begun(s)' = Begun(s) /\ output'[s] = output[s]
  BY <1>2 DEF InOrder, Sent, Begun, streams
<1>15. \A k \in DOMAIN shards[s] : \A m \in DOMAIN shards[s][k].buffer :
         shards[s][k].buffer[m] # r
  BY <1>11 DEF Shown, Held, ToSet
<1>16. \A k \in Begun(s) : output[s][k][1] # r
  BY <1>11 DEF Shown
<1>17. Queued(s, i)'
  <2>1. /\ \A m \in DOMAIN a : Sent(t, s, a[m]) /\ a[m] # r
        /\ \A m, l \in DOMAIN a : m < l => InOrder(s, a[m], a[l])
    BY <1>7, <1>10, <1>11, <1>15 DEF Ordered, Queued
  <2>2. ASSUME NEW m \in DOMAIN b PROVE Sent(t, s, b[m])
    BY <1>9, <1>12, <2>1
  <2>3. ASSUME NEW m \in DOMAIN b, NEW l \in DOMAIN b, m < l
        PROVE  InOrder(s, b[m], b[l])
    <3>1. CASE l = n + 1
      <4>1. m \in 1 .. n
        BY <1>9, <2>3, <3>1
      <4> QED
        BY <1>9, <1>13, <2>1, <3>1, <4>1
    <3>2. CASE l # n + 1
      <4>1. m \in 1 .. n /\ l \in 1 .. n
        BY <1>9, <2>3, <3>2
      <4> QED
        BY <1>9, <2>1, <2>3, <4>1
    <3> QED
      BY <3>1, <3>2
  <2> QED
    BY <1>10, <1>14, <2>2, <2>3 DEF Queued
<1>18. \A k \in DOMAIN shards'[s] : Queued(s, k)'
  <2> SUFFICES ASSUME NEW k \in DOMAIN shards[s], k # i PROVE Queued(s, k)'
    BY <1>10, <1>17
  <2>1. Queued(s, k) /\ shards'[s][k] = shards[s][k]
    BY <1>10, <1>11 DEF Ordered
  <2> QED
    BY <1>14, <2>1 DEF Queued
<1>19. /\ told \subseteq told' /\ Alone(t) /\ pc'[t] # "append"
       /\ pc'[t] # "idle" => op'[t] = op[t] /\ sink'[t] = sink[t]
  <2>1. CASE Return(t, "true")
    BY <1>3, <2>1, ReturnFacts
  <2>2. CASE /\ pc' = [pc EXCEPT ![t] = "output"]
             /\ UNCHANGED <<op, sink, todo, success, covered, fates>>
    BY <2>2 DEF Alone, SInv, Sorted, fates
  <2> QED
    BY <1>1, <2>1, <2>2
<1>20. ASSUME Gone(s) => Gone(s)' PROVE Ordered(s)'
  <2>1. Twice(s) => Twice(s)'
    BY <1>2, <1>19 DEF Twice
  <2>2. ASSUME NEW k \in Begun(s), NEW j \in DOMAIN shards[s],
               \A l \in DOMAIN shards[s] : \A m \in DOMAIN shards[s][l].buffer :
                 InOrder(s, output[s][k][1], shards[s][l].buffer[m])
        PROVE  \A m \in DOMAIN shards'[s][j].buffer :
                 InOrder(s, output[s][k][1], shards'[s][j].buffer[m])
    <3>1. CASE j = i
      <4>1. ASSUME NEW m \in 1 .. n + 1
            PROVE  InOrder(s, output[s][k][1], b[m])
        <5>1. m \in 1 .. n \/ m = n + 1
          OBVIOUS
        <5> QED
          BY <1>7, <1>9, <1>10, <1>13, <1>16, <2>2, <5>1
      <4> QED
        BY <1>9, <1>10, <3>1, <4>1
    <3>2. CASE j # i
      BY <1>10, <2>2, <3>2
    <3> QED
      BY <3>1, <3>2
  <2>3. Twice(s)' \/ Gone(s)' \/
          \A k \in Begun(s), j \in DOMAIN shards[s] :
          \A m \in DOMAIN shards'[s][j].buffer :
            InOrder(s, output[s][k][1], shards'[s][j].buffer[m])
    BY <1>11, <1>20, <2>1, <2>2 DEF Ordered
  <2>4. /\ \A k \in Begun(s) : \E u \in Threads : Sent(u, s, output[s][k][1])
        /\ Twice(s)' \/ \A k, j \in Begun(s) :
             k < j => InOrder(s, output[s][k][1], output[s][j][1])
    BY <1>11, <2>1 DEF Ordered
  <2> QED
    BY <1>10, <1>14, <1>18, <2>3, <2>4 DEF Ordered
<1>21. ASSUME NEW x, Shown(s, x)', x # r PROVE Shown(s, x)
  <2>0. CASE \E k \in Begun(s) : output[s][k][1] = x
    BY <2>0 DEF Shown
  <2>2. CASE \E k \in DOMAIN shards'[s] : Held(s, k, x)'
    <3>1. PICK k \in DOMAIN shards'[s] : Held(s, k, x)'
      BY <2>2
    <3>2. PICK m \in DOMAIN shards'[s][k].buffer : x = shards'[s][k].buffer[m]
      BY <3>1 DEF Held, ToSet
    <3>3. k \in DOMAIN shards[s]
      BY <1>10
    <3>4. m \in DOMAIN shards[s][k].buffer /\ x = shards[s][k].buffer[m]
      <4>1. CASE k = i
        <5>1. m \in 1 .. n + 1 /\ x = b[m]
          BY <1>9, <1>10, <3>2, <4>1
        <5>2. m \in 1 .. n
          BY <1>9, <1>21, <5>1
        <5> QED
          BY <1>7, <1>9, <4>1, <5>1, <5>2
      <4>2. CASE k # i
        BY <1>10, <3>2, <3>3, <4>2
      <4> QED
        BY <4>1, <4>2
    <3> QED
      BY <3>3, <3>4 DEF Shown, Held, ToSet
  <2> QED
    BY <1>14, <1>21, <2>0, <2>2 DEF Shown
<1> QED
  BY <1>2, <1>3, <1>5, <1>6, <1>10, <1>19, <1>20, <1>21, OInvFrame DEF streams

\* The next piece of an unbuffered record: where it begins, the record is new
\* to the stream.
LEMMA WritePieceOrder ==
  ASSUME IInv, SInv, OInv, NEW t \in Threads, WritePiece(t)
  PROVE  OInv'
<1>1. /\ pc[t] = "stream" /\ ~buffered
      /\ UNCHANGED <<buffered, throwing, alive, shards, cached, issued>>
  BY DEF WritePiece
<1>2. /\ sink[t] \in Sinks /\ op[t] = "write" /\ Remains(record(t), todo[t])
      /\ issued[<<t, sink[t]>>] # <<>>
  BY <1>1 DEF SInv, InCall
<1>3. PICK r \in Records : r = record(t)
  BY <1>2, RecordType DEF IInv
<1>4. PICK s \in Sinks : s = sink[t]
  BY <1>2
<1>5. PICK e \in Piece, w \in Seq(Piece) : e = Head(todo[t]) /\ w = todo[t]
  BY <1>2, <1>3, RemainsFacts
<1>6. PICK o \in Outcomes(sink[t], <<Head(todo[t])>>) :
        /\ Stream(sink[t], o)
        /\ IF o.throws \/ Len(todo[t]) = 1
           THEN /\ Return(t, IF o.throws THEN "throws" ELSE Truth(o.good))
                /\ locks' = locks \ {OutputLock(t)}
           ELSE /\ Set(todo, t, Tail(todo[t]))
                /\ UNCHANGED <<pc, op, sink, success, covered, fates, locks>>
  BY DEF WritePiece
<1>7. PICK y \in Seq(Piece) : y = <<e>> /\ Len(y) = 1 /\ y[1] = e
  <2>1. <<e>> \in Seq(Piece) /\ Len(<<e>>) = 1 /\ <<e>>[1] = e
    OBVIOUS
  <2> QED
    BY <2>1
<1>8. /\ o.good \in BOOLEAN /\ o.throws \in BOOLEAN
      /\ o.put \in Seq(Piece) /\ Len(o.put) <= 1
      /\ \A i \in 1 .. Len(o.put) : o.put[i] = y[i]
  <2>1. Sorted /\ o \in Outcomes(s, y)
    BY <1>4, <1>5, <1>6, <1>7 DEF SInv
  <2> QED
    BY <1>7, <2>1, OutcomeFacts
<1>9. /\ output'[s] = output[s] \o o.put
      /\ \A q \in Sinks \ {s} : output'[q] = output[q]
  <2>1. Sorted /\ Stream(s, o)
    BY <1>4, <1>6 DEF SInv, Stream, Set
  <2> QED
    BY <1>8, <2>1, StreamFacts
<1>10. PICK p \in Seq(Piece) : p = o.put /\ output[s] \in Seq(Piece)
  BY <1>8 DEF SInv, Sorted
<1>11. \A j \in 1 .. Len(p) : j = 1 /\ p[j] = e
  <2>1. Len(p) \in Nat /\ Len(p) <= 1
    BY <1>8, <1>10, LenProperties
  <2> QED
    BY <1>7, <1>8, <1>10, <2>1
<1>12. e[1] = r /\ (Begins(e) => w = Pieces(r))
  <2>1. Remains(r, w)
    BY <1>2, <1>3, <1>5
  <2>2. Head(w)[1] = r
    BY <2>1, RemainsFacts
  <2>3. w # Pieces(r) => Head(w)[2] \in {"message", "newline"}
    <3>1. CASE w = <<<<r, "message">>, <<r, "newline">>>>
      BY <3>1
    <3>2. CASE w = <<<<r, "newline">>>>
      BY <3>2
    <3> QED
      BY <2>1, <3>1, <3>2 DEF Remains
  <2> QED
    BY <1>5, <2>2, <2>3 DEF Begins
<1>13. Ordered(s) /\ Types /\ Distinct /\ shards[s] = <<>>
  BY <1>1 DEF OInv, IInv
<1>14. Begins(e) => ~Shown(s, r)
  BY <1>1, <1>3, <1>4, <1>5, <1>12 DEF OInv, Pending
<1>15. /\ issued[<<t, s>>] # <<>> /\ r = Last(issued[<<t, s>>])
       /\ Sent(t, s, r)
  <2>1. PICK z \in Seq(Records) : z = issued[<<t, s>>] /\ z # <<>>
    BY <1>2, <1>4 DEF IInv, Types
  <2>2. Len(z) \in DOMAIN z
    <3>1. Len(z) \in Nat /\ DOMAIN z = 1 .. Len(z) /\ Len(z) # 0
      BY <2>1, EmptySeq
    <3> QED
      BY <3>1
  <2>3. r = Last(issued[<<t, s>>]) /\ issued[<<t, s>>] # <<>>
    BY <1>3, <1>4, <2>1 DEF record
  <2> QED
    BY <2>1, <2>2, <2>3 DEF Sent, Last
<1>16. \A q : q # r => InOrder(s, q, r)
  BY <1>13, <1>15, LastInOrder
<1>17. /\ \A q, x : InOrder(s, q, x)' <=> InOrder(s, q, x)
       /\ \A u, x : Sent(u, s, x)' <=> Sent(u, s, x)
  BY <1>1 DEF InOrder, Sent
<1>18. \A i \in Begun(s)' :
         \/ i \in Begun(s) /\ output'[s][i] = output[s][i]
         \/ output'[s][i] = e /\ Begins(e)
  <2>1. output'[s] = output[s] \o p
    BY <1>9, <1>10
  <2>2. \A i \in Begun(s)' :
          \/ i \in Begun(s) /\ output'[s][i] = output[s][i]
          \/ \E j \in 1 .. Len(p) : output'[s][i] = p[j] /\ Begins(p[j])
    <3> SUFFICES ASSUME NEW i \in Begun(s)'
                 PROVE  \/ i \in Begun(s) /\ output'[s][i] = output[s][i]
                        \/ \E j \in 1 .. Len(p) :
                             output'[s][i] = p[j] /\ Begins(p[j])
      OBVIOUS
    <3>1. PICK a \in Nat, c \in Nat : a = Len(output[s]) /\ c = Len(p)
      BY <1>10, LenProperties
    <3>2. \/ i \in Begun(s) /\ i <= a /\ output'[s][i] = output[s][i]
          \/ \E j \in 1 .. c :
               i = a + j /\ output'[s][i] = p[j] /\ Begins(p[j])
      <4>1. PICK x, z : x = output[s] /\ z = output'[s]
        OBVIOUS
      <4>2. Joined(z, x, a, p, c)
        BY <1>10, <2>1, <3>1, <4>1 DEF Joined
      <4>3. BegunIn(x) = Begun(s) /\ i \in BegunIn(z)
        BY <4>1 DEF BegunIn, Begun, Begins
      <4>4. \/ i \in BegunIn(x) /\ i <= a /\ z[i] = x[i]
            \/ \E j \in 1 .. c : i = a + j /\ z[i] = p[j] /\ Begins(p[j])
        BY <4>2, <4>3, BegunJoined
      <4> QED
        BY <4>1, <4>3, <4>4
    <3> QED
      BY <3>1, <3>2
  <2> QED
    BY <1>11, <2>2
<1>19. /\ Alone(t) /\ pc'[t] # "append" /\ told \subseteq told'
       /\ pc'[t] # "idle" =>
            /\ op'[t] = op[t] /\ sink'[t] = sink[t]
            /\ Len(w) # 1 /\ todo'[t] = Tail(w)
  <2>1. CASE o.throws \/ Len(todo[t]) = 1
    <3>1. PICK value : value = IF o.throws THEN "throws" ELSE Truth(o.good)
      OBVIOUS
    <3>2. Return(t, value)
      BY <1>6, <2>1, <3>1 DEF Return, Set
    <3>3. value \in {"true", "false", "throws"}
      BY <3>1 DEF Truth
    <3> QED
      BY <1>2, <3>2, <3>3, ReturnFacts
  <2>2. CASE ~(o.throws \/ Len(todo[t]) = 1)
    <3>1. /\ todo' = [todo EXCEPT ![t] = Tail(todo[t])]
          /\ UNCHANGED <<pc, op, sink, success, covered, fates>>
      BY <1>6, <2>2 DEF Set
    <3> QED
      BY <1>1, <1>5, <2>2, <3>1 DEF Alone, IInv, Types, Indexed, fates
  <2> QED
    BY <2>1, <2>2
<1>20. ~buffered /\ pc'[t] # "idle" => todo'[t] # Pieces(record(t))
  <2> SUFFICES ASSUME pc'[t] # "idle", Tail(w) = Pieces(r) PROVE FALSE
    BY <1>3, <1>19
  <2>1. Remains(r, w) /\ w # <<>>
    <3>1. Remains(r, w)
      BY <1>2, <1>3, <1>5
    <3> QED
      BY <3>1, RemainsFacts
  <2>2. PICK m, n : m = Len(w) /\ n = Len(Pieces(r))
    OBVIOUS
  <2>3. n \in {1, 3} /\ (~message_is_buffered(r) => n = 3)
    <3>1. ~message_is_buffered(r) =>
            Pieces(r) = <<<<r, "prefix">>, <<r, "message">>, <<r, "newline">>>>
      BY DEF Pieces
    <3> QED
      BY <2>2, <3>1, PiecesType
  <2>4. m = n \/ (~message_is_buffered(r) /\ m \in {1, 2})
    BY <2>1, <2>2 DEF Remains
  <2>5. Len(Tail(w)) = m - 1 /\ Len(Tail(w)) = n
    BY <2>1, <2>2, HeadTailProperties
  <2> QED
    BY <2>3, <2>4, <2>5
<1>21. ASSUME Gone(s) => Gone(s)' PROVE Ordered(s)'
  <2>1. Twice(s) => Twice(s)'
    BY <1>1, <1>19 DEF Twice
  <2>2. \A i \in Begun(s)' : \E u \in Threads : Sent(u, s, output'[s][i][1])
    BY <1>12, <1>13, <1>15, <1>18 DEF Ordered
  <2>3. ASSUME ~Twice(s)
        PROVE  \A i, j \in Begun(s)' :
                 i < j => InOrder(s, output'[s][i][1], output'[s][j][1])
    <3>1. /\ \A i, j \in Begun(s) :
               i < j => InOrder(s, output[s][i][1], output[s][j][1])
      BY <1>13, <2>3 DEF Ordered
    <3>2. ASSUME NEW i \in Begun(s), NEW j \in 1 .. Len(p), Begins(p[j])
          PROVE  InOrder(s, output[s][i][1], p[j][1])
      <4>1. p[j] = e /\ ~Shown(s, r)
        BY <1>11, <1>14, <3>2
      <4>2. output[s][i][1] # r
        BY <4>1 DEF Shown
      <4> QED
        BY <1>12, <1>16, <4>1, <4>2
    <3>3. \A i, j \in 1 .. Len(p) : ~(i < j)
      BY <1>11
    <3> QED
      BY <1>9, <1>10, <3>1, <3>2, <3>3, BegunInOrder
  <2>4. DOMAIN shards'[s] = {}
    BY <1>1, <1>13
  <2> QED
    BY <1>17, <2>1, <2>2, <2>3, <2>4 DEF Ordered
<1>22. \A x : Shown(s, x)' => Shown(s, x) \/ x = r
  <2>1. DOMAIN shards'[s] = {}
    BY <1>1, <1>13
  <2> QED
    BY <1>12, <1>18, <2>1 DEF Shown, Held
<1> QED
  BY <1>1, <1>2, <1>3, <1>4, <1>9, <1>19, <1>20, <1>21, <1>22, OInvFrame

\* flush_shard writes the records of one shard after all that was written, and
\* leaves it empty unless the stream throws.
LEMMA FlushShardOrder ==
  ASSUME IInv, SInv, OInv, NEW t \in Threads, FlushShard(t)
  PROVE  OInv'
<1>1. /\ pc[t] = "stream" /\ buffered
      /\ UNCHANGED <<buffered, throwing, alive, cached, issued>>
  BY DEF FlushShard
<1>2. /\ sink[t] \in Sinks /\ todo[t] # <<>>
      /\ op[t] = "write" => issued[<<t, sink[t]>>] # <<>>
      /\ op[t] = "destroy" => sink[t] \notin alive
  BY <1>1 DEF SInv, InCall
<1>3. /\ Head(todo[t]) \in 1 .. Len(shards[sink[t]])
      /\ Buffer(t) \in Seq(Records) /\ Lines(Buffer(t)) \in Seq(Piece)
  BY <1>1, <1>2, AtShard
<1>4. PICK s \in Sinks, i \in 1 .. Len(shards[sink[t]]) :
        s = sink[t] /\ i = Head(todo[t])
  BY <1>2, <1>3
<1>5. PICK b \in Seq(Records) : b = Buffer(t) /\ b = shards[s][i].buffer
  BY <1>3, <1>4 DEF Buffer
<1>6. PICK o \in Outcomes(sink[t], Lines(Buffer(t))) :
        /\ Stream(sink[t], o)
        /\ SetBuffer(t, Rest(o, Buffer(t)))
        /\ locks' = locks \ Released(t, o)
        /\ IF o.throws THEN Return(t, "throws")
           ELSE IF op[t] = "write" THEN Return(t, Truth(ShardResult(o)))
           ELSE /\ Set(todo, t, Tail(todo[t])) /\ Set(pc, t, "next")
                /\ Set(success, t,
                       IF ShardResult(o) THEN success[t] ELSE "false")
                /\ UNCHANGED <<op, sink, covered, fates>>
  BY DEF FlushShard
<1>7. PICK y \in Seq(Piece) : y = Lines(b)
  BY <1>3, <1>5
<1>8. /\ o.good \in BOOLEAN /\ o.throws \in BOOLEAN
      /\ o.put \in Seq(Piece) /\ Len(o.put) <= Len(y)
      /\ \A k \in 1 .. Len(o.put) : o.put[k] = y[k]
      /\ o.throws => throwing
  <2>1. Sorted /\ o \in Outcomes(s, y)
    BY <1>4, <1>5, <1>6, <1>7 DEF SInv
  <2> QED
    BY <2>1, OutcomeFacts
<1>9. /\ output'[s] = output[s] \o o.put
      /\ \A q \in Sinks \ {s} : output'[q] = output[q]
  <2>1. Sorted /\ Stream(s, o)
    BY <1>4, <1>6 DEF SInv, Stream, Set
  <2> QED
    BY <1>8, <2>1, StreamFacts
<1>10. PICK rest \in Seq(Records) :
         SetBuffer(t, rest) /\ rest = IF o.throws THEN b ELSE <<>>
  <2>1. PICK rest : rest = IF o.throws THEN b ELSE <<>>
    OBVIOUS
  <2>2. rest \in Seq(Records)
    BY <2>1, EmptySeq
  <2>3. SetBuffer(t, rest)
    BY <1>5, <1>6, <2>1 DEF SetBuffer, Rest
  <2> QED
    BY <2>1, <2>2, <2>3
<1>11. /\ \A q \in Sinks \ {s} : shards'[q] = shards[q]
       /\ \A j \in DOMAIN shards[s] : j # i => shards'[s][j] = shards[s][j]
       /\ shards'[s][i].buffer = rest /\ i \in DOMAIN shards[s]
       /\ DOMAIN shards'[s] = DOMAIN shards[s]
       /\ shards'[s][i].producer = shards[s][i].producer
       /\ \A j \in DOMAIN shards[s] : shards[s][j].producer \in Threads
  <2>1. /\ shards' \in [Sinks -> Seq(Shard)]
        /\ \A q \in Sinks : Len(shards'[q]) = Len(shards[q])
        /\ \A q \in Sinks \ {s} : shards'[q] = shards[q]
        /\ \A j \in 1 .. Len(shards[s]) : j # i => shards'[s][j] = shards[s][j]
        /\ shards'[s][i].buffer = rest
    <3>1. /\ Types /\ s = sink[t] /\ i \in 1 .. Len(shards[s])
          /\ i = Head(todo[t]) /\ rest \in Seq(Records) /\ SetBuffer(t, rest)
      BY <1>4, <1>10 DEF IInv
    <3> QED
      BY <3>1, SetBufferFacts
  <2>2. /\ DOMAIN shards'[s] = 1 .. Len(shards'[s])
        /\ DOMAIN shards[s] = 1 .. Len(shards[s])
    BY <2>1 DEF IInv, Types
  <2>3. /\ shards \in [Sinks -> Seq(Shard)] /\ rest \in Seq(Records)
        /\ shards' = [shards EXCEPT ![s][i].buffer = rest]
    BY <1>4, <1>10 DEF IInv, Types, SetBuffer
  <2>4. \A j \in DOMAIN shards[s] :
          shards'[s][j].producer = shards[s][j].producer
    BY <2>3, BufferStep
  <2>5. \A j \in 1 .. Len(shards[s]) : shards[s][j].producer \in Threads
    <3>1. shards[s] \in Seq(Shard)
      BY <2>3
    <3>2. \A j \in 1 .. Len(shards[s]) : shards[s][j] \in Shard
      BY <3>1, ElementOfSeq
    <3> QED
      BY <3>2 DEF Shard
  <2> QED
    BY <1>4, <2>1, <2>2, <2>4, <2>5
<1>12. /\ rest = b \/ DOMAIN rest = {}
       /\ rest = b => \A m \in DOMAIN rest : rest[m] = b[m]
  BY <1>10
<1>13. Ordered(s) /\ Types /\ Distinct /\ Solo(t) /\ OneShard(s)
  BY DEF OInv, IInv
<1>14. PICK p \in Seq(Piece) : p = o.put /\ output[s] \in Seq(Piece)
  BY <1>8 DEF SInv, Sorted
<1>15. /\ \A j \in 1 .. Len(p) : \E m \in DOMAIN b : p[j][1] = b[m]
       /\ \A j, k \in 1 .. Len(p) :
            j < k /\ Begins(p[j]) /\ Begins(p[k]) =>
              \E m, n \in DOMAIN b : m < n /\ p[j][1] = b[m] /\ p[k][1] = b[n]
  <2>1. Len(p) <= Len(Lines(b)) /\ \A j \in 1 .. Len(p) : p[j] = Lines(b)[j]
    BY <1>7, <1>8, <1>14
  <2> QED
    BY <2>1, LinesInOrder
<1>16. output'[s] = output[s] \o p
  BY <1>9, <1>14
<1>17. \A j \in Begun(s)' :
         \/ j \in Begun(s) /\ output'[s][j] = output[s][j]
         \/ \E m \in DOMAIN b : output'[s][j][1] = b[m]
  <2>1. \A j \in Begun(s)' :
          \/ j \in Begun(s) /\ output'[s][j] = output[s][j]
          \/ \E k \in 1 .. Len(p) : output'[s][j] = p[k]
    <3> SUFFICES ASSUME NEW j \in Begun(s)'
                 PROVE  \/ j \in Begun(s) /\ output'[s][j] = output[s][j]
                        \/ \E k \in 1 .. Len(p) :
                             output'[s][j] = p[k]
      OBVIOUS
    <3>1. PICK a \in Nat, c \in Nat : a = Len(output[s]) /\ c = Len(p)
      BY <1>14, LenProperties
    <3>2. \/ j \in Begun(s) /\ j <= a /\ output'[s][j] = output[s][j]
          \/ \E k \in 1 .. c :
               j = a + k /\ output'[s][j] = p[k] /\ Begins(p[k])
      <4>1. PICK x, z : x = output[s] /\ z = output'[s]
        OBVIOUS
      <4>2. Joined(z, x, a, p, c)
        BY <1>14, <1>16, <3>1, <4>1 DEF Joined
      <4>3. BegunIn(x) = Begun(s) /\ j \in BegunIn(z)
        BY <4>1 DEF BegunIn, Begun, Begins
      <4>4. \/ j \in BegunIn(x) /\ j <= a /\ z[j] = x[j]
            \/ \E k \in 1 .. c : j = a + k /\ z[j] = p[k] /\ Begins(p[k])
        BY <4>2, <4>3, BegunJoined
      <4> QED
        BY <4>1, <4>3, <4>4
    <3> QED
      BY <3>1, <3>2
  <2>2. ASSUME NEW j, NEW k \in 1 .. Len(p), output'[s][j] = p[k]
        PROVE  \E m \in DOMAIN b : output'[s][j][1] = b[m]
    BY <1>15, <2>2
  <2> QED
    BY <2>1, <2>2
<1>18. /\ \A q, x : InOrder(s, q, x)' <=> InOrder(s, q, x)
       /\ \A u, x : Sent(u, s, x)' <=> Sent(u, s, x)
  BY <1>1 DEF InOrder, Sent
<1>19. /\ \A m \in DOMAIN b : Sent(shards[s][i].producer, s, b[m])
       /\ \A m, n \in DOMAIN b : m < n => InOrder(s, b[m], b[n])
  BY <1>5, <1>11, <1>13 DEF Ordered, Queued
<1>20. Alone(t) /\ pc'[t] # "append" /\ told \subseteq told'
  <2>1. CASE ~o.throws /\ op[t] # "write"
    <3>1. /\ pc' = [pc EXCEPT ![t] = "next"]
          /\ todo' = [todo EXCEPT ![t] = Tail(todo[t])]
          /\ success' = [success EXCEPT ![t] =
               IF ShardResult(o) THEN success[t] ELSE "false"]
          /\ UNCHANGED <<op, sink, covered, fates>>
      BY <1>6, <2>1 DEF Set
    <3> QED
      BY <3>1 DEF Alone, IInv, Types, Indexed, SInv, Sorted, fates
  <2>2. CASE o.throws \/ op[t] = "write"
    <3>1. PICK value : value = IF o.throws THEN "throws"
                               ELSE Truth(ShardResult(o))
      OBVIOUS
    <3>2. Return(t, value)
      BY <1>6, <2>2, <3>1 DEF Return, Set
    <3>3. value \in {"true", "false", "throws"}
      BY <3>1 DEF Truth
    <3> QED
      BY <1>2, <3>2, <3>3, ReturnFacts
  <2> QED
    BY <2>1, <2>2
<1>21. pc'[t] # "idle" => op'[t] = op[t] /\ sink'[t] = s
  <2>1. CASE o.throws \/ op[t] = "write"
    <3>1. pc'[t] = "idle"
      BY <1>6, <2>1 DEF Return, Set, SInv, Sorted
    <3> QED
      BY <3>1
  <2>2. CASE ~(o.throws \/ op[t] = "write")
    BY <1>4, <1>6, <2>2
  <2> QED
    BY <2>1, <2>2
<1>22. o.throws => Twice(s)' \/ Gone(s)'
  <2> SUFFICES ASSUME o.throws PROVE Twice(s)' \/ Gone(s)'
    OBVIOUS
  <2>1. Return(t, "throws") /\ throwing
    BY <1>6, <1>8
  <2>2. CASE op[t] = "destroy"
    <3>1. \A u \in Threads : pc'[u] # "idle" => u # t /\ pc[u] # "idle"
                                                /\ sink'[u] = sink[u]
      BY <1>20, <2>1 DEF Alone, Return, Set, SInv, Sorted
    <3>2. \A u \in Threads : pc'[u] # "idle" => sink'[u] # s
      BY <1>1, <1>4, <1>13, <2>2, <3>1 DEF Solo
    <3> QED
      BY <1>1, <1>2, <1>4, <2>2, <3>2 DEF Gone, Busy
  <2>3. CASE op[t] # "destroy"
    <3>1. s \in told'
      BY <1>2, <1>4, <2>1, <2>3, ReturnFacts
    <3> QED
      BY <1>1, <2>1, <3>1 DEF Twice
  <2> QED
    BY <2>2, <2>3
<1>23. ~Gone(s)
  BY <1>1, <1>4 DEF Gone, Busy
<1>24. \A j \in DOMAIN shards'[s] : Queued(s, j)'
  <2>1. Queued(s, i)'
    BY <1>11, <1>12, <1>18, <1>19 DEF Queued
  <2>2. ASSUME NEW j \in DOMAIN shards[s], j # i PROVE Queued(s, j)'
    <3>1. Queued(s, j) /\ shards'[s][j] = shards[s][j]
      BY <1>11, <1>13, <2>2 DEF Ordered
    <3> QED
      BY <1>18, <3>1 DEF Queued
  <2> QED
    BY <1>11, <2>1, <2>2
<1>25. Twice(s) => Twice(s)'
  BY <1>1, <1>20 DEF Twice
<1>26. \A j \in Begun(s)' : \E u \in Threads : Sent(u, s, output'[s][j][1])
  BY <1>11, <1>13, <1>17, <1>19 DEF Ordered
<1>27. ASSUME ~Twice(s)
       PROVE  \A j, k \in Begun(s)' :
                j < k => InOrder(s, output'[s][j][1], output'[s][k][1])
  <2>1. /\ \A j, k \in Begun(s) :
             j < k => InOrder(s, output[s][j][1], output[s][k][1])
        /\ \A j \in Begun(s), m \in DOMAIN b : InOrder(s, output[s][j][1], b[m])
    BY <1>5, <1>11, <1>13, <1>23, <1>27 DEF Ordered
  <2>2. \A j \in Begun(s), k \in 1 .. Len(p) :
          InOrder(s, output[s][j][1], p[k][1])
    BY <1>15, <2>1
  <2>3. \A j, k \in 1 .. Len(p) :
          j < k /\ Begins(p[j]) /\ Begins(p[k]) => InOrder(s, p[j][1], p[k][1])
    BY <1>15, <1>19
  <2> QED
    BY <1>14, <1>16, <2>1, <2>2, <2>3, BegunInOrder
<1>28. ASSUME ~Twice(s), ~o.throws, NEW j \in Begun(s)',
              NEW k \in DOMAIN shards[s], NEW m \in DOMAIN shards'[s][k].buffer
       PROVE  InOrder(s, output'[s][j][1], shards'[s][k].buffer[m])
  <2>1. k # i
    <3>1. rest = <<>>
      BY <1>10, <1>28
    <3> QED
      BY <1>11, <1>28, <3>1
  <2>2. shards'[s][k] = shards[s][k]
    BY <1>11, <2>1
  <2>3. PICK x : x = shards[s][k].buffer[m]
    OBVIOUS
  <2>4. CASE j \in Begun(s) /\ output'[s][j] = output[s][j]
    BY <1>13, <1>23, <1>28, <2>2, <2>4 DEF Ordered
  <2>5. CASE \E n \in DOMAIN b : output'[s][j][1] = b[n]
    <3>1. PICK n \in DOMAIN b : output'[s][j][1] = b[n]
      BY <2>5
    <3>2. PICK u \in Threads, v \in Threads :
            u = shards[s][i].producer /\ v = shards[s][k].producer
      BY <1>11
    <3>3. Sent(u, s, b[n]) /\ Sent(v, s, x)
      BY <1>13, <1>19, <1>28, <2>2, <2>3, <3>2 DEF Ordered, Queued
    <3>4. u # v
      BY <1>11, <1>13, <2>1, <3>2 DEF OneShard
    <3> QED
      BY <1>13, <2>2, <2>3, <3>1, <3>3, <3>4, OthersInOrder
  <2> QED
    BY <1>17, <2>4, <2>5
<1>29. Ordered(s)'
  <2>1. Twice(s)' \/ Gone(s)' \/ \A j \in Begun(s)', k \in DOMAIN shards'[s] :
          \A m \in DOMAIN shards'[s][k].buffer :
            InOrder(s, output'[s][j][1], shards'[s][k].buffer[m])
    BY <1>11, <1>22, <1>25, <1>28
  <2>2. Twice(s)' \/ \A j, k \in Begun(s)' :
          j < k => InOrder(s, output'[s][j][1], output'[s][k][1])
    BY <1>25, <1>27
  <2> QED
    BY <1>18, <1>24, <1>26, <2>1, <2>2 DEF Ordered
<1>30. \A x : Shown(s, x)' => Shown(s, x)
  <2>1. \A m \in DOMAIN b : Shown(s, b[m])
    BY <1>5, <1>11 DEF Shown, Held, ToSet
  <2>2. ASSUME NEW j \in Begun(s)' PROVE Shown(s, output'[s][j][1])
    <3>1. CASE j \in Begun(s) /\ output'[s][j] = output[s][j]
      BY <3>1 DEF Shown
    <3> QED
      BY <1>17, <2>1, <3>1
  <2>3. ASSUME NEW k \in DOMAIN shards[s], NEW m \in DOMAIN shards'[s][k].buffer
        PROVE  Shown(s, shards'[s][k].buffer[m])
    <3>1. CASE k = i
      BY <1>11, <1>12, <2>1, <3>1
    <3>2. CASE k # i
      <4>1. shards'[s][k] = shards[s][k]
        BY <1>11, <3>2
      <4> QED
        BY <4>1 DEF Shown, Held, ToSet
    <3> QED
      BY <3>1, <3>2
  <2> SUFFICES ASSUME NEW x, Shown(s, x)' PROVE Shown(s, x)
    OBVIOUS
  <2>4. \/ \E j \in Begun(s)' : output'[s][j][1] = x
        \/ \E k \in DOMAIN shards[s] : \E m \in DOMAIN shards'[s][k].buffer :
             shards'[s][k].buffer[m] = x
    BY <1>11 DEF Shown, Held, ToSet
  <2> QED
    BY <2>2, <2>3, <2>4
<1> QED
  BY <1>1, <1>4, <1>9, <1>11, <1>20, <1>21, <1>29, <1>30, OInvFrame

\* A new write: its record is not among those that anybody wrote.
LEMMA CallWriteOrder ==
  ASSUME IInv, SInv, OInv, NEW t \in Threads, NEW s \in Sinks, CallWrite(t, s)
  PROVE  OInv'
<1>1. PICK r \in Records :
        /\ \A w \in DOMAIN issued : ~Contains(issued[w], r)
        /\ issued' = [issued EXCEPT ![<<t, s>>] = Append(@, r)]
        /\ IF buffered
           THEN /\ Begin(t, s, "write", "append", <<Found(t, s)>>)
                /\ Set(cached, t, [id |-> s, shard |-> Found(t, s)])
                /\ Register(t, s)
           ELSE /\ Begin(t, s, "write", "output", Pieces(r))
                /\ UNCHANGED <<cached, shards>>
  BY DEF CallWrite
<1>2. /\ pc[t] = "idle" /\ s \in alive /\ UNCHANGED alive
      /\ UNCHANGED <<buffered, throwing, streams, fates>>
      /\ \E label, work :
           /\ pc' = [pc EXCEPT ![t] = label] /\ op' = [op EXCEPT ![t] = "write"]
           /\ sink' = [sink EXCEPT ![t] = s]
           /\ todo' = [todo EXCEPT ![t] = work]
      /\ ~buffered => UNCHANGED shards
  BY <1>1 DEF CallWrite, Begin, Set
<1>3. /\ \A u \in Threads \ {t} :
           /\ pc'[u] = pc[u] /\ op'[u] = op[u] /\ sink'[u] = sink[u]
           /\ todo'[u] = todo[u]
      /\ op'[t] = "write" /\ sink'[t] = s
  BY <1>2 DEF IInv, Types, Indexed, SInv, Sorted
<1>4. PICK v \in Threads \X Sinks : v = <<t, s>>
  OBVIOUS
<1>0. PICK n \in Nat : n = Len(issued[v])
  <2>1. issued[v] \in Seq(Records)
    BY DEF IInv, Types
  <2> QED
    BY <2>1, LenProperties
<1>5. /\ \A w \in Threads \X Sinks : w # v => issued'[w] = issued[w]
      /\ DOMAIN issued[v] = 1 .. n /\ DOMAIN issued'[v] = 1 .. n + 1
      /\ \A a \in 1 .. n : issued'[v][a] = issued[v][a]
      /\ issued'[v][n + 1] = r
  <2>1. /\ issued[v] \in Seq(Records)
        /\ issued \in [Threads \X Sinks -> Seq(Records)]
    BY DEF IInv, Types
  <2>2. PICK y \in Seq(Records) : y = Append(issued[v], r)
    BY <2>1, AppendProperties
  <2>3. /\ issued' = [issued EXCEPT ![v] = y]
    BY <1>1, <1>4, <2>2
  <2>4. /\ Len(y) = n + 1 /\ y[n + 1] = r
        /\ \A a \in 1 .. n : y[a] = issued[v][a]
    BY <1>0, <2>1, <2>2, AppendProperties
  <2> QED
    BY <1>0, <2>1, <2>2, <2>3, <2>4
<1>6. \A w \in Threads \X Sinks : \A a \in DOMAIN issued[w] : issued[w][a] # r
  <2>1. \A w \in Threads \X Sinks : ~Contains(issued[w], r)
    BY <1>1 DEF IInv, Types
  <2> QED
    BY <2>1 DEF Contains
<1>7. \A w \in Threads \X Sinks : \A a \in DOMAIN issued'[w] :
        \/ a \in DOMAIN issued[w] /\ issued'[w][a] = issued[w][a]
        \/ w = v /\ a = n + 1 /\ issued'[w][a] = r
  <2> SUFFICES ASSUME NEW a \in DOMAIN issued'[v]
               PROVE  \/ a \in DOMAIN issued[v] /\ issued'[v][a] = issued[v][a]
                      \/ a = n + 1 /\ issued'[v][a] = r
    BY <1>5
  <2>1. a \in 1 .. n \/ a = n + 1
    BY <1>5
  <2> QED
    BY <1>5, <2>1
<1>8. Distinct'
  <2> SUFFICES ASSUME NEW w \in Threads \X Sinks, NEW x \in Threads \X Sinks,
                      NEW a \in DOMAIN issued'[w], NEW b \in DOMAIN issued'[x],
                      issued'[w][a] = issued'[x][b]
               PROVE  w = x /\ a = b
    BY DEF Distinct
  <2> QED
    BY <1>6, <1>7 DEF OInv, Distinct
<1>9. \A q \in Sinks : \A u \in Threads : \A x : Sent(u, q, x) =>
        Sent(u, q, x)' /\ x # r
  <2> SUFFICES ASSUME NEW q \in Sinks, NEW u \in Threads, NEW x, Sent(u, q, x)
               PROVE  Sent(u, q, x)' /\ x # r
    OBVIOUS
  <2>1. PICK w \in Threads \X Sinks : w = <<u, q>>
    OBVIOUS
  <2>2. PICK a \in DOMAIN issued[w] : issued[w][a] = x
    BY <2>1 DEF Sent
  <2>3. a \in DOMAIN issued'[w] /\ issued'[w][a] = x
    <3>1. CASE w = v
      <4>1. a \in 1 .. n /\ a \in 1 .. n + 1
        BY <1>5, <2>2, <3>1
      <4> QED
        BY <1>5, <2>2, <3>1, <4>1
    <3>2. CASE w # v
      BY <1>5, <2>2, <3>2
    <3> QED
      BY <3>1, <3>2
  <2> QED
    BY <1>6, <2>1, <2>2, <2>3 DEF Sent
<1>10. \A q \in Sinks : \A x, z : x # r /\ z # r /\ InOrder(q, x, z) =>
         InOrder(q, x, z)'
  <2> SUFFICES ASSUME NEW q \in Sinks, NEW x, NEW z, x # r, z # r,
                      InOrder(q, x, z), NEW u \in Threads,
                      NEW a \in DOMAIN issued'[<<u, q>>],
                      NEW b \in DOMAIN issued'[<<u, q>>],
                      issued'[<<u, q>>][a] = x, issued'[<<u, q>>][b] = z
               PROVE  a < b
    BY DEF InOrder
  <2>1. PICK w \in Threads \X Sinks : w = <<u, q>>
    OBVIOUS
  <2>2. /\ a \in DOMAIN issued[w] /\ issued[w][a] = x
        /\ b \in DOMAIN issued[w] /\ issued[w][b] = z
    BY <1>7, <2>1
  <2> QED
    BY <2>1, <2>2 DEF InOrder
<1>11. /\ \A q \in Sinks : \A i \in DOMAIN shards[q] :
            i \in DOMAIN shards'[q] /\ shards'[q][i] = shards[q][i]
       /\ \A q \in Sinks : \A i \in DOMAIN shards'[q] :
            \/ i \in DOMAIN shards[q] /\ shards'[q][i] = shards[q][i]
            \/ DOMAIN shards'[q][i].buffer = {}
  <2>1. CASE shards' = shards
    BY <2>1
  <2>2. CASE shards' = [shards EXCEPT ![s] =
                  Append(shards[s], [producer |-> t, buffer |-> <<>>])]
    <3>1. PICK e : e = [producer |-> t, buffer |-> <<>>]
      OBVIOUS
    <3>2. e \in Shard /\ DOMAIN e.buffer = {} /\ shards[s] \in Seq(Shard)
      <4>1. PICK b \in Seq(Records) : b = <<>>
        BY EmptySeq
      <4>3. DOMAIN b = {}
        BY <4>1
      <4>2. e = [producer |-> t, buffer |-> b]
        BY <3>1, <4>1
      <4> QED
        BY <4>1, <4>2, <4>3 DEF Shard, IInv, Types
    <3>3. PICK l \in Nat : l = Len(shards[s]) /\ DOMAIN shards[s] = 1 .. l
      BY <3>2
    <3>4. PICK y \in Seq(Shard) : y = Append(shards[s], e)
      BY <3>2, AppendProperties
    <3>5. /\ DOMAIN y = 1 .. l + 1 /\ y[l + 1] = e
          /\ \A i \in 1 .. l : y[i] = shards[s][i]
      BY <3>2, <3>3, <3>4, AppendProperties
    <3>6. shards'[s] = y /\ \A q \in Sinks \ {s} : shards'[q] = shards[q]
      BY <2>2, <3>1, <3>4 DEF IInv, Types
    <3>7. \A i \in 1 .. l : i \in 1 .. l + 1
      OBVIOUS
    <3>8. \A i \in 1 .. l + 1 : i \in 1 .. l \/ i = l + 1
      OBVIOUS
    <3> QED
      BY <3>2, <3>3, <3>5, <3>6, <3>7, <3>8
  <2> QED
    BY <1>1, <2>1, <2>2 DEF Register, Set
<1>12. /\ \A q \in Sinks : Begun(q)' = Begun(q) /\ output'[q] = output[q]
       /\ \A q \in Sinks : Gone(q) => Gone(q)'
       /\ \A q \in Sinks : Twice(q) => Twice(q)'
  <2>1. ASSUME NEW q \in Sinks, Gone(q) PROVE Gone(q)'
    BY <1>2, <1>3, <2>1 DEF Gone, Busy
  <2> QED
    BY <1>2, <2>1 DEF Begun, Twice, streams, fates
<1>13. \A q \in Sinks : \A x : Shown(q, x) => \E u \in Threads : Sent(u, q, x)
  <2> SUFFICES ASSUME NEW q \in Sinks, NEW x, Shown(q, x)
               PROVE  \E u \in Threads : Sent(u, q, x)
    OBVIOUS
  <2>1. Ordered(q)
    BY DEF OInv
  <2>2. CASE \E i \in Begun(q) : output[q][i][1] = x
    BY <2>1, <2>2 DEF Ordered
  <2>3. CASE \E k \in DOMAIN shards[q] : Held(q, k, x)
    <3>1. PICK k \in DOMAIN shards[q] : Held(q, k, x)
      BY <2>3
    <3>2. PICK m \in DOMAIN shards[q][k].buffer : x = shards[q][k].buffer[m]
      BY <3>1 DEF Held, ToSet
    <3>3. Sent(shards[q][k].producer, q, x)
      BY <2>1, <3>2 DEF Ordered, Queued
    <3>4. shards[q][k].producer \in Threads
      <4>1. shards[q] \in Seq(Shard)
        BY DEF IInv, Types
      <4>2. shards[q][k] \in Shard
        BY <4>1, ElementOfSeq
      <4> QED
        BY <4>2 DEF Shard
    <3> QED
      BY <3>3, <3>4
  <2> QED
    BY <2>2, <2>3 DEF Shown
<1>14. \A q \in Sinks : \A x : Shown(q, x)' <=> Shown(q, x)
  <2>1. \A q \in Sinks : \A x :
          (\E k \in DOMAIN shards'[q] : Held(q, k, x)')
            <=> \E k \in DOMAIN shards[q] : Held(q, k, x)
    BY <1>11 DEF Held, ToSet
  <2> QED
    BY <1>12, <2>1 DEF Shown
<1>15. ASSUME NEW q \in Sinks PROVE Ordered(q)'
  <2>1. Ordered(q)
    BY DEF OInv
  <2>2. \A x : Shown(q, x) => x # r
    BY <1>9, <1>13
  <2>3. /\ \A i \in Begun(q) : output[q][i][1] # r
        /\ \A k \in DOMAIN shards[q] : \A m \in DOMAIN shards[q][k].buffer :
             shards[q][k].buffer[m] # r
    BY <2>2 DEF Shown, Held, ToSet
  <2>4. ASSUME NEW i \in DOMAIN shards'[q] PROVE Queued(q, i)'
    <3>1. CASE i \in DOMAIN shards[q] /\ shards'[q][i] = shards[q][i]
      <4>1. PICK e \in Shard : e = shards[q][i]
        <5>1. shards[q] \in Seq(Shard)
          BY DEF IInv, Types
        <5> QED
          BY <3>1, <5>1, ElementOfSeq
      <4>2. /\ \A m \in DOMAIN e.buffer : Sent(e.producer, q, e.buffer[m])
            /\ \A m, l \in DOMAIN e.buffer :
                 m < l => InOrder(q, e.buffer[m], e.buffer[l])
            /\ \A m \in DOMAIN e.buffer : e.buffer[m] # r
            /\ e.producer \in Threads
        BY <2>1, <2>3, <3>1, <4>1 DEF Ordered, Queued, Shard
      <4>3. /\ \A m \in DOMAIN e.buffer : Sent(e.producer, q, e.buffer[m])'
            /\ \A m, l \in DOMAIN e.buffer :
                 m < l => InOrder(q, e.buffer[m], e.buffer[l])'
        BY <1>9, <1>10, <4>2
      <4> QED
        BY <3>1, <4>1, <4>3 DEF Queued
    <3>2. CASE DOMAIN shards'[q][i].buffer = {}
      BY <3>2 DEF Queued
    <3> QED
      BY <1>11, <3>1, <3>2
  <2>5. \A i \in Begun(q) : \E u \in Threads : Sent(u, q, output[q][i][1])'
    BY <1>9, <1>12, <2>1 DEF Ordered
  <2>6. Twice(q)' \/ \A i, j \in Begun(q) :
          i < j => InOrder(q, output[q][i][1], output[q][j][1])'
    <3>1. ASSUME NEW i \in Begun(q), NEW j \in Begun(q),
                 InOrder(q, output[q][i][1], output[q][j][1])
          PROVE  InOrder(q, output[q][i][1], output[q][j][1])'
      BY <1>10, <1>12, <2>3, <3>1
    <3> QED
      BY <1>12, <2>1, <3>1 DEF Ordered
  <2>7. Twice(q)' \/ Gone(q)' \/ \A i \in Begun(q), k \in DOMAIN shards'[q] :
          \A m \in DOMAIN shards'[q][k].buffer :
            InOrder(q, output[q][i][1], shards[q][k].buffer[m])'
    <3>1. ASSUME NEW i \in Begun(q), NEW k \in DOMAIN shards[q],
                 NEW m \in DOMAIN shards[q][k].buffer,
                 InOrder(q, output[q][i][1], shards[q][k].buffer[m]),
                 shards'[q][k] = shards[q][k]
          PROVE  InOrder(q, output[q][i][1], shards[q][k].buffer[m])'
      BY <1>10, <1>12, <2>3, <3>1
    <3>2. \/ Twice(q)' \/ Gone(q)'
          \/ \A i \in Begun(q), k \in DOMAIN shards[q] :
             \A m \in DOMAIN shards[q][k].buffer :
               InOrder(q, output[q][i][1], shards[q][k].buffer[m])
      BY <1>12, <2>1 DEF Ordered
    <3>3. ASSUME NEW i \in Begun(q), NEW k \in DOMAIN shards'[q],
                 NEW m \in DOMAIN shards'[q][k].buffer,
                 \A j \in Begun(q), h \in DOMAIN shards[q] :
                   \A a \in DOMAIN shards[q][h].buffer :
                     InOrder(q, output[q][j][1], shards[q][h].buffer[a])
          PROVE  InOrder(q, output[q][i][1], shards[q][k].buffer[m])'
      <4>1. k \in DOMAIN shards[q] /\ shards'[q][k] = shards[q][k]
        BY <1>11
      <4>2. InOrder(q, output[q][i][1], shards[q][k].buffer[m])'
        BY <3>1, <3>3, <4>1
      <4> QED
        BY <4>1, <4>2
    <3> QED
      BY <3>2, <3>3
  <2> QED
    BY <1>12, <2>4, <2>5, <2>6, <2>7 DEF Ordered
<1>16. ASSUME NEW u \in Threads PROVE Pending(u)'
  <2>1. CASE u = t
    <3>1. record(t)' = r
      <4>1. PICK y \in Seq(Records) : y = issued[v]
        BY DEF IInv, Types
      <4>2. issued'[v] = Append(y, r)
        BY <1>1, <1>4, <4>1 DEF IInv, Types
      <4>3. Last(Append(y, r)) = r
        BY AppendProperties DEF Last
      <4> QED
        BY <1>3, <1>4, <4>2, <4>3 DEF record
    <3>2. ~Shown(s, r)'
      BY <1>9, <1>13, <1>14
    <3> QED
      BY <1>3, <2>1, <3>1, <3>2 DEF Pending
  <2>2. CASE u # t
    <3> SUFFICES ASSUME pc[u] # "idle",
                        \/ pc[u] = "append"
                        \/ /\ ~buffered
                           /\ todo[u] = Pieces(record(u))'
                 PROVE  ~Shown(sink[u], record(u))'
      BY <1>2, <1>3, <2>2 DEF Pending
    <3>1. PICK q \in Sinks : q = sink[u]
      BY DEF SInv, InCall
    <3>2. PICK x : x = record(u)
      OBVIOUS
    <3>3. record(u)' = x
      <4>1. PICK w \in Threads \X Sinks : w = <<u, q>>
        OBVIOUS
      <4>2. w # v
        BY <1>4, <2>2, <4>1
      <4> QED
        BY <1>3, <1>5, <2>2, <3>1, <3>2, <4>1, <4>2 DEF record
    <3>4. \/ pc[u] = "append"
          \/ ~buffered /\ todo[u] = Pieces(record(u))
      <4>1. Pieces(record(u))' = Pieces(x)
        BY <3>3 DEF Pieces, fates, streams
      <4> QED
        BY <1>2, <1>3, <2>2, <3>2, <4>1
    <3>5. ~Shown(q, x)
      BY <3>1, <3>2, <3>4 DEF OInv, Pending
    <3>6. sink'[u] = q
      BY <1>3, <2>2, <3>1
    <3> QED
      BY <1>14, <3>3, <3>5, <3>6
  <2> QED
    BY <2>1, <2>2
<1>17. ASSUME NEW u \in Threads PROVE Solo(u)'
  <2> SUFFICES ASSUME pc'[u] # "idle", op'[u] = "destroy", NEW x \in Threads,
                      pc'[x] # "idle", sink'[x] = sink'[u]
               PROVE  x = u
    BY DEF Solo
  <2>1. u # t /\ pc[u] # "idle" /\ op[u] = "destroy" /\ sink'[u] = sink[u]
    BY <1>3
  <2>2. sink[u] \notin alive
    BY <2>1 DEF SInv, InCall
  <2>3. x # t
    BY <1>2, <1>3, <2>1, <2>2
  <2> QED
    BY <1>3, <2>1, <2>3 DEF OInv, Solo
<1>18. ~buffered' => \A q \in Sinks : shards'[q] = <<>>
  BY <1>2 DEF OInv
<1> QED
  BY <1>8, <1>15, <1>16, <1>17, <1>18 DEF OInv

\* flush() and the destructor: nobody else uses a sink that is destroyed.
LEMMA CallFlushOrder ==
  ASSUME IInv, SInv, OInv, NEW t \in Threads, NEW s \in Sinks, CallFlush(t, s)
  PROVE  OInv'
<1>1. /\ buffered /\ pc[t] = "idle" /\ s \in alive
      /\ UNCHANGED <<buffered, throwing, streams, fates, shards, issued>>
      /\ alive' \subseteq alive
      /\ pc' = [pc EXCEPT ![t] = "next"] /\ sink' = [sink EXCEPT ![t] = s]
      /\ todo' = [todo EXCEPT ![t] = FlushOrder(s)]
      /\ \/ op' = [op EXCEPT ![t] = "flush"]
         \/ op' = [op EXCEPT ![t] = "destroy"] /\ ~Busy(s)
  BY DEF CallFlush, Begin, Set
<1>2. /\ \A u \in Threads \ {t} :
           /\ pc'[u] = pc[u] /\ op'[u] = op[u] /\ sink'[u] = sink[u]
           /\ todo'[u] = todo[u]
      /\ pc'[t] = "next" /\ sink'[t] = s
      /\ op'[t] = "flush" \/ (op'[t] = "destroy" /\ ~Busy(s))
  BY <1>1 DEF IInv, Types, Indexed, SInv, Sorted
<1>3. ASSUME NEW q \in Sinks, Gone(q) PROVE Gone(q)'
  <2>1. q # s
    BY <1>1, <1>3 DEF Gone
  <2> QED
    BY <1>1, <1>2, <1>3, <2>1 DEF Gone, Busy
<1>4. ASSUME NEW q \in Sinks
      PROVE  Ordered(q)' /\ \A r : Shown(q, r)' <=> Shown(q, r)
  <2>1. /\ Ordered(q) /\ output'[q] = output[q] /\ shards'[q] = shards[q]
        /\ UNCHANGED <<issued, throwing>> /\ told \subseteq told'
    BY <1>1 DEF OInv, streams, fates
  <2> QED
    BY <1>3, <2>1, SameOrder
<1>5. ASSUME NEW u \in Threads PROVE Pending(u)'
  <2> SUFFICES ASSUME pc'[u] = "append"
               PROVE  ~Shown(sink[u], record(u))'
    BY <1>1 DEF Pending
  <2>1. u # t /\ pc[u] = "append" /\ sink'[u] = sink[u]
    BY <1>2
  <2>2. PICK q \in Sinks : q = sink[u]
    BY <2>1 DEF SInv, InCall
  <2>3. PICK r : r = record(u)
    OBVIOUS
  <2>4. record(u)' = r
    BY <1>1, <2>1, <2>3 DEF record
  <2>5. ~Shown(q, r)
    BY <2>1, <2>2, <2>3 DEF OInv, Pending
  <2> QED
    BY <1>4, <2>1, <2>2, <2>4, <2>5
<1>6. ASSUME NEW u \in Threads PROVE Solo(u)'
  <2> SUFFICES ASSUME pc'[u] # "idle", op'[u] = "destroy", NEW x \in Threads,
                      pc'[x] # "idle", sink'[x] = sink'[u]
               PROVE  x = u
    BY DEF Solo
  <2>1. CASE u = t
    BY <1>2, <2>1 DEF Busy
  <2>2. CASE u # t
    <3>1. pc[u] # "idle" /\ op[u] = "destroy" /\ sink'[u] = sink[u]
      BY <1>2, <2>2
    <3>2. sink[u] \notin alive
      BY <3>1 DEF SInv, InCall
    <3>3. x # t
      BY <1>1, <1>2, <3>1, <3>2
    <3> QED
      BY <1>2, <3>1, <3>3 DEF OInv, Solo
  <2> QED
    BY <2>1, <2>2
<1>7. Distinct'
  BY <1>1 DEF OInv, Distinct
<1> QED
  BY <1>1, <1>4, <1>5, <1>6, <1>7 DEF OInv

\* The application repairs a stream, a thread ends, or nothing happens.
LEMMA OutsideOrder ==
  ASSUME OInv, UNCHANGED <<buffered, throwing, alive, shards, output, pc, op,
                           sink, todo, issued, told>>
  PROVE  OInv'
<1>1. ASSUME NEW q \in Sinks
      PROVE  Ordered(q)' /\ \A r : Shown(q, r)' <=> Shown(q, r)
  <2>1. Ordered(q) /\ (Gone(q) => Gone(q)')
    BY DEF OInv, Gone, Busy
  <2> QED
    BY <2>1, SameOrder
<1>2. ASSUME NEW t \in Threads PROVE Pending(t)' /\ Solo(t)'
  <2>1. record(t)' = record(t)
    BY DEF record
  <2>2. \A q, r : Shown(q, r)' <=> Shown(q, r)
    BY DEF Shown, Begun, Held
  <2>3. Pending(t)'
    BY <2>1, <2>2 DEF OInv, Pending
  <2>4. Solo(t)'
    BY DEF OInv, Solo
  <2> QED
    BY <2>3, <2>4
<1>3. Distinct'
  BY DEF OInv, Distinct
<1> QED
  BY <1>1, <1>2, <1>3 DEF OInv

LEMMA OInvStep == IInv /\ SInv /\ OInv /\ [Next]_vars => OInv'
<1> SUFFICES ASSUME IInv, SInv, OInv, [Next]_vars PROVE OInv'
  OBVIOUS
<1>1. ASSUME NEW t \in Threads, Step(t) PROVE OInv'
  BY <1>1, AppendOrder, LockOutputOrder, WritePieceOrder, FlushShardOrder,
     FlushNextOrder, FlushEndOrder DEF Step
<1>2. ASSUME NEW t \in Threads, Restart(t) PROVE OInv'
  BY <1>2, OutsideOrder DEF Restart, streams, locals, fates
<1>3. ASSUME NEW t \in Threads, NEW s \in Sinks,
             CallWrite(t, s) \/ CallFlush(t, s)
      PROVE  OInv'
  BY <1>3, CallWriteOrder, CallFlushOrder
<1>4. ASSUME NEW s \in Sinks, Repair(s) PROVE OInv'
  BY <1>4, OutsideOrder DEF Repair, locals, fates
<1>5. CASE UNCHANGED vars
  BY <1>5, OutsideOrder DEF vars
<1> QED
  BY <1>1, <1>2, <1>3, <1>4, <1>5 DEF Next
-----------------------------------------------------------------------------
(* What the runs check, for any threads, sinks, records and thresholds.    *)

LEMMA AllInvariant == Spec => [](IInv /\ SInv /\ DInv)
<1>1. Init => IInv /\ SInv /\ DInv
  BY IInvInit, SInvInit, DInvInit
<1>2. IInv /\ SInv /\ DInv /\ [Next]_vars => (IInv /\ SInv /\ DInv)'
  BY IInvStep, SInvStep, DInvStep
<1> QED
  BY <1>1, <1>2, PTL DEF Spec

\* Every variable keeps its type, and a shard that no call has locked is below
\* the threshold of its sink, unless a stream that throws left it full.
THEOREM TypeCorrect == Spec => []TypeOK
<1>1. IInv /\ SInv /\ DInv => TypeOK
  <2> SUFFICES ASSUME IInv, SInv, DInv PROVE TypeOK
    OBVIOUS
  <2>1. ASSUME NEW s \in Sinks, NEW i \in DOMAIN shards[s]
        PROVE  /\ shards[s][i].producer \in Threads
               /\ shards[s][i].buffer \in Seq(Records)
               /\ LET b == shards[s][i].buffer IN
                  \/ throwing \/ <<s, i>> \in locks
                  \/ FoldLeft(LAMBDA n, r : n + LineSize(r), 0, b)
                       < FlushThreshold
    <3>1. shards[s][i] \in Shard
      BY DEF IInv, Types
    <3>2. PICK b : b = shards[s][i].buffer
      OBVIOUS
    <3>3. throwing \/ <<s, i>> \in locks \/ BelowThreshold(b)
      BY <3>2 DEF DInv, Low
    <3>4. BelowThreshold(b) =>
            FoldLeft(LAMBDA n, r : n + LineSize(r), 0, b) < FlushThreshold
      BY BelowThresholdSays
    <3>5. PICK k : k = FoldLeft(LAMBDA n, r : n + LineSize(r), 0, b)
      OBVIOUS
    <3>6. \/ throwing \/ <<s, i>> \in locks
          \/ FoldLeft(LAMBDA n, r : n + LineSize(r), 0, b) < FlushThreshold
      BY <3>3, <3>4
    <3>7. \/ throwing \/ <<s, i>> \in locks
          \/ FoldLeft(LAMBDA n, r : n + LineSize(r), 0, shards[s][i].buffer)
               < FlushThreshold
      BY <3>2, <3>6
    <3>8. /\ shards[s][i].producer \in Threads
          /\ shards[s][i].buffer \in Seq(Records)
      BY <3>1 DEF Shard
    <3> QED
      BY <3>7, <3>8
  <2>2. \A s \in Sinks : ToSet(output[s]) \subseteq
          Records \X {"line", "prefix", "message", "newline"}
    <3> SUFFICES ASSUME NEW s \in Sinks, NEW p \in ToSet(output[s])
                 PROVE  p \in Piece
      BY DEF Piece
    <3>1. output[s] \in Seq(Piece)
      BY DEF SInv, Sorted
    <3> QED
      BY <3>1 DEF ToSet
  <2> QED
    BY <2>1, <2>2 DEF TypeOK, SInv, Sorted, IInv, Types
<1> QED
  BY <1>1, AllInvariant, PTL

\* Whatever fails, and however the calls of the threads interleave, no line
\* on a stream is broken by a piece of another.
THEOREM LinesStayWhole == Spec => []LinesWhole
<1>1. SInv /\ DInv => LinesWhole
  <2> SUFFICES ASSUME SInv, DInv, NEW s \in Sinks, NEW i \in DOMAIN output[s]
               PROVE  /\ output[s][i][2] = "message" =>
                           i > 1 /\ output[s][i-1] = <<output[s][i][1], "prefix">>
                      /\ output[s][i][2] = "newline" =>
                           i > 1 /\ output[s][i-1] = <<output[s][i][1], "message">>
    BY DEF LinesWhole
  <2>1. PICK z \in Seq(Piece) : z = output[s] /\ Whole(z)
    BY DEF SInv, Sorted, DInv
  <2>2. i \in 1 .. Len(z)
    BY <2>1
  <2> QED
    BY <2>1, <2>2 DEF Whole
<1> QED
  BY <1>1, AllInvariant, PTL

\* A record that write() accepted is not lost in silence: it is in a shard or
\* on the stream, or a call on its sink has reported a failure or will.
THEOREM LossIsReported == Spec => []LossReported
<1>1. DInv => LossReported
  BY DEF DInv, Loss, LossReported
<1> QED
  BY <1>1, AllInvariant, PTL

\* Only the end of a flush takes a call from "next" back to the application.
LEMMA OnlyFlushEnds ==
  ASSUME SInv, [Next]_vars, NEW t \in Threads, pc[t] = "next", pc'[t] = "idle"
  PROVE  FlushEnd(t)
<1> DEFINE Moves(u) == pc' = pc \/ \E x : pc' = [pc EXCEPT ![u] = x]
<1>1. ASSUME NEW u \in Threads, Moves(u) PROVE u = t
  BY <1>1 DEF SInv, Sorted
<1>2. ASSUME NEW u \in Threads, Step(u) PROVE FlushEnd(t)
  <2>1. ASSUME AppendRecord(u) PROVE Moves(u) /\ pc[u] = "append"
    BY <2>1 DEF AppendRecord, Return, Set
  <2>2. ASSUME LockOutput(u) PROVE Moves(u) /\ pc[u] = "output"
    BY <2>2 DEF LockOutput, Set
  <2>3. ASSUME WritePiece(u) PROVE Moves(u) /\ pc[u] = "stream"
    BY <2>3 DEF WritePiece, Return, Set
  <2>4. ASSUME FlushShard(u) PROVE Moves(u) /\ pc[u] = "stream"
    BY <2>4 DEF FlushShard, Return, Set
  <2>5. ASSUME FlushNext(u)
        PROVE  pc' = pc \/ pc' = [pc EXCEPT ![u] = "output"]
    BY <2>5 DEF FlushNext, Set
  <2>6. ~FlushNext(u)
    BY <2>5 DEF SInv, Sorted
  <2>7. ASSUME FlushEnd(u) PROVE Moves(u)
    BY <2>7, Zenon DEF FlushEnd, Return, Set
  <2> HIDE DEF Moves
  <2> QED
    BY <1>1, <1>2, <2>1, <2>2, <2>3, <2>4, <2>6, <2>7 DEF Step
<1>3. ASSUME NEW u \in Threads, NEW s \in Sinks,
             CallWrite(u, s) \/ CallFlush(u, s)
      PROVE  FALSE
  <2>1. PICK x : x # "idle" /\ pc' = [pc EXCEPT ![u] = x]
    BY <1>3 DEF CallWrite, CallFlush, Begin, Set
  <2> QED
    BY <2>1 DEF SInv, Sorted
<1>4. ASSUME pc' = pc PROVE FALSE
  BY <1>4
<1>5. ASSUME NEW u \in Threads, Restart(u) PROVE FALSE
  BY <1>4, <1>5 DEF Restart, locals
<1>6. ASSUME NEW s \in Sinks, Repair(s) PROVE FALSE
  BY <1>4, <1>6 DEF Repair, locals
<1>7. ASSUME UNCHANGED vars PROVE FALSE
  BY <1>4, <1>7 DEF vars
<1> QED
  BY <1>2, <1>3, <1>5, <1>6, <1>7 DEF Next

\* When flush() returns true, what had been accepted before it was called and
\* was still buffered is on the stream, also what another thread brought out.
THEOREM FlushCoversAll == Spec => FlushCovers
<1>1. SInv /\ DInv /\ [Next]_vars =>
        [\A t \in Threads :
           pc[t] = "next" /\ pc'[t] = "idle" /\ success'[t] = "true"
           => covered[t] \subseteq Written(output'[sink[t]])]_vars
  <2> SUFFICES ASSUME SInv, DInv, [Next]_vars, NEW t \in Threads,
                      pc[t] = "next", pc'[t] = "idle", success'[t] = "true"
               PROVE  covered[t] \subseteq Written(output'[sink[t]])
    BY DEF vars
  <2>1. FlushEnd(t)
    BY OnlyFlushEnds
  <2>2. /\ buffered /\ op[t] # "write" /\ todo[t] = <<>>
    BY <2>1 DEF FlushEnd, SInv, InCall, Sorted
  <2>3. PICK s \in Sinks : s = sink[t]
    BY DEF SInv, InCall
  <2>4. PICK o \in Outcomes(sink[t], <<>>) :
          /\ Stream(sink[t], o)
          /\ Return(t, IF o.throws THEN "throws"
                       ELSE Truth(o.good /\ success[t] = "true"))
    BY <2>1, Zenon DEF FlushEnd
  <2>5. o.good /\ success[t] = "true"
    <3>1. "true" = IF o.throws THEN "throws"
                   ELSE Truth(o.good /\ success[t] = "true")
      BY <2>4 DEF Return, Set, SInv, Sorted
    <3> QED
      BY <3>1 DEF Truth
  <2>6. PICK y \in Seq(Piece) : y = <<>>
    BY EmptySeq
  <2>7. good[s] /\ o.put \in Seq(Piece) /\ o.good \in BOOLEAN
    <3>1. Sorted /\ o \in Outcomes(s, y)
      BY <2>3, <2>4, <2>6 DEF SInv
    <3>2. /\ o.good \in BOOLEAN /\ o.put \in Seq(Piece)
          /\ o.good => good[s]
      BY <3>1, OutcomeFacts
    <3> QED
      BY <2>5, <3>2
  <2>8. Written(output[s]) \subseteq Written(output'[s])
    <3>1. Sorted /\ Stream(s, o)
      BY <2>3, <2>4 DEF SInv, Stream, Set
    <3>2. output'[s] = output[s] \o o.put
      BY <2>7, <3>1, StreamFacts
    <3> QED
      BY <2>7, <3>2, WrittenConcat DEF SInv, Sorted
  <2>9. covered[t] \subseteq Written(output[s])
    <3>1. /\ Wanted(t) = covered[t] /\ Covers(t)
          /\ \A k \in 1 .. Len(todo[t]) : FALSE
      BY <2>2 DEF Wanted, DInv
    <3> QED
      BY <2>2, <2>3, <2>5, <2>7, <3>1 DEF Covers
  <2> QED
    BY <2>3, <2>8, <2>9
<1> QED
  BY <1>1, AllInvariant, PTL DEF Spec, FlushCovers

\* The lines of a producer appear once and in the order of its writes,
\* whatever shard they went through and whatever the streams do; only a stream
\* that throws after it wrote something gets a line a second time.
THEOREM LinesInProducerOrder == Spec => []ProducerOrder
<1>1. OInv => ProducerOrder
  <2> SUFFICES ASSUME OInv, NEW s \in Sinks, NEW t \in Threads,
                      ~(throwing /\ s \in told),
                      NEW i \in Begun(s), NEW j \in Begun(s),
                      NEW m \in DOMAIN issued[<<t, s>>],
                      NEW n \in DOMAIN issued[<<t, s>>],
                      i < j, issued[<<t, s>>][m] = output[s][i][1],
                      issued[<<t, s>>][n] = output[s][j][1]
               PROVE  m < n
    BY DEF ProducerOrder
  <2>1. InOrder(s, output[s][i][1], output[s][j][1])
    BY DEF OInv, Ordered, Twice
  <2> QED
    BY <2>1 DEF InOrder
<1> QED
  BY <1>1, IInvInit, IInvStep, SInvInit, SInvStep, OInvInit, OInvStep, PTL
  DEF Spec
=============================================================================
