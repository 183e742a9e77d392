-------------------------- MODULE SyncLoggerProofs --------------------------
(***************************************************************************)
(* Proofs about SyncLogger: types, the lifetime of selected sinks, the     *)
(* serialization of callbacks, and the refinement of SyncLoggerContract.   *)
(***************************************************************************)
EXTENDS SyncLogger, FiniteSetTheorems, SequenceTheorems, TLAPS

\* The atomic pointer agrees with the registry it was last stored for.
Published == single_non_owning_sink = FastPath(published)

\* Between the change and the store the registry is one change ahead of the
\* pointer, that of the only call there; otherwise it is what was published.
Added(c) ==
  ~Contains(published, argument[c]) /\ sinks = Append(published, argument[c])
Removed(c) ==
  \E i \in DOMAIN published :
    published[i] = argument[c] /\ sinks = RemoveAt(published, i)
Changing(c) ==
  pc[c] = "publish" => /\ Added(c) \/ Removed(c)
                       /\ \A d \in Calls : pc[d] = "publish" => d = c
Ahead == (MutexFree => sinks = published) /\ \A c \in Calls : Changing(c)

\* A call has selected sinks exactly while it waits for the callback mutex or
\* calls them, and its snapshot owns those that need an owner.
Selection(c) ==
  /\ pc[c] \in {"serialize", "callback"} <=> selected[c] # <<>>
  /\ \A i \in DOMAIN selected[c] : selected[c][i] \in Owned =>
       selected[c][i] \in owners[c]
Argument(c) == pc[c] \in {"attach", "detach", "publish"} => argument[c] \in Sinks

\* The callback mutex is held during callbacks, by calls of one thread.
Serial ==
  serializes_callbacks =>
    /\ \A c \in Calls : pc[c] = "callback" => c \in callback_mutex
    /\ CallbacksSerialized

IInv ==
  /\ TypeOK /\ Published /\ Ahead /\ Serial
  /\ \A c \in Calls : Selection(c) /\ Argument(c)

LEMMA CallsAreCalls ==
  ASSUME NEW c \in Calls
  PROVE  Outer(c) \in Calls /\ Nested(c) \in Calls /\ Outer(c)[1] = c[1]
         /\ Nested(c)[1] = c[1]
BY DEF Calls, Outer, Nested

LEMMA FastPathType ==
  ASSUME NEW slots \in Seq(Sinks) PROVE FastPath(slots) \in Sinks \cup {NoSink}
BY DEF FastPath

\* attach: a sink that is not registered goes to the end of the registry.
LEMMA AppendInjective2 ==
  ASSUME NEW s \in Seq(Sinks), IsInjective(s), NEW x \in Sinks, ~Contains(s, x)
  PROVE  Append(s, x) \in Seq(Sinks) /\ IsInjective(Append(s, x))
<1>1. /\ Append(s, x) \in Seq(Sinks) /\ Len(Append(s, x)) = Len(s) + 1
      /\ \A i \in 1 .. Len(s) : Append(s, x)[i] = s[i]
      /\ Append(s, x)[Len(s) + 1] = x
      /\ DOMAIN Append(s, x) = 1 .. Len(s) + 1 /\ DOMAIN s = 1 .. Len(s)
      /\ Len(s) \in Nat
  OBVIOUS
<1>2. \A i, j \in 1 .. Len(s) : s[i] = s[j] => i = j
  BY <1>1 DEF IsInjective
<1>3. \A i \in 1 .. Len(s) : s[i] # x
  BY DEF Contains
<1> QED
  BY <1>1, <1>2, <1>3 DEF IsInjective

\* detach: the rest of the registry stays as it is.
LEMMA RemoveAtInjective ==
  ASSUME NEW s \in Seq(Sinks), IsInjective(s), NEW k \in DOMAIN s
  PROVE  RemoveAt(s, k) \in Seq(Sinks) /\ IsInjective(RemoveAt(s, k))
<1> DEFINE front == SubSeq(s, 1, k - 1)
           back == SubSeq(s, k + 1, Len(s))
<1>1. Len(s) \in Nat /\ k \in 1 .. Len(s) /\ DOMAIN s = 1 .. Len(s)
  OBVIOUS
<1>2. /\ front \in Seq(Sinks) /\ Len(front) = k - 1
      /\ \A i \in 1 .. k - 1 : front[i] = s[i]
  BY <1>1, SubSeqProperties
<1>3. /\ back \in Seq(Sinks) /\ Len(back) = Len(s) - k
      /\ \A i \in 1 .. Len(s) - k : back[i] = s[k + i]
  BY <1>1, SubSeqProperties
<1> HIDE DEF front, back
<1> DEFINE rest == front \o back
<1>4. /\ rest \in Seq(Sinks) /\ Len(rest) = Len(s) - 1
      /\ \A i \in 1 .. Len(s) - 1 : rest[i] =
           IF i <= k - 1 THEN front[i] ELSE back[i - (k - 1)]
  <2>1. /\ rest \in Seq(Sinks) /\ Len(rest) = Len(front) + Len(back)
        /\ \A i \in 1 .. Len(front) + Len(back) : rest[i] =
             IF i <= Len(front) THEN front[i] ELSE back[i - Len(front)]
    BY <1>2, <1>3, ConcatProperties, Zenon
  <2> HIDE DEF rest
  <2>2. Len(front) + Len(back) = Len(s) - 1
    BY <1>1, <1>2, <1>3
  <2> QED
    BY <1>2, <2>1, <2>2
<1> HIDE DEF rest
<1>5. \A i \in 1 .. Len(s) - 1 : rest[i] =
        IF i <= k - 1 THEN s[i] ELSE s[i + 1]
  <2> SUFFICES ASSUME NEW i \in 1 .. Len(s) - 1
               PROVE  rest[i] = IF i <= k - 1 THEN s[i] ELSE s[i + 1]
    OBVIOUS
  <2>1. CASE i <= k - 1
    BY <1>1, <1>2, <1>4, <2>1
  <2>2. CASE i > k - 1
    <3>1. i - (k - 1) \in 1 .. Len(s) - k /\ k + (i - (k - 1)) = i + 1
      BY <1>1, <2>2
    <3>2. rest[i] = back[i - (k - 1)]
      BY <1>1, <1>4, <2>2
    <3>3. back[i - (k - 1)] = s[k + (i - (k - 1))]
      BY <1>3, <3>1
    <3> QED
      BY <1>1, <2>2, <3>1, <3>2, <3>3
  <2> QED
    BY <1>1, <2>1, <2>2
<1>6. \A i, j \in 1 .. Len(s) : s[i] = s[j] => i = j
  BY <1>1 DEF IsInjective
<1>7. DOMAIN rest = 1 .. Len(s) - 1
  BY <1>4, LenProperties
<1>8. ASSUME NEW i \in 1 .. Len(s) - 1, NEW j \in 1 .. Len(s) - 1,
             rest[i] = rest[j]
      PROVE  i = j
  BY <1>1, <1>5, <1>6, <1>8
<1>9. IsInjective(rest)
  BY <1>7, <1>8 DEF IsInjective
<1> QED
  BY <1>4, <1>9 DEF RemoveAt, rest, front, back
-----------------------------------------------------------------------------
(* The invariant holds initially and after every step.                     *)

LEMMA InitialRegistry ==
  ASSUME NEW S \in SUBSET Sinks, NEW slots \in SetToSeqs(S)
  PROVE  slots \in Seq(Sinks) /\ IsInjective(slots)
<1>1. Cardinality(S) \in Nat
  BY SinksAssumption, FS_Subset, FS_CardinalityType
<1>2. /\ slots \in [1 .. Cardinality(S) -> S]
      /\ \A i, j \in 1 .. Cardinality(S) : i # j => slots[i] # slots[j]
  BY DEF SetToSeqs
<1>3. slots \in Seq(Sinks)
  BY <1>1, <1>2, IsASeq, SeqMonotonic
<1> QED
  BY <1>2, <1>3 DEF IsInjective

LEMMA IInvInit == Init => IInv
<1> SUFFICES ASSUME Init PROVE IInv
  OBVIOUS
<1>1. sinks \in Seq(Sinks) /\ IsInjective(sinks)
  <2>1. CASE \E S \in SUBSET (Sinks \ Owned) : sinks \in SetToSeqs(S)
    BY <2>1, InitialRegistry
  <2>2. CASE \E s \in Owned : sinks = <<s>>
    BY <2>2, SinksAssumption DEF IsInjective
  <2> QED
    BY <2>1, <2>2 DEF Init
<1>2. TypeOK
  BY <1>1, FastPathType, LimitAssumption, SinksAssumption
     DEF Init, TypeOK, Labels
<1> QED
  BY <1>2 DEF Init, IInv, Published, Ahead, Changing, MutexFree, Serial,
              CallbacksSerialized, Selection, Argument

\* A step that leaves the registry, and in which no call takes or gives up
\* the mutex of the registry.
Apart ==
  /\ UNCHANGED registry
  /\ \A c \in Calls : pc'[c] = "publish" <=> pc[c] = "publish"
  /\ \A c \in Calls : pc[c] = "publish" => argument'[c] = argument[c]

LEMMA ApartStep == ASSUME IInv, Apart PROVE Published' /\ Ahead'
<1>1. Published' /\ (MutexFree => sinks = published)'
  BY DEF IInv, Published, Ahead, MutexFree, Apart, registry
<1>2. ASSUME NEW c \in Calls, pc'[c] = "publish"
      PROVE  Added(c)' \/ Removed(c)'
  BY <1>2 DEF IInv, Ahead, Changing, Added, Removed, Apart, registry
<1>3. ASSUME NEW c \in Calls PROVE Changing(c)'
  BY <1>2 DEF IInv, Ahead, Changing, Apart
<1> QED
  BY <1>1, <1>3 DEF Ahead

\* A step apart that selects nothing.
Plain(c, label) ==
  /\ c \in Calls /\ label \in Labels /\ pc' = [pc EXCEPT ![c] = label]
  /\ pc[c] \notin {"serialize", "callback"}
  /\ label \notin {"serialize", "callback"} /\ Apart
  /\ UNCHANGED <<registry, callback_mutex, environment, selected, owners>>

LEMMA PlainStep ==
  ASSUME IInv, NEW c, NEW label, Plain(c, label),
         argument' \in [Calls -> Sinks \cup {NoSink}],
         result' \in [Calls -> {"true", "false", "throws"}],
         calls' \in 0 .. CallLimit,
         \A d \in Calls : Argument(d)'
  PROVE  IInv'
<1>1. TypeOK' /\ Published' /\ Ahead'
  BY ApartStep DEF IInv, TypeOK, Plain, registry, environment
<1>2. Serial'
  BY DEF IInv, TypeOK, Serial, CallbacksSerialized, Plain, environment
<1>3. ASSUME NEW d \in Calls PROVE Selection(d)'
  BY DEF IInv, TypeOK, Selection, Plain
<1> QED
  BY <1>1, <1>2, <1>3 DEF IInv

LEMMA BeginStep ==
  ASSUME IInv, NEW c \in Calls, CallWrite(c) \/ CallRegistry(c) PROVE IInv'
<1>1. PICK label \in {"write", "attach", "detach"} :
        /\ Begin(c, label)
        /\ \/ label = "write" /\ UNCHANGED argument
           \/ \E s \in Sinks : argument' = [argument EXCEPT ![c] = s]
  BY SinksAssumption DEF CallWrite, CallRegistry, IInv, TypeOK
<1>2. /\ Plain(c, label) /\ calls' \in 0 .. CallLimit
      /\ result' \in [Calls -> {"true", "false", "throws"}]
  BY <1>1, LimitAssumption
     DEF Begin, Goto, Report, Plain, Apart, Labels, IInv, TypeOK
<1>3. argument' \in [Calls -> Sinks \cup {NoSink}]
  BY <1>1 DEF IInv, TypeOK
<1>4. ASSUME NEW d \in Calls PROVE Argument(d)'
  BY <1>1, <1>2 DEF IInv, TypeOK, Argument, Plain
<1> QED
  BY <1>2, <1>3, <1>4, PlainStep

\* The call that changes the registry is alone under mutex_.
LEMMA ChangeStep ==
  ASSUME IInv, NEW c \in Calls, pc[c] \in {"attach", "detach"},
         NEW slots \in Seq(Sinks), IsInjective(slots), Change(c, slots),
         \/ ~Contains(sinks, argument[c]) /\ slots = Append(sinks, argument[c])
         \/ \E i \in DOMAIN sinks :
              sinks[i] = argument[c] /\ slots = RemoveAt(sinks, i)
  PROVE  IInv'
<1>1. /\ MutexFree /\ sinks' = slots /\ pc' = [pc EXCEPT ![c] = "publish"]
      /\ UNCHANGED <<single_non_owning_sink, published, callback_mutex,
                     environment, locals, result, calls>>
      /\ sinks = published
  BY DEF Change, Goto, IInv, Ahead
<1>2. TypeOK' /\ Published'
  BY <1>1 DEF environment, locals, IInv, TypeOK, Labels, Published
<1>3. Serial'
  BY <1>1 DEF environment, IInv, TypeOK, Serial, CallbacksSerialized
<1>4. ASSUME NEW d \in Calls PROVE Selection(d)' /\ Argument(d)'
  BY <1>1 DEF locals, IInv, TypeOK, Selection, Argument
<1>5. Added(c)' \/ Removed(c)'
  BY <1>1 DEF locals, Added, Removed
<1>6. \A d \in Calls : pc'[d] = "publish" <=> d = c
  BY <1>1 DEF MutexFree, IInv, TypeOK
<1>7. Ahead'
  BY <1>5, <1>6 DEF Ahead, Changing, MutexFree
<1> QED
  BY <1>2, <1>3, <1>4, <1>7 DEF IInv

LEMMA RefuseStep ==
  ASSUME IInv, NEW c \in Calls, pc[c] \in {"attach", "detach"}, Refuse(c)
  PROVE  IInv'
<1>1. Plain(c, "idle") /\ calls' = calls
  BY DEF Refuse, Goto, Plain, Apart, Labels, IInv, TypeOK
<1>2. /\ argument' \in [Calls -> Sinks \cup {NoSink}]
      /\ result' \in [Calls -> {"true", "false", "throws"}]
  BY DEF Refuse, Report, IInv, TypeOK
<1>3. ASSUME NEW d \in Calls PROVE Argument(d)'
  BY DEF Refuse, Goto, IInv, TypeOK, Argument
<1> QED
  BY <1>1, <1>2, <1>3, PlainStep DEF IInv, TypeOK

LEMMA AttachStep == ASSUME IInv, NEW c \in Calls, Attach(c) PROVE IInv'
<1>1. pc[c] = "attach" /\ argument[c] \in Sinks
  BY DEF Attach, IInv, Argument
<1>2. CASE Contains(sinks, argument[c])
  BY <1>1, <1>2, RefuseStep DEF Attach
<1>3. CASE ~Contains(sinks, argument[c])
  BY <1>1, <1>3, AppendInjective2, ChangeStep DEF Attach, IInv, TypeOK
<1> QED
  BY <1>2, <1>3

LEMMA DetachStep == ASSUME IInv, NEW c \in Calls, Detach(c) PROVE IInv'
<1>1. pc[c] = "detach" /\ sinks \in Seq(Sinks) /\ IsInjective(sinks)
  BY DEF Detach, IInv, TypeOK
<1>2. CASE Refuse(c)
  BY <1>1, <1>2, RefuseStep
<1>3. ASSUME NEW i \in DOMAIN sinks, sinks[i] = argument[c],
             Change(c, RemoveAt(sinks, i))
      PROVE  IInv'
  BY <1>1, <1>3, RemoveAtInjective, ChangeStep
<1> QED
  BY <1>2, <1>3 DEF Detach

LEMMA PublishStep == ASSUME IInv, NEW c \in Calls, Publish(c) PROVE IInv'
<1>1. /\ pc[c] = "publish" /\ pc' = [pc EXCEPT ![c] = "idle"]
      /\ result' = [result EXCEPT ![c] = "true"]
      /\ single_non_owning_sink' = FastPath(sinks) /\ published' = sinks
      /\ argument' = [argument EXCEPT ![c] = NoSink]
      /\ UNCHANGED <<sinks, callback_mutex, environment, selected, owners,
                     calls>>
  BY DEF Publish, Goto, Report
<1>2. TypeOK' /\ Published'
  BY <1>1, FastPathType DEF environment, IInv, TypeOK, Labels, Published,
                            FastPath
<1>3. Serial'
  BY <1>1 DEF environment, IInv, TypeOK, Serial, CallbacksSerialized
<1>4. ASSUME NEW d \in Calls PROVE Selection(d)' /\ Argument(d)'
  BY <1>1 DEF IInv, TypeOK, Selection, Argument
<1>5. \A d \in Calls : pc'[d] # "publish"
  BY <1>1 DEF IInv, TypeOK, Ahead, Changing
<1>6. Ahead'
  BY <1>1, <1>5 DEF Ahead, Changing
<1> QED
  BY <1>2, <1>3, <1>4, <1>6 DEF IInv

LEMMA WriteFastStep == ASSUME IInv, NEW c \in Calls, WriteFast(c) PROVE IInv'
<1>1. /\ pc[c] = "write" /\ pc' = [pc EXCEPT ![c] = "serialize"]
      /\ selected' = [selected EXCEPT ![c] = <<single_non_owning_sink>>]
      /\ UNCHANGED <<registry, callback_mutex, environment, argument, owners,
                     result, calls>>
  BY DEF WriteFast, Goto
<1>2. single_non_owning_sink \in Sinks \ Owned
  BY DEF WriteFast, IInv, TypeOK, Published, FastPath
<1>3. TypeOK' /\ Published' /\ Ahead'
  <2>1. Apart
    BY <1>1 DEF Apart, IInv, TypeOK
  <2>2. TypeOK'
    BY <1>1, <1>2 DEF IInv, TypeOK, registry, environment, Labels
  <2> QED
    BY <2>1, <2>2, ApartStep
<1>4. Serial'
  BY <1>1 DEF IInv, TypeOK, Serial, CallbacksSerialized, environment
<1>5. ASSUME NEW d \in Calls PROVE Selection(d)' /\ Argument(d)'
  BY <1>1, <1>2 DEF IInv, TypeOK, Selection, Argument
<1> QED
  BY <1>3, <1>4, <1>5 DEF IInv

LEMMA WriteSlowStep == ASSUME IInv, NEW c \in Calls, WriteSlow(c) PROVE IInv'
<1>1. Plain(c, "select") /\ UNCHANGED <<argument, result, calls>>
  BY DEF WriteSlow, Goto, Plain, Apart, Labels, locals, IInv, TypeOK
<1>2. \A d \in Calls : Argument(d)'
  BY <1>1 DEF IInv, TypeOK, Argument, Plain
<1> QED
  BY <1>1, <1>2, PlainStep DEF IInv, TypeOK

LEMMA WriteSelectStep ==
  ASSUME IInv, NEW c \in Calls, WriteSelect(c) PROVE IInv'
<1>1. /\ pc[c] = "select"
      /\ selected' = [selected EXCEPT ![c] = sinks]
      /\ owners' = [owners EXCEPT ![c] = ToSet(sinks) \cap Owned]
      /\ UNCHANGED <<registry, callback_mutex, environment, argument, calls>>
      /\ \/ sinks = <<>> /\ pc' = [pc EXCEPT ![c] = "idle"]
         \/ sinks # <<>> /\ pc' = [pc EXCEPT ![c] = "serialize"]
      /\ result' \in [Calls -> {"true", "false", "throws"}]
  BY DEF WriteSelect, Goto, Report, IInv, TypeOK
<1>2. TypeOK' /\ Published' /\ Ahead'
  <2>1. Apart
    BY <1>1 DEF Apart, IInv, TypeOK
  <2>2. TypeOK'
    BY <1>1 DEF IInv, TypeOK, registry, environment, Labels
  <2> QED
    BY <2>1, <2>2, ApartStep
<1>3. Serial'
  <2>1. \A d \in Calls : pc'[d] = "callback" => pc[d] = "callback"
    BY <1>1 DEF IInv, TypeOK
  <2> QED
    BY <1>1, <2>1 DEF IInv, Serial, CallbacksSerialized, environment
<1>4. ASSUME NEW d \in Calls PROVE Selection(d)' /\ Argument(d)'
  BY <1>1 DEF IInv, TypeOK, Selection, Argument, ToSet
<1> QED
  BY <1>2, <1>3, <1>4 DEF IInv

\* Who finds the mutex free, or held by its own thread, is alone with it.
LEMMA WriteSerializeStep ==
  ASSUME IInv, NEW c \in Calls, WriteSerialize(c) PROVE IInv'
<1>1. /\ pc[c] = "serialize" /\ pc' = [pc EXCEPT ![c] = "callback"]
      /\ serializes_callbacks => /\ MayLock(c)
                                 /\ callback_mutex' = callback_mutex \cup {c}
      /\ ~serializes_callbacks => UNCHANGED callback_mutex
      /\ UNCHANGED <<registry, environment, locals, result, calls>>
  BY DEF WriteSerialize, Goto
<1>2. TypeOK' /\ Published' /\ Ahead'
  <2>1. Apart
    BY <1>1 DEF Apart, IInv, TypeOK, locals
  <2>2. TypeOK'
    BY <1>1 DEF IInv, TypeOK, registry, environment, locals, Labels
  <2> QED
    BY <2>1, <2>2, ApartStep
<1>3. ASSUME serializes_callbacks, NEW d \in Calls, d # c, pc[d] = "callback"
      PROVE  d[1] = c[1]
  <2>1. d \in callback_mutex
    BY <1>3 DEF IInv, Serial
  <2>2. d \in {Outer(c), Nested(c)}
    BY <1>1, <1>3, <2>1 DEF MayLock
  <2> QED
    BY <2>2, CallsAreCalls
<1>4. Serial'
  BY <1>1, <1>3 DEF IInv, TypeOK, Serial, CallbacksSerialized, environment
<1>5. ASSUME NEW d \in Calls PROVE Selection(d)' /\ Argument(d)'
  BY <1>1 DEF IInv, TypeOK, Selection, Argument, locals
<1> QED
  BY <1>2, <1>4, <1>5 DEF IInv

LEMMA TailFacts ==
  ASSUME NEW s \in Seq(Sinks), s # <<>>
  PROVE  /\ Tail(s) \in Seq(Sinks)
         /\ Tail(s) = <<>> <=> Len(s) = 1
         /\ \A i \in DOMAIN Tail(s) : \E j \in DOMAIN s : Tail(s)[i] = s[j]
<1>1. /\ Len(s) \in Nat \ {0} /\ DOMAIN s = 1 .. Len(s)
  BY LenProperties, EmptySeq
<1>2. /\ Tail(s) \in Seq(Sinks) /\ Len(Tail(s)) = Len(s) - 1
      /\ \A i \in 1 .. Len(Tail(s)) : Tail(s)[i] = s[i + 1]
  BY HeadTailProperties
<1>3. DOMAIN Tail(s) = 1 .. Len(Tail(s))
  BY <1>2, LenProperties
<1>4. Tail(s) = <<>> <=> Len(Tail(s)) = 0
  BY <1>2, EmptySeq
<1>5. Tail(s) = <<>> <=> Len(s) = 1
  BY <1>1, <1>2, <1>4
<1>6. ASSUME NEW i \in DOMAIN Tail(s)
      PROVE  \E j \in DOMAIN s : Tail(s)[i] = s[j]
  <2>1. i \in 1 .. Len(s) - 1
    BY <1>2, <1>3
  <2>2. i + 1 \in DOMAIN s
    BY <1>1, <2>1
  <2> QED
    BY <1>2, <1>3, <2>2
<1> QED
  BY <1>2, <1>5, <1>6

LEMMA WriteCallbackStep ==
  ASSUME IInv, NEW c \in Calls, WriteCallback(c) PROVE IInv'
<1>1. /\ pc[c] = "callback" /\ selected[c] \in Seq(Sinks) /\ selected[c] # <<>>
      /\ UNCHANGED <<registry, environment, argument, calls>>
      /\ result' \in [Calls -> {"true", "false", "throws"}]
  BY DEF WriteCallback, Report, IInv, TypeOK, Selection
<1>2. CASE /\ pc' = [pc EXCEPT ![c] = "idle"]
           /\ callback_mutex' = callback_mutex \ {c}
           /\ selected' = [selected EXCEPT ![c] = <<>>]
           /\ owners' = [owners EXCEPT ![c] = {}]
  <2>1. TypeOK' /\ Published' /\ Ahead'
    <3>1. Apart
      BY <1>1, <1>2 DEF Apart, IInv, TypeOK
    <3>2. TypeOK'
      BY <1>1, <1>2 DEF IInv, TypeOK, registry, environment, Labels
    <3> QED
      BY <3>1, <3>2, ApartStep
  <2>2. Serial'
    BY <1>1, <1>2 DEF IInv, TypeOK, Serial, CallbacksSerialized, environment
  <2>3. ASSUME NEW d \in Calls PROVE Selection(d)' /\ Argument(d)'
    BY <1>1, <1>2 DEF IInv, TypeOK, Selection, Argument
  <2> QED
    BY <2>1, <2>2, <2>3 DEF IInv
<1>3. CASE /\ Len(selected[c]) # 1
           /\ selected' = [selected EXCEPT ![c] = Tail(@)]
           /\ UNCHANGED <<pc, callback_mutex, owners>>
  <2>1. /\ Tail(selected[c]) \in Seq(Sinks) /\ Tail(selected[c]) # <<>>
        /\ \A i \in DOMAIN Tail(selected[c]) :
             \E j \in DOMAIN selected[c] : Tail(selected[c])[i] = selected[c][j]
    BY <1>1, <1>3, TailFacts
  <2>2. TypeOK' /\ Published' /\ Ahead'
    <3>1. Apart
      BY <1>1, <1>3 DEF Apart
    <3>2. TypeOK'
      BY <1>1, <1>3, <2>1 DEF IInv, TypeOK, registry, environment
    <3> QED
      BY <3>1, <3>2, ApartStep
  <2>3. Serial'
    BY <1>1, <1>3 DEF IInv, Serial, CallbacksSerialized, environment
  <2>4. ASSUME NEW d \in Calls PROVE Selection(d)' /\ Argument(d)'
    BY <1>1, <1>3, <2>1 DEF IInv, TypeOK, Selection, Argument
  <2> QED
    BY <2>2, <2>3, <2>4 DEF IInv
<1> QED
  BY <1>2, <1>3 DEF WriteCallback, Goto

LEMMA OtherStep ==
  ASSUME IInv, UNCHANGED vars \/ \E s \in Owned : DropOwner(s) PROVE IInv'
<1>1. /\ held' \subseteq Owned
      /\ UNCHANGED <<registry, callback_mutex, serializes_callbacks, pc, locals,
                     result, calls>>
  BY DEF DropOwner, vars, registry, locals, IInv, TypeOK
<1>2. TypeOK' /\ Serial'
  BY <1>1 DEF IInv, TypeOK, Serial, CallbacksSerialized, registry, locals
<1>3. Published' /\ Ahead'
  BY <1>1, ApartStep DEF Apart, locals
<1>4. \A c \in Calls : Selection(c)' /\ Argument(c)'
  BY <1>1 DEF IInv, Selection, Argument, locals
<1> QED
  BY <1>2, <1>3, <1>4 DEF IInv

LEMMA IInvStep == IInv /\ [Next]_vars => IInv'
BY BeginStep, AttachStep, DetachStep, PublishStep, WriteFastStep, WriteSlowStep,
   WriteSelectStep, WriteSerializeStep, WriteCallbackStep, OtherStep
   DEF Next, Step

LEMMA IInvHolds == Spec => []IInv
BY IInvInit, IInvStep, PTL DEF Spec
-----------------------------------------------------------------------------
(* What the invariant shows.                                               *)

\* The registry never holds a sink twice, and the pointer, the mutex and the
\* locals of every call stay in their types, for any threads and sinks.
THEOREM TypeCorrect == Spec => []TypeOK
BY IInvHolds, PTL DEF IInv

\* A sink that a write has selected and not yet called exists, however many
\* detach it and drop their pointers meanwhile.
THEOREM SelectedSinksAlive == Spec => []CallbacksAlive
<1>1. IInv => CallbacksAlive
  <2> SUFFICES ASSUME IInv, NEW c \in Calls, NEW s \in ToSet(selected[c])
               PROVE  Alive(s)
    BY DEF CallbacksAlive
  <2>1. s \in Owned => s \in owners[c]
    BY DEF IInv, Selection, ToSet
  <2> QED
    BY <2>1 DEF Alive
<1> QED
  BY <1>1, IInvHolds, PTL

\* Under SerializedSinkDispatch no callbacks of two threads overlap.
THEOREM CallbacksExclude == Spec => []CallbacksSerialized
<1>1. IInv => CallbacksSerialized
  BY DEF IInv, Serial, CallbacksSerialized
<1> QED
  BY <1>1, IInvHolds, PTL
-----------------------------------------------------------------------------
(* The refinement of SyncLoggerContract.                                   *)

LEMMA ContractInit == Init => Contract!Init
<1> SUFFICES ASSUME Init PROVE Contract!Init
  OBVIOUS
<1>1. sinks \in Seq(Sinks) /\ IsInjective(sinks)
  BY IInvInit DEF IInv, TypeOK
<1> QED
  BY <1>1 DEF Init, Contract!Init, IsInjective, Contract!IsInjective

\* A change takes effect when it is published, a refusal at once.
LEMMA PublicationStep ==
  ASSUME IInv, NEW c \in Calls, Publish(c)
  PROVE  Contract!Attach(c, argument[c]) \/ Contract!Detach(c, argument[c])
<1>1. /\ selected[c] = <<>> /\ selected' = selected /\ published' = sinks
      /\ result' = [result EXCEPT ![c] = "true"]
      /\ Added(c) \/ Removed(c)
  BY DEF Publish, Report, IInv, Selection, Ahead, Changing
<1>2. CASE Added(c)
  BY <1>1, <1>2 DEF Added, Contract!Attach, Contract!Report, Contains,
                    Contract!Contains
<1>3. CASE Removed(c)
  BY <1>1, <1>3 DEF Removed, Contract!Detach, Contract!Report, RemoveAt,
                    Contract!RemoveAt
<1> QED
  BY <1>1, <1>2, <1>3

LEMMA RegistryStep ==
  ASSUME IInv, NEW c \in Calls, Attach(c) \/ Detach(c)
  PROVE  \/ UNCHANGED Contract!vars
         \/ Contract!Attach(c, argument[c]) \/ Contract!Detach(c, argument[c])
<1>1. selected[c] = <<>>
  BY DEF Attach, Detach, IInv, Selection
<1>2. CASE \E slots : Change(c, slots)
  BY <1>2 DEF Change, locals, Contract!vars
<1>3. CASE Refuse(c)
  <2>1. /\ sinks = published /\ published' = published /\ selected' = selected
        /\ result' = [result EXCEPT ![c] = "false"]
    BY <1>3 DEF Refuse, Report, IInv, Ahead, registry
  <2>2. CASE Attach(c) /\ Contains(sinks, argument[c])
    BY <1>1, <2>1, <2>2 DEF Contract!Attach, Contract!Report, Contains,
                            Contract!Contains
  <2>3. CASE Detach(c) /\ ~Contains(sinks, argument[c])
    BY <1>1, <2>1, <2>3 DEF Contract!Detach, Contract!Report, Contains,
                            Contract!Contains
  <2>4. CASE ~Contains(sinks, argument[c]) /\ Attach(c)
    BY <1>2, <2>4 DEF Attach
  <2>5. CASE Contains(sinks, argument[c]) /\ Detach(c)
    BY <1>2, <2>5 DEF Detach
  <2> QED
    BY <2>2, <2>3, <2>4, <2>5
<1> QED
  BY <1>2, <1>3 DEF Attach, Detach

\* Both paths select the registry as it was last published: the pointer stands
\* for it, and under mutex_ nothing is ahead of it.
LEMMA SelectionStep ==
  ASSUME IInv, NEW c \in Calls, WriteFast(c) \/ WriteSelect(c)
  PROVE  Contract!Select(c)
<1>1. selected[c] = <<>>
  BY DEF WriteFast, WriteSelect, IInv, Selection
<1>2. CASE WriteFast(c)
  <2>1. published = <<single_non_owning_sink>>
    BY <1>2 DEF WriteFast, IInv, TypeOK, Published, FastPath
  <2> QED
    BY <1>1, <1>2, <2>1 DEF WriteFast, Contract!Select, registry
<1>3. CASE WriteSelect(c)
  <2>1. sinks = published
    BY <1>3 DEF WriteSelect, IInv, Ahead
  <2> QED
    BY <1>1, <1>3, <2>1 DEF WriteSelect, Report, Contract!Select,
                            Contract!Report, registry
<1> QED
  BY <1>2, <1>3

LEMMA DeliveryStep ==
  ASSUME IInv, NEW c \in Calls, WriteCallback(c) PROVE Contract!Deliver(c)
<1>1. /\ selected[c] \in Seq(Sinks) /\ selected[c] # <<>>
      /\ result \in [Calls -> {"true", "false", "throws"}]
      /\ published' = published
  BY DEF WriteCallback, IInv, TypeOK, Selection, registry
<1>2. PICK outcome \in {"true", "false", "throws"} :
        /\ result' = [result EXCEPT ![c] =
                        IF outcome = "true" THEN result[c] ELSE outcome]
        /\ IF outcome = "throws" \/ Len(selected[c]) = 1
           THEN selected' = [selected EXCEPT ![c] = <<>>]
           ELSE selected' = [selected EXCEPT ![c] = Tail(@)]
  BY DEF WriteCallback, Report
<1>3. Len(selected[c]) = 1 => Tail(selected[c]) = <<>>
  BY <1>1, TailFacts
<1>4. outcome = "true" => result' = result
  BY <1>1, <1>2
<1> QED
  BY <1>1, <1>2, <1>3, <1>4 DEF Contract!Deliver, Contract!Report

LEMMA ContractStep ==
  IInv /\ IInv' /\ [Next]_vars => [Contract!Next]_Contract!vars
<1> SUFFICES ASSUME IInv, [Next]_vars PROVE [Contract!Next]_Contract!vars
  OBVIOUS
<1>1. ASSUME NEW c \in Calls, CallWrite(c) \/ CallRegistry(c)
      PROVE  Contract!Begin(c)
  BY <1>1 DEF CallWrite, CallRegistry, Begin, Report, IInv, Selection,
              Contract!Begin, Contract!Report, registry
<1>2. ASSUME NEW c \in Calls, Attach(c) \/ Detach(c) \/ Publish(c)
      PROVE  [Contract!Next]_Contract!vars
  BY <1>2, RegistryStep, PublicationStep
     DEF Attach, Detach, Publish, IInv, Argument, Contract!Next
<1>3. ASSUME NEW c \in Calls, WriteSlow(c) \/ WriteSerialize(c)
      PROVE  UNCHANGED Contract!vars
  BY <1>3 DEF WriteSlow, WriteSerialize, registry, locals, Contract!vars
<1>4. CASE UNCHANGED vars \/ \E s \in Owned : DropOwner(s)
  BY <1>4 DEF DropOwner, vars, registry, locals, Contract!vars
<1> QED
  BY <1>1, <1>2, <1>3, <1>4, SelectionStep, DeliveryStep
     DEF Next, Step, Contract!Next

\* The logger implements its contract: attach, detach and the selection of a
\* write are atomic, although a write may read the pointer without mutex_
\* between the change of the registry and the store that publishes it.
THEOREM Refinement == Spec => ImplementsContract
BY ContractInit, ContractStep, IInvHolds, PTL
   DEF Spec, ImplementsContract, Contract!Spec
=============================================================================
