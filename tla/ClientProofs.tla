---------------------------- MODULE ClientProofs ----------------------------
(***************************************************************************)
(* For any number of calling threads and any size of the pool of auxiliary *)
(* streams: the types of QuicClient, that no stream carries two calls,     *)
(* that a call returns its own reply, and that the event loop uses no      *)
(* context after it was freed.  For any set of callers and any number of   *)
(* calls, a client creates one event loop thread and frees nothing that is *)
(* in use (QuicConnection's FreedWhenUnused).  For any number of FUSE      *)
(* requests at once, any file and any size of the pieces: the stack frame  *)
(* of a handler outlives the worker that uses it, a read returns what was  *)
(* in the file, and a write stores its buffer.                             *)
(***************************************************************************)
EXTENDS QuicClient, QuicConnection, FuseFile, WellFoundedInduction, TLAPS

\* A non-empty set of natural numbers has a least element: find_stream_context
\* and get_available_auxiliary_stream return the first entry that fits.
LEMMA LeastElement ==
    ASSUME NEW S \in SUBSET Nat, S # {}
    PROVE  \E x \in S : \A y \in S : x <= y
<1> DEFINE R == {ss \in Nat \X Nat : ss[1] < ss[2]}
<1>1. IsWellFoundedOn(R, Nat)
  BY NatLessThanWellFounded, Zenon DEF OpToRel
<1> HIDE DEF R
<1>2. PICK x \in S : \A y \in S : ~(<<y, x>> \in R)
  BY <1>1, WFMin, Zenon
<1>3. \A y \in S : x <= y
  <2> SUFFICES ASSUME NEW y \in S, y < x PROVE FALSE
    OBVIOUS
  <2>1. <<y, x>> \in R
    BY Zenon DEF R
  <2> QED
    BY <1>2, <2>1, Zenon
<1> QED
  BY <1>3, Zenon

\* So has a set of streams of the pool a greatest one.
LEMMA GreatestElement ==
    ASSUME NEW n \in Nat, NEW S \in SUBSET (1..n), S # {}
    PROVE  \E x \in S : \A y \in S : y <= x
<1> DEFINE T == {n - s : s \in S}
<1>1. T \in SUBSET Nat /\ T # {}
  <2>1. \A s \in S : n - s \in Nat
    <3> SUFFICES ASSUME NEW s \in S PROVE n - s \in Nat
      BY Zenon
    <3>1. s \in 1..n
      BY Zenon
    <3> HIDE DEF T
    <3> QED
      BY <3>1
  <2> QED
    BY <2>1, Zenon
<1>2. PICK t \in T : \A u \in T : t <= u
  BY <1>1, LeastElement, Zenon
<1>3. PICK x \in S : t = n - x
  BY Zenon
<1>4. \A y \in S : n - x <= n - y
  BY <1>2, <1>3, Zenon
<1>5. \A y \in S : y <= x
  <2> SUFFICES ASSUME NEW y \in S PROVE y <= x
    BY Zenon
  <2> HIDE DEF T
  <2>1. n - x <= n - y
    BY <1>4, Zenon
  <2>2. x \in Int /\ y \in Int
    OBVIOUS
  <2> QED
    BY <2>1, <2>2
<1> QED
  BY <1>5, Zenon

\* find_stream_context returns a place of the list that has the stream, or none.
LEMMA FindAtType ==
    ASSUME TypeOK, NEW s
    PROVE  /\ FindAt(s) \in {0} \cup (1..Len(contexts))
           /\ FindAt(s) # 0 => contexts[FindAt(s)] \in Invoker
<1> DEFINE places == {k \in DOMAIN contexts : ctx[contexts[k]].stream = s}
<1>1. contexts \in Seq(Invoker)
  BY Zenon DEF TypeOK
<1>2. places \in SUBSET (1..Len(contexts))
  BY <1>1
<1>3. CASE places = {}
  BY <1>3, Zenon DEF FindAt
<1>4. CASE places # {}
  <2>1. \E k \in places : \A j \in places : k <= j
    <3>1. places \in SUBSET Nat
      BY <1>1, <1>2
    <3> HIDE DEF places
    <3> QED
      BY <1>4, <3>1, LeastElement, Zenon
  <2>2. FindAt(s) \in places
    BY <1>4, <2>1, Zenon DEF FindAt
  <2> QED
    BY <1>1, <1>2, <2>2
<1> QED
  BY <1>3, <1>4, Zenon

\* So it returns a place of the list, or 0 for NULL.
LEMMA FindType ==
    ASSUME TypeOK, NEW s, Find(s) # NULL
    PROVE  Find(s) \in Invoker
BY FindAtType, Zenon DEF Find

\* get_available_auxiliary_stream returns a stream of the pool that is not in
\* use, or a new one, and none only at MAX_STREAMS_PER_CONNECTION.
LEMMA AvailableStreamType ==
    ASSUME TypeOK, AvailableStream # NULL
    PROVE  \/ AvailableStream \in 1..pool /\ ~in_use[AvailableStream]
           \/ AvailableStream = pool + 1 /\ pool < MaxStreams
<1>1. pool \in Nat /\ FreeStreams \in SUBSET (1..pool)
  BY QuicClientAssumption DEF TypeOK, FreeStreams
<1>2. CASE FreeStreams # {}
  <2>1. \E x \in FreeStreams : \A y \in FreeStreams : y <= x
    BY <1>1, <1>2, GreatestElement, Zenon
  <2>2. AvailableStream \in FreeStreams
    BY <1>2, <2>1, Zenon DEF AvailableStream
  <2> QED
    BY <2>2, Zenon DEF FreeStreams
<1>3. CASE FreeStreams = {}
  BY <1>3, Zenon DEF AvailableStream
<1> QED
  BY <1>2, <1>3, Zenon

-----------------------------------------------------------------------------
\* A context waits for a stream at most once, and only while its owner does.
QueueOK ==
    /\ \A k \in DOMAIN queue : pc[queue[k]] = "allocated?" /\ ctx[queue[k]].alloc = "pending"
    /\ \A j, k \in DOMAIN queue : queue[j] = queue[k] => j = k

\* A thread beyond the allocation has a stream, and the stream of every call is
\* a stream of the pool marked as in use.
HoldersOK ==
    \A i \in Invoker :
        /\ pc[i] \notin {"idle", "allocated?"} => ctx[i].alloc = "ok"
        /\ Holds(i) => ctx[i].stream \in 1..pool /\ in_use[ctx[i].stream]

\* Where process_connections is to call client_on_stream_readable, there is a
\* message.
ReadableOK == \A s \in StreamId : <<"readable", s>> \in todo => wire[s] \in Message

StreamsInv == TypeOK /\ QueueOK /\ HoldersOK /\ ReadableOK /\ StreamsExclusive

\* A step that leaves the streams of all contexts alone, and takes threads only
\* from one place after the allocation to another, keeps who has which stream.
LEMMA SameStreams ==
    ASSUME StreamsInv, UNCHANGED <<queue, pool, in_use>>,
           \A j \in Invoker : ctx'[j].alloc = ctx[j].alloc /\ ctx'[j].stream = ctx[j].stream,
           \A j \in Invoker : \/ pc'[j] = pc[j]
                              \/ pc[j] # "idle" /\ pc'[j] # "idle" /\ ctx[j].alloc = "ok"
    PROVE  QueueOK' /\ HoldersOK' /\ StreamsExclusive'
<1>1. QueueOK'
  <2>1. \A k \in DOMAIN queue : queue[k] \in Invoker
    BY DEF StreamsInv, TypeOK
  <2> QED
    BY <2>1, Zenon DEF StreamsInv, QueueOK
<1>2. \A j \in Invoker : Holds(j)' <=> Holds(j)
  BY Zenon DEF Holds
<1>3. HoldersOK'
  BY <1>2, Zenon DEF StreamsInv, HoldersOK
<1>4. StreamsExclusive'
  BY <1>2, Zenon DEF StreamsInv, StreamsExclusive
<1> QED
  BY <1>1, <1>3, <1>4, Zenon

\* The assignments to fields of a context keep its type: the ones of constants ...
LEMMA ContextUpdates ==
    ASSUME NEW c \in StreamContext
    PROVE  /\ [c EXCEPT !.alloc = "failed"] \in StreamContext
           /\ [c EXCEPT !.attempted = TRUE, !.sent = TRUE] \in StreamContext
           /\ [c EXCEPT !.attempted = TRUE] \in StreamContext
           /\ [c EXCEPT !.finished = TRUE] \in StreamContext
           /\ [c EXCEPT !.alive = FALSE] \in StreamContext
<1>1. [c EXCEPT !.alloc = "failed"] \in StreamContext
  BY Zenon DEF StreamContext
<1>2. [c EXCEPT !.attempted = TRUE, !.sent = TRUE] \in StreamContext
  BY Zenon DEF StreamContext
<1>3. [c EXCEPT !.attempted = TRUE] \in StreamContext
  BY Zenon DEF StreamContext
<1>4. [c EXCEPT !.finished = TRUE] \in StreamContext
  BY Zenon DEF StreamContext
<1>5. [c EXCEPT !.alive = FALSE] \in StreamContext
  BY Zenon DEF StreamContext
<1> QED
  BY <1>1, <1>2, <1>3, <1>4, <1>5, Zenon

\* ... the one of a stream ...
LEMMA ContextAllocated ==
    ASSUME NEW c \in StreamContext, NEW s \in StreamId
    PROVE  [c EXCEPT !.alloc = "ok", !.stream = s] \in StreamContext
BY Zenon DEF StreamContext

\* ... and the one of a reply.
LEMMA ContextAnswered ==
    ASSUME NEW c \in StreamContext, NEW id \in CallId
    PROVE  [c EXCEPT !.finished = TRUE, !.received = TRUE, !.reply = id] \in StreamContext
BY Zenon DEF StreamContext

\* The types are kept.
LEMMA TypeStep == TypeOK /\ ReadableOK /\ HoldersOK /\ [Next]_vars => TypeOK'
<1> SUFFICES ASSUME TypeOK, ReadableOK, HoldersOK, [Next]_vars PROVE TypeOK'
  BY Zenon
<1> USE QuicClientAssumption DEF TypeOK, poolVars, invokerVars, Killed
<1>1. CASE UNCHANGED vars
  BY <1>1, Zenon DEF vars
<1>2. ASSUME NEW i \in Invoker, Call(i) PROVE TypeOK'
  <2>1. NewContext \in StreamContext
    BY Zenon DEF NewContext, StreamContext
  <2> QED
    BY <1>2, <2>1 DEF Call
<1>3. ASSUME NEW i \in Invoker, AddContext(i) PROVE TypeOK'
  BY <1>3 DEF AddContext
<1>4. ASSUME NEW i \in Invoker, Check(i) \/ Sleep(i) \/ SpuriousWakeUp(i) PROVE TypeOK'
  BY <1>4, Zenon DEF Check, Sleep, SpuriousWakeUp
<1>5. ASSUME NEW i \in Invoker, Collect(i) PROVE TypeOK'
  <2>1. ctx[i].reply \in CallId \cup {NULL}
    BY Zenon DEF StreamContext
  <2> QED
    BY <1>5, <2>1, Zenon DEF Collect
<1>6. ASSUME NEW i \in Invoker, RemoveContext(i) PROVE TypeOK'
  <2>1. contexts' \in Seq(Invoker)
    BY <1>6, FindAtType DEF RemoveContext
  <2> DEFINE k == FindAt(ctx[i].stream)
  <2>2. CASE k = 0
    BY <1>6, <2>1, <2>2, Zenon DEF RemoveContext
  <2>3. CASE k # 0
    <3>1. contexts[k] \in Invoker
      BY <2>3, FindAtType, Zenon
    <3>2. [ctx[contexts[k]] EXCEPT !.alive = FALSE] \in StreamContext
      BY <3>1, ContextUpdates, Zenon
    <3>3. ctx' = [ctx EXCEPT ![contexts[k]] = [ctx[contexts[k]] EXCEPT !.alive = FALSE]]
      BY <1>6, <2>3, Zenon DEF RemoveContext
    <3>4. ctx' \in [Invoker -> StreamContext]
      BY <3>1, <3>2, <3>3, Zenon
    <3> QED
      BY <1>6, <2>1, <3>4, Zenon DEF RemoveContext
  <2> QED
    BY <2>2, <2>3, Zenon
<1>7. ASSUME NEW i \in Invoker, Release(i) PROVE TypeOK'
  BY <1>7, Zenon DEF Release
<1>8. CASE AllocatorBegin \/ AllocatorEnd \/ ProcessEnd
  BY <1>8, Zenon DEF AllocatorBegin, AllocatorEnd, ProcessEnd
<1>9. CASE Allocate
  <2>1. Head(queue) \in Invoker /\ queue' \in Seq(Invoker)
    BY <1>9 DEF Allocate
  <2>2. AvailableStream # NULL => AvailableStream \in StreamId
    BY AvailableStreamType DEF StreamId
  <2>3. ctx' \in [Invoker -> StreamContext]
    <3> DEFINE i == Head(queue)
               s == AvailableStream
    <3>1. CASE s = NULL
      <4>1. [ctx[i] EXCEPT !.alloc = "failed"] \in StreamContext
        BY <2>1, ContextUpdates, Zenon
      <4>2. ctx' = [ctx EXCEPT ![i] = [ctx[i] EXCEPT !.alloc = "failed"]]
        BY <1>9, <3>1, Zenon DEF Allocate
      <4> QED
        BY <2>1, <4>1, <4>2, Zenon
    <3>2. CASE s # NULL
      <4>1. [ctx[i] EXCEPT !.alloc = "ok", !.stream = s] \in StreamContext
        BY <2>1, <2>2, <3>2, ContextAllocated, Zenon
      <4>2. ctx' = [ctx EXCEPT ![i] = [ctx[i] EXCEPT !.alloc = "ok", !.stream = s]]
        BY <1>9, <3>2, Zenon DEF Allocate
      <4> QED
        BY <2>1, <4>1, <4>2, Zenon
    <3> QED
      BY <3>1, <3>2, Zenon
  <2>4. pool' \in 0..MaxStreams /\ in_use' \in [StreamId -> BOOLEAN]
          /\ want_write' \in [StreamId -> BOOLEAN]
    <3>1. CASE AvailableStream = NULL
      BY <1>9, <3>1, Zenon DEF Allocate
    <3>2. CASE AvailableStream # NULL
      <4>1. /\ pool' = IF AvailableStream > pool THEN AvailableStream ELSE pool
            /\ in_use' = [in_use EXCEPT ![AvailableStream] = TRUE]
            /\ want_write' = [want_write EXCEPT ![AvailableStream] = TRUE]
        BY <1>9, <3>2, Zenon DEF Allocate
      <4> QED
        BY <2>2, <3>2, <4>1 DEF StreamId
    <3> QED
      BY <3>1, <3>2, Zenon
  <2> QED
    BY <1>9, <2>1, <2>3, <2>4, Zenon DEF Allocate
<1>10. CASE ProcessBegin
  <2>1. todo' \subseteq {"writable", "readable"} \X StreamId
    BY <1>10 DEF ProcessBegin
  <2> QED
    BY <1>10, <2>1, Zenon DEF ProcessBegin
<1>11. CASE Signal
  BY <1>11, Zenon DEF Signal
<1>12. ASSUME NEW s \in StreamId, WritableIdle(s) PROVE TypeOK'
  BY <1>12, Zenon DEF WritableIdle
<1>13. ASSUME NEW s \in StreamId, Writable(s) PROVE TypeOK'
  <2>1. Find(s) \in Invoker
    BY <1>13, FindType, Zenon DEF Writable
  <2>2. ctx' \in [Invoker -> StreamContext]
    <3> DEFINE i == Find(s)
    <3>1. /\ [ctx[i] EXCEPT !.attempted = TRUE, !.sent = TRUE] \in StreamContext
          /\ [ctx[i] EXCEPT !.attempted = TRUE] \in StreamContext
      BY <2>1, ContextUpdates, Zenon
    <3>2. \/ ctx' = [ctx EXCEPT ![i] = [ctx[i] EXCEPT !.attempted = TRUE, !.sent = TRUE]]
          \/ ctx' = [ctx EXCEPT ![i] = [ctx[i] EXCEPT !.attempted = TRUE]]
      BY <1>13 DEF Writable
    <3> QED
      BY <2>1, <3>1, <3>2, Zenon
  <2>3. wire' \in [StreamId -> Message \cup {NULL}]
    <3>1. [kind |-> "call", by |-> Find(s), nr |-> calls[Find(s)]] \in Message
      BY <2>1, Zenon DEF Message
    <3>2. \/ wire' = [wire EXCEPT ![s] = [kind |-> "call", by |-> Find(s), nr |-> calls[Find(s)]]]
          \/ wire' = wire
      BY <1>13, Zenon DEF Writable
    <3> QED
      BY <3>1, <3>2, Zenon
  <2> QED
    BY <1>13, <2>2, <2>3, Zenon DEF Writable
<1>14. ASSUME NEW s \in StreamId, Readable(s) PROVE TypeOK'
  <2>1. Find(s) \in Invoker
    BY <1>14, FindType, Zenon DEF Readable
  <2>2. wire[s] \in Message
    BY <1>14, Zenon DEF Readable, ReadableOK
  <2>3. [by |-> wire[s].by, nr |-> wire[s].nr] \in CallId
    BY <2>2, Zenon DEF Message, CallId
  <2>4. ctx' \in [Invoker -> StreamContext]
    <3> DEFINE i == Find(s)
               id == [by |-> wire[s].by, nr |-> wire[s].nr]
    <3>1. /\ [ctx[i] EXCEPT !.finished = TRUE, !.received = TRUE, !.reply = id] \in StreamContext
          /\ [ctx[i] EXCEPT !.finished = TRUE] \in StreamContext
      <4>1. i \in Invoker /\ ctx[i] \in StreamContext
        BY <2>1, Zenon
      <4>2. id \in CallId
        BY <2>3, Zenon
      <4> HIDE DEF id, i
      <4> QED
        BY <4>1, <4>2, ContextUpdates, ContextAnswered, Zenon
    <3>2. \/ ctx' = [ctx EXCEPT ![i] = [ctx[i] EXCEPT !.finished = TRUE, !.received = TRUE,
                                                      !.reply = id]]
          \/ ctx' = [ctx EXCEPT ![i] = [ctx[i] EXCEPT !.finished = TRUE]]
      BY <1>14 DEF Readable
    <3> QED
      BY <2>1, <3>1, <3>2, Zenon
  <2> QED
    BY <1>14, <2>1, <2>4, Zenon DEF Readable
<1>15. ASSUME NEW s \in StreamId, ServerReplies(s) PROVE TypeOK'
  BY <1>15, Zenon DEF ServerReplies, Message
<1> QED
  BY <1>1, <1>2, <1>3, <1>4, <1>5, <1>6, <1>7, <1>8, <1>9, <1>10, <1>11, <1>12, <1>13, <1>14,
     <1>15, Zenon DEF Next, InvokerStep, LoopStep

\* The messages announced to client_on_stream_readable stay until it is called.
LEMMA ReadableStep == TypeOK /\ ReadableOK /\ [Next]_vars => ReadableOK'
<1> SUFFICES ASSUME TypeOK, ReadableOK, [Next]_vars,
                    NEW r \in StreamId, <<"readable", r>> \in todo'
             PROVE  wire'[r] \in Message
  BY Zenon DEF ReadableOK
<1> USE DEF ReadableOK, poolVars, invokerVars
<1>1. CASE UNCHANGED <<todo, wire>>
  BY <1>1, Zenon
<1>2. CASE ProcessBegin
  <2>1. wire[r] # NULL
    BY <1>2, Zenon DEF ProcessBegin
  <2> QED
    BY <1>2, <2>1, Zenon DEF ProcessBegin, TypeOK
<1>3. ASSUME NEW s \in StreamId, WritableIdle(s) PROVE wire'[r] \in Message
  BY <1>3, Zenon DEF WritableIdle
<1>4. ASSUME NEW s \in StreamId, Writable(s) PROVE wire'[r] \in Message
  <2>1. <<"readable", r>> \in todo /\ Find(s) \in Invoker
    BY <1>4, FindType, Zenon DEF Writable
  <2>2. wire'[r] \in Message
    <3>1. [kind |-> "call", by |-> Find(s), nr |-> calls[Find(s)]] \in Message
      BY <2>1, Zenon DEF TypeOK, Message
    <3>2. \/ wire' = [wire EXCEPT ![s] = [kind |-> "call", by |-> Find(s), nr |-> calls[Find(s)]]]
          \/ wire' = wire
      BY <1>4, Zenon DEF Writable
    <3> QED
      BY <2>1, <3>1, <3>2, Zenon DEF TypeOK
  <2> QED
    BY <2>2, Zenon
<1>5. ASSUME NEW s \in StreamId, Readable(s) PROVE wire'[r] \in Message
  <2>1. r # s /\ <<"readable", r>> \in todo
    BY <1>5, Zenon DEF Readable
  <2> QED
    BY <1>5, <2>1, Zenon DEF Readable, TypeOK
<1>6. ASSUME NEW s \in StreamId, ServerReplies(s) PROVE wire'[r] \in Message
  BY <1>6, Zenon DEF ServerReplies, TypeOK, Message
<1>7. ASSUME NEW i \in Invoker, Call(i) \/ InvokerStep(i) \/ SpuriousWakeUp(i)
      PROVE  UNCHANGED <<todo, wire>>
  BY <1>7, Zenon DEF Call, InvokerStep, AddContext, Check, Sleep, Collect, RemoveContext, Release,
              SpuriousWakeUp
<1>8. AllocatorBegin \/ Allocate \/ AllocatorEnd \/ Signal \/ ProcessEnd \/ UNCHANGED vars
        => UNCHANGED <<todo, wire>>
  BY Zenon DEF AllocatorBegin, Allocate, AllocatorEnd, Signal, ProcessEnd, vars
<1> QED
  BY <1>1, <1>2, <1>3, <1>4, <1>5, <1>6, <1>7, <1>8, Zenon DEF Next, LoopStep

\* Every step of the calling threads, of the event loop and of the server keeps
\* the invariant.
LEMMA StreamsStep == StreamsInv /\ [Next]_vars => StreamsInv'
<1> SUFFICES ASSUME StreamsInv, [Next]_vars PROVE QueueOK' /\ HoldersOK' /\ StreamsExclusive'
  BY TypeStep, ReadableStep, Zenon DEF StreamsInv
<1> DEFINE Goal == QueueOK' /\ HoldersOK' /\ StreamsExclusive'
<1> USE DEF poolVars, invokerVars
<1>t. /\ pc \in [Invoker -> {"idle", "allocated?", "check", "sleep", "asleep", "collect",
                             "remove", "release"}]
      /\ ctx \in [Invoker -> StreamContext] /\ queue \in Seq(Invoker)
      /\ pool \in Nat /\ in_use \in [StreamId -> BOOLEAN]
  BY QuicClientAssumption DEF StreamsInv, TypeOK
<1>1. CASE UNCHANGED vars
  BY <1>1, SameStreams, Zenon DEF vars
<1>2. ASSUME NEW i \in Invoker, Call(i) PROVE Goal
  <2>1. \A k \in DOMAIN queue : queue[k] # i
    BY <1>2, <1>t, Zenon DEF Call, StreamsInv, QueueOK
  <2>2. ~Holds(i)'
    BY <1>2, <1>t, Zenon DEF Call, NewContext, Holds
  <2>3. \A j \in Invoker \ {i} : ctx'[j] = ctx[j] /\ pc'[j] = pc[j] /\ (Holds(j)' <=> Holds(j))
    BY <1>2, <1>t, Zenon DEF Call, Holds
  <2>4. QueueOK'
    BY <1>2, <1>t, <2>1, <2>3 DEF Call, NewContext, StreamsInv, QueueOK
  <2>5. HoldersOK'
    BY <1>2, <1>t, <2>2, <2>3, Zenon DEF Call, StreamsInv, HoldersOK
  <2>6. StreamsExclusive'
    BY <2>2, <2>3, Zenon DEF StreamsInv, StreamsExclusive
  <2> QED
    BY <2>4, <2>5, <2>6, Zenon
<1>3. ASSUME NEW i \in Invoker, AddContext(i) PROVE Goal
  BY <1>3, <1>t, SameStreams, Zenon DEF AddContext
<1>4. ASSUME NEW i \in Invoker, Check(i) \/ Sleep(i) \/ SpuriousWakeUp(i) \/ Collect(i) PROVE Goal
  <2>1. ctx[i].alloc = "ok"
    BY <1>4, Zenon DEF Check, Sleep, SpuriousWakeUp, Collect, StreamsInv, HoldersOK
  <2> QED
    BY <1>4, <1>t, <2>1, SameStreams, Zenon DEF Check, Sleep, SpuriousWakeUp, Collect
<1>5. ASSUME NEW i \in Invoker, RemoveContext(i) PROVE Goal
  <2>1. ctx[i].alloc = "ok"
    BY <1>5, Zenon DEF RemoveContext, StreamsInv, HoldersOK
  <2>2. \A j \in Invoker : ctx'[j].alloc = ctx[j].alloc /\ ctx'[j].stream = ctx[j].stream
    BY <1>5, <1>t, Zenon DEF RemoveContext, StreamContext
  <2> QED
    BY <1>5, <1>t, <2>1, <2>2, SameStreams, Zenon DEF RemoveContext
<1>6. ASSUME NEW i \in Invoker, Release(i) PROVE Goal
  <2>1. Holds(i) /\ ~Holds(i)'
    BY <1>6, <1>t, Zenon DEF Release, StreamsInv, HoldersOK, Holds
  <2>2. \A j \in Invoker \ {i} : pc'[j] = pc[j] /\ (Holds(j)' <=> Holds(j))
    BY <1>6, <1>t, Zenon DEF Release, Holds
  <2>3. \A j \in Invoker \ {i} : Holds(j) => ctx[j].stream # ctx[i].stream
    BY <2>1, Zenon DEF StreamsInv, StreamsExclusive
  <2>4. QueueOK'
    BY <1>6, <1>t, <2>2 DEF Release, StreamsInv, QueueOK
  <2>5. HoldersOK'
    BY <1>6, <1>t, <2>1, <2>2, <2>3 DEF Release, StreamsInv, HoldersOK
  <2>6. StreamsExclusive'
    BY <1>6, <2>1, <2>2, Zenon DEF Release, StreamsInv, StreamsExclusive
  <2> QED
    BY <2>4, <2>5, <2>6, Zenon
<1>7. CASE Allocate
  <2> DEFINE i == Head(queue)
             s == AvailableStream
  <2>1. i = queue[1] /\ 1 \in DOMAIN queue /\ i \in Invoker /\ queue' = Tail(queue) /\ pc' = pc
    BY <1>7, <1>t DEF Allocate
  <2>2. pc[i] = "allocated?" /\ ctx[i].alloc = "pending" /\ ~Holds(i)
    BY <2>1, Zenon DEF StreamsInv, QueueOK, Holds
  <2>3. \A j \in Invoker \ {i} : ctx'[j] = ctx[j] /\ (Holds(j)' <=> Holds(j))
    BY <1>7, <1>t, <2>1, Zenon DEF Allocate, Holds
  <2>4. QueueOK'
    <3>1. \A k \in DOMAIN queue' : queue'[k] = queue[k + 1] /\ k + 1 \in DOMAIN queue
      BY <1>t, <2>1
    <3>2. \A k \in DOMAIN queue' : queue'[k] \in Invoker \ {i}
      BY <1>t, <2>1, <3>1 DEF StreamsInv, QueueOK
    <3> QED
      BY <1>t, <2>1, <2>3, <3>1, <3>2 DEF StreamsInv, QueueOK
  <2>5. CASE s = NULL
    <3>1. ctx'[i].alloc = "failed" /\ UNCHANGED <<pool, in_use>>
      BY <1>7, <1>t, <2>1, <2>5, Zenon DEF Allocate, StreamContext
    <3> QED
      BY <2>1, <2>2, <2>3, <2>4, <3>1 DEF StreamsInv, HoldersOK, StreamsExclusive, Holds
  <2>6. CASE s # NULL
    <3>1. \/ s \in 1..pool /\ ~in_use[s] /\ pool' = pool
          \/ s = pool + 1 /\ pool < MaxStreams /\ pool' = pool + 1
      BY <1>7, <1>t, <2>6, AvailableStreamType DEF Allocate, StreamsInv
    <3>2. s \in StreamId
      BY <3>1, <1>t, QuicClientAssumption DEF StreamId, StreamsInv, TypeOK
    <3>3. ctx'[i].alloc = "ok" /\ ctx'[i].stream = s /\ in_use' = [in_use EXCEPT ![s] = TRUE]
      BY <1>7, <1>t, <2>1, <2>6 DEF Allocate, StreamContext
    <3>4. \A j \in Invoker : Holds(j) => ctx[j].stream # s
      BY <1>t, <3>1 DEF StreamsInv, HoldersOK
    <3>5. HoldersOK'
      BY <1>t, <2>1, <2>2, <2>3, <3>1, <3>2, <3>3 DEF StreamsInv, HoldersOK
    <3>6. StreamsExclusive'
      BY <2>1, <2>3, <3>3, <3>4, Zenon DEF StreamsInv, StreamsExclusive
    <3> QED
      BY <2>4, <3>5, <3>6, Zenon
  <2> QED
    BY <2>5, <2>6, Zenon
<1>8. CASE AllocatorBegin \/ AllocatorEnd \/ ProcessBegin \/ ProcessEnd
  BY <1>8, SameStreams, Zenon DEF AllocatorBegin, AllocatorEnd, ProcessBegin, ProcessEnd
<1>9. CASE Signal
  <2>1. \A j \in Invoker : pc[j] = "asleep" => ctx[j].alloc = "ok"
    BY Zenon DEF StreamsInv, HoldersOK
  <2> QED
    BY <1>9, <1>t, <2>1, SameStreams, Zenon DEF Signal
<1>10. ASSUME NEW s \in StreamId, WritableIdle(s) \/ ServerReplies(s) PROVE Goal
  BY <1>10, SameStreams, Zenon DEF WritableIdle, ServerReplies
<1>11. ASSUME NEW s \in StreamId, Writable(s) \/ Readable(s) PROVE Goal
  <2>1. \A j \in Invoker : ctx'[j].alloc = ctx[j].alloc /\ ctx'[j].stream = ctx[j].stream
    BY <1>11, <1>t DEF Writable, Readable, StreamContext
  <2> QED
    BY <1>11, <2>1, SameStreams, Zenon DEF Writable, Readable
<1> QED
  BY <1>1, <1>2, <1>3, <1>4, <1>5, <1>6, <1>7, <1>8, <1>9, <1>10, <1>11, Zenon
     DEF Next, InvokerStep, LoopStep

\* Of every behaviour, from the start of the client on.
LEMMA StreamsInvariant == Spec => []StreamsInv
<1>1. ASSUME Init PROVE StreamsInv
  <2>1. [NewContext EXCEPT !.alive = FALSE] \in StreamContext
    BY Zenon DEF NewContext, StreamContext
  <2>2. TypeOK
    <3>1. /\ pc \in [Invoker -> {"idle", "allocated?", "check", "sleep", "asleep", "collect",
                                 "remove", "release"}]
          /\ calls \in [Invoker -> Nat] /\ result \in [Invoker -> CallId \cup {NULL}]
          /\ ctx \in [Invoker -> StreamContext]
      BY <1>1, <2>1, Zenon DEF Init
    <3>2. /\ queue \in Seq(Invoker) /\ contexts \in Seq(Invoker)
          /\ pool \in 0..MaxStreams
      BY <1>1, QuicClientAssumption DEF Init
    <3>3. /\ in_use \in [StreamId -> BOOLEAN] /\ want_write \in [StreamId -> BOOLEAN]
          /\ wire \in [StreamId -> Message \cup {NULL}]
      BY <1>1, Zenon DEF Init
    <3> QED
      BY <1>1, <3>1, <3>2, <3>3, Zenon DEF Init, TypeOK
  <2>3. QueueOK /\ HoldersOK /\ ReadableOK /\ StreamsExclusive
    BY <1>1 DEF Init, QueueOK, HoldersOK, ReadableOK, StreamsExclusive, Holds
  <2> QED
    BY <2>2, <2>3, Zenon DEF StreamsInv
<1> QED
  BY <1>1, StreamsStep, PTL DEF Spec

\* The types of QuicClient: in particular execute_rpc_call_quic and the
\* callbacks of the event loop never follow a NULL stream or message.
THEOREM TypeCorrect == Spec => []TypeOK
BY StreamsInvariant, PTL DEF StreamsInv

\* No auxiliary stream carries two calls at once: allocate_stream takes a stream
\* that is marked as free or new, and the mark is taken away only by the one call
\* that has the stream, after its context has left the list.
THEOREM StreamSafety == Spec => []StreamsExclusive
BY StreamsInvariant, PTL DEF StreamsInv

-----------------------------------------------------------------------------
(***************************************************************************)
(* Whose reply a call gets, and how long its context lives.                *)
(***************************************************************************)
\* Where a thread is while its context is on the list.
Listed == {"check", "sleep", "asleep", "collect", "remove"}

\* The list has exactly the contexts of the threads that wait for a reply or have one,
\* each once.
ListOK ==
    /\ \A i \in Invoker : pc[i] \in Listed <=> \E k \in DOMAIN contexts : contexts[k] = i
    /\ \A j, k \in DOMAIN contexts : contexts[j] = contexts[k] => j = k

\* A context is freed when it leaves the list.
AliveOK == \A i \in Invoker : ctx[i].alive <=> pc[i] \notin {"idle", "release"}

\* The event loop signals the owner of a context on the list, and holds the list's lock.
SignalOK ==
    /\ cur # NULL <=> loop \in {"signal", "signal_last"}
    /\ cur # NULL => pc[cur] \in Listed

\* What is in transit on a stream is the current call of a thread that has the stream and
\* waits, or the reply to it.
WireOK ==
    \A s \in StreamId : wire[s] # NULL =>
        LET i == wire[s].by
        IN  /\ pc[i] \in {"check", "sleep", "asleep"}
            /\ ctx[i].stream = s /\ ctx[i].attempted /\ ~ctx[i].finished
            /\ wire[s].nr = calls[i]

\* A thread leaves wait_for_rpc_reply when its call is finished, and the reply it then has
\* is its own.
ReplyOK ==
    \A i \in Invoker :
        /\ pc[i] \in {"collect", "remove"} => ctx[i].finished
        /\ pc[i] # "idle" /\ ctx[i].finished => ctx[i].attempted
        /\ pc[i] # "idle" /\ ctx[i].received => ctx[i].reply = [by |-> i, nr |-> calls[i]]

RepliesInv == StreamsInv /\ ListOK /\ AliveOK /\ SignalOK /\ WireOK /\ ReplyOK /\ OwnReply

\* find_stream_context returns a context on the list that has the stream.
LEMMA FindFinds ==
    ASSUME TypeOK, NEW s, FindAt(s) # 0
    PROVE  /\ FindAt(s) \in DOMAIN contexts /\ ctx[contexts[FindAt(s)]].stream = s
           /\ Find(s) = contexts[FindAt(s)] /\ Find(s) \in Invoker
<1> DEFINE places == {k \in DOMAIN contexts : ctx[contexts[k]].stream = s}
<1>1. contexts \in Seq(Invoker) /\ places # {}
  BY Zenon DEF TypeOK, FindAt
<1>2. \E k \in places : \A j \in places : k <= j
  <2>1. places \in SUBSET Nat
    BY <1>1
  <2> HIDE DEF places
  <2> QED
    BY <1>1, <2>1, LeastElement, Zenon
<1>3. FindAt(s) \in places
  BY <1>1, <1>2, Zenon DEF FindAt
<1> QED
  BY <1>1, <1>3 DEF Find

\* The owner of a context on the list has the stream of the context.
LEMMA ListedHolds ==
    ASSUME RepliesInv, NEW i \in Invoker, pc[i] \in Listed
    PROVE  Holds(i)
  BY Zenon DEF RepliesInv, StreamsInv, HoldersOK, Holds, Listed

\* As streams are exclusive, a context on the list is found by its stream ...
LEMMA FoundByStream ==
    ASSUME RepliesInv, NEW i \in Invoker, pc[i] \in Listed
    PROVE  FindAt(ctx[i].stream) # 0 /\ Find(ctx[i].stream) = i
<1> DEFINE s == ctx[i].stream
<1>1. TypeOK /\ contexts \in Seq(Invoker)
  BY Zenon DEF RepliesInv, StreamsInv, TypeOK
<1>2. PICK k \in DOMAIN contexts : contexts[k] = i
  BY Zenon DEF RepliesInv, ListOK
<1>3. FindAt(s) # 0
  <2> DEFINE places == {j \in DOMAIN contexts : ctx[contexts[j]].stream = s}
  <2>1. k \in places /\ places \in SUBSET Nat /\ 0 \notin places
    BY <1>1, <1>2
  <2>2. \E x \in places : \A y \in places : x <= y
    <3> HIDE DEF places
    <3> QED
      BY <2>1, LeastElement, Zenon
  <2>3. FindAt(s) \in places
    BY <2>1, <2>2, Zenon DEF FindAt
  <2> QED
    BY <2>1, <2>3, Zenon
<1>4. Find(s) \in Invoker /\ ctx[Find(s)].stream = s /\ \E j \in DOMAIN contexts : contexts[j] = Find(s)
  BY <1>1, <1>3, FindFinds, Zenon
<1>5. pc[Find(s)] \in Listed
  BY <1>4, Zenon DEF RepliesInv, ListOK
<1>6. Find(s) = i
  BY <1>4, <1>5, ListedHolds, Zenon DEF RepliesInv, StreamsInv, StreamsExclusive
<1> QED
  BY <1>3, <1>6, Zenon

\* ... and what is found is the context of a thread that waits on this stream.
LEMMA FoundIsListed ==
    ASSUME RepliesInv, NEW s, Find(s) # NULL
    PROVE  Find(s) \in Invoker /\ pc[Find(s)] \in Listed /\ ctx[Find(s)].stream = s
<1>1. TypeOK /\ FindAt(s) # 0
  BY Zenon DEF RepliesInv, StreamsInv, Find
<1>2. Find(s) \in Invoker /\ ctx[Find(s)].stream = s /\ \E j \in DOMAIN contexts : contexts[j] = Find(s)
  BY <1>1, FindFinds, Zenon
<1> QED
  BY <1>2, Zenon DEF RepliesInv, ListOK

\* So remove_stream_context, which searches by the stream, frees the context of its caller.
LEMMA RemovesOwn ==
    ASSUME RepliesInv, NEW i \in Invoker, RemoveContext(i)
    PROVE  /\ ctx' = [ctx EXCEPT ![i] = [ctx[i] EXCEPT !.alive = FALSE]]
           /\ contexts' \in Seq(Invoker)
           /\ \A j \in Invoker : (\E k \in DOMAIN contexts' : contexts'[k] = j)
                                     <=> j # i /\ \E k \in DOMAIN contexts : contexts[k] = j
           /\ \A j, k \in DOMAIN contexts' : contexts'[j] = contexts'[k] => j = k
<1> DEFINE n == FindAt(ctx[i].stream)
           len == Len(contexts)
<1>1. contexts \in Seq(Invoker) /\ len \in Nat /\ DOMAIN contexts = 1..len /\ TypeOK
  BY DEF RepliesInv, StreamsInv, TypeOK
<1>2. pc[i] \in Listed
  BY Zenon DEF RemoveContext, Listed
<1>3. n # 0 /\ n \in 1..len /\ contexts[n] = i
  BY <1>1, <1>2, FoundByStream, FindFinds, Zenon
<1>4. /\ ctx' = [ctx EXCEPT ![contexts[n]].alive = FALSE]
      /\ contexts' = [j \in 1..(len - 1) |-> contexts[IF j < n THEN j ELSE j + 1]]
  BY <1>3, Zenon DEF RemoveContext
<1>5. ctx' = [ctx EXCEPT ![i] = [ctx[i] EXCEPT !.alive = FALSE]]
  BY <1>3, <1>4, Zenon
<1> HIDE DEF n, len
<1>6. len - 1 \in Nat
  BY <1>1, <1>3
<1>7. \A j \in 1..(len - 1) : (IF j < n THEN j ELSE j + 1) \in 1..len
  BY <1>1, <1>3
<1>8. contexts' \in Seq(Invoker) /\ DOMAIN contexts' = 1..(len - 1)
  <2>1. contexts' \in [1..(len - 1) -> Invoker]
    BY <1>1, <1>4, <1>7
  <2> QED
    BY <1>6, <2>1
<1>9. \A j, k \in 1..len : contexts[j] = contexts[k] => j = k
  BY <1>1, Zenon DEF RepliesInv, ListOK
<1>10. \A j, k \in DOMAIN contexts' : contexts'[j] = contexts'[k] => j = k
  BY <1>1, <1>3, <1>4, <1>7, <1>8, <1>9
<1>11. ASSUME NEW j \in Invoker, NEW k \in DOMAIN contexts', contexts'[k] = j
       PROVE  j # i /\ \E m \in DOMAIN contexts : contexts[m] = j
  <2> DEFINE m == IF k < n THEN k ELSE k + 1
  <2>1. m \in 1..len /\ contexts[m] = j /\ m # n
    BY <1>1, <1>3, <1>4, <1>7, <1>8, <1>11
  <2> HIDE DEF m
  <2> QED
    BY <1>1, <1>3, <1>9, <2>1, Zenon
<1>12. ASSUME NEW j \in Invoker, j # i, NEW m \in DOMAIN contexts, contexts[m] = j
       PROVE  \E k \in DOMAIN contexts' : contexts'[k] = j
  <2> DEFINE k == IF m < n THEN m ELSE m - 1
  <2>1. m # n /\ m \in 1..len
    BY <1>1, <1>3, <1>12, Zenon
  <2>2. k \in 1..(len - 1) /\ (IF k < n THEN k ELSE k + 1) = m
    BY <1>1, <1>3, <2>1
  <2> HIDE DEF k
  <2>3. contexts'[k] = j
    BY <1>4, <1>12, <2>2, Zenon
  <2> QED
    BY <1>8, <2>2, <2>3, Zenon
<1> QED
  BY <1>5, <1>8, <1>10, <1>11, <1>12, Zenon

\* A step that changes neither the contexts nor the list nor the wire, and leaves the
\* threads where they are, or only moves one inside the wait.
LEMMA WaitingStays ==
    ASSUME RepliesInv, UNCHANGED <<calls, result, ctx, contexts, wire>>,
           cur' # NULL <=> loop' \in {"signal", "signal_last"},
           cur' \in {cur, NULL},
           \A j \in Invoker : pc'[j] = pc[j] \/ {pc[j], pc'[j]} \subseteq {"check", "sleep", "asleep"}
    PROVE  ListOK' /\ AliveOK' /\ SignalOK' /\ WireOK' /\ ReplyOK' /\ OwnReply'
<1>1. TypeOK /\ ListOK /\ AliveOK /\ SignalOK /\ WireOK /\ ReplyOK /\ OwnReply
  BY Zenon DEF RepliesInv, StreamsInv
<1>2. \A j \in Invoker : pc'[j] \in Listed <=> pc[j] \in Listed
  BY Zenon DEF Listed
<1>3. ListOK'
  BY <1>1, <1>2, Zenon DEF ListOK
<1>4. AliveOK'
  BY <1>1, Zenon DEF AliveOK
<1>5. SignalOK'
  BY <1>1, <1>2, Zenon DEF SignalOK, TypeOK
<1>6. WireOK'
  <2>1. \A s \in StreamId : wire[s] # NULL => wire[s].by \in Invoker
    BY <1>1, Zenon DEF TypeOK, Message
  <2> QED
    BY <1>1, <2>1, Zenon DEF WireOK
<1>7. ReplyOK' /\ OwnReply'
  BY <1>1, Zenon DEF ReplyOK, OwnReply
<1> QED
  BY <1>3, <1>4, <1>5, <1>6, <1>7, Zenon

\* Every step of the calling threads, of the event loop and of the server keeps the replies
\* with their calls.
LEMMA RepliesStep == RepliesInv /\ [Next]_vars => RepliesInv'
<1> SUFFICES ASSUME RepliesInv, [Next]_vars
             PROVE  ListOK' /\ AliveOK' /\ SignalOK' /\ WireOK' /\ ReplyOK' /\ OwnReply'
  BY StreamsStep, Zenon DEF RepliesInv
<1> DEFINE Goal == ListOK' /\ AliveOK' /\ SignalOK' /\ WireOK' /\ ReplyOK' /\ OwnReply'
<1> USE DEF poolVars, invokerVars
<1>t. /\ TypeOK /\ ListOK /\ AliveOK /\ SignalOK /\ WireOK /\ ReplyOK /\ OwnReply
      /\ pc \in [Invoker -> {"idle", "allocated?", "check", "sleep", "asleep", "collect",
                             "remove", "release"}]
      /\ calls \in [Invoker -> Nat] /\ result \in [Invoker -> CallId \cup {NULL}]
      /\ ctx \in [Invoker -> StreamContext] /\ queue \in Seq(Invoker) /\ contexts \in Seq(Invoker)
      /\ wire \in [StreamId -> Message \cup {NULL}] /\ cur \in Invoker \cup {NULL}
      /\ NULL \notin Invoker
  BY QuicClientAssumption, Zenon DEF RepliesInv, StreamsInv, TypeOK
<1>w. \A s \in StreamId : wire[s] # NULL => wire[s].by \in Invoker
  BY <1>t, Zenon DEF Message
<1>1. CASE UNCHANGED vars
  BY <1>1, <1>t, WaitingStays, Zenon DEF vars, SignalOK
<1>2. ASSUME NEW i \in Invoker, Call(i) PROVE Goal
  <2>1. /\ pc[i] = "idle" /\ pc'[i] = "allocated?" /\ ctx'[i] = NewContext /\ calls'[i] = calls[i] + 1
        /\ \A j \in Invoker \ {i} : pc'[j] = pc[j] /\ ctx'[j] = ctx[j] /\ calls'[j] = calls[j]
        /\ UNCHANGED <<result, contexts, wire, loop, cur>>
    BY <1>2, <1>t, Zenon DEF Call
  <2>2. \A j \in Invoker : pc'[j] \in Listed <=> pc[j] \in Listed
    BY <2>1, Zenon DEF Listed
  <2>3. ListOK' /\ SignalOK'
    BY <1>t, <2>1, <2>2, Zenon DEF ListOK, SignalOK
  <2>4. AliveOK' /\ ReplyOK' /\ OwnReply'
    <3>1. ctx'[i].alive = TRUE /\ ctx'[i].received = FALSE /\ ctx'[i].finished = FALSE
      BY <2>1 DEF NewContext
    <3>2. AliveOK'
      BY <1>t, <2>1, <3>1, Zenon DEF AliveOK
    <3>3. ReplyOK'
      <4> SUFFICES ASSUME NEW j \in Invoker
                   PROVE  /\ pc'[j] \in {"collect", "remove"} => ctx'[j].finished
                          /\ pc'[j] # "idle" /\ ctx'[j].finished => ctx'[j].attempted
                          /\ pc'[j] # "idle" /\ ctx'[j].received
                               => ctx'[j].reply = [by |-> j, nr |-> calls'[j]]
        BY Zenon DEF ReplyOK
      <4>1. CASE j = i
        BY <2>1, <3>1, <4>1, Zenon
      <4>2. CASE j # i
        BY <1>t, <2>1, <4>2, Zenon DEF ReplyOK
      <4> QED
        BY <4>1, <4>2, Zenon
    <3>4. OwnReply'
      BY <1>t, <2>1, Zenon DEF OwnReply
    <3> QED
      BY <3>2, <3>3, <3>4, Zenon
  <2>5. WireOK'
    <3>1. \A s \in StreamId : wire[s] # NULL => wire[s].by \in Invoker \ {i}
      BY <1>t, <1>w, <2>1, Zenon DEF WireOK
    <3> QED
      BY <1>t, <2>1, <3>1 DEF WireOK
  <2> QED
    BY <2>3, <2>4, <2>5, Zenon
<1>3. ASSUME NEW i \in Invoker, AddContext(i) PROVE Goal
  <2>1. /\ pc[i] = "allocated?" /\ pc'[i] = "check"
        /\ \A j \in Invoker \ {i} : pc'[j] = pc[j]
        /\ contexts' = <<i>> \o contexts
        /\ UNCHANGED <<result, ctx, calls, wire, loop, cur>>
    BY <1>3, <1>t, Zenon DEF AddContext
  <2>2. /\ \A j \in Invoker : (\E k \in DOMAIN contexts' : contexts'[k] = j)
                                 <=> j = i \/ \E k \in DOMAIN contexts : contexts[k] = j
        /\ \A j, k \in DOMAIN contexts' : contexts'[j] = contexts'[k] => j = k
    <3> DEFINE len == Len(contexts)
    <3>1. /\ len \in Nat /\ DOMAIN contexts = 1..len /\ DOMAIN contexts' = 1..(len + 1)
          /\ contexts'[1] = i /\ \A k \in 2..(len + 1) : contexts'[k] = contexts[k - 1]
      BY <1>t, <2>1
    <3>2. \A k \in 1..len : contexts[k] # i /\ contexts'[k + 1] = contexts[k]
      <4>1. pc[i] \notin Listed
        BY <2>1, Zenon DEF Listed
      <4>2. \A k \in 1..len : contexts[k] # i
        BY <1>t, <3>1, <4>1, Zenon DEF ListOK
      <4>3. \A k \in 1..len : k + 1 \in 2..(len + 1) /\ (k + 1) - 1 = k
        BY <3>1
      <4> QED
        BY <3>1, <4>2, <4>3, Zenon
    <3>3. \A j, k \in 1..len : contexts[j] = contexts[k] => j = k
      BY <1>t, <3>1, Zenon DEF ListOK
    <3> HIDE DEF len
    <3>4. \A j \in Invoker : (\E k \in DOMAIN contexts' : contexts'[k] = j)
                                => j = i \/ \E k \in DOMAIN contexts : contexts[k] = j
      <4> SUFFICES ASSUME NEW k \in 1..(len + 1), contexts'[k] # i
                   PROVE  k - 1 \in 1..len /\ contexts[k - 1] = contexts'[k]
        BY <3>1, Zenon
      <4> QED
        BY <3>1
    <3>5. \A k \in 1..len : k + 1 \in 1..(len + 1)
      BY <3>1
    <3>6. ASSUME NEW j \in 1..(len + 1), NEW k \in 1..(len + 1), contexts'[j] = contexts'[k] PROVE j = k
      <4>1. CASE j = 1 \/ k = 1
        <5>1. \A m \in 2..(len + 1) : contexts'[m] # i
          BY <3>1, <3>2
        <5> QED
          BY <3>1, <3>6, <4>1, <5>1
      <4>2. CASE j # 1 /\ k # 1
        <5>1. j - 1 \in 1..len /\ k - 1 \in 1..len /\ contexts[j - 1] = contexts[k - 1]
          BY <3>1, <3>6, <4>2
        <5>2. j - 1 = k - 1
          BY <3>3, <5>1, Zenon
        <5> QED
          BY <3>1, <5>2
      <4> QED
        BY <4>1, <4>2, Zenon
    <3>7. \A j \in Invoker : j = i \/ (\E k \in DOMAIN contexts : contexts[k] = j)
                                => \E k \in DOMAIN contexts' : contexts'[k] = j
      <4>1. 1 \in DOMAIN contexts'
        BY <3>1
      <4> QED
        BY <3>1, <3>2, <3>5, <4>1, Zenon
    <3> QED
      BY <3>1, <3>4, <3>6, <3>7, Zenon
  <2>3. ListOK'
    <3>1. \A j \in Invoker : pc'[j] \in Listed <=> j = i \/ pc[j] \in Listed
      BY <2>1, Zenon DEF Listed
    <3> QED
      BY <1>t, <2>2, <3>1, Zenon DEF ListOK
  <2>4. AliveOK' /\ SignalOK' /\ ReplyOK' /\ OwnReply'
    BY <1>t, <2>1, Zenon DEF AliveOK, SignalOK, ReplyOK, OwnReply, Listed
  <2>5. WireOK'
    BY <1>t, <1>w, <2>1, Zenon DEF WireOK
  <2> QED
    BY <2>3, <2>4, <2>5, Zenon
<1>4. ASSUME NEW i \in Invoker, Sleep(i) \/ SpuriousWakeUp(i) \/ (Check(i) /\ ~ctx[i].finished) PROVE Goal
  <2>1. \A j \in Invoker : pc'[j] = pc[j] \/ {pc[j], pc'[j]} \subseteq {"check", "sleep", "asleep"}
    BY <1>4, <1>t, Zenon DEF Sleep, SpuriousWakeUp, Check
  <2>2. UNCHANGED <<calls, result, ctx, contexts, wire, loop, cur>>
    BY <1>4, Zenon DEF Sleep, SpuriousWakeUp, Check
  <2> QED
    BY <1>t, <2>1, <2>2, WaitingStays, Zenon DEF SignalOK
<1>5. ASSUME NEW i \in Invoker, (Check(i) /\ ctx[i].finished) \/ Collect(i) PROVE Goal
  <2>1. /\ pc[i] \in {"check", "collect"} /\ pc'[i] \in {"collect", "remove"} /\ ctx[i].finished
        /\ \A j \in Invoker \ {i} : pc'[j] = pc[j] /\ result'[j] = result[j]
        /\ UNCHANGED <<ctx, calls, contexts, wire, loop, cur>>
    BY <1>5, <1>t, Zenon DEF Check, Collect, ReplyOK
  <2>2. \A j \in Invoker : pc'[j] \in Listed <=> pc[j] \in Listed
    BY <2>1, Zenon DEF Listed
  <2>3. ListOK' /\ SignalOK'
    BY <1>t, <2>1, <2>2, Zenon DEF ListOK, SignalOK
  <2>4. AliveOK' /\ ReplyOK'
    BY <1>t, <2>1, Zenon DEF AliveOK, ReplyOK
  <2>5. OwnReply'
    <3>1. pc'[i] = "remove" => result'[i] \in {NULL, [by |-> i, nr |-> calls[i]]}
      BY <1>5, <1>t, <2>1, Zenon DEF Check, Collect, ReplyOK
    <3> QED
      BY <1>t, <2>1, <3>1, Zenon DEF OwnReply
  <2>6. WireOK'
    BY <1>t, <1>w, <2>1, Zenon DEF WireOK
  <2> QED
    BY <2>3, <2>4, <2>5, <2>6, Zenon
<1>6. ASSUME NEW i \in Invoker, RemoveContext(i) PROVE Goal
  <2>1. /\ ctx' = [ctx EXCEPT ![i] = [ctx[i] EXCEPT !.alive = FALSE]]
        /\ \A j \in Invoker : (\E k \in DOMAIN contexts' : contexts'[k] = j)
                                 <=> j # i /\ \E k \in DOMAIN contexts : contexts[k] = j
        /\ \A j, k \in DOMAIN contexts' : contexts'[j] = contexts'[k] => j = k
    BY <1>6, RemovesOwn, Zenon
  <2>2. /\ pc[i] = "remove" /\ pc'[i] = "release" /\ ListUnlocked
        /\ \A j \in Invoker \ {i} : pc'[j] = pc[j]
        /\ UNCHANGED <<calls, result, wire, loop, cur>>
    BY <1>6, <1>t, Zenon DEF RemoveContext
  <2>3. /\ \A j \in Invoker \ {i} : ctx'[j] = ctx[j]
        /\ ctx'[i].alive = FALSE /\ ctx'[i].received = ctx[i].received /\ ctx'[i].reply = ctx[i].reply
        /\ ctx'[i].finished = ctx[i].finished /\ ctx'[i].attempted = ctx[i].attempted
    BY <1>t, <2>1 DEF StreamContext
  <2>4. ListOK'
    <3>1. \A j \in Invoker : pc'[j] \in Listed <=> j # i /\ pc[j] \in Listed
      BY <2>2, Zenon DEF Listed
    <3> QED
      BY <1>t, <2>1, <3>1, Zenon DEF ListOK
  <2>5. AliveOK'
    BY <1>t, <2>2, <2>3, Zenon DEF AliveOK
  <2>6. SignalOK'
    BY <1>t, <2>2, Zenon DEF SignalOK, ListUnlocked
  <2>7. WireOK'
    <3>1. \A s \in StreamId : wire[s] # NULL => wire[s].by \in Invoker \ {i}
      BY <1>t, <1>w, <2>2, Zenon DEF WireOK
    <3> QED
      BY <1>t, <2>2, <2>3, <3>1 DEF WireOK
  <2>8. ReplyOK' /\ OwnReply'
    <3>1. OwnReply'
      BY <1>t, <2>2, Zenon DEF OwnReply, ReplyOK
    <3>2. ASSUME NEW j \in Invoker
          PROVE  /\ pc'[j] \in {"collect", "remove"} => ctx'[j].finished
                 /\ pc'[j] # "idle" /\ ctx'[j].finished => ctx'[j].attempted
                 /\ pc'[j] # "idle" /\ ctx'[j].received => ctx'[j].reply = [by |-> j, nr |-> calls[j]]
      <4>1. /\ pc[j] \in {"collect", "remove"} => ctx[j].finished
            /\ pc[j] # "idle" /\ ctx[j].finished => ctx[j].attempted
            /\ pc[j] # "idle" /\ ctx[j].received => ctx[j].reply = [by |-> j, nr |-> calls[j]]
        BY <1>t, Zenon DEF ReplyOK
      <4>2. CASE j = i
        BY <2>2, <2>3, <4>1, <4>2, Zenon
      <4>3. CASE j # i
        BY <2>2, <2>3, <4>1, <4>3, Zenon
      <4> QED
        BY <4>2, <4>3, Zenon
    <3>3. calls' = calls
      BY <2>2, Zenon
    <3> QED
      BY <3>1, <3>2, <3>3, Zenon DEF ReplyOK
  <2> QED
    BY <2>4, <2>5, <2>6, <2>7, <2>8, Zenon
<1>7. ASSUME NEW i \in Invoker, Release(i) PROVE Goal
  <2>1. /\ pc[i] = "release" /\ pc'[i] = "idle"
        /\ \A j \in Invoker \ {i} : pc'[j] = pc[j]
        /\ UNCHANGED <<calls, result, ctx, contexts, wire, loop, cur>>
    BY <1>7, <1>t, Zenon DEF Release
  <2>2. \A j \in Invoker : pc'[j] \in Listed <=> pc[j] \in Listed
    BY <2>1, Zenon DEF Listed
  <2>3. ListOK' /\ SignalOK'
    BY <1>t, <2>1, <2>2, Zenon DEF ListOK, SignalOK
  <2>4. /\ AliveOK'
        /\ ReplyOK'
        /\ OwnReply'
    BY <1>t, <2>1, Zenon DEF AliveOK, ReplyOK, OwnReply
  <2>5. WireOK'
    BY <1>t, <1>w, <2>1, Zenon DEF WireOK
  <2> QED
    BY <2>3, <2>4, <2>5, Zenon
<1>8. CASE Allocate
  <2> DEFINE i == Head(queue)
  <2>1. i \in Invoker /\ pc[i] = "allocated?"
    <3>1. i = queue[1] /\ 1 \in DOMAIN queue
      BY <1>8, <1>t DEF Allocate
    <3> QED
      BY <1>t, <3>1 DEF RepliesInv, StreamsInv, QueueOK
  <2> HIDE DEF i
  <2>2. UNCHANGED <<pc, calls, result, contexts, wire, loop, cur>>
    BY <1>8, Zenon DEF Allocate
  <2>3. /\ \A j \in Invoker \ {i} : ctx'[j] = ctx[j]
        /\ ctx'[i].alive = ctx[i].alive /\ ctx'[i].received = ctx[i].received /\ ctx'[i].reply = ctx[i].reply
        /\ ctx'[i].finished = ctx[i].finished /\ ctx'[i].attempted = ctx[i].attempted
    <3>1. CASE ctx' = [ctx EXCEPT ![i] = [ctx[i] EXCEPT !.alloc = "ok", !.stream = AvailableStream]]
      BY <1>t, <2>1, <3>1 DEF StreamContext
    <3>2. CASE ctx' = [ctx EXCEPT ![i] = [ctx[i] EXCEPT !.alloc = "failed"]]
      BY <1>t, <2>1, <3>2 DEF StreamContext
    <3> QED
      BY <1>8, <3>1, <3>2, Zenon DEF Allocate, i
  <2>4. ListOK' /\ SignalOK' /\ OwnReply'
    BY <1>t, <2>2, Zenon DEF ListOK, SignalOK, OwnReply
  <2>5. AliveOK' /\ ReplyOK'
    BY <1>t, <2>1, <2>2, <2>3, Zenon DEF AliveOK, ReplyOK
  <2>6. WireOK'
    <3>1. \A s \in StreamId : wire[s] # NULL => wire[s].by \in Invoker \ {i}
      BY <1>t, <1>w, <2>1, Zenon DEF WireOK
    <3> QED
      BY <1>t, <2>2, <2>3, <3>1 DEF WireOK
  <2> QED
    BY <2>4, <2>5, <2>6, Zenon
<1>9. CASE AllocatorBegin \/ AllocatorEnd \/ ProcessBegin \/ ProcessEnd
  <2>1. /\ UNCHANGED <<pc, calls, result, ctx, contexts, wire, cur>>
        /\ {loop, loop'} \subseteq {"run", "allocate", "process"}
    BY <1>9, Zenon DEF AllocatorBegin, AllocatorEnd, ProcessBegin, ProcessEnd
  <2> QED
    BY <1>t, <2>1, WaitingStays, Zenon DEF SignalOK
<1>10. CASE Signal
  <2>1. UNCHANGED <<calls, result, ctx, contexts, wire>> /\ cur' = NULL /\ loop' \in {"process", "dead"}
    BY <1>10, Zenon DEF Signal
  <2>2. \A j \in Invoker : pc'[j] = pc[j] \/ {pc[j], pc'[j]} \subseteq {"check", "sleep", "asleep"}
    BY <1>10, <1>t, Zenon DEF Signal
  <2> QED
    BY <2>1, <2>2, WaitingStays, Zenon
<1>11. ASSUME NEW s \in StreamId, WritableIdle(s) PROVE Goal
  BY <1>11, <1>t, WaitingStays, Zenon DEF WritableIdle, SignalOK
<1>12. ASSUME NEW s \in StreamId, Writable(s) PROVE Goal
  <2> DEFINE i == Find(s)
  <2>1. i \in Invoker /\ pc[i] \in Listed /\ ctx[i].stream = s /\ ~ctx[i].attempted
    BY <1>12, FoundIsListed, Zenon DEF Writable
  <2>2. wire[s] = NULL
    <3>1. wire[s] # NULL => wire[s].by \in Invoker /\ pc[wire[s].by] \in Listed
                              /\ ctx[wire[s].by].stream = s /\ ctx[wire[s].by].attempted
      BY <1>t, <1>w, Zenon DEF WireOK, Listed
    <3> QED
      BY <2>1, <3>1, FoundByStream, Zenon
  <2>3. /\ UNCHANGED <<pc, calls, result, contexts, cur>> /\ loop = "process"
        /\ loop' \in {"process"} \cup Killed
        /\ \/ wire' = [wire EXCEPT ![s] = [kind |-> "call", by |-> i, nr |-> calls[i]]]
           \/ wire' = wire
        /\ \/ ctx' = [ctx EXCEPT ![i] = [ctx[i] EXCEPT !.attempted = TRUE, !.sent = TRUE]]
           \/ ctx' = [ctx EXCEPT ![i] = [ctx[i] EXCEPT !.attempted = TRUE]]
    BY <1>12, Zenon DEF Writable
  <2>4. pc[i] # "idle" /\ ~ctx[i].finished
    BY <1>t, <2>1, Zenon DEF ReplyOK, Listed
  <2> HIDE DEF i
  <2>5. /\ \A j \in Invoker \ {i} : ctx'[j] = ctx[j]
        /\ ctx'[i].attempted = TRUE
        /\ ctx'[i].stream = ctx[i].stream /\ ctx'[i].finished = ctx[i].finished
        /\ ctx'[i].alive = ctx[i].alive /\ ctx'[i].received = ctx[i].received /\ ctx'[i].reply = ctx[i].reply
    <3>1. CASE ctx' = [ctx EXCEPT ![i] = [ctx[i] EXCEPT !.attempted = TRUE, !.sent = TRUE]]
      BY <1>t, <2>1, <3>1 DEF StreamContext
    <3>2. CASE ctx' = [ctx EXCEPT ![i] = [ctx[i] EXCEPT !.attempted = TRUE]]
      BY <1>t, <2>1, <3>2 DEF StreamContext
    <3> QED
      BY <2>3, <3>1, <3>2, Zenon
  <2>6. ListOK' /\ SignalOK' /\ OwnReply'
    BY <1>t, <2>3, Zenon DEF ListOK, SignalOK, OwnReply, Killed
  <2>7. AliveOK' /\ ReplyOK'
    <3>1. pc' = pc /\ calls' = calls /\ AliveOK /\ ReplyOK
      BY <1>t, <2>3, Zenon
    <3>2. AliveOK'
      BY <2>1, <2>5, <3>1, Zenon DEF AliveOK
    <3>3. ReplyOK'
      BY <2>1, <2>5, <3>1, Zenon DEF ReplyOK
    <3> QED
      BY <3>2, <3>3, Zenon
  <2>8. WireOK'
    <3> SUFFICES ASSUME NEW r \in StreamId, wire'[r] # NULL
                 PROVE  LET j == wire'[r].by
                        IN  /\ pc[j] \in {"check", "sleep", "asleep"}
                            /\ ctx'[j].stream = r /\ ctx'[j].attempted /\ ~ctx'[j].finished
                            /\ wire'[r].nr = calls[j]
      BY <2>3, Zenon DEF WireOK
    <3>1. CASE r = s
      <4>1. wire'[r].by = i /\ wire'[r].nr = calls[i]
        BY <1>t, <2>2, <2>3, <3>1
      <4>2. pc[i] \in {"check", "sleep", "asleep"}
        BY <1>t, <2>1, <2>4, Zenon DEF ReplyOK, Listed
      <4> QED
        BY <2>1, <2>4, <2>5, <3>1, <4>1, <4>2, Zenon
    <3>2. CASE r # s
      <4>1. wire'[r] = wire[r] /\ wire[r].by \in Invoker /\ ctx[wire[r].by].stream = r
        BY <1>t, <1>w, <2>3, <3>2, Zenon DEF WireOK
      <4>2. wire[r].by # i
        BY <2>1, <3>2, <4>1, Zenon
      <4> QED
        BY <1>t, <2>5, <4>1, <4>2 DEF WireOK
    <3> QED
      BY <3>1, <3>2, Zenon
  <2> QED
    BY <2>6, <2>7, <2>8, Zenon
<1>13. ASSUME NEW s \in StreamId, Readable(s) PROVE Goal
  <2> DEFINE i == Find(s)
             id == [by |-> wire[s].by, nr |-> wire[s].nr]
  <2>1. i \in Invoker /\ pc[i] \in Listed /\ ctx[i].stream = s
    BY <1>13, FoundIsListed, Zenon DEF Readable
  <2>2. wire[s] # NULL
    BY <1>13, QuicClientAssumption, Zenon DEF Readable, RepliesInv, StreamsInv, ReadableOK
  <2>3. wire[s].by = i /\ wire[s].nr = calls[i] /\ ctx[i].attempted
    <3>1. /\ wire[s].by \in Invoker /\ pc[wire[s].by] \in Listed /\ ctx[wire[s].by].stream = s
          /\ ctx[wire[s].by].attempted /\ wire[s].nr = calls[wire[s].by]
      BY <1>t, <1>w, <2>2, Zenon DEF WireOK, Listed
    <3> QED
      BY <3>1, FoundByStream, Zenon
  <2>4. /\ UNCHANGED <<pc, calls, result, contexts>> /\ loop = "process"
        /\ wire' = [wire EXCEPT ![s] = NULL]
        /\ \/ cur' = i /\ loop' \in {"signal", "signal_last"}
           \/ cur' = cur /\ loop' = "dead_locked"
        /\ \/ ctx' = [ctx EXCEPT ![i].finished = TRUE, ![i].received = TRUE, ![i].reply = id]
           \/ ctx' = [ctx EXCEPT ![i].finished = TRUE]
    BY <1>13, Zenon DEF Readable
  <2>5. id = [by |-> i, nr |-> calls[i]]
    BY <2>3, Zenon
  <2> HIDE DEF i, id
  <2>6. /\ \A j \in Invoker \ {i} : ctx'[j] = ctx[j]
        /\ ctx'[i].attempted = ctx[i].attempted /\ ctx'[i].stream = ctx[i].stream
        /\ ctx'[i].finished = TRUE /\ ctx'[i].alive = ctx[i].alive
        /\ \/ ctx'[i].received = ctx[i].received /\ ctx'[i].reply = ctx[i].reply
           \/ ctx'[i].reply = id
    <3>1. CASE ctx' = [ctx EXCEPT ![i].finished = TRUE, ![i].received = TRUE, ![i].reply = id]
      BY <1>t, <2>1, <3>1 DEF StreamContext
    <3>2. CASE ctx' = [ctx EXCEPT ![i].finished = TRUE]
      BY <1>t, <2>1, <3>2 DEF StreamContext
    <3> QED
      BY <2>4, <3>1, <3>2, Zenon
  <2>7. ListOK' /\ SignalOK' /\ OwnReply'
    BY <1>t, <2>1, <2>4 DEF ListOK, SignalOK, OwnReply
  <2>8. AliveOK'
    BY <1>t, <2>1, <2>4, <2>6, Zenon DEF AliveOK
  <2>9. ReplyOK'
    <3> SUFFICES ASSUME NEW j \in Invoker
                 PROVE  /\ pc[j] \in {"collect", "remove"} => ctx'[j].finished
                        /\ pc[j] # "idle" /\ ctx'[j].finished => ctx'[j].attempted
                        /\ pc[j] # "idle" /\ ctx'[j].received => ctx'[j].reply = [by |-> j, nr |-> calls[j]]
      BY <2>4, Zenon DEF ReplyOK
    <3>1. CASE j = i
      BY <1>t, <2>3, <2>5, <2>6, <3>1, Zenon DEF ReplyOK
    <3>2. CASE j # i
      BY <1>t, <2>6, <3>2, Zenon DEF ReplyOK
    <3> QED
      BY <3>1, <3>2, Zenon
  <2>10. WireOK'
    <3> SUFFICES ASSUME NEW r \in StreamId, wire'[r] # NULL
                 PROVE  LET j == wire'[r].by
                        IN  /\ pc[j] \in {"check", "sleep", "asleep"}
                            /\ ctx'[j].stream = r /\ ctx'[j].attempted /\ ~ctx'[j].finished
                            /\ wire'[r].nr = calls[j]
      BY <2>4, Zenon DEF WireOK
    <3>1. r # s /\ wire'[r] = wire[r]
      BY <1>t, <2>4, Zenon
    <3>2. wire[r].by \in Invoker \ {i}
      BY <1>t, <1>w, <2>1, <3>1, Zenon DEF WireOK
    <3>3. ctx'[wire[r].by] = ctx[wire[r].by]
      BY <2>6, <3>2, Zenon
    <3> QED
      BY <1>t, <3>1, <3>3 DEF WireOK
  <2> QED
    BY <2>7, <2>8, <2>9, <2>10, Zenon
<1>14. ASSUME NEW s \in StreamId, ServerReplies(s) PROVE Goal
  <2>1. /\ UNCHANGED <<pc, calls, result, ctx, contexts, loop, cur>>
        /\ wire[s] # NULL /\ wire' = [wire EXCEPT ![s] = [wire[s] EXCEPT !.kind = "reply"]]
    BY <1>14, Zenon DEF ServerReplies
  <2>2. wire'[s].by = wire[s].by /\ wire'[s].nr = wire[s].nr /\ \A r \in StreamId \ {s} : wire'[r] = wire[r]
    BY <1>t, <2>1, Zenon DEF Message
  <2>3. ListOK' /\ AliveOK' /\ SignalOK' /\ ReplyOK' /\ OwnReply'
    BY <1>t, <2>1, Zenon DEF ListOK, AliveOK, SignalOK, ReplyOK, OwnReply
  <2>4. WireOK'
    BY <1>t, <2>1, <2>2 DEF WireOK
  <2> QED
    BY <2>3, <2>4, Zenon
<1> QED
  BY <1>1, <1>2, <1>3, <1>4, <1>5, <1>6, <1>7, <1>8, <1>9, <1>10, <1>11, <1>12, <1>13, <1>14, Zenon
     DEF Next, InvokerStep, LoopStep

\* Of every behaviour, from the start of the client on.
LEMMA RepliesInvariant == Spec => []RepliesInv
<1>1. ASSUME Init, StreamsInv PROVE RepliesInv
  <2>1. /\ contexts = <<>> /\ cur = NULL /\ loop = "run"
        /\ \A s \in StreamId : wire[s] = NULL
        /\ \A i \in Invoker : pc[i] = "idle" /\ ctx[i].alive = FALSE
    BY <1>1, Zenon DEF Init, NewContext
  <2>2. DOMAIN contexts = {}
    BY <2>1
  <2> QED
    BY <1>1, <2>1, <2>2, Zenon
       DEF RepliesInv, ListOK, Listed, AliveOK, SignalOK, WireOK, ReplyOK, OwnReply
<1> QED
  BY <1>1, StreamsInvariant, RepliesStep, PTL DEF Spec

\* execute_rpc_call_quic never compares transaction identifiers, and streams are reused:
\* still what a call returns is the reply to that call, as a stream is given back only
\* when its one reply has been read.
THEOREM ReplySafety == Spec => []OwnReply
BY RepliesInvariant, PTL DEF RepliesInv

\* The event loop touches no freed context: remove_stream_context frees the context of
\* its caller and no other, and waits for the lock the event loop holds while it signals.
THEOREM ContextSafety == Spec => []NoUseAfterFree
<1>1. RepliesInv => NoUseAfterFree
  <2> SUFFICES ASSUME RepliesInv PROVE NoUseAfterFree
    BY Zenon
  <2>1. \A k \in DOMAIN queue : queue[k] \in Invoker /\ pc[queue[k]] = "allocated?"
    BY DEF RepliesInv, StreamsInv, TypeOK, QueueOK
  <2>2. \A k \in DOMAIN contexts : contexts[k] \in Invoker /\ pc[contexts[k]] \in Listed
    BY DEF RepliesInv, StreamsInv, TypeOK, ListOK
  <2>3. cur # NULL => cur \in Invoker /\ pc[cur] \in Listed
    BY Zenon DEF RepliesInv, StreamsInv, TypeOK, SignalOK
  <2> QED
    BY <2>1, <2>2, <2>3, Zenon DEF RepliesInv, AliveOK, NoUseAfterFree, Listed
<1> QED
  BY <1>1, RepliesInvariant, PTL

-----------------------------------------------------------------------------
(***************************************************************************)
(* The life of the connection that those calls use, QuicConnection.tla.    *)
(***************************************************************************)

\* The owner is in free_rpc_connection_context, or has been.
Freeing == {"check", "sleep", "asleep", "join", "contexts", "freed"}

PcState == {"idle", "check", "sleep", "asleep", "call"}

ConnectionTypeOK ==
    /\ life \in {"none", "failed", "open"} \cup Freeing
    /\ at \in [Caller -> PcState] /\ made \in [Caller -> Nat] /\ loops \in Nat
    /\ conn \in {"none", "connecting", "up", "closing", "gone"}
    /\ mounted \in BOOLEAN /\ connection_established \in BOOLEAN
    /\ closing_async \in BOOLEAN /\ by_peer \in BOOLEAN
    /\ misused \in SUBSET {"connect", "connection", "loop"}

\* A call is under way, or the client mounted, only once the connection was established,
\* which it then stays, and there is an event loop only once the owner made a call: so
\* the owner's first call is the only one that may find no connection.
OneLoop ==
    /\ mounted => connection_established
    /\ \A c \in Caller : at[c] = "call" => connection_established
    /\ loops = 0 \/ (loops = 1 /\ made[Owner] > 0)

\* No call is under way when the owner frees the connection, and the thread has ended
\* when it frees the rest.
Quiet ==
    /\ life \in Freeing => \A c \in Caller : at[c] = "idle"
    /\ life \in {"contexts", "freed"} => event_loop \in {"ended", "killed"}

\* The closing watcher is sent by the owner only, and received once: when a connection
\* is gone and the watcher still pending, it was the other side that ended it.
ClosedOnce ==
    /\ life = "none" => conn = "none"
    /\ closing_async \/ conn = "closing" => life \in Freeing
    /\ conn = "closing" => ~closing_async
    /\ conn = "gone" /\ (life = "open" \/ closing_async) => by_peer
    /\ "connection" \in misused => conn = "gone" /\ by_peer

FreeInv == ConnectionTypeOK /\ OneLoop /\ Quiet /\ ClosedOnce

\* The invariant holds before the connection is created.
LEMMA FreeInit == ConnectionInit => FreeInv
<1> SUFFICES ASSUME ConnectionInit PROVE FreeInv
  BY Zenon
<1> USE QuicConnectionAssumption DEF ConnectionInit
<1>1. ConnectionTypeOK
  BY Zenon DEF ConnectionTypeOK, PcState
<1>2. OneLoop /\ Quiet /\ ClosedOnce
  BY Zenon DEF OneLoop, Quiet, ClosedOnce, Freeing
<1> QED
  BY <1>1, <1>2, Zenon DEF FreeInv

\* Every step of the callers, of the event loop and of the other side keeps it.
LEMMA FreeStep == FreeInv /\ [ConnectionNext]_connection_vars => FreeInv'
<1> SUFFICES ASSUME FreeInv, [ConnectionNext]_connection_vars PROVE FreeInv'
  BY Zenon
<1> USE QuicConnectionAssumption DEF FreeInv, ConnectionTypeOK, flags, asyncs
<1>0. CASE UNCHANGED connection_vars
  BY <1>0 DEF connection_vars, OneLoop, Quiet, ClosedOnce
<1>1. CASE connect_to_quic_server
  <2>1. ConnectionTypeOK'
    BY <1>1, Zenon DEF connect_to_quic_server, Freeing, PcState
  <2>2. OneLoop'
    BY <1>1, Zenon DEF connect_to_quic_server, OneLoop
  <2>3. Quiet'
    BY <1>1, Zenon DEF connect_to_quic_server, Quiet, Freeing
  <2>4. ClosedOnce'
    BY <1>1, Zenon DEF connect_to_quic_server, ClosedOnce, Freeing
  <2> QED
    BY <2>1, <2>2, <2>3, <2>4, Zenon
<1>2. CASE ConnectFails
  BY <1>2, Zenon DEF ConnectFails, OneLoop, Quiet, ClosedOnce, Freeing, PcState
<1>3. ASSUME NEW c \in Caller, CallFirst(c) PROVE FreeInv'
  <2>1. ConnectionTypeOK'
    BY <1>3 DEF CallFirst, MayCall, Freeing, PcState
  <2>2. OneLoop'
    BY <1>3 DEF CallFirst, MayCall, OneLoop
  <2>3. Quiet'
    BY <1>3, Zenon DEF CallFirst, MayCall, Quiet, Freeing
  <2>4. ClosedOnce'
    BY <1>3, Zenon DEF CallFirst, MayCall, ClosedOnce, Freeing
  <2> QED
    BY <2>1, <2>2, <2>3, <2>4, Zenon
<1>4. ASSUME NEW c \in Caller, CallFirstFails(c) PROVE FreeInv'
  BY <1>4 DEF CallFirstFails, MayCall, OneLoop, Quiet, ClosedOnce, Freeing, PcState
<1>5. ASSUME NEW c \in Caller, CallAgain(c) PROVE FreeInv'
  <2>1. ConnectionTypeOK'
    BY <1>5 DEF CallAgain, MayCall, Freeing, PcState
  <2>2. OneLoop'
    BY <1>5 DEF CallAgain, MayCall, OneLoop
  <2>3. Quiet'
    BY <1>5, Zenon DEF CallAgain, MayCall, Quiet, Freeing
  <2>4. ClosedOnce'
    BY <1>5, Zenon DEF CallAgain, MayCall, ClosedOnce, Freeing
  <2> QED
    BY <2>1, <2>2, <2>3, <2>4, Zenon
<1>6. ASSUME NEW c \in Caller, CheckEstablished(c) PROVE FreeInv'
  BY <1>6, Zenon DEF CheckEstablished, OneLoop, Quiet, ClosedOnce, Freeing, PcState
<1>7. ASSUME NEW c \in Caller, AwaitEstablished(c) PROVE FreeInv'
  BY <1>7, Zenon DEF AwaitEstablished, OneLoop, Quiet, ClosedOnce, Freeing, PcState
<1>8. ASSUME NEW c \in Caller, CallReturns(c) PROVE FreeInv'
  <2>1. ConnectionTypeOK'
    BY <1>8, Zenon DEF CallReturns, Freeing, PcState
  <2>2. OneLoop'
    BY <1>8, Zenon DEF CallReturns, OneLoop
  <2>3. Quiet'
    BY <1>8, Zenon DEF CallReturns, Quiet, Freeing
  <2>4. ClosedOnce'
    BY <1>8, Zenon DEF CallReturns, ClosedOnce, Freeing
  <2> QED
    BY <2>1, <2>2, <2>3, <2>4, Zenon
<1>9. ASSUME NEW c \in Caller, CallFails(c) PROVE FreeInv'
  <2>1. ConnectionTypeOK'
    BY <1>9, Zenon DEF CallFails, Freeing, PcState
  <2>2. OneLoop'
    BY <1>9, Zenon DEF CallFails, OneLoop
  <2>3. Quiet'
    BY <1>9, Zenon DEF CallFails, Quiet, Freeing
  <2>4. ClosedOnce'
    BY <1>9, Zenon DEF CallFails, ClosedOnce, Freeing
  <2> QED
    BY <2>1, <2>2, <2>3, <2>4, Zenon
<1>10. CASE event_loop_runner
  BY <1>10 DEF event_loop_runner, OneLoop, Quiet, ClosedOnce, Freeing, PcState
<1>11. CASE client_on_conn_established
  <2>1. ConnectionTypeOK'
    BY <1>11, Zenon DEF client_on_conn_established, Freeing, PcState
  <2>2. OneLoop'
    BY <1>11, Zenon DEF client_on_conn_established, OneLoop
  <2>3. Quiet'
    BY <1>11, Zenon DEF client_on_conn_established, Quiet, Freeing
  <2>4. ClosedOnce'
    BY <1>11, Zenon DEF client_on_conn_established, ClosedOnce, Freeing
  <2> QED
    BY <2>1, <2>2, <2>3, <2>4, Zenon
<1>12. CASE SignalEstablished
  BY <1>12 DEF SignalEstablished, OneLoop, Quiet, ClosedOnce, Freeing, PcState
<1>13. CASE client_on_conn_closed
  <2>1. ConnectionTypeOK'
    BY <1>13, Zenon DEF client_on_conn_closed, Freeing, PcState
  <2>2. OneLoop'
    BY <1>13, Zenon DEF client_on_conn_closed, OneLoop
  <2>3. Quiet'
    BY <1>13, Zenon DEF client_on_conn_closed, Quiet, Freeing
  <2>4. ClosedOnce'
    BY <1>13, Zenon DEF client_on_conn_closed, ClosedOnce, Freeing
  <2> QED
    BY <2>1, <2>2, <2>3, <2>4, Zenon
<1>14. CASE SignalClosed
  BY <1>14 DEF SignalClosed, OneLoop, Quiet, ClosedOnce, Freeing, PcState
<1>15. CASE async_connection_closing_callback
  <2>1. ConnectionTypeOK'
    BY <1>15, Zenon DEF async_connection_closing_callback, Freeing, PcState
  <2>2. OneLoop'
    BY <1>15, Zenon DEF async_connection_closing_callback, OneLoop
  <2>3. Quiet'
    BY <1>15, Zenon DEF async_connection_closing_callback, Quiet, Freeing
  <2>4. ClosedOnce'
    BY <1>15, Zenon DEF async_connection_closing_callback, ClosedOnce, Freeing
  <2> QED
    BY <2>1, <2>2, <2>3, <2>4, Zenon
<1>16. CASE async_shutdown_loop_callback
  BY <1>16 DEF async_shutdown_loop_callback, OneLoop, Quiet, ClosedOnce, Freeing, PcState
<1>17. CASE LoopEnds
  BY <1>17 DEF LoopEnds, OneLoop, Quiet, ClosedOnce, Freeing, PcState
<1>18. CASE Free
  BY <1>18, Zenon DEF Free, OneLoop, Quiet, ClosedOnce, Freeing, PcState
<1>19. CASE FreeCheck
  BY <1>19, Zenon DEF FreeCheck, OneLoop, Quiet, ClosedOnce, Freeing, PcState
<1>20. CASE FreeSleep
  BY <1>20, Zenon DEF FreeSleep, OneLoop, Quiet, ClosedOnce, Freeing, PcState
<1>21. CASE Join
  BY <1>21, Zenon DEF Join, OneLoop, Quiet, ClosedOnce, Freeing, PcState
<1>22. CASE FreeRest
  BY <1>22, Zenon DEF FreeRest, OneLoop, Quiet, ClosedOnce, Freeing, PcState
<1>23. CASE WakesUnasked
  BY <1>23, Zenon DEF WakesUnasked, OneLoop, Quiet, ClosedOnce, Freeing, PcState
<1> QED
  BY <1>0, <1>1, <1>2, <1>3, <1>4, <1>5, <1>6, <1>7, <1>8, <1>9, <1>10, <1>11, <1>12, <1>13, <1>14, <1>15, <1>16, <1>17, <1>18, <1>19, <1>20, <1>21, <1>22, <1>23, Zenon
  DEF ConnectionNext, Client, Peer, EventLoopStep, OwnerStep, CallerStep

\* Whatever the number of callers and calls, and whenever the connection is established,
\* fails or ends: only one event loop thread is created (wait_for_connection_establishment
\* creates one per call that finds no connection), free_rpc_connection_context frees the
\* client when that thread has ended and no call is under way, and quic_conn_close is
\* called for a connection that is gone only if the server or a time-out ended it.
THEOREM ConnectionSafety == ConnectionSpec => []FreedWhenUnused
<1>1. FreeInv => FreedWhenUnused
  BY DEF FreeInv, ConnectionTypeOK, OneLoop, Quiet, ClosedOnce, FreedWhenUnused, Freeing
<1> QED
  BY FreeInit, FreeStep, <1>1, PTL DEF ConnectionSpec

-----------------------------------------------------------------------------
(***************************************************************************)
(* FuseFile: reading and writing a file through FUSE.                      *)
(***************************************************************************)
WorkerPc == {"none", "resolve", "read", "attributes", "write", "truncate", "open",
             "lock", "signal", "unlock"}

\* The types of the variables the handshake is made of.
HandshakeType ==
    /\ handler \in [Callers -> {"idle", "wait", "sleep", "return"}]
    /\ worker \in [Callers -> WorkerPc]
    /\ is_finished \in [Callers -> BOOLEAN]
    /\ lock \in [Callers -> {"free", "worker"}]
    /\ request \in [Callers -> Requests \union {None}]

\* The worker holds the lock exactly in its critical section, and is_finished
\* is set only when it is about to leave the section or has left it: so a
\* handler that sees it set, with the lock free, is alone.
HandshakeInv ==
    /\ HandshakeType
    /\ \A c \in Callers :
        /\ lock[c] = "worker" <=> worker[c] \in {"signal", "unlock"}
        /\ is_finished[c] => worker[c] \in {"unlock", "none"}
        /\ handler[c] \in {"return", "idle"} => worker[c] = "none"
        /\ worker[c] = "resolve" => request[c] \in Requests

\* The handshake of wait_for_nfs_reply and the end of the blocking_* functions
\* keeps its invariant.
LEMMA HandshakeStep == ASSUME RequestsOK PROVE HandshakeInv /\ [FuseNext]_fuse_vars => HandshakeInv'
<1> SUFFICES ASSUME HandshakeInv, [FuseNext]_fuse_vars PROVE HandshakeInv'
  BY Zenon
<1> USE DEF HandshakeInv, HandshakeType, WorkerPc
<1>1. CASE UNCHANGED fuse_vars
  BY <1>1, Zenon DEF fuse_vars, frame
<1>2. ASSUME NEW c \in Callers, Resolve(c) PROVE HandshakeInv'
  <2>1. request[c].kind \in {"read", "write", "truncate", "open"}
    BY <1>2, Zenon DEF Resolve, RequestsOK
  <2> QED
    BY <1>2, <2>1 DEF Resolve, Finish
<1>3. ASSUME NEW c \in Callers, ReadData(c) PROVE HandshakeInv'
  BY <1>3 DEF ReadData, FreeStack
<1>4. ASSUME NEW c \in Callers, ReadAttributes(c) PROVE HandshakeInv'
  BY <1>4 DEF ReadAttributes, Finish
<1>5. ASSUME NEW c \in Callers, WriteChunk(c) PROVE HandshakeInv'
  BY <1>5, Zenon DEF WriteChunk, Finish
<1>6. ASSUME NEW c \in Callers, Truncate(c) \/ OpenTruncates(c) PROVE HandshakeInv'
  BY <1>6 DEF Truncate, OpenTruncates, SetSize, Finish
<1>7. ASSUME NEW c \in Callers, WorkerLock(c) PROVE HandshakeInv'
  BY <1>7, Zenon DEF WorkerLock
<1>8. ASSUME NEW c \in Callers, WorkerSignal(c) PROVE HandshakeInv'
  BY <1>8, Zenon DEF WorkerSignal
<1>9. ASSUME NEW c \in Callers, WorkerUnlock(c) PROVE HandshakeInv'
  BY <1>9, Zenon DEF WorkerUnlock
<1>10. ASSUME NEW c \in Callers, CallHandler(c) PROVE HandshakeInv'
  BY <1>10 DEF CallHandler
<1>11. ASSUME NEW c \in Callers, Wait(c) PROVE HandshakeInv'
  BY <1>11, Zenon DEF Wait, frame
<1>12. ASSUME NEW c \in Callers, HandlerWakes(c) \/ Return(c) PROVE HandshakeInv'
  BY <1>12, Zenon DEF HandlerWakes, Return, frame
<1> QED
  BY <1>1, <1>2, <1>3, <1>4, <1>5, <1>6, <1>7, <1>8, <1>9, <1>10, <1>11, <1>12, Zenon
     DEF FuseNext, WorkerStep

\* When wait_for_nfs_reply is through, the worker has left its critical section
\* and touches the handler's frame no more, for every set of requests.
THEOREM FrameSafety == FuseSpec => []FrameOutlivesWorker
<1>1. FuseInit => HandshakeInv
  BY DEF FuseInit, HandshakeInv, HandshakeType, WorkerPc
<1>2. HandshakeInv => FrameOutlivesWorker
  BY Zenon DEF HandshakeInv, HandshakeType, FrameOutlivesWorker
<1>3. HandshakeInv /\ [FuseNext]_fuse_vars => HandshakeInv'
  BY HandshakeStep, FuseFileAssumption, Zenon
<1> QED
  BY <1>1, <1>2, <1>3, PTL DEF FuseSpec
-----------------------------------------------------------------------------
(***************************************************************************)
(* What the requests read and write.                                       *)
(***************************************************************************)
TransferType ==
    /\ file \in Seq(Bytes) /\ Len(file) <= MaxLength
    /\ done \in [Callers -> Nat]
    /\ buffer \in [Callers -> Seq(Bytes)]
    /\ error_code \in [Callers -> {"ok", "failed"}]
    /\ seen \in [Callers -> [Positions -> SUBSET (Bytes \union {EOF})]]

\* A request under way is one libfuse may make, its worker does what it asks for, and
\* what the file holds now has been noted.
UnderWay(c) ==
    handler[c] # "idle" =>
        /\ request[c] \in Requests
        /\ worker[c] \in {"read", "attributes"} => request[c].kind = "read"
        /\ worker[c] \in {"write", "truncate", "open"} => request[c].kind = worker[c]
        /\ \A p \in Positions : At(file, p) \in seen[c][p]

\* The worker is through with the transfer.
Through(c) == worker[c] \in {"lock", "signal", "unlock", "none"} /\ error_code[c] = "ok"

ReadSoFar(c) ==
    handler[c] # "idle" /\ request[c].kind = "read" =>
        /\ Len(buffer[c]) = done[c]
        /\ done[c] <= request[c].size
        /\ request[c].offset + done[c] <= MaxLength
        /\ \A k \in 1 .. done[c] : buffer[c][k] \in seen[c][request[c].offset + k]
        /\ Through(c) /\ done[c] < request[c].size => EOF \in seen[c][request[c].offset + done[c] + 1]

WrittenSoFar(c) ==
    handler[c] # "idle" /\ request[c].kind = "write" =>
        /\ done[c] <= request[c].size
        /\ \A k \in 1 .. done[c] : Byte(c, k) \in seen[c][request[c].offset + k]
        /\ Through(c) => done[c] = request[c].size

TransferInv ==
    /\ HandshakeInv /\ TransferType
    /\ \A c \in Callers : UnderWay(c) /\ ReadSoFar(c) /\ WrittenSoFar(c)

\* A function on 1 .. n is a sequence.
LEMMA FunctionIsSequence ==
    ASSUME NEW S, NEW n \in Nat, NEW f \in [1 .. n -> S]
    PROVE  f \in Seq(S) /\ Len(f) = n
  OBVIOUS

\* The bytes there are.
LEMMA BytesAre ==
    /\ Zero \in Bytes
    /\ \A c \in Callers \union {"old"}, k \in 1 .. MaxLength : Byte(c, k) \in Bytes
  BY DEF Bytes

\* What is known of every request.
LEMMA RequestIs ==
    ASSUME RequestsOK, NEW r \in Requests
    PROVE  /\ r.offset \in Nat /\ r.offset \in 0 .. MaxLength /\ r.size \in Nat /\ MaxLength \in Nat
           /\ r.kind = "write" => r.offset + r.size <= MaxLength
  BY DEF RequestsOK

\* Behind what fits in the file there is still a position.
LEMMA NextPosition ==
    ASSUME RequestsOK, NEW a \in Nat, NEW b \in Nat, a + b <= MaxLength
    PROVE  a + b + 1 \in Positions /\ \A k \in 1 .. b : a + k \in Positions
  BY DEF Positions, RequestsOK

\* A request of 'size' bytes at 'offset' transfers, when it has transferred 'so_far', a
\* piece that is not empty unless it has them all, and no more than is left.
LEMMA PieceIs ==
    ASSUME RequestsOK, NEW offset \in Nat, NEW size \in Nat, NEW so_far \in Nat, so_far <= size
    PROVE  LET piece == Smallest(size - so_far, BytesPerRpc)
           IN  /\ piece \in Nat /\ so_far + piece \in Nat /\ so_far + piece <= size
               /\ size - so_far > 0 => piece \in Nat \ {0} /\ so_far + piece # so_far
               /\ size - so_far = 0 => so_far = size
               /\ offset + so_far <= MaxLength => offset + so_far \in 0 .. MaxLength
               /\ offset + size <= MaxLength => /\ offset + so_far \in Nat /\ offset + so_far <= MaxLength
                                                /\ offset + so_far + piece <= MaxLength
  BY DEF Smallest, RequestsOK

\* What comes after the bytes so far goes to the places behind theirs.
Places(offset, so_far, piece) ==
    /\ so_far + piece \in Nat /\ offset + (so_far + piece) <= MaxLength
    /\ \A k \in 1 .. piece : so_far + k \in 1 .. MaxLength
    /\ \A k \in 1 .. so_far + piece :
          /\ offset + k \in Positions
          /\ k <= so_far => k \in 1 .. so_far
          /\ ~(k <= so_far) => /\ k - so_far \in 1 .. piece /\ so_far + (k - so_far) = k
                               /\ offset + so_far + (k - so_far) = offset + k

\* So it does if it fits in the file.
LEMMA PiecePlaces ==
    ASSUME RequestsOK, NEW offset \in Nat, NEW so_far \in Nat, NEW piece \in Nat,
           offset + so_far + piece <= MaxLength
    PROVE  Places(offset, so_far, piece)
  BY DEF Places, Positions, RequestsOK

\* A piece may be shorter.
LEMMA Shorter ==
    ASSUME NEW short \in Nat, NEW piece \in Nat, short <= piece, NEW so_far \in Nat, NEW size \in Nat,
           so_far + piece <= size
    PROVE  so_far + short <= size
OBVIOUS

\* Some bytes behind others.
LEMMA BytesBehind ==
    ASSUME NEW S, NEW s \in Seq(S), NEW t \in Seq(S)
    PROVE  /\ s \o t \in Seq(S) /\ Len(s) \in Nat /\ Len(t) \in Nat /\ Len(s \o t) = Len(s) + Len(t)
           /\ \A k \in 1 .. Len(s) + Len(t) : (s \o t)[k] = IF k <= Len(s) THEN s[k] ELSE t[k - Len(s)]
OBVIOUS

\* A request that wants more and has reached the end of the file, or beyond.
LEMMA PastTheEnd ==
    ASSUME NEW offset \in Nat, NEW size \in Nat, NEW so_far \in Nat, NEW length \in Nat,
           so_far < size, ~(size - so_far > 0 /\ offset + so_far < length)
    PROVE  ~(offset + so_far + 1 <= length)
OBVIOUS

\* A position holds a byte or is past the end.
LEMMA AtIs ==
    ASSUME RequestsOK, NEW f \in Seq(Bytes), NEW p \in Positions
    PROVE  At(f, p) \in Bytes \union {EOF}
  BY DEF At, Positions, RequestsOK

\* read_from_file: what a READ gets is what the file holds from the offset on.
LEMMA FileReadIs ==
    ASSUME RequestsOK, TransferType, NEW offset \in 0 .. MaxLength, NEW count \in Nat
    PROVE  LET data == FileRead(offset, count)
           IN  /\ data \in Seq(Bytes)
               /\ Len(data) <= count
               /\ offset + Len(data) <= MaxLength
               /\ \A k \in 1 .. Len(data) : data[k] = At(file, offset + k)
<1> DEFINE last == Smallest(Len(file), offset + count)
           data == FileRead(offset, count)
<1>1. file \in Seq(Bytes) /\ Len(file) \in Nat /\ Len(file) <= MaxLength /\ MaxLength \in Nat
  BY DEF TransferType, RequestsOK
<1>2. last \in Nat /\ last <= Len(file) /\ last <= offset + count
  BY <1>1 DEF Smallest
<1> HIDE DEF last
<1>3. data = SubSeq(file, offset + 1, last)
  BY Zenon DEF FileRead, last
<1>4. CASE offset + 1 <= last
  <2>1. data \in Seq(Bytes) /\ Len(data) = last - offset /\ \A k \in 1 .. last - offset : data[k] = file[offset + k]
    BY <1>1, <1>2, <1>3, <1>4
  <2> HIDE DEF data
  <2>2. \A k \in 1 .. Len(data) : data[k] = At(file, offset + k)
    BY <1>1, <1>2, <1>4, <2>1 DEF At
  <2> QED
    BY <1>1, <1>2, <1>4, <2>1, <2>2 DEF data
<1>5. CASE ~(offset + 1 <= last)
  <2>1. data \in Seq(Bytes) /\ Len(data) = 0
    BY <1>1, <1>2, <1>3, <1>5
  <2> HIDE DEF data
  <2> QED
    BY <1>1, <1>2, <2>1 DEF data
<1> QED
  BY <1>4, <1>5, Zenon

\* truncate(2) leaves a file of that size.
LEMMA FileTruncateIs ==
    ASSUME RequestsOK, TransferType, NEW size \in 0 .. MaxLength
    PROVE  FileTruncate(size) \in Seq(Bytes) /\ Len(FileTruncate(size)) <= MaxLength
<1> DEFINE f == FileTruncate(size)
<1>1. f \in [1 .. size -> Bytes]
  BY BytesAre DEF FileTruncate, TransferType, RequestsOK
<1> HIDE DEF f
<1>2. f \in Seq(Bytes) /\ Len(f) = size
  BY <1>1, FunctionIsSequence DEF RequestsOK
<1> QED
  BY <1>2 DEF f, RequestsOK

\* write_to_file puts the data at its place, in the file or beyond its end.
LEMMA FileWriteIs ==
    ASSUME RequestsOK, TransferType, NEW offset \in Nat, NEW data \in Seq(Bytes), offset + Len(data) <= MaxLength
    PROVE  LET f == FileWrite(offset, data)
           IN  /\ f \in Seq(Bytes) /\ Len(f) <= MaxLength
               /\ \A k \in 1 .. Len(data) : At(f, offset + k) = data[k]
<1> DEFINE n == IF data = <<>> \/ offset + Len(data) < Len(file) THEN Len(file) ELSE offset + Len(data)
           f == FileWrite(offset, data)
<1>1. Len(data) \in Nat /\ Len(file) \in Nat /\ Len(file) <= MaxLength /\ MaxLength \in Nat
  BY DEF TransferType, RequestsOK
<1>2. n \in Nat /\ n <= MaxLength /\ (Len(data) # 0 => offset + Len(data) <= n)
  <2>1. data = <<>> => Len(data) = 0
    OBVIOUS
  <2> QED
    BY <1>1, <2>1
<1>3. f = [p \in 1 .. n |-> IF p \in offset + 1 .. offset + Len(data) THEN data[p - offset]
                            ELSE IF p <= Len(file) THEN file[p] ELSE Zero]
  BY Zenon DEF FileWrite
<1> HIDE DEF n, f
<1>4. f \in [1 .. n -> Bytes]
  <2> SUFFICES ASSUME NEW p \in 1 .. n
               PROVE  (IF p \in offset + 1 .. offset + Len(data) THEN data[p - offset]
                       ELSE IF p <= Len(file) THEN file[p] ELSE Zero) \in Bytes
    BY <1>3, Zenon
  <2>1. p \in offset + 1 .. offset + Len(data) => data[p - offset] \in Bytes
    BY <1>1, <1>2
  <2>2. p <= Len(file) => file[p] \in Bytes
    BY <1>1, <1>2 DEF TransferType
  <2> QED
    BY <2>1, <2>2, BytesAre, Zenon
<1>5. f \in Seq(Bytes) /\ Len(f) = n
  BY <1>2, <1>4, FunctionIsSequence, Zenon
<1>6. ASSUME NEW k \in 1 .. Len(data) PROVE At(f, offset + k) = data[k]
  <2>1. offset + k \in 1 .. n /\ offset + k \in offset + 1 .. offset + Len(data) /\ (offset + k) - offset = k
    BY <1>1, <1>2
  <2>2. f[offset + k] = data[k]
    BY <1>3, <2>1, Zenon
  <2> QED
    BY <1>5, <2>1, <2>2 DEF At
<1> QED
  BY <1>2, <1>5, <1>6, Zenon DEF f

\* What the requests saw of the file only grows.
Noted(c) ==
    /\ \A p \in Positions : seen[c][p] \subseteq seen'[c][p]
    /\ \A p \in Positions : At(file, p) \in seen[c][p] => At(file', p) \in seen'[c][p]

\* Every request under way sees what the file holds after a WRITE or a SETATTR.
LEMMA SetFileIs ==
    ASSUME RequestsOK, TransferType, NEW f \in Seq(Bytes), Len(f) <= MaxLength, SetFile(f)
    PROVE  /\ file' \in Seq(Bytes) /\ Len(file') <= MaxLength
           /\ seen' \in [Callers -> [Positions -> SUBSET (Bytes \union {EOF})]]
           /\ \A c \in Callers : Noted(c) /\ \A p \in Positions : At(f, p) \in seen'[c][p]
<1>1. \A c \in Callers, p \in Positions : seen'[c][p] = seen[c][p] \union {At(f, p)}
  BY Zenon DEF SetFile
<1>2. seen' \in [Callers -> [Positions -> SUBSET (Bytes \union {EOF})]]
  <2> SUFFICES ASSUME NEW c \in Callers, NEW p \in Positions
               PROVE  seen[c][p] \union {At(f, p)} \in SUBSET (Bytes \union {EOF})
    BY Zenon DEF SetFile
  <2>1. seen[c][p] \in SUBSET (Bytes \union {EOF})
    BY Zenon DEF TransferType
  <2> QED
    BY <2>1, AtIs, Zenon
<1> QED
  BY <1>1, <1>2, Zenon DEF SetFile, Noted

\* A request that keeps its place keeps what is known of it.
LEMMA StaysKnown ==
    ASSUME RequestsOK, TransferInv, NEW c \in Callers, Noted(c),
           handler'[c] # "idle" => handler[c] # "idle",
           request'[c] = request[c], done'[c] = done[c], buffer'[c] = buffer[c],
           error_code'[c] = error_code[c],
           \/ worker'[c] = worker[c]
           \/ {worker[c], worker'[c]} \subseteq {"lock", "signal", "unlock", "none"}
    PROVE  UnderWay(c)' /\ ReadSoFar(c)' /\ WrittenSoFar(c)'
<1>1. UnderWay(c) /\ ReadSoFar(c) /\ WrittenSoFar(c) /\ TransferType
  BY Zenon DEF TransferInv
<1>2. UnderWay(c)'
  BY <1>1, Zenon DEF UnderWay, Noted
<1>3. handler[c] # "idle" => request[c] \in Requests /\ done[c] \in Nat
  BY <1>1, Zenon DEF UnderWay, TransferType
<1>4. Through(c)' => Through(c)
  BY Zenon DEF Through
<1>5. ReadSoFar(c)'
  <2> SUFFICES ASSUME handler[c] # "idle", request[c].kind = "read" PROVE ReadSoFar(c)'
    BY Zenon DEF ReadSoFar
  <2>1. request[c].offset \in Nat /\ request[c].size \in Nat /\ MaxLength \in Nat /\ done[c] \in Nat
    BY <1>3, RequestIs, Zenon
  <2>2. ASSUME NEW k \in 1 .. done[c] PROVE buffer[c][k] \in seen'[c][request[c].offset + k]
    <3>1. request[c].offset + done[c] <= MaxLength /\ buffer[c][k] \in seen[c][request[c].offset + k]
      BY <1>1, Zenon DEF ReadSoFar
    <3>2. request[c].offset + k \in Positions
      BY <2>1, <3>1, NextPosition, Zenon
    <3> QED
      BY <3>1, <3>2, Zenon DEF Noted
  <2>3. EOF \in seen[c][request[c].offset + done[c] + 1] => EOF \in seen'[c][request[c].offset + done[c] + 1]
    <3>1. request[c].offset + done[c] <= MaxLength
      BY <1>1, Zenon DEF ReadSoFar
    <3>2. request[c].offset + done[c] + 1 \in Positions
      BY <2>1, <3>1, NextPosition, Zenon
    <3> QED
      BY <3>2, Zenon DEF Noted
  <2> QED
    BY <1>1, <1>4, <2>2, <2>3, Zenon DEF ReadSoFar
<1>6. WrittenSoFar(c)'
  <2> SUFFICES ASSUME handler[c] # "idle", request[c].kind = "write" PROVE WrittenSoFar(c)'
    BY Zenon DEF WrittenSoFar
  <2>1. /\ request[c].offset \in Nat /\ request[c].size \in Nat /\ MaxLength \in Nat /\ done[c] \in Nat
        /\ request[c].offset + request[c].size <= MaxLength
    BY <1>3, RequestIs, Zenon
  <2>2. ASSUME NEW k \in 1 .. done[c] PROVE Byte(c, k) \in seen'[c][request[c].offset + k]
    <3>1. done[c] <= request[c].size /\ Byte(c, k) \in seen[c][request[c].offset + k]
      BY <1>1, Zenon DEF WrittenSoFar
    <3>2. request[c].offset + done[c] <= MaxLength
      BY <2>1, <3>1, PieceIs, Zenon
    <3>3. request[c].offset + k \in Positions
      BY <2>1, <3>2, NextPosition, Zenon
    <3> QED
      BY <3>1, <3>3, Zenon DEF Noted
  <2> QED
    BY <1>1, <1>4, <2>2, Zenon DEF WrittenSoFar
<1> QED
  BY <1>2, <1>5, <1>6, Zenon

\* One READ of a request adds the bytes that follow those it has.
LEMMA ReadDataKeeps ==
    ASSUME RequestsOK, TransferInv, NEW c \in Callers, ReadData(c), ~crashed'
    PROVE  /\ TransferType' /\ UnderWay(c)' /\ ReadSoFar(c)' /\ WrittenSoFar(c)'
<1> DEFINE data == FileRead(Offset(c), Chunk(c))
           r == request[c]
<1>1. TransferType /\ UnderWay(c) /\ ReadSoFar(c) /\ HandshakeType
  BY Zenon DEF TransferInv, HandshakeInv
<1>2. /\ buffer' = [buffer EXCEPT ![c] = @ \o data] /\ done' = [done EXCEPT ![c] = @ + Len(data)]
      /\ worker' = [worker EXCEPT ![c] = "attributes"]
      /\ worker[c] = "read" /\ UNCHANGED <<file, request, handler, error_code, seen>>
  BY Zenon DEF ReadData, FreeStack
<1>3. handler[c] # "idle"
  BY <1>2, Zenon DEF TransferInv, HandshakeInv
<1>4. r.kind = "read" /\ r.offset \in Nat /\ r.size \in Nat /\ MaxLength \in Nat /\ done[c] \in Nat
  BY <1>1, <1>2, <1>3, RequestIs, Zenon DEF UnderWay, TransferType
<1>5. /\ Len(buffer[c]) = done[c] /\ done[c] <= r.size /\ r.offset + done[c] <= MaxLength
      /\ \A k \in 1 .. done[c] : buffer[c][k] \in seen[c][r.offset + k]
  BY <1>1, <1>3, <1>4, Zenon DEF ReadSoFar
<1>6. /\ Offset(c) = r.offset + done[c] /\ Offset(c) \in 0 .. MaxLength
      /\ Chunk(c) \in Nat /\ done[c] + Chunk(c) <= r.size
  BY <1>4, <1>5, PieceIs, Zenon DEF Offset, Chunk, Left
<1>7. /\ data \in Seq(Bytes) /\ Len(data) <= Chunk(c) /\ Offset(c) + Len(data) <= MaxLength
      /\ \A k \in 1 .. Len(data) : data[k] = At(file, Offset(c) + k)
  BY <1>1, <1>6, FileReadIs, Zenon
<1> HIDE DEF data
<1>8. buffer[c] \in Seq(Bytes) /\ Len(data) \in Nat
  BY <1>1, <1>7, BytesBehind, Zenon DEF TransferType
<1> DEFINE n == Len(data)
           o == r.offset
           d == done[c]
<1>8a. d + n <= r.size /\ o + d + n <= MaxLength
  <2>1. /\ n \in Nat /\ Chunk(c) \in Nat /\ n <= Chunk(c) /\ d \in Nat /\ r.size \in Nat
        /\ d + Chunk(c) <= r.size
    BY <1>4, <1>6, <1>7, <1>8, Zenon
  <2>2. o + d + n <= MaxLength
    BY <1>6, <1>7, Zenon
  <2> HIDE DEF n, o, d, r
  <2> QED
    BY <2>1, <2>2, Shorter, Zenon
<1>8b. Places(o, d, n)
  BY <1>4, <1>8, <1>8a, PiecePlaces, Zenon
<1>9. buffer'[c] = buffer[c] \o data /\ done'[c] = done[c] + Len(data)
  BY <1>1, <1>2, Zenon DEF TransferType
<1>10. /\ buffer[c] \o data \in Seq(Bytes) /\ Len(buffer[c] \o data) = done[c] + Len(data)
       /\ \A k \in 1 .. done[c] + Len(data) :
             (buffer[c] \o data)[k] = IF k <= done[c] THEN buffer[c][k] ELSE data[k - done[c]]
  <2>1. /\ buffer[c] \o data \in Seq(Bytes) /\ Len(buffer[c] \o data) = Len(buffer[c]) + Len(data)
        /\ \A k \in 1 .. Len(buffer[c]) + Len(data) :
             (buffer[c] \o data)[k] = IF k <= Len(buffer[c]) THEN buffer[c][k] ELSE data[k - Len(buffer[c])]
    BY <1>7, <1>8, BytesBehind, Zenon
  <2> QED
    BY <1>5, <2>1, Zenon
<1>11. TransferType'
  BY <1>1, <1>2, <1>8b, <1>10, Zenon DEF TransferType, Places
<1>12. UnderWay(c)'
  BY <1>1, <1>2, <1>4, Zenon DEF UnderWay, HandshakeType
<1>13. ASSUME NEW k \in 1 .. done[c] + Len(data) PROVE (buffer[c] \o data)[k] \in seen[c][r.offset + k]
  <2>1. CASE k <= done[c]
    <3>1. k \in 1 .. done[c]
      BY <1>8b, <2>1, Zenon DEF Places
    <3> QED
      BY <1>5, <1>10, <2>1, <3>1, Zenon
  <2>2. CASE ~(k <= done[c])
    <3>2. k - d \in 1 .. n /\ o + d + (k - d) = o + k /\ o + k \in Positions
      BY <1>8b, <2>2, Zenon DEF Places
    <3>3. (buffer[c] \o data)[k] = At(file, r.offset + k)
      BY <1>6, <1>7, <1>10, <2>2, <3>2, Zenon
    <3> QED
      BY <1>1, <1>3, <3>2, <3>3, Zenon DEF UnderWay
  <2> QED
    BY <2>1, <2>2, Zenon
<1>14. worker'[c] = "attributes"
  BY <1>1, <1>2, Zenon DEF HandshakeType
<1>15. ReadSoFar(c)'
  <2>1. o + (d + n) <= MaxLength
    BY <1>8b, Zenon DEF Places
  <2> QED
    BY <1>2, <1>8a, <1>9, <1>10, <1>13, <1>14, <2>1, Zenon DEF ReadSoFar, Through
<1>16. WrittenSoFar(c)'
  BY <1>2, <1>4, Zenon DEF WrittenSoFar
<1> QED
  BY <1>11, <1>12, <1>15, <1>16, Zenon

\* One WRITE of a request stores the bytes that follow those it has stored.
LEMMA WriteChunkKeeps ==
    ASSUME RequestsOK, TransferInv, NEW c \in Callers, WriteChunk(c), Left(c) > 0, error_code' = error_code, done' # done
    PROVE  /\ TransferType' /\ \A u \in Callers : Noted(u)
           /\ UnderWay(c)' /\ ReadSoFar(c)' /\ WrittenSoFar(c)'
<1> DEFINE data == [k \in 1 .. Chunk(c) |-> Byte(c, done[c] + k)]
           r == request[c]
           f == FileWrite(Offset(c), data)
<1>1. TransferType /\ UnderWay(c) /\ WrittenSoFar(c) /\ HandshakeType
  BY Zenon DEF TransferInv, HandshakeInv
<1>2. /\ SetFile(f) /\ done' = [done EXCEPT ![c] = @ + Chunk(c)]
      /\ worker[c] = "write" /\ UNCHANGED <<request, handler, error_code, buffer, worker>>
  BY Zenon DEF WriteChunk, Finish
<1>3. handler[c] # "idle"
  BY <1>2, Zenon DEF TransferInv, HandshakeInv
<1>4. /\ r.kind = "write" /\ r.offset \in Nat /\ r.size \in Nat /\ MaxLength \in Nat /\ done[c] \in Nat
      /\ r.offset + r.size <= MaxLength
  BY <1>1, <1>2, <1>3, RequestIs, Zenon DEF UnderWay, TransferType
<1>5. done[c] <= r.size /\ \A k \in 1 .. done[c] : Byte(c, k) \in seen[c][r.offset + k]
  BY <1>1, <1>3, <1>4, Zenon DEF WrittenSoFar
<1>6. /\ Offset(c) = r.offset + done[c] /\ Offset(c) \in Nat
      /\ Chunk(c) \in Nat \ {0} /\ Chunk(c) \in Nat /\ done[c] + Chunk(c) <= r.size
      /\ r.offset + done[c] + Chunk(c) <= MaxLength
  BY <1>4, <1>5, PieceIs, Zenon DEF Offset, Chunk, Left
<1>6a. Places(r.offset, done[c], Chunk(c))
  BY <1>4, <1>6, PiecePlaces, Zenon
<1>7. data \in [1 .. Chunk(c) -> Bytes]
  <2> SUFFICES ASSUME NEW k \in 1 .. Chunk(c) PROVE Byte(c, done[c] + k) \in Bytes
    BY Zenon
  <2>1. done[c] + k \in 1 .. MaxLength
    BY <1>6a, Zenon DEF Places
  <2> QED
    BY <2>1, BytesAre, Zenon
<1>8. \A k \in 1 .. Chunk(c) : data[k] = Byte(c, done[c] + k)
  BY Zenon
<1> HIDE DEF data
<1>9. data \in Seq(Bytes) /\ Len(data) = Chunk(c)
  BY <1>6, <1>7, FunctionIsSequence, Zenon
<1>10. Offset(c) + Len(data) <= MaxLength
  BY <1>6, <1>9, Zenon
<1>11. f \in Seq(Bytes) /\ Len(f) <= MaxLength /\ \A k \in 1 .. Len(data) : At(f, Offset(c) + k) = data[k]
  BY <1>1, <1>6, <1>9, <1>10, FileWriteIs, Zenon
<1> HIDE DEF f
<1>12. /\ file' \in Seq(Bytes) /\ Len(file') <= MaxLength
       /\ seen' \in [Callers -> [Positions -> SUBSET (Bytes \union {EOF})]]
       /\ \A u \in Callers : Noted(u) /\ \A p \in Positions : At(f, p) \in seen'[u][p]
  BY <1>1, <1>2, <1>11, SetFileIs, Zenon
<1>13. TransferType'
  <2>1. done' \in [Callers -> Nat]
    BY <1>1, <1>2, <1>6a, Zenon DEF TransferType, Places
  <2> QED
    BY <1>1, <1>2, <1>12, <2>1, Zenon DEF TransferType
<1>14. UnderWay(c)'
  BY <1>1, <1>2, <1>12, Zenon DEF UnderWay, Noted
<1>15. done'[c] = done[c] + Chunk(c)
  BY <1>1, <1>2, Zenon DEF TransferType
<1>16. ASSUME NEW k \in 1 .. done[c] + Chunk(c) PROVE Byte(c, k) \in seen'[c][r.offset + k]
  <2>1. r.offset + k \in Positions
    BY <1>6a, Zenon DEF Places
  <2>2. CASE k <= done[c]
    <3>1. k \in 1 .. done[c]
      BY <1>6a, <2>2, Zenon DEF Places
    <3> QED
      BY <1>5, <1>12, <2>1, <3>1, Zenon DEF Noted
  <2>3. CASE ~(k <= done[c])
    <3>1. /\ k - done[c] \in 1 .. Chunk(c) /\ Offset(c) + (k - done[c]) = r.offset + k
          /\ done[c] + (k - done[c]) = k
      BY <1>6, <1>6a, <2>3, Zenon DEF Places
    <3>2. At(f, r.offset + k) = Byte(c, k)
      BY <1>8, <1>9, <1>11, <3>1, Zenon
    <3> QED
      BY <1>12, <2>1, <3>2, Zenon
  <2> QED
    BY <2>2, <2>3, Zenon
<1>17. WrittenSoFar(c)'
  <2>1. ~Through(c)'
    BY <1>2, Zenon DEF Through
  <2>2. done'[c] <= r.size
    BY <1>6, <1>15, Zenon
  <2>3. request'[c] = r
    BY <1>2, Zenon
  <2> QED
    BY <1>15, <1>16, <2>1, <2>2, <2>3, Zenon DEF WrittenSoFar
<1>18. ReadSoFar(c)'
  BY <1>2, <1>4, Zenon DEF ReadSoFar
<1> QED
  BY <1>12, <1>13, <1>14, <1>17, <1>18, Zenon

\* A step that leaves the file, and what the requests saw of it, leaves it noted.
LEMMA NothingToNote == ASSUME NEW c \in Callers, UNCHANGED <<file, seen>> PROVE Noted(c)
  BY Zenon DEF Noted

\* No step of a handler or a worker ends the invariant of the transfers.
LEMMA TransferStep == ASSUME RequestsOK PROVE TransferInv /\ [FuseNext]_fuse_vars => TransferInv'
<1> SUFFICES ASSUME TransferInv, [FuseNext]_fuse_vars PROVE TransferInv'
  BY Zenon
<1> DEFINE Known(c) == UnderWay(c)' /\ ReadSoFar(c)' /\ WrittenSoFar(c)'
<1>1. HandshakeInv'
  BY HandshakeStep, Zenon DEF TransferInv
<1>2. HandshakeType /\ TransferType
  BY Zenon DEF TransferInv, HandshakeInv
<1> SUFFICES TransferType' /\ \A c \in Callers : Known(c)
  BY <1>1, Zenon DEF TransferInv
<1>3. CASE UNCHANGED fuse_vars
  BY <1>2, <1>3, StaysKnown, NothingToNote, Zenon DEF fuse_vars, frame, TransferType
<1> SUFFICES ASSUME ~crashed, NEW c \in Callers,
                    WorkerStep(c) \/ CallHandler(c) \/ Wait(c) \/ HandlerWakes(c) \/ Return(c)
             PROVE  TransferType' /\ \A u \in Callers : Known(u)
  BY <1>3, Zenon DEF FuseNext
<1>4. CASE Resolve(c)
  <2>1. /\ UNCHANGED <<file, seen, request, done, buffer, handler>> /\ worker[c] = "resolve"
        /\ error_code' \in [Callers -> {"ok", "failed"}]
        /\ \A u \in Callers \ {c} : worker'[u] = worker[u] /\ error_code'[u] = error_code[u]
    BY <1>2, <1>4, Zenon DEF Resolve, Finish, HandshakeType, TransferType
  <2>2. TransferType'
    BY <1>2, <2>1, Zenon DEF TransferType
  <2>3. ASSUME NEW u \in Callers \ {c} PROVE Known(u)
    BY <2>1, <2>3, StaysKnown, NothingToNote, Zenon
  <2>4. /\ handler[c] # "idle" /\ request[c] \in Requests
        /\ UnderWay(c) /\ ReadSoFar(c) /\ WrittenSoFar(c)
    BY <2>1, Zenon DEF TransferInv, HandshakeInv
  <2>5. request[c].kind \in {"read", "write", "truncate", "open"}
    BY <2>4, Zenon DEF RequestsOK
  <2>6. \/ worker'[c] = request[c].kind
        \/ worker'[c] = "lock" /\ request[c].kind = "open"
        \/ worker'[c] = "lock" /\ error_code'[c] = "failed"
    BY <1>2, <1>4, Zenon DEF Resolve, Finish, HandshakeType, TransferType
  <2>7. Known(c)
    BY <2>1, <2>4, <2>5, <2>6, Zenon DEF UnderWay, ReadSoFar, WrittenSoFar, Through
  <2> QED
    BY <2>2, <2>3, <2>7, Zenon
<1>5. CASE ReadData(c)
  <2>1. CASE ~crashed'
    <3>1. TransferType' /\ Known(c)
      BY <1>5, <2>1, ReadDataKeeps, Zenon
    <3>2. ASSUME NEW u \in Callers \ {c} PROVE Known(u)
      <4>1. /\ UNCHANGED <<file, seen, request, handler, error_code>>
            /\ done'[u] = done[u] /\ buffer'[u] = buffer[u] /\ worker'[u] = worker[u]
        BY <1>2, <1>5, <2>1, Zenon DEF ReadData, FreeStack, TransferType, HandshakeType
      <4> QED
        BY <4>1, StaysKnown, NothingToNote, Zenon
    <3> QED
      BY <3>1, <3>2, Zenon
  <2>2. CASE crashed'
    <3>1. UNCHANGED <<file, seen, request, handler, error_code, done, buffer, worker>>
      BY <1>5, <2>2, Zenon DEF ReadData, FreeStack
    <3> QED
      BY <1>2, <3>1, StaysKnown, NothingToNote, Zenon DEF TransferType
  <2> QED
    BY <2>1, <2>2, Zenon
<1>6. CASE ReadAttributes(c)
  <2>1. UNCHANGED <<file, seen, request, done, buffer, handler>> /\ worker[c] = "attributes"
    BY <1>6, Zenon DEF ReadAttributes
  <2>2. /\ TransferType'
        /\ \A u \in Callers \ {c} : worker'[u] = worker[u] /\ error_code'[u] = error_code[u]
    BY <1>2, <1>6, Zenon DEF ReadAttributes, Finish, TransferType, HandshakeType
  <2>3. ASSUME NEW u \in Callers \ {c} PROVE Known(u)
    BY <2>1, <2>2, StaysKnown, NothingToNote, Zenon
  <2>4. /\ handler[c] # "idle" /\ request[c].kind = "read"
        /\ UnderWay(c) /\ ReadSoFar(c)
    BY <2>1, Zenon DEF TransferInv, HandshakeInv, UnderWay
  <2>5. CASE ReadsOn(c, Len(file))
    <3>1. worker'[c] = "read"
      BY <1>2, <1>6, <2>5, Zenon DEF ReadAttributes, HandshakeType
    <3>2. Known(c)
      BY <2>1, <2>4, <3>1, Zenon DEF UnderWay, ReadSoFar, WrittenSoFar, Through
    <3> QED
      BY <2>2, <2>3, <3>2, Zenon
  <2>6. CASE ~ReadsOn(c, Len(file))
    <3> DEFINE next == request[c].offset + done[c] + 1
    <3>1. worker'[c] = "lock"
      BY <1>2, <1>6, <2>6, Zenon DEF ReadAttributes, Finish, HandshakeType
    <3>2. /\ request[c].offset \in Nat /\ request[c].size \in Nat /\ MaxLength \in Nat
          /\ done[c] \in Nat /\ Len(file) \in Nat /\ file \in Seq(Bytes)
          /\ request[c].offset + done[c] <= MaxLength
      <4>1. Len(file) \in Nat
        BY <1>2, BytesBehind, Zenon DEF TransferType
      <4> QED
        BY <1>2, <2>4, <4>1, RequestIs, Zenon DEF UnderWay, ReadSoFar, TransferType
    <3>3. ASSUME done[c] < request[c].size PROVE EOF \in seen[c][next]
      <4>1. next \in Positions
        BY <3>2, NextPosition, Zenon
      <4>2. ~(next <= Len(file))
        <5>1. ~(request[c].size - done[c] > 0 /\ request[c].offset + done[c] < Len(file))
          BY <2>6, Zenon DEF ReadsOn, Left, Offset
        <5> QED
          BY <3>2, <3>3, <5>1, PastTheEnd, Zenon
      <4>3. At(file, next) = EOF
        BY <4>2, Zenon DEF At
      <4> QED
        BY <2>4, <4>1, <4>3, Zenon DEF UnderWay
    <3>4. Known(c)
      BY <2>1, <2>4, <3>1, <3>3, Zenon DEF UnderWay, ReadSoFar, WrittenSoFar, Through
    <3> QED
      BY <2>2, <2>3, <3>4, Zenon
  <2> QED
    BY <2>5, <2>6, Zenon
<1>7. CASE WriteChunk(c)
  <2>1. /\ UNCHANGED <<request, buffer, handler>> /\ worker[c] = "write"
        /\ \A u \in Callers \ {c} : /\ worker'[u] = worker[u] /\ error_code'[u] = error_code[u]
                                    /\ done'[u] = done[u]
    BY <1>2, <1>7, Zenon DEF WriteChunk, Finish, TransferType, HandshakeType
  <2>2. CASE done' # done
    <3>1. TransferType' /\ (\A u \in Callers : Noted(u)) /\ Known(c)
      <4>1. Left(c) > 0 /\ error_code' = error_code
        BY <1>7, <2>2, Zenon DEF WriteChunk
      <4> QED
        BY <1>7, <2>2, <4>1, WriteChunkKeeps, Zenon
    <3> QED
      BY <2>1, <3>1, StaysKnown, Zenon
  <2>3. CASE done' = done
    <3>1. /\ handler[c] # "idle" /\ request[c].kind = "write" /\ request[c] \in Requests
          /\ UnderWay(c) /\ WrittenSoFar(c)
      BY <2>1, Zenon DEF TransferInv, HandshakeInv, UnderWay
    <3>2. done[c] \in Nat /\ request[c].size \in Nat
      BY <1>2, <3>1, RequestIs, Zenon DEF TransferType
    <3>3a. done[c] <= request[c].size /\ request[c].offset \in Nat
      BY <3>1, RequestIs, Zenon DEF WrittenSoFar
    <3>3b. /\ Left(c) > 0 => done[c] + Chunk(c) # done[c]
           /\ Left(c) = 0 => done[c] = request[c].size
      BY <3>2, <3>3a, PieceIs, Zenon DEF Left, Chunk
    <3>3. ~(Left(c) > 0 /\ done' = [done EXCEPT ![c] = @ + Chunk(c)])
      BY <1>2, <2>3, <3>3b, Zenon DEF TransferType
    <3>4. /\ UNCHANGED <<file, seen>>
          /\ (Left(c) = 0 /\ Finish(c, "ok")) \/ Finish(c, "failed")
      BY <1>7, <3>3, Zenon DEF WriteChunk
    <3>5. TransferType' /\ worker'[c] = "lock" /\ (error_code'[c] = "ok" => Left(c) = 0)
      BY <1>2, <2>1, <2>3, <3>4, Zenon DEF Finish, TransferType, HandshakeType
    <3>6. Left(c) = 0 => done[c] = request[c].size
      BY <3>3b, Zenon
    <3>7. Known(c)
      BY <2>1, <2>3, <3>1, <3>4, <3>5, <3>6, Zenon DEF UnderWay, ReadSoFar, WrittenSoFar, Through
    <3>8. ASSUME NEW u \in Callers \ {c} PROVE Known(u)
      BY <2>1, <3>4, StaysKnown, NothingToNote, Zenon
    <3> QED
      BY <3>5, <3>7, <3>8, Zenon
  <2> QED
    BY <2>2, <2>3, Zenon
<1>8. CASE Truncate(c) \/ OpenTruncates(c)
  <2>1. /\ SetSize(c) /\ worker[c] \in {"truncate", "open"} /\ UNCHANGED <<request, done, buffer, handler>>
    BY <1>8, Zenon DEF Truncate, OpenTruncates, SetSize
  <2>2. /\ handler[c] # "idle" /\ request[c].kind \in {"truncate", "open"} /\ request[c] \in Requests
        /\ UnderWay(c)
    BY <2>1, Zenon DEF TransferInv, HandshakeInv, UnderWay
  <2>3. /\ \A u \in Callers \ {c} : worker'[u] = worker[u] /\ error_code'[u] = error_code[u]
        /\ error_code' \in [Callers -> {"ok", "failed"}] /\ worker'[c] = "lock"
    BY <1>2, <2>1, Zenon DEF SetSize, Finish, TransferType, HandshakeType
  <2>4. TransferType' /\ \A u \in Callers : Noted(u)
    <3>1. CASE UNCHANGED <<file, seen>>
      BY <1>2, <2>1, <2>3, <3>1, NothingToNote, Zenon DEF TransferType
    <3>2. CASE SetFile(FileTruncate(request[c].size))
      <4> DEFINE f == FileTruncate(request[c].size)
      <4>1. f \in Seq(Bytes) /\ Len(f) <= MaxLength
        BY <1>2, <2>2, FileTruncateIs, Zenon DEF RequestsOK
      <4> HIDE DEF f
      <4>2. /\ file' \in Seq(Bytes) /\ Len(file') <= MaxLength
            /\ seen' \in [Callers -> [Positions -> SUBSET (Bytes \union {EOF})]]
            /\ \A u \in Callers : Noted(u)
        BY <1>2, <3>2, <4>1, SetFileIs, Zenon DEF f
      <4> QED
        BY <1>2, <2>1, <2>3, <4>2, Zenon DEF TransferType
    <3> QED
      BY <2>1, <3>1, <3>2, Zenon DEF SetSize
  <2>5. Known(c)
    BY <2>1, <2>2, <2>3, <2>4, Zenon DEF UnderWay, ReadSoFar, WrittenSoFar, Noted
  <2>6. ASSUME NEW u \in Callers \ {c} PROVE Known(u)
    BY <2>1, <2>3, <2>4, StaysKnown, Zenon
  <2> QED
    BY <2>4, <2>5, <2>6, Zenon
<1>9. CASE WorkerLock(c) \/ WorkerSignal(c) \/ WorkerUnlock(c)
  <2>1. UNCHANGED <<file, seen, request, done, buffer, error_code>>
    BY <1>9, Zenon DEF WorkerLock, WorkerSignal, WorkerUnlock
  <2>2. ASSUME NEW u \in Callers
        PROVE  /\ handler'[u] # "idle" => handler[u] # "idle"
               /\ \/ worker'[u] = worker[u]
                  \/ {worker[u], worker'[u]} \subseteq {"lock", "signal", "unlock", "none"}
    BY <1>2, <1>9, Zenon DEF WorkerLock, WorkerSignal, WorkerUnlock, HandshakeType
  <2>3. ASSUME NEW u \in Callers PROVE Known(u)
    BY <2>1, <2>2, StaysKnown, NothingToNote, Zenon
  <2> QED
    BY <1>2, <2>1, <2>3, Zenon DEF TransferType
<1>10. CASE CallHandler(c)
  <2>1. PICK r \in Requests : request' = [request EXCEPT ![c] = r]
    BY <1>10, Zenon DEF CallHandler
  <2>2. /\ request'[c] = r /\ done'[c] = 0 /\ buffer'[c] = <<>> /\ worker'[c] = "resolve"
        /\ file' = file /\ seen'[c] = [p \in Positions |-> {At(file, p)}]
        /\ \A u \in Callers \ {c} :
              /\ request'[u] = request[u] /\ done'[u] = done[u] /\ buffer'[u] = buffer[u]
              /\ worker'[u] = worker[u] /\ error_code'[u] = error_code[u] /\ handler'[u] = handler[u]
              /\ seen'[u] = seen[u]
    BY <1>2, <1>10, <2>1, Zenon DEF CallHandler, TransferType, HandshakeType
  <2>3. TransferType'
    <3>1. [p \in Positions |-> {At(file, p)}] \in [Positions -> SUBSET (Bytes \union {EOF})]
      BY <1>2, AtIs, Zenon DEF TransferType
    <3>2. seen' \in [Callers -> [Positions -> SUBSET (Bytes \union {EOF})]]
      BY <1>2, <1>10, <3>1, Zenon DEF CallHandler, TransferType
    <3>3. <<>> \in Seq(Bytes)
      OBVIOUS
    <3> QED
      BY <1>2, <1>10, <3>2, <3>3, Zenon DEF CallHandler, TransferType
  <2>4. Known(c)
    <3>1. /\ r.offset \in 0 .. MaxLength /\ r.size \in Nat /\ MaxLength \in Nat
      BY RequestIs, Zenon
    <3>2. /\ 0 <= r.size /\ r.offset + 0 <= MaxLength /\ Len(<<>>) = 0
          /\ \A k \in 1 .. 0 : FALSE
      BY <3>1
    <3>3. ~Through(c)'
      BY <2>2, Zenon DEF Through
    <3>4. UnderWay(c)'
      BY <2>2, Zenon DEF UnderWay
    <3>5. ReadSoFar(c)' /\ WrittenSoFar(c)'
      BY <2>2, <3>2, <3>3, Zenon DEF ReadSoFar, WrittenSoFar
    <3> QED
      BY <3>4, <3>5, Zenon
  <2>5. ASSUME NEW u \in Callers \ {c} PROVE Known(u)
    BY <2>2, StaysKnown, Zenon DEF Noted
  <2> QED
    BY <2>3, <2>4, <2>5, Zenon
<1>11. CASE Wait(c) \/ HandlerWakes(c) \/ Return(c)
  <2>1. UNCHANGED <<file, seen, request, done, buffer, error_code, worker>>
    BY <1>11, Zenon DEF Wait, HandlerWakes, Return, frame
  <2>2. ASSUME NEW u \in Callers PROVE handler'[u] # "idle" => handler[u] # "idle"
    BY <1>2, <1>11, Zenon DEF Wait, HandlerWakes, Return, HandshakeType
  <2>3. ASSUME NEW u \in Callers PROVE Known(u)
    BY <2>1, <2>2, StaysKnown, NothingToNote, Zenon
  <2> QED
    BY <1>2, <2>1, <2>3, Zenon DEF TransferType
<1> QED
  BY <1>4, <1>5, <1>6, <1>7, <1>8, <1>9, <1>10, <1>11, Zenon DEF WorkerStep

\* The invariant of the transfers holds for every file and every set of requests.
LEMMA TransferCorrect == FuseSpec => []TransferInv
<1>1. FuseInit => TransferInv
  <2> SUFFICES ASSUME FuseInit PROVE TransferInv
    BY Zenon
  <2>1. HandshakeInv
    BY Zenon DEF FuseInit, HandshakeInv, HandshakeType, WorkerPc
  <2>2. file \in Seq(Bytes) /\ Len(file) <= MaxLength
    <3>1. PICK n \in 0 .. MaxLength : file = [k \in 1 .. n |-> Byte("old", k)]
      BY Zenon DEF FuseInit
    <3>2. n \in Nat /\ n <= MaxLength
      BY FuseFileAssumption DEF RequestsOK
    <3>3. file \in [1 .. n -> Bytes]
      BY <3>1, <3>2, BytesAre, FuseFileAssumption DEF RequestsOK
    <3> QED
      BY <3>2, <3>3, FunctionIsSequence, Zenon
  <2>3. TransferType
    <3>1. <<>> \in Seq(Bytes)
      OBVIOUS
    <3> QED
      BY <2>2, <3>1, Zenon DEF FuseInit, TransferType
  <2> QED
    BY <2>1, <2>3, Zenon DEF FuseInit, TransferInv, UnderWay, ReadSoFar, WrittenSoFar
<1>2. TransferInv /\ [FuseNext]_fuse_vars => TransferInv'
  BY TransferStep, FuseFileAssumption, Zenon
<1> QED
  BY <1>1, <1>2, PTL DEF FuseSpec

\* blocking_read takes the file in pieces and other requests change it in between: a
\* successful nfs_read returns bytes the file held at their positions during the call,
\* and fewer than asked for only if the file ended there.
THEOREM ReadSafety == FuseSpec => []ReadReturnsFile
<1>1. TransferInv => ReadReturnsFile
  BY Zenon DEF TransferInv, HandshakeInv, ReadSoFar, Through, ReadReturnsFile, Returning
<1> QED
  BY <1>1, TransferCorrect, PTL

\* blocking_write sends its buffer in pieces: a successful nfs_write has stored the whole
\* buffer, every byte at its own position.
THEOREM WriteSafety == FuseSpec => []WriteStoresBuffer
<1>1. TransferInv => WriteStoresBuffer
  BY Zenon DEF TransferInv, HandshakeInv, WrittenSoFar, Through, WriteStoresBuffer, Returning
<1> QED
  BY <1>1, TransferCorrect, PTL
=============================================================================
