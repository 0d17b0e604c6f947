----------------------------- MODULE QuicClient ------------------------------
(***************************************************************************)
(* RPCs of several threads over one QUIC connection: the threads that call *)
(* execute_rpc_call_quic (one per FUSE operation in progress) and the      *)
(* event loop thread that owns the connection.  A call gets a context;     *)
(* the event loop gives the context a stream from a pool of auxiliary      *)
(* streams, sends the call when the stream is writable, collects the reply *)
(* when it is readable and wakes the caller.                               *)
(*                                                                         *)
(* The context of a thread's current call is named after the thread.  The  *)
(* connection is established (the clients mount before they start threads) *)
(* and stays open; a reply arrives in one piece (QuicRecord.tla has the    *)
(* pieces); allocation of memory does not fail.  Every call asks for an    *)
(* auxiliary stream, as all of nfs_client.c and mount_client.c do.         *)
(***************************************************************************)
EXTENDS Naturals, Sequences

CONSTANTS Invoker,     \* the threads that make calls
          MaxStreams,  \* MAX_STREAMS_PER_CONNECTION
          MaxCalls,    \* bound: the calls each thread makes
          MayFail,     \* whether sends and receptions may fail
          NULL

StreamId == 1..MaxStreams
Message == [kind : {"call", "reply"}, by : Invoker, nr : Nat]

ASSUME QuicClientAssumption ==
    /\ MaxStreams \in Nat \ {0} /\ MaxCalls \in Nat /\ MayFail \in BOOLEAN
    /\ NULL \notin Invoker \cup StreamId /\ NULL \notin Message

VARIABLES pc,            \* where each thread is
          calls,         \* how many calls it has begun
          result,        \* what its last call returned
          ctx,           \* the context of its current call
          queue,         \* the contexts that wait for a stream, oldest first
          contexts,      \* client->stream_contexts, newest first
          pool,          \* the number of auxiliary streams created
          in_use,        \* stream_in_use of each
          want_write,    \* quic_stream_wantwrite of each
          wire,          \* the call or the reply in transit on each
          alloc_async,   \* stream_allocator_async_watcher was sent
          process_async, \* process_connections_async_watcher was sent
          loop,          \* where the event loop thread is
          todo,          \* the callbacks process_connections has yet to make
          cur            \* the context whose owner is about to be woken

vars == <<pc, calls, result, ctx, queue, contexts, pool, in_use, want_write, wire,
          alloc_async, process_async, loop, todo, cur>>
invokerVars == <<pc, calls, result>>
poolVars == <<pool, in_use>>

\* alloc: stream_allocation_finished and successfully_allocated_stream;
\* attempted, sent, received, finished: the fields of those names; reply: the
\* call the received message answers; alive: not freed
NewContext == [alloc |-> "pending", stream |-> NULL, attempted |-> FALSE, sent |-> FALSE,
               received |-> FALSE, finished |-> FALSE, reply |-> NULL, alive |-> TRUE]

Init ==
    /\ pc = [i \in Invoker |-> "idle"]
    /\ calls = [i \in Invoker |-> 0]
    /\ result = [i \in Invoker |-> NULL]
    /\ ctx = [i \in Invoker |-> [NewContext EXCEPT !.alive = FALSE]]
    /\ queue = <<>> /\ contexts = <<>>
    /\ pool = 0 /\ in_use = [s \in StreamId |-> FALSE]
    /\ want_write = [s \in StreamId |-> FALSE]
    /\ wire = [s \in StreamId |-> NULL]
    /\ alloc_async = FALSE /\ process_async = FALSE
    /\ loop = "run" /\ todo = {} /\ cur = NULL

\* Mutant: the caller cleans up without stream_contexts_list_lock.
NeverLocked == TRUE

\* stream_contexts_list_lock is free: the event loop holds it while it wakes a
\* thread, and for ever if it ends while it holds it.
ListUnlocked == loop \notin {"signal", "signal_last", "dead_locked"}

\* The place of the newest context on the stream in the list, or 0
FindAt(s) ==
    LET places == {k \in DOMAIN contexts : ctx[contexts[k]].stream = s}
    IN  IF places = {} THEN 0 ELSE CHOOSE k \in places : \A j \in places : k <= j

\* find_stream_context
Find(s) == IF FindAt(s) = 0 THEN NULL ELSE contexts[FindAt(s)]

-----------------------------------------------------------------------------
(***************************************************************************)
(* A calling thread: execute_rpc_call_quic and wait_for_rpc_reply.         *)
(***************************************************************************)
\* create_client_stream_context, push_to_stream_allocation_queue
Call(i) ==
    /\ pc[i] = "idle" /\ calls[i] < MaxCalls
    /\ loop # "allocate"                 \* stream_allocation_queue_lock
    /\ calls' = [calls EXCEPT ![i] = @ + 1]
    /\ ctx' = [ctx EXCEPT ![i] = NewContext]
    /\ queue' = Append(queue, i)
    /\ alloc_async' = TRUE
    /\ pc' = [pc EXCEPT ![i] = "allocated?"]
    /\ UNCHANGED <<result, contexts, poolVars, want_write, wire, process_async, loop, todo, cur>>

\* Mutant: process_connections_async_watcher is not sent.
AddContextNoWake(i) ==
    /\ pc[i] = "allocated?" /\ ctx[i].alloc = "ok" /\ ListUnlocked
    /\ contexts' = <<i>> \o contexts
    /\ pc' = [pc EXCEPT ![i] = "check"]
    /\ UNCHANGED <<calls, result, ctx, queue, poolVars, want_write, wire, alloc_async,
                   process_async, loop, todo, cur>>

\* The wait for stream_allocation_finished is over.  When the allocation
\* failed it never is: allocate_stream returned with stream_allocator_lock held.
AddContext(i) ==
    /\ pc[i] = "allocated?" /\ ctx[i].alloc = "ok" /\ ListUnlocked
    /\ contexts' = <<i>> \o contexts
    /\ process_async' = TRUE
    /\ pc' = [pc EXCEPT ![i] = "check"]
    /\ UNCHANGED <<calls, result, ctx, queue, poolVars, want_write, wire, alloc_async, loop,
                   todo, cur>>

\* The condition of the loop in wait_for_rpc_reply, with reply_lock held ...
Check(i) ==
    /\ pc[i] = "check"
    /\ pc' = [pc EXCEPT ![i] = IF ctx[i].finished THEN "collect" ELSE "sleep"]
    /\ UNCHANGED <<calls, result, ctx, queue, contexts, poolVars, want_write, wire, alloc_async,
                   process_async, loop, todo, cur>>

\* ... and pthread_cond_wait.  The event loop does not take reply_lock.
Sleep(i) ==
    /\ pc[i] = "sleep"
    /\ pc' = [pc EXCEPT ![i] = "asleep"]
    /\ UNCHANGED <<calls, result, ctx, queue, contexts, poolVars, want_write, wire, alloc_async,
                   process_async, loop, todo, cur>>

\* pthread_cond_wait may return unasked.
SpuriousWakeUp(i) ==
    /\ pc[i] = "asleep"
    /\ pc' = [pc EXCEPT ![i] = "check"]
    /\ UNCHANGED <<calls, result, ctx, queue, contexts, poolVars, want_write, wire, alloc_async,
                   process_async, loop, todo, cur>>

Collect(i) ==
    /\ pc[i] = "collect"
    /\ result' = [result EXCEPT ![i] = IF ctx[i].sent /\ ctx[i].received THEN ctx[i].reply ELSE NULL]
    /\ pc' = [pc EXCEPT ![i] = "remove"]
    /\ UNCHANGED <<calls, ctx, queue, contexts, poolVars, want_write, wire, alloc_async,
                   process_async, loop, todo, cur>>

\* remove_stream_context: the newest context on the stream is unlinked and freed.
RemoveContext(i) ==
    LET k == FindAt(ctx[i].stream)
    IN  /\ pc[i] = "remove" /\ ListUnlocked
        /\ contexts' = IF k = 0 THEN contexts
                       ELSE [j \in 1..(Len(contexts) - 1) |-> contexts[IF j < k THEN j ELSE j + 1]]
        /\ ctx' = IF k = 0 THEN ctx ELSE [ctx EXCEPT ![contexts[k]].alive = FALSE]
        /\ pc' = [pc EXCEPT ![i] = "release"]
        /\ UNCHANGED <<calls, result, queue, poolVars, want_write, wire, alloc_async,
                       process_async, loop, todo, cur>>

Release(i) ==
    /\ pc[i] = "release"
    /\ in_use' = [in_use EXCEPT ![ctx[i].stream] = FALSE]
    /\ pc' = [pc EXCEPT ![i] = "idle"]
    /\ UNCHANGED <<calls, result, ctx, queue, contexts, pool, want_write, wire, alloc_async,
                   process_async, loop, todo, cur>>

-----------------------------------------------------------------------------
(***************************************************************************)
(* The event loop: async_stream_allocator_callback.                        *)
(***************************************************************************)
AllocatorBegin ==
    /\ loop = "run" /\ alloc_async
    /\ alloc_async' = FALSE /\ loop' = "allocate"
    /\ UNCHANGED <<invokerVars, ctx, queue, contexts, poolVars, want_write, wire, process_async,
                   todo, cur>>

\* Mutant: stream_in_use is not tested.
AllStreams == 1..pool

\* the streams of the pool that no call uses
FreeStreams == {s \in 1..pool : ~in_use[s]}

\* get_available_auxiliary_stream: the newest free stream, a new one if there is
\* none, NULL at the limit
AvailableStream ==
    IF FreeStreams # {} THEN CHOOSE s \in FreeStreams : \A r \in FreeStreams : r <= s
    ELSE IF pool < MaxStreams THEN pool + 1 ELSE NULL

Allocate ==
    LET i == Head(queue)
        s == AvailableStream
    IN  /\ loop = "allocate" /\ queue # <<>>
        /\ queue' = Tail(queue)
        /\ \/ /\ s # NULL
              /\ ctx' = [ctx EXCEPT ![i].alloc = "ok", ![i].stream = s]
              /\ pool' = IF s > pool THEN s ELSE pool
              /\ in_use' = [in_use EXCEPT ![s] = TRUE]
              /\ want_write' = [want_write EXCEPT ![s] = TRUE]
           \/ /\ s = NULL
              /\ ctx' = [ctx EXCEPT ![i].alloc = "failed"]
              /\ UNCHANGED <<pool, in_use, want_write>>
        /\ UNCHANGED <<invokerVars, contexts, wire, alloc_async, process_async, loop, todo, cur>>

AllocatorEnd ==
    /\ loop = "allocate" /\ queue = <<>>
    /\ loop' = "run"
    /\ UNCHANGED <<invokerVars, ctx, queue, contexts, poolVars, want_write, wire, alloc_async,
                   process_async, todo, cur>>

-----------------------------------------------------------------------------
(***************************************************************************)
(* The event loop: process_connections and the stream callbacks.           *)
(***************************************************************************)
ProcessBegin ==
    /\ loop = "run" /\ process_async
    /\ process_async' = FALSE /\ loop' = "process"
    /\ todo' = {<<"writable", s>> : s \in {r \in StreamId : want_write[r]}}
                 \cup {<<"readable", s>> : s \in {r \in StreamId :
                                                    wire[r] # NULL /\ wire[r].kind = "reply"}}
    /\ UNCHANGED <<invokerVars, ctx, queue, contexts, poolVars, want_write, wire, alloc_async, cur>>

\* kill_event_loop_thread, called by the event loop thread itself: it cancels
\* itself and joins itself.  The join either fails or acts on the cancellation
\* with stream_contexts_list_lock held.
Killed == {"dead", "dead_locked"}

\* client_on_stream_writable when there is nothing to send
WritableIdle(s) ==
    /\ loop = "process" /\ <<"writable", s>> \in todo
    /\ Find(s) # NULL => ctx[Find(s)].attempted
    /\ todo' = todo \ {<<"writable", s>>}
    /\ UNCHANGED <<invokerVars, ctx, queue, contexts, poolVars, want_write, wire, alloc_async,
                   process_async, loop, cur>>

Writable(s) ==
    LET i == Find(s)
    IN  /\ loop = "process" /\ <<"writable", s>> \in todo
        /\ i # NULL /\ ~ctx[i].attempted
        /\ todo' = todo \ {<<"writable", s>>}
        /\ want_write' = [want_write EXCEPT ![s] = FALSE]
        /\ \/ /\ ctx' = [ctx EXCEPT ![i].attempted = TRUE, ![i].sent = TRUE]
              /\ wire' = [wire EXCEPT ![s] = [kind |-> "call", by |-> i, nr |-> calls[i]]]
              /\ UNCHANGED loop
           \/ /\ MayFail
              /\ ctx' = [ctx EXCEPT ![i].attempted = TRUE]
              /\ loop' \in Killed
              /\ UNCHANGED wire
        /\ UNCHANGED <<invokerVars, queue, contexts, poolVars, alloc_async, process_async, cur>>

\* Mutant: the context is not looked up by the stream the reply came on.
ReadableNewest(s) ==
    LET i == IF contexts = <<>> THEN NULL ELSE Head(contexts)
    IN  /\ loop = "process" /\ <<"readable", s>> \in todo /\ i # NULL
        /\ todo' = todo \ {<<"readable", s>>}
        /\ wire' = [wire EXCEPT ![s] = NULL]
        /\ ctx' = [ctx EXCEPT ![i].finished = TRUE, ![i].received = TRUE,
                              ![i].reply = [by |-> wire[s].by, nr |-> wire[s].nr]]
        /\ loop' = "signal" /\ cur' = i
        /\ UNCHANGED <<invokerVars, queue, contexts, poolVars, want_write, alloc_async, process_async>>

\* client_on_stream_readable: everything up to pthread_cond_signal
Readable(s) ==
    LET i == Find(s)
    IN  /\ loop = "process" /\ <<"readable", s>> \in todo /\ i # NULL
        /\ todo' = todo \ {<<"readable", s>>}
        /\ wire' = [wire EXCEPT ![s] = NULL]
        /\ \/ /\ ctx' = [ctx EXCEPT ![i].finished = TRUE, ![i].received = TRUE,
                                    ![i].reply = [by |-> wire[s].by, nr |-> wire[s].nr]]
              /\ loop' = "signal" /\ cur' = i
           \/ /\ MayFail
              /\ ctx' = [ctx EXCEPT ![i].finished = TRUE]
              /\ \/ loop' = "dead_locked" /\ UNCHANGED cur
                 \/ loop' = "signal_last" /\ cur' = i
        /\ UNCHANGED <<invokerVars, queue, contexts, poolVars, want_write, alloc_async, process_async>>

\* pthread_cond_signal wakes the owner if it waits, and is lost otherwise.
Signal ==
    /\ loop \in {"signal", "signal_last"}
    /\ pc' = IF pc[cur] = "asleep" THEN [pc EXCEPT ![cur] = "check"] ELSE pc
    /\ loop' = IF loop = "signal" THEN "process" ELSE "dead"
    /\ cur' = NULL
    /\ UNCHANGED <<calls, result, ctx, queue, contexts, poolVars, want_write, wire, alloc_async,
                   process_async, todo>>

ProcessEnd ==
    /\ loop = "process" /\ todo = {}
    /\ loop' = "run"
    /\ UNCHANGED <<invokerVars, ctx, queue, contexts, poolVars, want_write, wire, alloc_async,
                   process_async, todo, cur>>

\* The server answers on the stream of the call; read_callback hears of it.
ServerReplies(s) ==
    /\ wire[s] # NULL /\ wire[s].kind = "call"
    /\ wire' = [wire EXCEPT ![s].kind = "reply"]
    /\ process_async' = TRUE
    /\ UNCHANGED <<invokerVars, ctx, queue, contexts, poolVars, want_write, alloc_async, loop,
                   todo, cur>>

-----------------------------------------------------------------------------
InvokerStep(i) ==
    AddContext(i) \/ Check(i) \/ Sleep(i) \/ Collect(i) \/ RemoveContext(i) \/ Release(i)

LoopStep ==
    \/ AllocatorBegin \/ Allocate \/ AllocatorEnd
    \/ ProcessBegin \/ Signal \/ ProcessEnd
    \/ \E s \in StreamId : WritableIdle(s) \/ Writable(s) \/ Readable(s)

Next ==
    \/ \E i \in Invoker : Call(i) \/ InvokerStep(i) \/ SpuriousWakeUp(i)
    \/ LoopStep
    \/ \E s \in StreamId : ServerReplies(s)

Spec == Init /\ [][Next]_vars

\* Every thread is scheduled, and the server answers every call.
Fairness ==
    /\ \A i \in Invoker : WF_vars(InvokerStep(i))
    /\ WF_vars(LoopStep)
    /\ \A s \in StreamId : WF_vars(ServerReplies(s))

FairSpec == Spec /\ Fairness

-----------------------------------------------------------------------------
CallId == [by : Invoker, nr : Nat]
StreamContext == [alloc : {"pending", "ok", "failed"}, stream : StreamId \cup {NULL},
                  attempted : BOOLEAN, sent : BOOLEAN, received : BOOLEAN, finished : BOOLEAN,
                  reply : CallId \cup {NULL}, alive : BOOLEAN]

\* Every variable has its type.
TypeOK ==
    /\ pc \in [Invoker -> {"idle", "allocated?", "check", "sleep", "asleep", "collect",
                           "remove", "release"}]
    /\ calls \in [Invoker -> Nat]
    /\ result \in [Invoker -> CallId \cup {NULL}]
    /\ ctx \in [Invoker -> StreamContext]
    /\ queue \in Seq(Invoker) /\ contexts \in Seq(Invoker)
    /\ pool \in 0..MaxStreams /\ in_use \in [StreamId -> BOOLEAN]
    /\ want_write \in [StreamId -> BOOLEAN]
    /\ wire \in [StreamId -> Message \cup {NULL}]
    /\ alloc_async \in BOOLEAN /\ process_async \in BOOLEAN
    /\ loop \in {"run", "allocate", "process", "signal", "signal_last"} \cup Killed
    /\ todo \subseteq {"writable", "readable"} \X StreamId
    /\ cur \in Invoker \cup {NULL}

\* The call has a stream, from the allocation until its owner gives it back.
Holds(i) == pc[i] # "idle" /\ ctx[i].alloc = "ok"

\* No stream carries two calls at once, although the pool is searched by the
\* event loop and streams are given back by their callers without a lock.
StreamsExclusive ==
    \A i, j \in Invoker : Holds(i) /\ Holds(j) /\ ctx[i].stream = ctx[j].stream => i = j

\* What a call returns is the reply to that call, although replies are told
\* apart only by the stream they come on: execute_rpc_call_quic never compares
\* transaction identifiers, and streams are reused.
OwnReply ==
    \A i \in Invoker : pc[i] \in {"remove", "release"} =>
        result[i] \in {NULL, [by |-> i, nr |-> calls[i]]}

\* The event loop only touches contexts that are not freed: the ones it looks
\* up, and the one whose condition variable it signals after it has set
\* 'finished', when its owner may already be on its way out.
NoUseAfterFree ==
    /\ \A k \in DOMAIN queue : ctx[queue[k]].alive
    /\ \A k \in DOMAIN contexts : ctx[contexts[k]].alive
    /\ cur # NULL => ctx[cur].alive

\* A wake-up was lost: the reply came between the test of 'finished' and the
\* wait.  Nothing but chance will wake the thread.
LostWakeUp(i) == pc[i] = "asleep" /\ ctx[i].finished /\ cur # i

\* Every call returns, except in three cases: the signal was lost, no stream
\* was available, or a failure ended the event loop.
CallReturnsUnless ==
    \A i \in Invoker :
        pc[i] = "allocated?" ~> \/ pc[i] = "idle"
                                \/ LostWakeUp(i)
                                \/ ctx[i].alloc = "failed"
                                \/ loop \in Killed
=============================================================================
