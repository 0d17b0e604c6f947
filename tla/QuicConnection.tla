--------------------------- MODULE QuicConnection ---------------------------
(***************************************************************************)
(* The life of a client's QUIC connection: create_rpc_connection_context,  *)
(* the first call, which starts the event loop thread and waits for the    *)
(* connection to be established, the calls of the FUSE threads, the end    *)
(* of the connection by either side, and free_rpc_connection_context,      *)
(* which has the event loop close the connection and joins its thread.     *)
(* The flags connection_established and connection_closed are set by the   *)
(* event loop without the locks under which their condition variables are  *)
(* waited for.                                                             *)
(*                                                                         *)
(* QuicClient.tla has what a call does once the connection is established; *)
(* here it is under way from then until its reply, or a failure.  A client *)
(* mounts before it starts threads (main, nfs_fuse.c), and libfuse calls   *)
(* nfs_destroy when its threads have finished.                             *)
(***************************************************************************)
EXTENDS Naturals

CONSTANTS Caller,   \* the threads that make calls
          Owner,    \* the one that creates, mounts and frees
          MaxRpcs   \* bound: the calls each makes

ASSUME QuicConnectionAssumption == Owner \in Caller

VARIABLES life,         \* the RpcConnectionContext, and where the owner is in freeing it
          at, made,     \* of each caller: where it is, the calls it has begun
          mounted,      \* the owner's first call has succeeded
          connection_established, connection_closed, main_stream,
          conn,         \* the connection inside the QUIC library
          by_peer,      \* it was not this client that ended the connection
          event_loop,   \* the event loop thread ...
          loops,        \* ... and how many were created
          closing_async, shutdown_async,  \* watchers that were sent
          misused       \* where memory was used that was not there any more, or not yet

connection_vars == <<life, at, made, mounted, connection_established, connection_closed, main_stream,
          conn, by_peer, event_loop, loops, closing_async, shutdown_async, misused>>
flags == <<connection_established, connection_closed, main_stream>>
asyncs == <<closing_async, shutdown_async>>

ConnectionInit ==
    /\ life = "none" /\ at = [c \in Caller |-> "idle"] /\ made = [c \in Caller |-> 0]
    /\ mounted = FALSE
    /\ connection_established = FALSE /\ connection_closed = FALSE /\ main_stream = FALSE
    /\ conn = "none" /\ by_peer = FALSE /\ event_loop = "none" /\ loops = 0
    /\ closing_async = FALSE /\ shutdown_async = FALSE /\ misused = {}

-----------------------------------------------------------------------------
(***************************************************************************)
(* create_rpc_connection_context and connect_to_quic_server.               *)
(***************************************************************************)
connect_to_quic_server ==
    /\ life = "none" /\ life' = "open" /\ conn' = "connecting"
    /\ UNCHANGED <<at, made, mounted, flags, by_peer, event_loop, loops, asyncs, misused>>

\* Without a socket or a configuration the client is freed, and that is all; after that
\* the error paths free it and then read its fields to free those.
ConnectFails ==
    /\ life = "none" /\ life' = "failed"
    /\ misused' \in {misused, misused \cup {"connect"}}
    /\ UNCHANGED <<at, made, mounted, flags, conn, by_peer, event_loop, loops, asyncs>>

-----------------------------------------------------------------------------
(***************************************************************************)
(* A call: wait_for_connection_establishment, and the rest.                *)
(***************************************************************************)
MayCall(c) ==
    /\ life = "open" /\ at[c] = "idle" /\ made[c] < MaxRpcs
    /\ mounted \/ (c = Owner /\ made[c] = 0)

\* The connection is not established: the caller starts the event loop thread.
CallFirst(c) ==
    /\ MayCall(c) /\ ~connection_established
    /\ made' = [made EXCEPT ![c] = @ + 1]
    /\ event_loop' = "start" /\ loops' = loops + 1
    /\ at' = [at EXCEPT ![c] = "check"]
    /\ UNCHANGED <<life, mounted, flags, conn, by_peer, asyncs, misused>>

\* There is no thread for the event loop: the call returns.
CallFirstFails(c) ==
    /\ MayCall(c) /\ ~connection_established
    /\ made' = [made EXCEPT ![c] = @ + 1]
    /\ UNCHANGED <<life, at, mounted, flags, conn, by_peer, event_loop, loops, asyncs, misused>>

CallAgain(c) ==
    /\ MayCall(c) /\ connection_established
    /\ made' = [made EXCEPT ![c] = @ + 1]
    /\ at' = [at EXCEPT ![c] = "call"]
    /\ UNCHANGED <<life, mounted, flags, conn, by_peer, event_loop, loops, asyncs, misused>>

\* The condition of the loop, with connection_established_lock held ...
CheckEstablished(c) ==
    /\ at[c] = "check"
    /\ at' = [at EXCEPT ![c] = CASE ~connection_established -> "sleep"
                                 [] connection_established /\ main_stream -> "call"
                                 [] connection_established /\ ~main_stream -> "idle"]
    /\ UNCHANGED <<life, made, mounted, flags, conn, by_peer, event_loop, loops, asyncs, misused>>

\* ... and pthread_cond_wait
AwaitEstablished(c) ==
    /\ at[c] = "sleep" /\ at' = [at EXCEPT ![c] = "asleep"]
    /\ UNCHANGED <<life, made, mounted, flags, conn, by_peer, event_loop, loops, asyncs, misused>>

\* The reply has come (QuicClient.tla).
CallReturns(c) ==
    /\ at[c] = "call" /\ event_loop = "run" /\ conn = "up"
    /\ at' = [at EXCEPT ![c] = "idle"]
    /\ mounted' \in {mounted, TRUE}
    /\ UNCHANGED <<life, made, flags, conn, by_peer, event_loop, loops, asyncs, misused>>

\* A send or a reception failed: kill_event_loop_thread.  The call may return.
CallFails(c) ==
    /\ at[c] = "call" /\ event_loop = "run" /\ conn = "up"
    /\ event_loop' = "killed"
    /\ at' \in {at, [at EXCEPT ![c] = "idle"]}
    /\ UNCHANGED <<life, made, mounted, flags, conn, by_peer, loops, asyncs, misused>>

-----------------------------------------------------------------------------
(***************************************************************************)
(* The event loop thread.                                                  *)
(***************************************************************************)
event_loop_runner ==
    /\ event_loop = "start" /\ event_loop' = "run"
    /\ UNCHANGED <<life, at, made, mounted, flags, conn, by_peer, loops, asyncs, misused>>

\* Mutant: without a main stream the connection does not count as established.
OnConnEstablishedWithStream ==
    /\ event_loop = "run" /\ conn = "connecting" /\ conn' = "up"
    /\ main_stream' \in BOOLEAN
    /\ connection_established' = main_stream'
    /\ event_loop' = IF main_stream' THEN "established" ELSE "run"
    /\ UNCHANGED <<life, at, made, mounted, connection_closed, by_peer, loops, asyncs, misused>>

\* Everything but the signal; the main stream may not be created.
client_on_conn_established ==
    /\ event_loop = "run" /\ conn = "connecting" /\ conn' = "up"
    /\ main_stream' \in BOOLEAN
    /\ connection_established' = TRUE
    /\ event_loop' = "established"
    /\ UNCHANGED <<life, at, made, mounted, connection_closed, by_peer, loops, asyncs, misused>>

\* pthread_cond_signal wakes one of those who wait.
SignalEstablished ==
    LET asleep == {c \in Caller : at[c] = "asleep"}
    IN  /\ event_loop = "established" /\ event_loop' = "run"
        /\ \/ asleep = {} /\ UNCHANGED at
           \/ \E c \in asleep : at' = [at EXCEPT ![c] = "check"]
        /\ UNCHANGED <<life, made, mounted, flags, conn, by_peer, loops, asyncs, misused>>

\* Mutant: the event loop is not told to stop.
OnConnClosedNoShutdown ==
    /\ event_loop = "run" /\ conn \in {"connecting", "up", "closing"} /\ conn' = "gone"
    /\ by_peer' = (conn # "closing")
    /\ connection_closed' = TRUE
    /\ event_loop' = "closed"
    /\ UNCHANGED <<life, at, made, mounted, connection_established, main_stream, loops, asyncs,
                   misused>>

\* The connection has ended: nobody answered, the server closed it, it was idle for
\* too long, or this client closed it.
client_on_conn_closed ==
    /\ event_loop = "run" /\ conn \in {"connecting", "up", "closing"} /\ conn' = "gone"
    /\ by_peer' = (conn # "closing")
    /\ connection_closed' = TRUE /\ shutdown_async' = TRUE
    /\ event_loop' = "closed"
    /\ UNCHANGED <<life, at, made, mounted, connection_established, main_stream, loops,
                   closing_async, misused>>

SignalClosed ==
    /\ event_loop = "closed" /\ event_loop' = "run"
    /\ life' = IF life = "asleep" THEN "check" ELSE life
    /\ UNCHANGED <<at, made, mounted, flags, conn, by_peer, loops, asyncs, misused>>

\* quic_conn_close of quic_connection, which is not reset when the connection has ended
async_connection_closing_callback ==
    /\ event_loop \in {"run", "breaking"} /\ closing_async /\ closing_async' = FALSE
    /\ conn' = IF conn = "gone" THEN conn ELSE "closing"
    /\ misused' = IF conn = "gone" THEN misused \cup {"connection"} ELSE misused
    /\ UNCHANGED <<life, at, made, mounted, flags, by_peer, event_loop, loops, shutdown_async>>

\* ev_break: the callbacks that are pending are made all the same.
async_shutdown_loop_callback ==
    /\ event_loop = "run" /\ shutdown_async /\ shutdown_async' = FALSE
    /\ event_loop' = "breaking"
    /\ UNCHANGED <<life, at, made, mounted, flags, conn, by_peer, loops, closing_async, misused>>

LoopEnds ==
    /\ event_loop = "breaking" /\ event_loop' = "ended"
    /\ UNCHANGED <<life, at, made, mounted, flags, conn, by_peer, loops, asyncs, misused>>

-----------------------------------------------------------------------------
(***************************************************************************)
(* free_rpc_connection_context, when the mount has failed or at the end.   *)
(***************************************************************************)
\* Without an event loop there is no watcher to send.
Free ==
    /\ life = "open" /\ made[Owner] > 0 /\ \A c \in Caller : at[c] = "idle"
    /\ closing_async' = TRUE /\ life' = "check"
    /\ misused' = IF event_loop = "none" THEN misused \cup {"loop"} ELSE misused
    /\ UNCHANGED <<at, made, mounted, flags, conn, by_peer, event_loop, loops, shutdown_async>>

FreeCheck ==
    /\ life = "check" /\ life' = IF connection_closed THEN "join" ELSE "sleep"
    /\ UNCHANGED <<at, made, mounted, flags, conn, by_peer, event_loop, loops, asyncs, misused>>

FreeSleep ==
    /\ life = "sleep" /\ life' = "asleep"
    /\ UNCHANGED <<at, made, mounted, flags, conn, by_peer, event_loop, loops, asyncs, misused>>

\* Mutant: the thread is not waited for.
JoinAtOnce ==
    /\ life = "join" /\ life' = "contexts"
    /\ UNCHANGED <<at, made, mounted, flags, conn, by_peer, event_loop, loops, asyncs, misused>>

Join ==
    /\ life = "join" /\ event_loop \in {"ended", "killed"} /\ life' = "contexts"
    /\ UNCHANGED <<at, made, mounted, flags, conn, by_peer, event_loop, loops, asyncs, misused>>

\* free_stream_contexts_list waits for ever if a call has a context; then all is freed.
FreeRest ==
    /\ life = "contexts" /\ \A c \in Caller : at[c] # "call" /\ life' = "freed"
    /\ UNCHANGED <<at, made, mounted, flags, conn, by_peer, event_loop, loops, asyncs, misused>>

\* pthread_cond_wait may return unasked.
WakesUnasked ==
    /\ \/ life = "asleep" /\ life' = "check" /\ UNCHANGED at
       \/ \E c \in Caller : at[c] = "asleep" /\ at' = [at EXCEPT ![c] = "check"] /\ UNCHANGED life
    /\ UNCHANGED <<made, mounted, flags, conn, by_peer, event_loop, loops, asyncs, misused>>

-----------------------------------------------------------------------------
CallerStep(c) == CheckEstablished(c) \/ AwaitEstablished(c)

OwnerStep == FreeCheck \/ FreeSleep \/ Join \/ FreeRest

\* The event loop's own steps; a connection that is being closed ends.
EventLoopStep ==
    \/ event_loop_runner \/ SignalEstablished \/ SignalClosed
    \/ async_connection_closing_callback \/ async_shutdown_loop_callback \/ LoopEnds
    \/ conn \in {"connecting", "closing"} /\ client_on_conn_closed

\* The network and the server
Peer ==
    \/ client_on_conn_established
    \/ conn = "up" /\ client_on_conn_closed
    \/ \E c \in Caller : CallReturns(c) \/ CallFails(c)

Client ==
    \/ connect_to_quic_server \/ ConnectFails \/ Free \/ WakesUnasked
    \/ \E c \in Caller : CallFirst(c) \/ CallFirstFails(c) \/ CallAgain(c)

ConnectionNext == Client \/ Peer \/ EventLoopStep \/ OwnerStep \/ \E c \in Caller : CallerStep(c)

ConnectionSpec == ConnectionInit /\ [][ConnectionNext]_connection_vars

\* Threads are scheduled, a connection attempt and the closing of a connection have
\* time-outs in the QUIC library, and the server answers while the connection is up.
ConnectionFairSpec ==
    /\ ConnectionSpec /\ WF_connection_vars(EventLoopStep) /\ WF_connection_vars(OwnerStep)
    /\ \A c \in Caller :
          WF_connection_vars(CallerStep(c)) /\ WF_connection_vars(CallReturns(c) \/ CallFails(c))

-----------------------------------------------------------------------------
\* The condition variable was signalled between the test of the flag and the wait.
LostEstablished(c) == at[c] = "asleep" /\ connection_established /\ event_loop # "established"
LostClosed == life = "asleep" /\ connection_closed /\ event_loop # "closed"

\* The client and its loop exist once and are not used when they have been freed: one
\* event loop thread is ever created although every caller may create one, it has
\* ended when the QuicClient is freed, no call is under way then, and the closing
\* callback uses a connection that has ended only if the server, or a time-out, ended
\* it while the client was about to.
FreedWhenUnused ==
    /\ loops <= 1
    /\ life \in {"contexts", "freed"} => /\ event_loop \in {"ended", "killed"}
                                         /\ \A c \in Caller : at[c] = "idle"
    /\ "connection" \in misused => by_peer

\* A call returns unless one of three things happens: its wake-up was lost, the
\* connection ended (client_on_conn_closed wakes only the owner, so that neither a
\* caller that waits for the connection nor one that waits for its reply hears of it),
\* or the event loop was killed.
CallEndsUnless ==
    \A c \in Caller : at[c] # "idle" ~>
        at[c] = "idle" \/ LostEstablished(c) \/ conn = "gone" \/ event_loop = "killed"

\* Freeing the connection ends unless the wake-up was lost, a failed call has killed
\* the event loop before or there never was one, which nobody tells the owner: it waits
\* for a connection to be closed that no thread serves.
FreeEnds == life = "check" ~> life = "freed" \/ LostClosed \/ event_loop \in {"killed", "none"}
=============================================================================
