----------------------------- MODULE RpcSession -----------------------------
(***************************************************************************)
(* One connection between an NFS client and the server, from the call of a *)
(* stub to its return: the threads of the client, which share the          *)
(* connection of their RpcConnectionContext, and the server that handles   *)
(* their messages.  Over TCP they take turns on one socket, guarded by     *)
(* tcp_connection_mutex, and a thread of the server serves it              *)
(* (handle_client_tcp); over QUIC every call has a stream to itself and    *)
(* the event loop of the server handles what arrives (handle_client_quic). *)
(* No reply is compared with the call's xid: that a caller gets its own    *)
(* reply rests on the order of the messages.                               *)
(*                                                                         *)
(* The messages travel on channels of RecordChannel.tla, which TcpRecord   *)
(* and QuicRecord implement.  How QUIC calls wait for their streams is     *)
(* QuicClient.tla's subject and which entries the list of server threads   *)
(* has is ServerThreads.tla's.  The process is a FUSE client, in which     *)
(* libfuse has SIGPIPE ignored; the server does not ignore it.             *)
(***************************************************************************)
EXTENDS RpcMessages, Sequences

CONSTANTS Caller,    \* threads of the client
          Requests,  \* what the first call may be, the second, ...
          Auths      \* the credential and the verifier of a connection

MaxCalls == Len(Requests)  \* bound: the calls made

\* What a server can answer
AnyResults == [type_url : {p.results : p \in call_nfs \cup call_mount}, of : 1..MaxCalls]

AnyAccepted ==
    [stat : {"MSG_ACCEPTED"}, verifier : {create_auth_none_opaque_auth},
     detail : {"SUCCESS", "PROG_UNAVAIL", "PROG_MISMATCH", "PROC_UNAVAIL", "GARBAGE_ARGS", "SYSTEM_ERR"},
     data_case : {"results", "mismatch_info", "default_case"}, results : {NULL} \cup AnyResults]

AnyRejected ==
    [stat : {"MSG_DENIED"}, verifier : {NULL}, detail : {"RPC_MISMATCH", "AUTH_ERROR"},
     data_case : {"mismatch_info", "auth_stat"},
     results : {NULL, "AUTH_BADCRED", "AUTH_BADVERF", "AUTH_TOOWEAK"}]

AnyReply == AnyAccepted \cup AnyRejected

\* A caller expects the results of the procedure it reaches, if that may succeed.
Expects(request) ==
    request.rpcvers = 2 /\ "SUCCESS" \in Outcomes(request) =>
        \A p \in Reached(request) : request.results = p.results

ASSUME RpcSessionAssumption ==
    /\ NULL \notin Caller /\ "tcp" \notin Caller
    /\ NULL \notin AnyReply
    /\ MaxCalls \in Nat
    /\ \A k \in 1..MaxCalls : \A request \in Requests[k] : Expects(request)

VARIABLES transport,  \* transport_protocol of the RpcConnectionContext
          auth,       \* its credential and verifier
          mutex,      \* the owner of tcp_connection_mutex, or NULL
          pc, stub, id,  \* of each caller: where it is, what it calls, which call this is
          returned,   \* what each caller's last call returned
          calls,      \* the calls made
          input, output,  \* the messages sent and received, in each direction of each line
          reset,      \* the TCP connection has been reset
          client,     \* the client: "open", "closed" its socket, "crashed"
          server,     \* the server: where it is, the line it serves, what it answers
          socket,     \* the server's end of the TCP connection
          executed    \* the calls whose procedure was executed, in order

caller_vars == <<mutex, pc, stub, id, returned, calls, client>>
server_vars == <<server, socket, executed>>
connection == <<transport, auth>>
vars == <<connection, caller_vars, server_vars, input, output, reset>>

\* A line carries calls one way and replies the other.
Line == Caller \cup {"tcp"}
Chan == {"call", "reply"} \X Line
LineOf(c) == IF transport = "tcp" THEN "tcp" ELSE c

At(place) == [at |-> place, line |-> NULL, id |-> 0, reply |-> NULL, error |-> FALSE]
ServerReady == At("peek")

Init ==
    /\ transport \in {"tcp", "quic"} /\ auth \in Auths
    /\ mutex = NULL /\ calls = 0
    /\ pc = [c \in Caller |-> "idle"] /\ id = [c \in Caller |-> 0]
    /\ stub = [c \in Caller |-> NULL]
    /\ returned = [c \in Caller |-> NULL]
    /\ input = [ch \in Chan |-> <<>>] /\ output = [ch \in Chan |-> <<>>]
    /\ reset = FALSE /\ client = "open" /\ socket = "open"
    /\ server = ServerReady /\ executed = <<>>

Waiting(ch) == Len(output[ch]) < Len(input[ch])

NextMessage(ch) == input[ch][Len(output[ch]) + 1]

\* The server's end will not be read or written any more.
ServerGone == transport = "tcp" /\ (socket = "closed" \/ server.at \in {"ended", "killed"})

-----------------------------------------------------------------------------
(***************************************************************************)
(* A caller: invoke_rpc_remote_tcp or invoke_rpc_remote_quic in a stub.    *)
(***************************************************************************)
Invoke(c) ==
    /\ client = "open" /\ pc[c] = "idle" /\ calls < MaxCalls
    /\ calls' = calls + 1
    /\ \E s \in Requests[calls + 1] : stub' = [stub EXCEPT ![c] = s]
    /\ id' = [id EXCEPT ![c] = calls + 1]
    /\ pc' = [pc EXCEPT ![c] = IF transport = "tcp" THEN "lock" ELSE "send"]
    /\ UNCHANGED <<connection, server_vars, mutex, returned, client, input, output, reset>>

Lock(c) ==
    /\ client = "open" /\ pc[c] = "lock" /\ mutex = NULL
    /\ mutex' = c
    /\ pc' = [pc EXCEPT ![c] = "send"]
    /\ UNCHANGED <<connection, server_vars, stub, id, returned, calls, client, input, output, reset>>

CallMessage(c) ==
    [mtype |-> "CALL", id |-> id[c], rpcvers |-> stub[c].rpcvers, prog |-> stub[c].prog,
     vers |-> stub[c].vers, proc |-> stub[c].proc, params |-> stub[c].params,
     credential |-> auth[1], verifier |-> auth[2]]

\* Mutant: the mutex is released before the reply is received.
SendCallUnlocks(c) ==
    /\ client = "open" /\ pc[c] = "send"
    /\ input' = IF reset \/ ServerGone THEN input
                ELSE [input EXCEPT ![<<"call", LineOf(c)>>] = Append(@, CallMessage(c))]
    /\ pc' = [pc EXCEPT ![c] = "receive"]
    /\ mutex' = IF mutex = c THEN NULL ELSE mutex
    /\ UNCHANGED <<connection, server_vars, stub, id, returned, calls, client, output, reset>>

\* A send that fails is not noticed.
SendCall(c) ==
    /\ client = "open" /\ pc[c] = "send"
    /\ input' = IF reset \/ ServerGone THEN input
                ELSE [input EXCEPT ![<<"call", LineOf(c)>>] = Append(@, CallMessage(c))]
    /\ pc' = [pc EXCEPT ![c] = "receive"]
    /\ UNCHANGED <<connection, server_vars, mutex, stub, id, returned, calls, client, output, reset>>

\* Mutant: the mutex stays locked when there is no reply.
ReturnKeepsMutex(c, reply) ==
    /\ IF StubCrashes(stub[c], reply)
       THEN client' = "crashed" /\ UNCHANGED <<pc, stub, id, returned>>
       ELSE /\ returned' = [returned EXCEPT ![c] =
                    [id |-> id[c], code |-> StubReturns(stub[c], reply),
                     results |-> IF reply = NULL THEN NULL ELSE reply.results]]
            /\ pc' = [pc EXCEPT ![c] = "idle"]
            /\ stub' = [stub EXCEPT ![c] = NULL] /\ id' = [id EXCEPT ![c] = 0]
            /\ UNCHANGED client
    /\ mutex' = IF mutex = c /\ reply # NULL THEN NULL ELSE mutex
    /\ UNCHANGED <<connection, server_vars, calls, input, reset>>

\* The stub has the reply, or NULL, and returns; the mutex is free again.
Return(c, reply) ==
    /\ IF StubCrashes(stub[c], reply)
       THEN client' = "crashed" /\ UNCHANGED <<pc, stub, id, returned>>
       ELSE /\ returned' = [returned EXCEPT ![c] =
                    [id |-> id[c], code |-> StubReturns(stub[c], reply),
                     results |-> IF reply = NULL THEN NULL ELSE reply.results]]
            /\ pc' = [pc EXCEPT ![c] = "idle"]
            /\ stub' = [stub EXCEPT ![c] = NULL] /\ id' = [id EXCEPT ![c] = 0]
            /\ UNCHANGED client
    /\ mutex' = IF mutex = c THEN NULL ELSE mutex
    /\ UNCHANGED <<connection, server_vars, calls, input, reset>>

ReceiveReply(c) ==
    LET ch == <<"reply", LineOf(c)>>
    IN  /\ client = "open" /\ pc[c] = "receive" /\ ~reset /\ Waiting(ch)
        /\ output' = [output EXCEPT ![ch] = Append(@, NextMessage(ch))]
        /\ Return(c, NextMessage(ch).reply)

\* recv returns 0: the server closed its socket.
ReceiveEnds(c) ==
    /\ client = "open" /\ pc[c] = "receive" /\ ~reset /\ ~Waiting(<<"reply", LineOf(c)>>)
    /\ transport = "tcp" /\ socket = "closed"
    /\ Return(c, NULL)
    /\ UNCHANGED output

\* recv fails, which is not noticed: the buffers, which were not written, make no
\* message or the one of an earlier reply.
ReceiveFails(c) ==
    /\ client = "open" /\ pc[c] = "receive" /\ reset
    /\ \/ Return(c, NULL)
       \/ \E i \in DOMAIN output[<<"reply", "tcp">>] : Return(c, output[<<"reply", "tcp">>][i].reply)
    /\ UNCHANGED output

\* free_rpc_connection_context, when no call is under way
Disconnect ==
    /\ client = "open" /\ transport = "tcp" /\ \A c \in Caller : pc[c] = "idle"
    /\ client' = "closed"
    /\ UNCHANGED <<connection, server_vars, mutex, pc, stub, id, returned, calls, input, output, reset>>

-----------------------------------------------------------------------------
(***************************************************************************)
(* The server.                                                             *)
(***************************************************************************)
\* is_tcp_connection_closed: there is a message, recv failed, or the client is gone.
Peek ==
    /\ transport = "tcp" /\ server.at = "peek"
    /\ \/ ~reset /\ Waiting(<<"call", "tcp">>) /\ server' = At("receive")
       \/ reset /\ server' = At("remove")
       \/ /\ ~reset /\ ~Waiting(<<"call", "tcp">>) /\ client # "open"
          /\ server' = At("ended")
    /\ UNCHANGED <<connection, caller_vars, socket, executed, input, output, reset>>

\* What is answered to 'message', and what has been executed then
Answer(line, message, handled, outcome) ==
    /\ server' = [at |-> IF handled.reply = NULL THEN "remove" ELSE "reply", line |-> line,
                  id |-> message.id, reply |-> handled.reply, error |-> handled.error]
    /\ executed' = IF handled.called /\ Executes(message, outcome)
                   THEN Append(executed, message.id) ELSE executed

\* receive_rm_record_tcp in process_single_rpc_tcp, and all of it up to the reply.
ReceiveTcp ==
    LET ch == <<"call", "tcp">>
    IN  /\ server.at = "receive" /\ ~reset
        /\ \E outcome \in Outcomes(NextMessage(ch)) :
              Answer("tcp", NextMessage(ch), process_single_rpc_tcp(NextMessage(ch), outcome), outcome)
        /\ output' = [output EXCEPT ![ch] = Append(@, NextMessage(ch))]
        /\ UNCHANGED <<connection, caller_vars, socket, input, reset>>

\* The connection was reset since Peek: the buffers make no message or an earlier one.
ReceiveTcpFails ==
    /\ server.at = "receive" /\ reset
    /\ \/ server' = At("remove") /\ UNCHANGED executed
       \/ \E i \in DOMAIN output[<<"call", "tcp">>] :
             LET message == output[<<"call", "tcp">>][i]
             IN  \E outcome \in Outcomes(message) :
                    Answer("tcp", message, process_single_rpc_tcp(message, outcome), outcome)
    /\ UNCHANGED <<connection, caller_vars, socket, input, output, reset>>

\* The event loop takes the next message of some stream.
ReceiveQuic(line) ==
    LET ch == <<"call", line>>
    IN  /\ transport = "quic" /\ server.at = "peek" /\ Waiting(ch)
        /\ \E outcome \in Outcomes(NextMessage(ch)) :
              Answer(line, NextMessage(ch), handle_client_quic(NextMessage(ch), outcome), outcome)
        /\ output' = [output EXCEPT ![ch] = Append(@, NextMessage(ch))]
        /\ UNCHANGED <<connection, caller_vars, socket, input, reset>>

\* Mutant: the reply goes out on another stream.
ReplyElsewhere ==
    /\ server.at = "reply" /\ ~reset
    /\ \E line \in {l \in Line : (l = "tcp") <=> (transport = "tcp")} :
          input' = [input EXCEPT ![<<"reply", line>>] = Append(@, [id |-> server.id, reply |-> server.reply])]
    /\ server' = IF server.error /\ transport = "tcp" THEN At("remove") ELSE ServerReady
    /\ UNCHANGED <<connection, caller_vars, socket, executed, output, reset>>

\* The reply is sent.  Over QUIC the error is only logged.
Reply ==
    /\ server.at = "reply" /\ ~reset
    /\ input' = [input EXCEPT ![<<"reply", server.line>>] =
                    Append(@, [id |-> server.id, reply |-> server.reply])]
    /\ server' = IF server.error /\ transport = "tcp" THEN At("remove") ELSE ServerReady
    /\ UNCHANGED <<connection, caller_vars, socket, executed, output, reset>>

\* The first send fails and nobody notices; the second may raise SIGPIPE, which ends
\* the process and closes its sockets.
ReplyFails ==
    /\ server.at = "reply" /\ reset
    /\ \/ /\ server' = IF server.error THEN At("remove") ELSE ServerReady
          /\ UNCHANGED socket
       \/ server' = At("killed") /\ socket' = "closed"
    /\ UNCHANGED <<connection, caller_vars, executed, input, output, reset>>

\* remove_server_thread closes the socket with the thread's entry, if it has one.
Remove ==
    /\ server.at = "remove"
    /\ socket' \in {"closed", socket} /\ server' = At("ended")
    /\ UNCHANGED <<connection, caller_vars, executed, input, output, reset>>

-----------------------------------------------------------------------------
\* The TCP connection is reset: a machine or the network between them failed.
Reset ==
    /\ transport = "tcp" /\ ~reset /\ reset' = TRUE
    /\ UNCHANGED <<connection, caller_vars, server_vars, input, output>>

CallerStep(c) == Lock(c) \/ SendCall(c) \/ ReceiveReply(c) \/ ReceiveEnds(c) \/ ReceiveFails(c)

ServerStep ==
    \/ Peek \/ ReceiveTcp \/ ReceiveTcpFails \/ Reply \/ ReplyFails \/ Remove
    \/ \E line \in Caller : ReceiveQuic(line)

Environment == Disconnect \/ Reset \/ \E c \in Caller : Invoke(c)

Next == Environment \/ ServerStep \/ \E c \in Caller : CallerStep(c)

Spec == Init /\ [][Next]_vars

\* Threads run and messages arrive; nobody has to call.
FairSpec == Spec /\ WF_vars(ServerStep) /\ \A c \in Caller : WF_vars(CallerStep(c))

-----------------------------------------------------------------------------
\* A stub that returns 0 has the results of its own call, which was executed exactly
\* once, and the results have the type the stub expects of the server; and one that
\* returns a code the server's refusal stands for was not executed.  The replies are
\* told apart by their order alone, so this ends with a connection that is reset.
OwnResult ==
    \A c \in Caller : returned[c] # NULL /\ ~reset =>
        LET executions == {k \in DOMAIN executed : executed[k] = returned[c].id}
        IN  /\ returned[c].code # -2
            /\ returned[c].code = 0 =>
                  returned[c].results.of = returned[c].id /\ \E k \in executions : executions = {k}
            /\ returned[c].code > 1 => executions = {}

\* Nothing but a NULL procedure is executed for a client that did not give its user and
\* at least one group, and only a NULL procedure's stub crashes its client, when
\* there is no reply.
OnlyNullForAnyone ==
    /\ \A i \in DOMAIN executed, l \in Line : \A m \in DOMAIN output[<<"call", l>>] :
          LET message == output[<<"call", l>>][m]
          IN  message.id = executed[i] /\ message.proc # 0 => message.credential.gids > 0
    /\ client = "crashed" => \E c \in Caller : pc[c] = "receive" /\ stub[c].proc = 0

\* The server's thread has met an error and will read no more.
GivingUp == transport = "tcp" /\ (server.error \/ server.at = "remove")

\* Each call and each reply of a line is named after the call.
Channel == INSTANCE RecordChannel
             WITH Record <- 1..MaxCalls,
                  input <- [ch \in Chan |-> [i \in DOMAIN input[ch] |-> input[ch][i].id]],
                  output <- [ch \in Chan |-> [i \in DOMAIN output[ch] |-> output[ch][i].id]],
                  broken <- [ch \in Chan |-> \/ reset \/ client # "open" \/ ServerGone
                                             \/ ch = <<"call", "tcp">> /\ GivingUp]

\* The session uses its lines as RecordChannel has them used, which is what TcpRecord
\* and QuicRecord assume: nobody sends on a line before the other end has received
\* what was sent before, since execute_rpc_call_tcp keeps the mutex until it has the
\* reply; and every message is received until the connection ends.
UsesChannel == Channel!Spec

\* A call returns, unless the client crashed or the server's thread ended and left the
\* socket open: remove_server_thread found no entry, or nobody closes the socket of a
\* thread that could not take the mutex of the list.  There is no time-out.
CallReturns ==
    \A c \in Caller : pc[c] # "idle" ~>
        pc[c] = "idle" \/ client = "crashed" \/ (server.at = "ended" /\ socket = "open")
=============================================================================
