-------------------------- MODULE RpcSessionProofs --------------------------
(***************************************************************************)
(* Proofs about RpcSession: for any callers, calls and credentials a stub  *)
(* gets the results of its own call, nothing but a NULL procedure runs for *)
(* an unknown client, and the callers use their lines as the channels of   *)
(* RecordChannel must be used.                                             *)
(***************************************************************************)
EXTENDS RpcSession, TLAPS

-----------------------------------------------------------------------------
(***************************************************************************)
(* One call and its reply.                                                 *)
(***************************************************************************)
AnyRequest == UNION {Requests[k] : k \in 1..MaxCalls}

\* The message of a call
MessageOf(i, s) ==
    [mtype |-> "CALL", id |-> i, rpcvers |-> s.rpcvers, prog |-> s.prog,
     vers |-> s.vers, proc |-> s.proc, params |-> s.params,
     credential |-> auth[1], verifier |-> auth[2]]

AnyCall == {MessageOf(i, s) : i \in 1..MaxCalls, s \in AnyRequest}

\* The program of the call was called and did what was asked for.
Done(message, handled, outcome) == handled.called /\ Executes(message, outcome)

\* What the reply makes of the call i of a stub, if 'done' says whether it was executed
Fits(s, i, reply, done) ==
    /\ StubReturns(s, reply) # -2
    /\ StubReturns(s, reply) = 0 => reply.results.of = i /\ done
    /\ StubReturns(s, reply) > 1 => ~done

\* What process_single_rpc_tcp and handle_client_quic make of a call
HandledWell(i, s, handled, outcome, message) ==
    /\ handled.reply \in AnyReply /\ handled.error \in BOOLEAN
    /\ Fits(s, i, handled.reply, Done(message, handled, outcome))
    /\ Done(message, handled, outcome) /\ message.proc # 0 => message.credential.gids > 0

\* The requests are as assumed.
LEMMA Requested == \A s \in AnyRequest : Expects(s)
BY RpcSessionAssumption, Zenon DEF AnyRequest

\* A message reaches the procedure that its stub calls.
LEMMA SameProcedure ==
    ASSUME NEW i, NEW s
    PROVE  Reached(MessageOf(i, s)) = Reached(s) /\ Outcomes(MessageOf(i, s)) = Outcomes(s)
<1>1. Reached(MessageOf(i, s)) = Reached(s)
  BY Zenon DEF Reached, MessageOf
<1>2. MessageOf(i, s).params = s.params
  BY Zenon DEF MessageOf
<1> QED
  BY <1>1, <1>2 DEF Outcomes

\* The replies a server builds ...
LEMMA Accepted ==
    ASSUME NEW detail \in {"SUCCESS", "PROG_UNAVAIL", "PROG_MISMATCH", "PROC_UNAVAIL",
                           "GARBAGE_ARGS", "SYSTEM_ERR"},
           NEW data_case \in {"results", "mismatch_info", "default_case"},
           NEW results \in {NULL} \cup AnyResults, NEW r, r = AcceptedReply(detail, data_case, results)
    PROVE  /\ r \in AnyReply /\ r.stat = "MSG_ACCEPTED" /\ r.detail = detail
           /\ r.data_case = data_case /\ r.results = results /\ VerifierAccepted(r.verifier)
<1>1. VerifierAccepted(create_auth_none_opaque_auth)
  BY Zenon DEF VerifierAccepted, create_auth_none_opaque_auth
<1>2. r \in AnyAccepted
  BY Zenon DEF AcceptedReply, AnyAccepted
<1> QED
  BY <1>1, <1>2, Zenon DEF AcceptedReply, AnyReply

\* ... when it refuses a call
LEMMA Rejected ==
    ASSUME NEW detail \in {"RPC_MISMATCH", "AUTH_ERROR"}, NEW data_case \in {"mismatch_info", "auth_stat"},
           NEW results \in {NULL, "AUTH_BADCRED", "AUTH_BADVERF", "AUTH_TOOWEAK"},
           NEW r, r = RejectedReply(detail, data_case, results)
    PROVE  r \in AnyReply /\ r.stat = "MSG_DENIED" /\ r.detail = detail
<1>1. r \in AnyRejected
  BY Zenon DEF RejectedReply, AnyRejected
<1> QED
  BY <1>1, Zenon DEF RejectedReply, AnyReply

\* A refusal is no execution.
LEMMA RefusalFits ==
    ASSUME NEW s, NEW i, NEW r \in AnyReply,
           \/ r.stat = "MSG_DENIED" /\ r.detail \in {"RPC_MISMATCH", "AUTH_ERROR"}
           \/ r.stat = "MSG_ACCEPTED" /\ r.detail # "SUCCESS"
    PROVE  Fits(s, i, r, FALSE)
<1>1. validate_successful_accepted_reply(r) \in 1..5
  BY DEF validate_successful_accepted_reply
<1> QED
  BY <1>1 DEF Fits, StubReturns

\* Results fit when the stub expects their type.
LEMMA ResultsFit ==
    ASSUME NEW s, NEW i \in 1..MaxCalls, NEW p \in call_nfs \cup call_mount, s.results = p.results
    PROVE  LET r == wrap_procedure_results_in_successful_accepted_reply(p.results, i)
           IN  r \in AnyReply /\ Fits(s, i, r, TRUE)
<1> DEFINE results == [type_url |-> p.results, of |-> i]
           r == wrap_procedure_results_in_successful_accepted_reply(p.results, i)
<1>1. results \in AnyResults
  BY Zenon DEF AnyResults
<1>2. r = AcceptedReply("SUCCESS", "results", results)
  BY Zenon DEF wrap_procedure_results_in_successful_accepted_reply
<1>3. results.of = i /\ results.type_url = s.results
  BY Zenon
<1> HIDE DEF r, results
<1>4. /\ r \in AnyReply /\ r.stat = "MSG_ACCEPTED" /\ r.detail = "SUCCESS" /\ r.data_case = "results"
      /\ r.results = results /\ VerifierAccepted(r.verifier)
  BY <1>1, <1>2, Accepted
<1>5. validate_rpc_reply_structure(r)
  BY <1>4, RpcSessionAssumption, Zenon DEF validate_rpc_reply_structure
<1>6. validate_successful_accepted_reply(r) = 0
  BY <1>4, <1>5, Zenon DEF validate_successful_accepted_reply
<1>7. StubReturns(s, r) = 0
  BY <1>3, <1>4, <1>6, Zenon DEF StubReturns
<1>8. Fits(s, i, r, TRUE)
  BY <1>3, <1>4, <1>7 DEF Fits
<1> QED
  BY <1>4, <1>8, Zenon DEF r

\* What the program answers when it is called
LEMMA ForwardFits ==
    ASSUME NEW s \in AnyRequest, NEW i \in 1..MaxCalls, NEW outcome \in Outcomes(MessageOf(i, s)),
           s.rpcvers = 2
    PROVE  LET r == forward_rpc_call_to_program(MessageOf(i, s), outcome)
           IN  r \in AnyReply /\ Fits(s, i, r, Executes(MessageOf(i, s), outcome))
<1> DEFINE call == MessageOf(i, s)
           r == forward_rpc_call_to_program(call, outcome)
<1>1. /\ Reached(call) = Reached(s) /\ Outcomes(call) = Outcomes(s) /\ call.id = i
      /\ call.prog = s.prog /\ call.vers = s.vers
  BY SameProcedure, Zenon DEF MessageOf
<1>2. outcome \in Outcomes(call)
  BY Zenon
<1> HIDE DEF call
<1>3. CASE Reached(call) = {}
  <2>1. Executes(call, outcome) = FALSE
    BY <1>3, Zenon DEF Executes
  <2>2. r \in {create_default_case_accepted_reply("PROG_UNAVAIL"), create_prog_mismatch_accepted_reply,
               create_default_case_accepted_reply("PROC_UNAVAIL")}
    BY <1>3, Zenon DEF forward_rpc_call_to_program
  <2>3. r \in AnyReply /\ r.stat = "MSG_ACCEPTED" /\ r.detail # "SUCCESS"
    BY <2>2, Accepted DEF create_default_case_accepted_reply, create_prog_mismatch_accepted_reply
  <2>4. Fits(s, i, r, FALSE)
    BY <2>3, RefusalFits, Zenon
  <2> QED
    BY <2>1, <2>3, <2>4, Zenon DEF call
<1>4. CASE Reached(call) # {}
  <2> DEFINE p == CHOOSE p \in Reached(call) : TRUE
  <2>1. call.prog \in {"MOUNT", "NFS"} /\ call.vers = 2 /\ p \in Reached(call) /\ p \in call_nfs \cup call_mount
    BY <1>4, Zenon DEF Reached
  <2>2. outcome \in {"SUCCESS", "GARBAGE_ARGS", "SYSTEM_ERR"}
    BY <1>2, <1>4, Zenon DEF Outcomes, Outcome
  <2>3. CASE outcome = "SUCCESS"
    <3>1. r = wrap_procedure_results_in_successful_accepted_reply(p.results, i)
      BY <1>1, <1>4, <2>1, <2>3, Zenon DEF forward_rpc_call_to_program
    <3>2. s.results = p.results
      BY <1>1, <1>2, <2>1, <2>3, Requested, Zenon DEF Expects
    <3> HIDE DEF p, r
    <3>3. r \in AnyReply /\ Fits(s, i, r, TRUE)
      BY <2>1, <3>1, <3>2, ResultsFit, Zenon
    <3>4. Executes(call, outcome) = TRUE
      BY <1>4, <2>3, Zenon DEF Executes
    <3> QED
      BY <3>3, <3>4, Zenon DEF r, call
  <2>4. CASE outcome # "SUCCESS"
    <3>1. r = create_default_case_accepted_reply(outcome)
      BY <1>1, <1>4, <2>1, <2>4, Zenon DEF forward_rpc_call_to_program
    <3>2. r \in AnyReply /\ r.stat = "MSG_ACCEPTED" /\ r.detail # "SUCCESS"
      BY <2>2, <2>4, <3>1, Accepted DEF create_default_case_accepted_reply
    <3>3. Fits(s, i, r, FALSE)
      BY <3>2, RefusalFits, Zenon
    <3>4. Executes(call, outcome) = FALSE
      BY <2>4, Zenon DEF Executes
    <3> QED
      BY <3>2, <3>3, <3>4, Zenon DEF call
  <2> QED
    BY <2>3, <2>4, Zenon
<1> QED
  BY <1>3, <1>4, Zenon

\* What process_single_rpc_tcp and handle_client_quic make of a call, whatever they
\* think of its credential and verifier
LEMMA ProcessFits ==
    ASSUME NEW s \in AnyRequest, NEW i \in 1..MaxCalls, NEW outcome \in Outcomes(MessageOf(i, s))
    PROVE  LET call == MessageOf(i, s)
           IN  /\ HandledWell(i, s, process_single_rpc_tcp(call, outcome), outcome, call)
               /\ HandledWell(i, s, handle_client_quic(call, outcome), outcome, call)
<1> DEFINE call == MessageOf(i, s)
           auth_stat == AuthStat(call.credential, call.verifier)
           handled == Process(call, auth_stat, outcome)
<1>1. call.mtype = "CALL" /\ call.rpcvers = s.rpcvers
  BY Zenon DEF MessageOf
<1>2. auth_stat \in {"AUTH_OK", "AUTH_BADCRED", "AUTH_BADVERF"}
  BY Zenon DEF AuthStat
<1>3. auth_stat = "AUTH_OK" => CredentialAccepted(call.credential)
  BY Zenon DEF AuthStat
<1>4. ASSUME NEW r \in AnyReply, NEW error \in BOOLEAN, handled = Handled(r, FALSE, error),
             \/ r.stat = "MSG_DENIED" /\ r.detail \in {"RPC_MISMATCH", "AUTH_ERROR"}
      PROVE  HandledWell(i, s, handled, outcome, call)
  <2>1. Fits(s, i, r, FALSE)
    BY <1>4, RefusalFits, Zenon
  <2>2. handled.reply = r /\ handled.called = FALSE /\ handled.error = error
    BY <1>4 DEF Handled
  <2>3. Done(call, handled, outcome) = FALSE
    BY <2>2, Zenon DEF Done
  <2> HIDE DEF handled, call
  <2> QED
    BY <2>1, <2>2, <2>3, Zenon DEF HandledWell
<1>5. HandledWell(i, s, handled, outcome, call)
  <2>1. CASE s.rpcvers # 2
    <3>1. handled = Handled(create_rpc_mismatch_rejected_reply, FALSE, FALSE)
      BY <1>1, <2>1, Zenon DEF Process
    <3>2. LET r == create_rpc_mismatch_rejected_reply
          IN  r \in AnyReply /\ r.stat = "MSG_DENIED" /\ r.detail = "RPC_MISMATCH"
      BY Rejected, Zenon DEF create_rpc_mismatch_rejected_reply
    <3> QED
      BY <1>4, <3>1, <3>2, Zenon
  <2>2. CASE s.rpcvers = 2 /\ (auth_stat # "AUTH_OK" \/ TooWeak(call))
    <3>1. PICK a \in {"AUTH_BADCRED", "AUTH_BADVERF", "AUTH_TOOWEAK"}, e \in BOOLEAN :
             handled = Handled(create_auth_error_rejected_reply(a), FALSE, e)
      BY <1>1, <1>2, <2>2, Zenon DEF Process
    <3>2. LET r == create_auth_error_rejected_reply(a)
          IN  r \in AnyReply /\ r.stat = "MSG_DENIED" /\ r.detail = "AUTH_ERROR"
      BY Rejected DEF create_auth_error_rejected_reply
    <3> QED
      BY <1>4, <3>1, <3>2, Zenon
  <2>3. CASE s.rpcvers = 2 /\ auth_stat = "AUTH_OK" /\ ~TooWeak(call)
    <3> DEFINE r == forward_rpc_call_to_program(call, outcome)
    <3>1. handled = Handled(r, TRUE, FALSE)
      BY <1>1, <2>3, Zenon DEF Process
    <3>2. r \in AnyReply /\ Fits(s, i, r, Executes(call, outcome))
      BY <2>3, ForwardFits, Zenon
    <3>3. call.proc # 0 => call.credential.gids > 0
      BY <1>3, <2>3, Zenon DEF TooWeak, CredentialAccepted
    <3> HIDE DEF r
    <3>4. handled.reply = r /\ handled.called = TRUE /\ handled.error = FALSE
      BY <3>1 DEF Handled
    <3>5. Done(call, handled, outcome) = Executes(call, outcome)
      BY <3>4, Zenon DEF Done, Executes
    <3> HIDE DEF handled, call
    <3> QED
      BY <3>2, <3>3, <3>4, <3>5, Zenon DEF HandledWell
  <2> QED
    BY <2>1, <2>2, <2>3, Zenon
<1>6. process_single_rpc_tcp(call, outcome) = handled /\ handle_client_quic(call, outcome) = handled
  BY Zenon DEF process_single_rpc_tcp, handle_client_quic, validate_credential_and_verifier_tcp,
     validate_credential_and_verifier_quic
<1> QED
  BY <1>5, <1>6, Zenon

-----------------------------------------------------------------------------
(***************************************************************************)
(* The invariant.                                                          *)
(***************************************************************************)
\* The calls and the replies sent on a line, and those received
CallsSent(l) == input[<<"call", l>>]
CallsTaken(l) == output[<<"call", l>>]
RepliesSent(l) == input[<<"reply", l>>]
RepliesTaken(l) == output[<<"reply", l>>]

ReplyMessage == [id : 1..MaxCalls, reply : AnyReply]

CallersTyped ==
    /\ mutex \in Caller \cup {NULL} /\ client \in {"open", "closed", "crashed"}
    /\ pc \in [Caller -> {"idle", "lock", "send", "receive"}]
    /\ calls \in 0..MaxCalls /\ id \in [Caller -> 0..MaxCalls]
    /\ stub \in [Caller -> AnyRequest \cup {NULL}]
    /\ \A c \in Caller : pc[c] # "idle" => id[c] \in 1..calls /\ stub[c] \in AnyRequest
    /\ returned = [c \in Caller |-> returned[c]]

OnChan(f) == f = [ch \in Chan |-> f[ch]]
Shaped == OnChan(input) /\ OnChan(output)

LinesTyped ==
    /\ Shaped
    /\ \A l \in Line : /\ CallsSent(l) \in Seq(AnyCall) /\ CallsTaken(l) \in Seq(AnyCall)
                       /\ RepliesSent(l) \in Seq(ReplyMessage) /\ RepliesTaken(l) \in Seq(ReplyMessage)

ServerTyped ==
    /\ server \in [at : {"peek", "receive", "reply", "remove", "ended", "killed"},
                   line : Line \cup {NULL}, id : 0..MaxCalls, reply : AnyReply \cup {NULL},
                   error : BOOLEAN]
    /\ socket \in {"open", "closed"} /\ executed \in Seq(1..MaxCalls)

TypeOK ==
    /\ transport \in {"tcp", "quic"} /\ reset \in BOOLEAN
    /\ CallersTyped /\ LinesTyped /\ ServerTyped

\* Where the server may be.  A QUIC connection is not reset and its server does not
\* give up.
ServerOK ==
    /\ server.at = "reply" => /\ server.line \in Line /\ server.reply \in AnyReply
                              /\ server.id \in 1..MaxCalls
                              /\ transport = "tcp" => server.line = "tcp"
    /\ transport = "quic" => ~reset /\ server.at \in {"peek", "reply"} /\ socket = "open"
    /\ socket = "closed" => server.at \in {"ended", "killed"}
    /\ server.at = "killed" => reset
    /\ server.at = "receive" /\ ~reset => Waiting(<<"call", "tcp">>)

Active(c) == pc[c] \in {"send", "receive"}

\* The callers take turns on the socket, and no two calls have the same number.
CallersOK ==
    /\ \A c \in Caller : pc[c] = "lock" => transport = "tcp"
    /\ \A c \in Caller : Active(c) /\ transport = "tcp" /\ client = "open" => mutex = c
    /\ \A c, d \in Caller : Active(c) /\ Active(d) /\ transport = "tcp" => c = d
    /\ \A c, d \in Caller : pc[c] # "idle" /\ pc[d] # "idle" /\ id[c] = id[d] => c = d
    /\ \A c \in Caller : returned[c] # NULL => returned[c].id \in 1..calls
    /\ \A c, d \in Caller : returned[c] # NULL /\ pc[d] # "idle" => returned[c].id # id[d]
    /\ client = "crashed" => \E c \in Caller : pc[c] = "receive" /\ stub[c].proc = 0

\* What was received was sent ...
TakenOK ==
    \A l \in Line :
        /\ Len(CallsTaken(l)) <= Len(CallsSent(l))
        /\ \A k \in 1..Len(CallsTaken(l)) : CallsTaken(l)[k] = CallsSent(l)[k]

\* ... no two calls have the same number ...
NumberedOK ==
    /\ \A l \in Line : \A k \in 1..Len(CallsSent(l)) :
            /\ CallsSent(l)[k].id <= calls
            /\ \A c \in Caller : pc[c] \in {"lock", "send"} => CallsSent(l)[k].id # id[c]
    /\ \A l, m \in Line : \A j \in 1..Len(CallsSent(l)), k \in 1..Len(CallsSent(m)) :
            CallsSent(l)[j].id = CallsSent(m)[k].id => CallsSent(l)[j] = CallsSent(m)[k]

\* ... and what was executed was received and permitted.
ExecutedOK ==
    \A i \in 1..Len(executed) : \E l \in Line : \E k \in 1..Len(CallsTaken(l)) :
        /\ CallsTaken(l)[k].id = executed[i]
        /\ CallsTaken(l)[k].proc # 0 => CallsTaken(l)[k].credential.gids > 0

MessagesOK == TakenOK /\ NumberedOK /\ ExecutedOK

Executions(i) == {k \in DOMAIN executed : executed[k] = i}
Once(i) == \E k \in Executions(i) : Executions(i) = {k}

\* What a reply says of the call i is what happened to it.
Tells(s, i, reply) ==
    /\ StubReturns(s, reply) # -2
    /\ StubReturns(s, reply) = 0 => reply.results.of = i /\ Once(i)
    /\ StubReturns(s, reply) > 1 => Executions(i) = {}

Serving(l) == server.at = "reply" /\ server.line = l

\* Where the call of a caller that waits for the reply may be: not sent, as the
\* server's thread had ended; on its way; at the server; on its way back.
Unsent(l, i) == server.at = "ended" /\ RepliesSent(l) = RepliesTaken(l) /\ Executions(i) = {}
Sent(l, i, s) ==
    /\ CallsSent(l) = Append(CallsTaken(l), MessageOf(i, s)) /\ RepliesSent(l) = RepliesTaken(l)
    /\ ~Serving(l) /\ Executions(i) = {}
Served(l, i, s) ==
    /\ CallsSent(l) = CallsTaken(l) /\ RepliesSent(l) = RepliesTaken(l)
    /\ Serving(l) /\ server.id = i /\ Tells(s, i, server.reply)
Answered(l, i, s) ==
    /\ CallsSent(l) = CallsTaken(l) /\ ~Serving(l)
    /\ \E r \in AnyReply : /\ RepliesSent(l) = Append(RepliesTaken(l), [id |-> i, reply |-> r])
                           /\ Tells(s, i, r)
TravelsOn(l, i, s) == Unsent(l, i) \/ Sent(l, i, s) \/ Served(l, i, s) \/ Answered(l, i, s)
Travels(c) == TravelsOn(LineOf(c), id[c], stub[c])

\* A line on which nobody waits
Quiet(l) ==
    /\ RepliesSent(l) = RepliesTaken(l)
    /\ (CallsSent(l) = CallsTaken(l) /\ ~Serving(l)) \/ server.at = "ended"
NobodyWaits(l) == \A c \in Caller : pc[c] = "receive" => LineOf(c) # l

\* What OwnResult says of a caller
ResultOK(c) ==
    returned[c] # NULL =>
        /\ returned[c].code # -2
        /\ returned[c].code = 0 => returned[c].results.of = returned[c].id /\ Once(returned[c].id)
        /\ returned[c].code > 1 => Executions(returned[c].id) = {}

JourneyOK ==
    /\ \A c \in Caller : pc[c] = "receive" => Travels(c)
    /\ \A l \in Line : NobodyWaits(l) => Quiet(l)
    /\ \A c \in Caller : pc[c] \in {"lock", "send"} => Executions(id[c]) = {}
    /\ \A k \in DOMAIN executed : executed[k] <= calls
    /\ \A c \in Caller : ResultOK(c)

\* After a reset nothing is known of calls and replies under way.
SessionInv == TypeOK /\ ServerOK /\ CallersOK /\ MessagesOK /\ (~reset => JourneyOK)

-----------------------------------------------------------------------------
(***************************************************************************)
(* What a step does to the lines.                                          *)
(***************************************************************************)
SameCallsSent == \A l \in Line : CallsSent(l)' = CallsSent(l)
SameCallsTaken == \A l \in Line : CallsTaken(l)' = CallsTaken(l)
SameRepliesSent == \A l \in Line : RepliesSent(l)' = RepliesSent(l)
SameRepliesTaken == \A l \in Line : RepliesTaken(l)' = RepliesTaken(l)

SameLines == SameCallsSent /\ SameCallsTaken /\ SameRepliesSent /\ SameRepliesTaken

CallSent(l, m) ==
    /\ CallsSent(l)' = Append(CallsSent(l), m) /\ \A k \in Line \ {l} : CallsSent(k)' = CallsSent(k)
    /\ SameCallsTaken /\ SameRepliesSent /\ SameRepliesTaken
CallTaken(l, m) ==
    /\ CallsTaken(l)' = Append(CallsTaken(l), m) /\ \A k \in Line \ {l} : CallsTaken(k)' = CallsTaken(k)
    /\ SameCallsSent /\ SameRepliesSent /\ SameRepliesTaken
ReplySent(l, m) ==
    /\ RepliesSent(l)' = Append(RepliesSent(l), m)
    /\ \A k \in Line \ {l} : RepliesSent(k)' = RepliesSent(k)
    /\ SameCallsSent /\ SameCallsTaken /\ SameRepliesTaken
ReplyTaken(l, m) ==
    /\ RepliesTaken(l)' = Append(RepliesTaken(l), m)
    /\ \A k \in Line \ {l} : RepliesTaken(k)' = RepliesTaken(k)
    /\ SameCallsSent /\ SameCallsTaken /\ SameRepliesSent

\* A message more in one direction of one line
OneMore(f, g, d, l, m) ==
    /\ g[<<d, l>>] = Append(f[<<d, l>>], m)
    /\ \A e \in {"call", "reply"}, k \in Line : e # d \/ k # l => g[<<e, k>>] = f[<<e, k>>]

\* Appending to one direction of one line leaves the others alone.
LEMMA Put ==
    ASSUME NEW f, OnChan(f), NEW g, NEW d \in {"call", "reply"}, NEW l \in Line, NEW m,
           g = [f EXCEPT ![<<d, l>>] = Append(@, m)]
    PROVE  OnChan(g) /\ OneMore(f, g, d, l, m)
<1>1. \A e \in {"call", "reply"}, k \in Line : <<e, k>> \in Chan
  BY Zenon DEF Chan
<1>2. DOMAIN f = Chan
  BY Zenon DEF OnChan
<1>3. \A e, k : e # d \/ k # l => <<e, k>> # <<d, l>>
  BY Zenon
<1>4. \A ch \in Chan : ch # <<d, l>> => g[ch] = f[ch]
  BY <1>2, Zenon
<1>5. g[<<d, l>>] = Append(f[<<d, l>>], m)
  BY <1>1, <1>2, Zenon
<1>6. \A e \in {"call", "reply"}, k \in Line : e # d \/ k # l => g[<<e, k>>] = f[<<e, k>>]
  BY <1>1, <1>3, <1>4, Zenon
<1>7. g = [ch \in DOMAIN f |-> g[ch]]
  BY Zenon
<1> QED
  BY <1>2, <1>5, <1>6, <1>7, Zenon DEF OneMore, OnChan

\* The four ways in which a message moves, and what stays: a call is sent, ...
LEMMA SendsCall ==
    ASSUME Shaped, NEW l \in Line, NEW m, input' = [input EXCEPT ![<<"call", l>>] = Append(@, m)],
           output' = output
    PROVE  Shaped' /\ CallSent(l, m)
<1>1. OnChan(input') /\ OneMore(input, input', "call", l, m)
  BY Put, Zenon DEF Shaped
<1> QED
  BY <1>1, Zenon DEF OneMore, Shaped, CallSent, SameCallsTaken, SameRepliesSent, SameRepliesTaken, CallsSent, CallsTaken,
     RepliesSent, RepliesTaken

\* ... a reply is sent, ...
LEMMA SendsReply ==
    ASSUME Shaped, NEW l \in Line, NEW m, input' = [input EXCEPT ![<<"reply", l>>] = Append(@, m)],
           output' = output
    PROVE  Shaped' /\ ReplySent(l, m)
<1>1. OnChan(input') /\ OneMore(input, input', "reply", l, m)
  BY Put, Zenon DEF Shaped
<1> QED
  BY <1>1, Zenon DEF OneMore, Shaped, ReplySent, SameCallsTaken, SameCallsSent, SameRepliesTaken, CallsSent, CallsTaken,
     RepliesSent, RepliesTaken

\* ... a call is received, ...
LEMMA TakesCall ==
    ASSUME Shaped, NEW l \in Line, NEW m, output' = [output EXCEPT ![<<"call", l>>] = Append(@, m)],
           input' = input
    PROVE  Shaped' /\ CallTaken(l, m)
<1>1. OnChan(output') /\ OneMore(output, output', "call", l, m)
  BY Put, Zenon DEF Shaped
<1> QED
  BY <1>1, Zenon DEF OneMore, Shaped, CallTaken, SameCallsSent, SameRepliesSent, SameRepliesTaken, CallsSent, CallsTaken,
     RepliesSent, RepliesTaken

\* ... a reply is received.
LEMMA TakesReply ==
    ASSUME Shaped, NEW l \in Line, NEW m, output' = [output EXCEPT ![<<"reply", l>>] = Append(@, m)],
           input' = input
    PROVE  Shaped' /\ ReplyTaken(l, m)
<1>1. OnChan(output') /\ OneMore(output, output', "reply", l, m)
  BY Put, Zenon DEF Shaped
<1> QED
  BY <1>1, Zenon DEF OneMore, Shaped, ReplyTaken, SameCallsTaken, SameCallsSent, SameRepliesSent, CallsSent, CallsTaken,
     RepliesSent, RepliesTaken

\* Nothing moves.
LEMMA KeepsLines ==
    ASSUME Shaped, input' = input, output' = output PROVE Shaped' /\ SameLines
BY Zenon DEF Shaped, SameLines, SameCallsTaken, SameCallsSent, SameRepliesSent, SameRepliesTaken, CallsSent,
   CallsTaken, RepliesSent, RepliesTaken

\* The connection keeps its kind and its credential ...
LEMMA ConnectionKept == [Next]_vars => transport' = transport /\ auth' = auth
BY Zenon DEF Next, vars, connection, Environment, ServerStep, CallerStep, Disconnect, Reset, Invoke, Lock,
   SendCall, ReceiveReply, ReceiveEnds, ReceiveFails, Return, Peek, ReceiveTcp, ReceiveTcpFails, Reply,
   ReplyFails, Remove, ReceiveQuic

\* ... so that messages are the same ones after a step.
LEMMA SameMessages ==
    ASSUME auth' = auth
    PROVE  /\ AnyCall' = AnyCall
           /\ \A i, s : MessageOf(i, s)' = MessageOf(i, s)
BY DEF AnyCall, MessageOf

\* A caller's line is the socket or a stream of its own.
LEMMA LineIs == \A c \in Caller : LineOf(c) \in Line /\ LineOf(c) \in {"tcp", c}
BY Zenon DEF LineOf, Line

NextCall(l) == CallsSent(l)[Len(CallsTaken(l)) + 1]
NextReply(l) == RepliesSent(l)[Len(RepliesTaken(l)) + 1]

Takes(l) == (l = "tcp" /\ ReceiveTcp) \/ (l \in Caller /\ ReceiveQuic(l))

\* SendCall puts the call on the caller's line, unless the connection is gone.
LEMMA SendCallLines ==
    ASSUME TypeOK, NEW c \in Caller, SendCall(c), NEW l \in Line, l = LineOf(c)
    PROVE  /\ Shaped'
           /\ reset \/ ServerGone => SameLines
           /\ ~(reset \/ ServerGone) => CallSent(l, MessageOf(id[c], stub[c]))
<1>1. Shaped /\ output' = output
  BY Zenon DEF TypeOK, LinesTyped, SendCall
<1>2. CallMessage(c) = MessageOf(id[c], stub[c])
  BY Zenon DEF CallMessage, MessageOf
<1>3. CASE reset \/ ServerGone
  <2>1. input' = input
    BY <1>3, Zenon DEF SendCall
  <2> QED
    BY <1>1, <1>3, <2>1, KeepsLines, Zenon
<1>4. CASE ~(reset \/ ServerGone)
  <2>1. input' = [input EXCEPT ![<<"call", l>>] = Append(@, MessageOf(id[c], stub[c]))]
    BY <1>2, <1>4, Zenon DEF SendCall
  <2> QED
    BY <1>1, <1>4, <2>1, SendsCall, Zenon
<1> QED
  BY <1>3, <1>4, Zenon

\* ReceiveReply takes the next reply from the caller's line.
LEMMA ReceiveReplyLines ==
    ASSUME TypeOK, NEW c \in Caller, ReceiveReply(c), NEW l \in Line, l = LineOf(c)
    PROVE  Shaped' /\ ReplyTaken(l, NextReply(l))
<1>1. Shaped /\ input' = input
  BY Zenon DEF TypeOK, LinesTyped, ReceiveReply, Return
<1>2. output' = [output EXCEPT ![<<"reply", l>>] = Append(@, NextReply(l))]
  BY Zenon DEF ReceiveReply, NextReply, NextMessage, RepliesSent, RepliesTaken
<1> QED
  BY <1>1, <1>2, TakesReply, Zenon

\* The server takes the next call of a line.
LEMMA TakesLines ==
    ASSUME TypeOK, NEW l \in Line, Takes(l)
    PROVE  Shaped' /\ CallTaken(l, NextCall(l))
<1>1. Shaped /\ input' = input
  BY Zenon DEF TypeOK, LinesTyped, Takes, ReceiveTcp, ReceiveQuic
<1>2. output' = [output EXCEPT ![<<"call", l>>] = Append(@, NextCall(l))]
  BY Zenon DEF Takes, ReceiveTcp, ReceiveQuic, NextCall, NextMessage, CallsSent, CallsTaken
<1> QED
  BY <1>1, <1>2, TakesCall, Zenon

\* Reply puts the reply on the line of the call.
LEMMA ReplyLines ==
    ASSUME TypeOK, ServerOK, Reply, NEW l \in Line, l = server.line
    PROVE  Shaped' /\ ReplySent(l, [id |-> server.id, reply |-> server.reply])
<1>1. Shaped /\ output' = output
  BY Zenon DEF TypeOK, LinesTyped, Reply
<1>2. input' = [input EXCEPT ![<<"reply", l>>] = Append(@, [id |-> server.id, reply |-> server.reply])]
  BY Zenon DEF Reply
<1> QED
  BY <1>1, <1>2, SendsReply, Zenon

\* The other steps leave the lines alone.
Silent ==
    \/ Disconnect \/ Reset \/ Peek \/ ReceiveTcpFails \/ ReplyFails \/ Remove
    \/ \E c \in Caller : Invoke(c) \/ Lock(c) \/ ReceiveEnds(c) \/ ReceiveFails(c)

\* Every step is one of these.
LEMMA NextIs ==
    Next => \/ Silent \/ Reply \/ \E c \in Caller : SendCall(c) \/ ReceiveReply(c)
            \/ \E l \in Line : Takes(l)
<1>1. ReceiveTcp => Takes("tcp") /\ "tcp" \in Line
  BY Zenon DEF Takes, Line
<1>2. \A l \in Caller : ReceiveQuic(l) => Takes(l) /\ l \in Line
  BY Zenon DEF Takes, Line
<1> QED
  BY <1>1, <1>2, Zenon DEF Next, Environment, ServerStep, CallerStep, Silent

\* A silent step moves no message.
LEMMA SilentLines == ASSUME TypeOK, Silent PROVE Shaped' /\ SameLines
<1>1. Shaped
  BY Zenon DEF TypeOK, LinesTyped
<1>2. input' = input /\ output' = output
  BY Zenon DEF Silent, Disconnect, Reset, Peek, ReceiveTcpFails, ReplyFails, Remove, Invoke, Lock, ReceiveEnds,
     ReceiveFails, Return
<1> QED
  BY <1>1, <1>2, KeepsLines, Zenon

-----------------------------------------------------------------------------
(***************************************************************************)
(* What a step does to the callers and to the server.                      *)
(***************************************************************************)
ReturnsFrom(c) == client = "open" /\ pc[c] = "receive" /\ \E reply : Return(c, reply)

\* What a step can do to the callers
LEMMA CallerMoves ==
    Next => \/ UNCHANGED caller_vars \/ Disconnect
            \/ \E c \in Caller : Invoke(c) \/ Lock(c) \/ SendCall(c) \/ ReturnsFrom(c)
<1>1. \A c \in Caller : ReceiveReply(c) \/ ReceiveEnds(c) \/ ReceiveFails(c) => ReturnsFrom(c)
  BY Zenon DEF ReceiveReply, ReceiveEnds, ReceiveFails, ReturnsFrom
<1>2. ServerStep \/ Reset => UNCHANGED caller_vars
  BY Zenon DEF ServerStep, Reset, Peek, ReceiveTcp, ReceiveTcpFails, Reply, ReplyFails, Remove, ReceiveQuic
<1> QED
  BY <1>1, <1>2, Zenon DEF Next, Environment, CallerStep

\* The callers' variables keep their types.
LEMMA CallersTypedStep == ASSUME TypeOK, Next PROVE CallersTyped'
<1>1. CallersTyped
  BY Zenon DEF TypeOK
<1>2. MaxCalls \in Nat
  BY RpcSessionAssumption, Zenon
<1>3. CASE UNCHANGED caller_vars
  BY <1>1, <1>3, Zenon DEF CallersTyped, caller_vars
<1>4. CASE Disconnect
  BY <1>1, <1>4, Zenon DEF CallersTyped, Disconnect
<1>5. ASSUME NEW c \in Caller, Invoke(c) PROVE CallersTyped'
  <2>1. PICK s \in Requests[calls + 1] : stub' = [stub EXCEPT ![c] = s]
    BY <1>5, Zenon DEF Invoke
  <2>2. calls + 1 \in 1..MaxCalls
    BY <1>1, <1>2, <1>5 DEF CallersTyped, Invoke
  <2>3. s \in AnyRequest
    BY <2>1, <2>2, Zenon DEF AnyRequest
  <2>4. /\ calls' = calls + 1 /\ id' = [id EXCEPT ![c] = calls + 1]
        /\ pc' \in [Caller -> {"idle", "lock", "send", "receive"}]
        /\ \A d \in Caller : d # c => pc'[d] = pc[d]
        /\ UNCHANGED <<mutex, returned, client>>
    BY <1>1, <1>5, Zenon DEF CallersTyped, Invoke
  <2>5. calls' \in 0..MaxCalls /\ id' \in [Caller -> 0..MaxCalls]
    BY <1>1, <1>2, <2>2, <2>4 DEF CallersTyped
  <2>6. stub' \in [Caller -> AnyRequest \cup {NULL}]
    BY <1>1, <2>1, <2>3, Zenon DEF CallersTyped
  <2>7. ASSUME NEW d \in Caller, pc'[d] # "idle" PROVE id'[d] \in 1..calls' /\ stub'[d] \in AnyRequest
    <3>1. CASE d = c
      BY <1>1, <2>1, <2>2, <2>3, <2>4, <3>1 DEF CallersTyped
    <3>2. CASE d # c
      BY <1>1, <1>2, <2>1, <2>2, <2>4, <2>7, <3>2 DEF CallersTyped
    <3> QED
      BY <3>1, <3>2, Zenon
  <2> QED
    BY <1>1, <2>4, <2>5, <2>6, <2>7, Zenon DEF CallersTyped
<1>6. ASSUME NEW c \in Caller, Lock(c) PROVE CallersTyped'
  BY <1>1, <1>6, Zenon DEF CallersTyped, Lock
<1>7. ASSUME NEW c \in Caller, SendCall(c) PROVE CallersTyped'
  BY <1>1, <1>7, Zenon DEF CallersTyped, SendCall
<1>8. ASSUME NEW c \in Caller, ReturnsFrom(c) PROVE CallersTyped'
  <2>1. PICK reply : Return(c, reply)
    BY <1>8, Zenon DEF ReturnsFrom
  <2>2. CASE StubCrashes(stub[c], reply)
    BY <1>1, <2>1, <2>2, Zenon DEF CallersTyped, Return
  <2>3. CASE ~StubCrashes(stub[c], reply)
    <3> DEFINE r == [id |-> id[c], code |-> StubReturns(stub[c], reply),
                     results |-> IF reply = NULL THEN NULL ELSE reply.results]
    <3>1. /\ returned' = [returned EXCEPT ![c] = r]
          /\ pc' = [pc EXCEPT ![c] = "idle"] /\ stub' = [stub EXCEPT ![c] = NULL] /\ id' = [id EXCEPT ![c] = 0]
          /\ UNCHANGED <<client, calls>> /\ mutex' \in {NULL, mutex}
      BY <2>1, <2>3, Zenon DEF Return
    <3> HIDE DEF r
    <3>2. returned' = [d \in Caller |-> returned'[d]]
      BY <1>1, <3>1, Zenon DEF CallersTyped
    <3> QED
      BY <1>1, <1>2, <3>1, <3>2 DEF CallersTyped
  <2> QED
    BY <2>2, <2>3, Zenon
<1> QED
  BY <1>3, <1>4, <1>5, <1>6, <1>7, <1>8, CallerMoves, Zenon

\* What the server does with a call that it has received
AnswersCall(l, m) ==
    \E r \in AnyReply, e \in BOOLEAN, done \in BOOLEAN :
        /\ server' = [at |-> "reply", line |-> l, id |-> m.id, reply |-> r, error |-> e]
        /\ executed' = IF done THEN Append(executed, m.id) ELSE executed
        /\ done /\ m.proc # 0 => m.credential.gids > 0
        /\ \A s \in AnyRequest, i \in 1..MaxCalls : m = MessageOf(i, s) => Fits(s, i, r, done)

\* The server answers a call of the right form as AnswersCall says.
LEMMA Answers ==
    ASSUME NEW l, NEW m \in AnyCall, NEW outcome \in Outcomes(m), NEW handled,
           handled \in {process_single_rpc_tcp(m, outcome), handle_client_quic(m, outcome)},
           Answer(l, m, handled, outcome)
    PROVE  AnswersCall(l, m)
<1>1. ASSUME NEW i \in 1..MaxCalls, NEW s \in AnyRequest, m = MessageOf(i, s)
      PROVE  HandledWell(i, s, handled, outcome, m)
  BY <1>1, ProcessFits, Zenon
<1>2. PICK i \in 1..MaxCalls, s \in AnyRequest : m = MessageOf(i, s)
  BY DEF AnyCall
<1>3. /\ handled.reply \in AnyReply /\ handled.error \in BOOLEAN
      /\ Done(m, handled, outcome) /\ m.proc # 0 => m.credential.gids > 0
  BY <1>1, <1>2, Zenon DEF HandledWell
<1>4. handled.reply # NULL
  BY <1>3, RpcSessionAssumption, Zenon
<1> DEFINE done == IF Done(m, handled, outcome) THEN TRUE ELSE FALSE
<1>5. /\ server' = [at |-> "reply", line |-> l, id |-> m.id, reply |-> handled.reply, error |-> handled.error]
      /\ executed' = IF done THEN Append(executed, m.id) ELSE executed
  BY <1>4, Zenon DEF Answer, Done
<1>6. ASSUME NEW t \in AnyRequest, NEW j \in 1..MaxCalls, m = MessageOf(j, t)
      PROVE  Fits(t, j, handled.reply, done)
  BY <1>1, <1>6, Zenon DEF HandledWell, Fits
<1>7. done \in BOOLEAN /\ (done /\ m.proc # 0 => m.credential.gids > 0)
  BY <1>3, Zenon
<1> HIDE DEF done
<1> QED
  BY <1>3, <1>5, <1>6, <1>7, Zenon DEF AnswersCall

\* The server takes a call only if one waits: is_tcp_connection_closed saw it.
LEMMA TakesWaiting ==
    ASSUME TypeOK, ServerOK, NEW l \in Line, Takes(l)
    PROVE  Len(CallsTaken(l)) < Len(CallsSent(l)) /\ NextCall(l) \in AnyCall
<1>1. Waiting(<<"call", l>>)
  BY Zenon DEF Takes, ServerOK, ReceiveTcp, ReceiveQuic
<1>2. Len(CallsTaken(l)) < Len(CallsSent(l))
  BY <1>1, Zenon DEF Waiting, CallsTaken, CallsSent
<1>3. CallsSent(l) \in Seq(AnyCall) /\ CallsTaken(l) \in Seq(AnyCall)
  BY Zenon DEF TypeOK, LinesTyped
<1> HIDE DEF CallsSent, CallsTaken
<1> QED
  BY <1>2, <1>3 DEF NextCall

\* So it answers the call it takes ...
LEMMA TakesAnswers ==
    ASSUME TypeOK, ServerOK, NEW l \in Line, Takes(l)
    PROVE  AnswersCall(l, NextCall(l))
<1>1. NextCall(l) \in AnyCall
  BY TakesWaiting, Zenon
<1>2. NextMessage(<<"call", l>>) = NextCall(l)
  BY Zenon DEF NextMessage, NextCall, CallsSent, CallsTaken
<1>3. \E outcome \in Outcomes(NextCall(l)) :
         \/ Answer(l, NextCall(l), process_single_rpc_tcp(NextCall(l), outcome), outcome)
         \/ Answer(l, NextCall(l), handle_client_quic(NextCall(l), outcome), outcome)
  BY <1>2, Zenon DEF Takes, ReceiveTcp, ReceiveQuic
<1> QED
  BY <1>1, <1>3, Answers, Zenon

\* ... and after a reset it may answer one that it took before.
LEMMA FailsAnswers ==
    ASSUME TypeOK, ReceiveTcpFails
    PROVE  \/ server' = At("remove") /\ executed' = executed
           \/ \E k \in 1..Len(CallsTaken("tcp")) : AnswersCall("tcp", CallsTaken("tcp")[k])
<1>1. CallsTaken("tcp") \in Seq(AnyCall)
  BY Zenon DEF TypeOK, LinesTyped, Line
<1>2. ASSUME ~(server' = At("remove") /\ executed' = executed)
      PROVE  \E k \in DOMAIN CallsTaken("tcp") : \E outcome \in Outcomes(CallsTaken("tcp")[k]) :
                Answer("tcp", CallsTaken("tcp")[k], process_single_rpc_tcp(CallsTaken("tcp")[k], outcome), outcome)
  BY <1>2, Zenon DEF ReceiveTcpFails, CallsTaken
<1> HIDE DEF CallsTaken
<1>3. \A k \in DOMAIN CallsTaken("tcp") : CallsTaken("tcp")[k] \in AnyCall /\ k \in 1..Len(CallsTaken("tcp"))
  BY <1>1
<1> QED
  BY <1>2, <1>3, Answers, Zenon

ServerMoves ==
    \/ Peek \/ ReceiveTcpFails \/ Reply \/ ReplyFails \/ Remove \/ \E l \in Line : Takes(l)

\* What a step can do to the server
LEMMA ServerMovesOr ==
    Next => \/ ServerMoves
            \/ /\ UNCHANGED server_vars
               /\ \/ Reset \/ Disconnect
                  \/ \E c \in Caller : Invoke(c) \/ Lock(c) \/ SendCall(c) \/ ReceiveReply(c)
                                      \/ ReceiveEnds(c) \/ ReceiveFails(c)
<1>1. ReceiveTcp => Takes("tcp") /\ "tcp" \in Line
  BY Zenon DEF Takes, Line
<1>2. \A l \in Caller : ReceiveQuic(l) => Takes(l) /\ l \in Line
  BY Zenon DEF Takes, Line
<1>3. \A c \in Caller : CallerStep(c) \/ Invoke(c) => UNCHANGED server_vars
  BY Zenon DEF CallerStep, Invoke, Lock, SendCall, ReceiveReply, ReceiveEnds, ReceiveFails, Return
<1>4. Reset \/ Disconnect => UNCHANGED server_vars
  BY Zenon DEF Reset, Disconnect
<1> QED
  BY <1>1, <1>2, <1>3, <1>4, Zenon DEF Next, Environment, ServerStep, CallerStep, ServerMoves

ServerRecord ==
    [at : {"peek", "receive", "reply", "remove", "ended", "killed"}, line : Line \cup {NULL},
     id : 0..MaxCalls, reply : AnyReply \cup {NULL}, error : BOOLEAN]

\* The server away from a call
LEMMA AtIs ==
    ASSUME NEW place \in {"peek", "receive", "remove", "ended", "killed"}
    PROVE  At(place) \in ServerRecord /\ At(place).at = place /\ At(place).error = FALSE
<1>1. 0 \in 0..MaxCalls
  BY RpcSessionAssumption
<1> QED
  BY <1>1, Zenon DEF At, ServerRecord

\* The server with a reply to send
LEMMA AnswersCallIs ==
    ASSUME TypeOK, NEW l \in Line, NEW m \in AnyCall, AnswersCall(l, m)
    PROVE  /\ server' \in ServerRecord /\ server'.at = "reply" /\ server'.line = l /\ server'.id = m.id
           /\ server'.reply \in AnyReply /\ server'.id \in 1..MaxCalls
           /\ executed' \in Seq(1..MaxCalls)
<1>1. m.id \in 1..MaxCalls
  BY DEF AnyCall, MessageOf
<1>2. executed \in Seq(1..MaxCalls)
  BY Zenon DEF TypeOK, ServerTyped
<1>3. executed' = Append(executed, m.id) \/ executed' = executed
  BY Zenon DEF AnswersCall
<1>4. executed' \in Seq(1..MaxCalls)
  <2>1. Append(executed, m.id) \in Seq(1..MaxCalls)
    BY <1>1, <1>2
  <2> QED
    BY <1>2, <1>3, <2>1, Zenon
<1>5. PICK r \in AnyReply, e \in BOOLEAN :
         server' = [at |-> "reply", line |-> l, id |-> m.id, reply |-> r, error |-> e]
  BY Zenon DEF AnswersCall
<1>6. m.id \in 0..MaxCalls
  BY <1>1
<1> QED
  BY <1>1, <1>4, <1>5, <1>6, Zenon DEF ServerRecord

\* Over TCP the server handles the one line there is.
LEMMA TakesOn ==
    ASSUME ServerOK, NEW l \in Line, Takes(l)
    PROVE  (transport = "tcp" => l = "tcp") /\ server.at \in {"peek", "receive"} /\ ~reset
BY Zenon DEF Takes, ReceiveTcp, ReceiveQuic, ServerOK

\* The server is where it may be after a step.
LEMMA ServerOKStep ==
    ASSUME TypeOK, ServerOK, Next
    PROVE  ServerTyped' /\ ServerOK'
<1> USE DEF ServerTyped, ServerOK
<1>1. /\ ServerTyped /\ transport \in {"tcp", "quic"} /\ reset \in BOOLEAN
      /\ transport' = transport /\ server \in ServerRecord
  BY ConnectionKept, Zenon DEF TypeOK, ServerRecord
<1>2. /\ Waiting(<<"call", "tcp">>) <=> Len(CallsTaken("tcp")) < Len(CallsSent("tcp"))
      /\ Waiting(<<"call", "tcp">>)' <=> Len(CallsTaken("tcp")') < Len(CallsSent("tcp")')
  BY Zenon DEF Waiting, CallsTaken, CallsSent
<1>3. /\ CallsTaken("tcp") \in Seq(AnyCall) /\ CallsSent("tcp") \in Seq(AnyCall) /\ "tcp" \in Line
  BY Zenon DEF TypeOK, LinesTyped, Line
<1> HIDE DEF CallsTaken, CallsSent, Waiting
<1>4. ASSUME NEW l \in Line, NEW m \in AnyCall, AnswersCall(l, m), transport = "tcp" => l = "tcp",
             UNCHANGED <<socket, reset>>, transport = "quic" => ~reset /\ socket = "open",
             socket = "open"
      PROVE  ServerTyped' /\ ServerOK'
  BY <1>1, <1>4, AnswersCallIs, Zenon DEF ServerRecord
<1>5. CASE Peek
  <2>1. /\ UNCHANGED <<socket, executed, reset>> /\ transport = "tcp" /\ socket = "open" /\ SameLines
        /\ server' \in {At("receive"), At("remove"), At("ended")}
        /\ server' = At("receive") => Waiting(<<"call", "tcp">>)
    <3>1. At("remove").at = "remove" /\ At("ended").at = "ended" /\ At("receive").at = "receive"
      BY AtIs, Zenon
    <3> QED
      BY <1>1, <1>5, <3>1, SilentLines, Zenon DEF Peek, Silent
  <2>2. Waiting(<<"call", "tcp">>) => Waiting(<<"call", "tcp">>)'
    BY <1>2, <1>3, <2>1, Zenon DEF SameLines, SameCallsTaken, SameCallsSent
  <2> QED
    BY <1>1, <2>1, <2>2, AtIs, Zenon DEF ServerRecord
<1>6. CASE ReceiveTcpFails
  <2>1. UNCHANGED <<socket, reset>> /\ transport = "tcp" /\ socket = "open"
    BY <1>1, <1>6, Zenon DEF ReceiveTcpFails
  <2>2. CASE server' = At("remove") /\ executed' = executed
    BY <1>1, <2>1, <2>2, AtIs, Zenon DEF ServerRecord
  <2>3. ASSUME NEW k \in 1..Len(CallsTaken("tcp")), AnswersCall("tcp", CallsTaken("tcp")[k])
        PROVE  ServerTyped' /\ ServerOK'
    BY <1>1, <1>3, <1>4, <2>1, <2>3
  <2> QED
    BY <1>6, <2>2, <2>3, FailsAnswers, Zenon
<1>7. CASE Reply
  <2>1. /\ UNCHANGED <<socket, executed, reset>> /\ socket = "open"
        /\ server' \in {At("remove"), At("peek")} /\ (transport = "quic" => server' = At("peek"))
    BY <1>1, <1>7, Zenon DEF Reply, ServerReady
  <2> QED
    BY <1>1, <2>1, AtIs, Zenon DEF ServerRecord
<1>8. CASE ReplyFails
  <2>1. /\ UNCHANGED <<executed, reset>> /\ reset /\ transport = "tcp" /\ socket = "open"
        /\ \/ socket' = socket /\ server' \in {At("remove"), At("peek")}
           \/ socket' = "closed" /\ server' = At("killed")
    BY <1>1, <1>8, Zenon DEF ReplyFails, ServerReady
  <2> QED
    BY <1>1, <2>1, AtIs, Zenon DEF ServerRecord
<1>9. CASE Remove
  <2>1. /\ UNCHANGED <<executed, reset>> /\ transport = "tcp" /\ socket' \in {"closed", socket}
        /\ server' = At("ended")
    BY <1>1, <1>9, Zenon DEF Remove
  <2> QED
    BY <1>1, <2>1, AtIs, Zenon DEF ServerRecord
<1>10. ASSUME NEW l \in Line, Takes(l) PROVE ServerTyped' /\ ServerOK'
  <2>1. UNCHANGED <<socket, reset>> /\ socket = "open"
    BY <1>1, <1>10, TakesOn, Zenon DEF Takes, ReceiveTcp, ReceiveQuic
  <2> QED
    BY <1>1, <1>4, <1>10, <2>1, TakesOn, TakesAnswers, TakesWaiting, Zenon
<1>11. ASSUME UNCHANGED server_vars,
              reset' = reset \/ (transport = "tcp" /\ reset' = TRUE),
              Waiting(<<"call", "tcp">>) => Waiting(<<"call", "tcp">>)'
       PROVE  ServerTyped' /\ ServerOK'
  BY <1>1, <1>11 DEF server_vars
<1>12. CASE Reset
  <2>1. SameLines
    BY <1>12, SilentLines, Zenon DEF Silent
  <2> QED
    BY <1>2, <1>3, <1>11, <1>12, <2>1, Zenon DEF Reset, SameLines, SameCallsTaken, SameCallsSent
<1>13. ASSUME Disconnect \/ \E c \in Caller : Invoke(c) \/ Lock(c) \/ ReceiveEnds(c) \/ ReceiveFails(c),
              UNCHANGED server_vars
       PROVE  ServerTyped' /\ ServerOK'
  <2>1. SameLines
    BY <1>13, SilentLines, Zenon DEF Silent
  <2>2. reset' = reset
    BY <1>13, Zenon DEF Disconnect, Invoke, Lock, ReceiveEnds, ReceiveFails, Return
  <2> QED
    BY <1>2, <1>3, <1>11, <1>13, <2>1, <2>2, Zenon DEF SameLines, SameCallsTaken, SameCallsSent
<1>14. ASSUME NEW c \in Caller, SendCall(c) PROVE ServerTyped' /\ ServerOK'
  <2>1. UNCHANGED server_vars /\ reset' = reset
    BY <1>14, Zenon DEF SendCall
  <2>2. CASE SameLines
    BY <1>2, <1>3, <1>11, <2>1, <2>2, Zenon DEF SameLines, SameCallsTaken, SameCallsSent
  <2>3. PICK l \in Line : l = LineOf(c)
    BY LineIs, Zenon
  <2>4. CASE CallSent(l, MessageOf(id[c], stub[c]))
    <3>1. CallsTaken("tcp")' = CallsTaken("tcp")
      BY <1>3, <2>4, Zenon DEF CallSent, SameCallsTaken
    <3>2. \/ CallsSent("tcp")' = CallsSent("tcp")
          \/ CallsSent("tcp")' = Append(CallsSent("tcp"), MessageOf(id[c], stub[c]))
      <4>1. CASE l = "tcp"
        BY <2>4, <4>1, Zenon DEF CallSent
      <4>2. CASE l # "tcp"
        BY <1>3, <2>4, <4>2, Zenon DEF CallSent
      <4> QED
        BY <4>1, <4>2, Zenon
    <3>3. Waiting(<<"call", "tcp">>) => Waiting(<<"call", "tcp">>)'
      BY <1>2, <1>3, <3>1, <3>2
    <3> QED
      BY <1>11, <2>1, <3>3, Zenon
  <2> QED
    BY <1>14, <2>2, <2>3, <2>4, SendCallLines, Zenon
<1>15. ASSUME NEW c \in Caller, ReceiveReply(c) PROVE ServerTyped' /\ ServerOK'
  <2>1. UNCHANGED server_vars /\ reset' = reset
    BY <1>15, Zenon DEF ReceiveReply, Return
  <2>2. PICK l \in Line : l = LineOf(c)
    BY LineIs, Zenon
  <2>3. CallsTaken("tcp")' = CallsTaken("tcp") /\ CallsSent("tcp")' = CallsSent("tcp")
    BY <1>3, <1>15, <2>2, ReceiveReplyLines, Zenon DEF ReplyTaken, SameCallsTaken, SameCallsSent
  <2> QED
    BY <1>2, <1>11, <2>1, <2>3, Zenon
<1> QED
  BY <1>5, <1>6, <1>7, <1>8, <1>9, <1>10, <1>12, <1>13, <1>14, <1>15, ServerMovesOr, Zenon DEF ServerMoves

\* Messages are calls one way and replies the other.
LEMMA LinesTypedStep ==
    ASSUME TypeOK, ServerOK, CallersOK, Next, ~reset => JourneyOK
    PROVE  LinesTyped'
<1>1. /\ AnyCall' = AnyCall /\ MaxCalls \in Nat
      /\ \A l \in Line : /\ CallsSent(l) \in Seq(AnyCall) /\ CallsTaken(l) \in Seq(AnyCall)
                         /\ RepliesSent(l) \in Seq(ReplyMessage) /\ RepliesTaken(l) \in Seq(ReplyMessage)
  BY ConnectionKept, SameMessages, RpcSessionAssumption, Zenon DEF TypeOK, LinesTyped
<1> HIDE DEF CallsSent, CallsTaken, RepliesSent, RepliesTaken
<1>2. CASE Silent
  BY <1>1, <1>2, SilentLines, Zenon DEF LinesTyped, SameLines, SameCallsSent, SameCallsTaken, SameRepliesSent,
     SameRepliesTaken
<1>3. CASE Reply
  <2>1. server.line \in Line /\ server.id \in 1..MaxCalls /\ server.reply \in AnyReply
    BY <1>3, Zenon DEF ServerOK, Reply
  <2>2. PICK l \in Line : l = server.line
    BY <2>1, Zenon
  <2> DEFINE m == [id |-> server.id, reply |-> server.reply]
  <2>3. m \in ReplyMessage
    BY <2>1, Zenon DEF ReplyMessage
  <2>4. Shaped' /\ ReplySent(l, m)
    BY <1>3, <2>2, ReplyLines, Zenon
  <2> HIDE DEF m
  <2>5. Append(RepliesSent(l), m) \in Seq(ReplyMessage)
    BY <1>1, <2>3
  <2>6. \A k \in Line : RepliesSent(k)' \in Seq(ReplyMessage)
    BY <1>1, <2>4, <2>5, Zenon DEF ReplySent
  <2> QED
    BY <1>1, <2>4, <2>6, Zenon DEF LinesTyped, ReplySent, SameCallsSent, SameCallsTaken, SameRepliesTaken
<1>4. ASSUME NEW c \in Caller, SendCall(c) PROVE LinesTyped'
  <2>1. PICK l \in Line : l = LineOf(c)
    BY LineIs, Zenon
  <2>2. CASE SameLines
    BY <1>1, <1>4, <2>1, <2>2, SendCallLines, Zenon DEF LinesTyped, SameLines, SameCallsSent, SameCallsTaken,
       SameRepliesSent, SameRepliesTaken
  <2>3. CASE CallSent(l, MessageOf(id[c], stub[c]))
    <3>1. id[c] \in 1..MaxCalls /\ stub[c] \in AnyRequest
      BY <1>1, <1>4 DEF TypeOK, CallersTyped, SendCall
    <3>2. MessageOf(id[c], stub[c]) \in AnyCall
      BY <3>1 DEF AnyCall
    <3>3. Append(CallsSent(l), MessageOf(id[c], stub[c])) \in Seq(AnyCall)
      BY <1>1, <3>2
    <3>4. \A k \in Line : CallsSent(k)' \in Seq(AnyCall)
      BY <1>1, <2>3, <3>3, Zenon DEF CallSent
    <3>5. Shaped'
      BY <1>4, <2>1, SendCallLines, Zenon
    <3> QED
      BY <1>1, <2>3, <3>4, <3>5, Zenon DEF LinesTyped, CallSent, SameRepliesSent, SameCallsTaken, SameRepliesTaken
  <2> QED
    BY <1>4, <2>1, <2>2, <2>3, SendCallLines, Zenon
<1>5. ASSUME NEW c \in Caller, ReceiveReply(c) PROVE LinesTyped'
  <2>1. PICK l \in Line : l = LineOf(c)
    BY LineIs, Zenon
  <2>2. Len(RepliesTaken(l)) < Len(RepliesSent(l))
    BY <1>5, <2>1, Zenon DEF ReceiveReply, Waiting, RepliesTaken, RepliesSent
  <2>3. NextReply(l) \in ReplyMessage
    BY <1>1, <2>2 DEF NextReply
  <2>4. Append(RepliesTaken(l), NextReply(l)) \in Seq(ReplyMessage)
    BY <1>1, <2>3
  <2>5. Shaped' /\ ReplyTaken(l, NextReply(l))
    BY <1>5, <2>1, ReceiveReplyLines, Zenon
  <2>6. \A k \in Line : RepliesTaken(k)' \in Seq(ReplyMessage)
    BY <1>1, <2>4, <2>5, Zenon DEF ReplyTaken
  <2> QED
    BY <1>1, <2>5, <2>6, Zenon DEF LinesTyped, ReplyTaken, SameRepliesSent, SameCallsTaken, SameCallsSent
<1>6. ASSUME NEW l \in Line, Takes(l) PROVE LinesTyped'
  <2>1. Shaped' /\ CallTaken(l, NextCall(l)) /\ NextCall(l) \in AnyCall
    BY <1>6, TakesLines, TakesWaiting, Zenon
  <2>2. Append(CallsTaken(l), NextCall(l)) \in Seq(AnyCall)
    BY <1>1, <2>1
  <2>3. \A k \in Line : CallsTaken(k)' \in Seq(AnyCall)
    BY <1>1, <2>1, <2>2, Zenon DEF CallTaken
  <2> QED
    BY <1>1, <2>1, <2>3, Zenon DEF LinesTyped, CallTaken, SameRepliesSent, SameRepliesTaken, SameCallsSent
<1> QED
  BY <1>2, <1>3, <1>4, <1>5, <1>6, NextIs, Zenon

\* The types are kept.
LEMMA TypeStep ==
    ASSUME TypeOK, ServerOK, CallersOK, Next, ~reset => JourneyOK
    PROVE  TypeOK'
<1>1. transport' = transport
  BY ConnectionKept, Zenon
<1>2. reset' \in BOOLEAN
  BY Zenon DEF TypeOK, Next, Environment, ServerStep, CallerStep, Disconnect, Reset, Invoke, Lock, SendCall,
     ReceiveReply, ReceiveEnds, ReceiveFails, Return, Peek, ReceiveTcp, ReceiveTcpFails, Reply, ReplyFails,
     Remove, ReceiveQuic
<1> QED
  BY <1>1, <1>2, CallersTypedStep, LinesTypedStep, ServerOKStep, Zenon DEF TypeOK

-----------------------------------------------------------------------------
\* The callers take turns and their calls have different numbers.
LEMMA CallersOKStep ==
    ASSUME TypeOK, CallersOK, Next
    PROVE  CallersOK'
<1>1. CallersTyped /\ CallersTyped' /\ transport' = transport /\ transport \in {"tcp", "quic"}
  BY CallersTypedStep, ConnectionKept, Zenon DEF TypeOK
<1>2. MaxCalls \in Nat /\ NULL \notin Caller
  BY RpcSessionAssumption, Zenon
<1>3. CASE UNCHANGED caller_vars
  BY <1>1, <1>3, Zenon DEF CallersOK, Active, caller_vars
<1>4. CASE Disconnect
  BY <1>1, <1>4, Zenon DEF CallersOK, Active, Disconnect
<1>5. ASSUME NEW c \in Caller, Invoke(c) PROVE CallersOK'
  <2>1. /\ calls' = calls + 1 /\ id' = [id EXCEPT ![c] = calls + 1] /\ pc[c] = "idle" /\ client = "open"
        /\ pc' = [pc EXCEPT ![c] = IF transport = "tcp" THEN "lock" ELSE "send"]
        /\ UNCHANGED <<mutex, returned, client>>
    BY <1>5, Zenon DEF Invoke
  <2>2. /\ pc'[c] = IF transport = "tcp" THEN "lock" ELSE "send"
        /\ id'[c] = calls + 1 /\ calls \in Nat
        /\ \A d \in Caller : d # c => pc'[d] = pc[d] /\ id'[d] = id[d]
        /\ \A d \in Caller : pc[d] # "idle" => id[d] <= calls
    BY <1>1, <1>2, <2>1 DEF CallersTyped
  <2>3. \A d \in Caller : returned[d] # NULL => returned[d].id \in 1..calls' /\ returned[d].id # calls + 1
    BY <2>1, <2>2 DEF CallersOK
  <2> QED
    BY <1>1, <2>1, <2>2, <2>3 DEF CallersOK, Active
<1>6. ASSUME NEW c \in Caller, Lock(c) PROVE CallersOK'
  <2>1. /\ client = "open" /\ pc[c] = "lock" /\ mutex = NULL /\ mutex' = c
        /\ UNCHANGED <<stub, id, returned, calls, client>>
        /\ pc'[c] = "send" /\ \A d \in Caller : d # c => pc'[d] = pc[d]
    BY <1>1, <1>6, Zenon DEF Lock, CallersTyped
  <2>2. transport = "tcp" /\ \A d \in Caller : ~Active(d)
    BY <1>2, <2>1, Zenon DEF CallersOK
  <2> QED
    BY <1>1, <2>1, <2>2 DEF CallersOK, Active
<1>7. ASSUME NEW c \in Caller, SendCall(c) PROVE CallersOK'
  BY <1>1, <1>7 DEF CallersOK, Active, SendCall, CallersTyped
<1>8. ASSUME NEW c \in Caller, ReturnsFrom(c) PROVE CallersOK'
  <2>1. PICK reply : Return(c, reply) /\ client = "open" /\ pc[c] = "receive"
    BY <1>8, Zenon DEF ReturnsFrom
  <2>2. CASE StubCrashes(stub[c], reply)
    <3>1. client' = "crashed" /\ UNCHANGED <<pc, stub, id, returned, calls>> /\ stub[c].proc = 0
      BY <2>1, <2>2, Zenon DEF Return, StubCrashes
    <3> QED
      BY <1>1, <2>1, <3>1, Zenon DEF CallersOK, Active
  <2>3. CASE ~StubCrashes(stub[c], reply)
    <3> DEFINE r == [id |-> id[c], code |-> StubReturns(stub[c], reply),
                     results |-> IF reply = NULL THEN NULL ELSE reply.results]
    <3>1. /\ returned' = [returned EXCEPT ![c] = r]
          /\ pc' = [pc EXCEPT ![c] = "idle"] /\ id' = [id EXCEPT ![c] = 0]
          /\ UNCHANGED <<client, calls>> /\ mutex' = IF mutex = c THEN NULL ELSE mutex
      BY <2>1, <2>3, Zenon DEF Return
    <3>2. r.id = id[c] /\ id[c] \in 1..calls
      BY <1>1, <2>1, Zenon DEF CallersTyped
    <3> HIDE DEF r
    <3>3. /\ pc'[c] = "idle" /\ returned'[c] = r
          /\ \A d \in Caller : d # c => pc'[d] = pc[d] /\ returned'[d] = returned[d] /\ id'[d] = id[d]
      BY <1>1, <3>1, Zenon DEF CallersTyped
    <3>4. \A d \in Caller : returned'[d] # NULL => returned'[d].id \in 1..calls'
      BY <3>1, <3>2, <3>3 DEF CallersOK
    <3>5. \A d, e \in Caller : returned'[d] # NULL /\ pc'[e] # "idle" => returned'[d].id # id'[e]
      BY <2>1, <3>2, <3>3 DEF CallersOK
    <3>6. \A d \in Caller : Active(d)' /\ transport' = "tcp" /\ client' = "open" => mutex' = d
      BY <1>1, <3>1, <3>3, Zenon DEF CallersOK, Active
    <3> QED
      BY <1>1, <2>1, <3>1, <3>3, <3>4, <3>5, <3>6 DEF CallersOK, Active
  <2> QED
    BY <2>2, <2>3, Zenon
<1> QED
  BY <1>3, <1>4, <1>5, <1>6, <1>7, <1>8, CallerMoves, Zenon

-----------------------------------------------------------------------------
(***************************************************************************)
(* The messages.                                                           *)
(***************************************************************************)
SameCalls == SameCallsSent /\ SameCallsTaken

\* Replies are no calls.
LEMMA CallsAlone ==
    ASSUME TypeOK, ServerOK, Next
    PROVE  \/ SameCalls /\ (Silent \/ Reply \/ \E c \in Caller : SendCall(c) \/ ReceiveReply(c))
           \/ \E c \in Caller, l \in Line : SendCall(c) /\ CallSent(l, MessageOf(id[c], stub[c]))
           \/ \E l \in Line : Takes(l) /\ CallTaken(l, NextCall(l))
<1>1. CASE Silent
  BY <1>1, SilentLines, Zenon DEF SameCalls, SameLines
<1>2. CASE Reply
  <2>1. PICK l \in Line : l = server.line
    BY <1>2, Zenon DEF Reply, ServerOK
  <2> QED
    BY <1>2, <2>1, ReplyLines, Zenon DEF ReplySent, SameCalls
<1>3. ASSUME NEW c \in Caller, ReceiveReply(c) PROVE SameCalls
  <2>1. PICK l \in Line : l = LineOf(c)
    BY LineIs, Zenon
  <2> QED
    BY <1>3, <2>1, ReceiveReplyLines, Zenon DEF ReplyTaken, SameCalls
<1>4. ASSUME NEW c \in Caller, SendCall(c)
      PROVE  SameCalls \/ \E l \in Line : CallSent(l, MessageOf(id[c], stub[c]))
  <2>1. PICK l \in Line : l = LineOf(c)
    BY LineIs, Zenon
  <2> QED
    BY <1>4, <2>1, SendCallLines, Zenon DEF SameLines, SameCalls
<1>5. ASSUME NEW l \in Line, Takes(l) PROVE CallTaken(l, NextCall(l))
  BY <1>5, TakesLines, Zenon
<1> QED
  BY <1>1, <1>2, <1>3, <1>4, <1>5, NextIs, Zenon

\* The calls of a line are calls of some caller.
LEMMA CallTyped ==
    ASSUME TypeOK, NEW l \in Line
    PROVE  /\ CallsSent(l) \in Seq(AnyCall) /\ CallsTaken(l) \in Seq(AnyCall)
           /\ Len(CallsSent(l)) \in Nat /\ Len(CallsTaken(l)) \in Nat
<1>1. CallsSent(l) \in Seq(AnyCall) /\ CallsTaken(l) \in Seq(AnyCall)
  BY Zenon DEF TypeOK, LinesTyped
<1> HIDE DEF CallsSent, CallsTaken
<1> QED
  BY <1>1

\* What is received was sent.
LEMMA TakenStep ==
    ASSUME TypeOK, ServerOK, TakenOK, Next
    PROVE  TakenOK'
<1> HIDE DEF CallsSent, CallsTaken
<1>1. CASE SameCalls
  BY <1>1, Zenon DEF TakenOK, SameCalls, SameCallsSent, SameCallsTaken
<1>2. ASSUME NEW c \in Caller, NEW l \in Line, NEW m, CallSent(l, m) PROVE TakenOK'
  <2>1. ASSUME NEW k \in Line
        PROVE  /\ Len(CallsTaken(k)') <= Len(CallsSent(k)')
               /\ \A i \in 1..Len(CallsTaken(k)') : CallsTaken(k)'[i] = CallsSent(k)'[i]
    <3>1. CallsTaken(k)' = CallsTaken(k)
      BY <1>2, Zenon DEF CallSent, SameCallsTaken
    <3>2. CASE k # l
      BY <1>2, <3>1, <3>2, Zenon DEF CallSent, TakenOK
    <3>3. CASE k = l
      <4>1. CallsSent(k)' = Append(CallsSent(k), m)
        BY <1>2, <3>3, Zenon DEF CallSent
      <4>2. /\ CallsSent(k) \in Seq(AnyCall) /\ Len(CallsTaken(k)) \in Nat
            /\ Len(CallsTaken(k)) <= Len(CallsSent(k))
            /\ \A i \in 1..Len(CallsTaken(k)) : CallsTaken(k)[i] = CallsSent(k)[i]
        BY CallTyped, Zenon DEF TakenOK
      <4> QED
        BY <3>1, <4>1, <4>2
    <3> QED
      BY <3>2, <3>3, Zenon
  <2> QED
    BY <2>1, Zenon DEF TakenOK
<1>3. ASSUME NEW l \in Line, Takes(l), CallTaken(l, NextCall(l)) PROVE TakenOK'
  <2>1. ASSUME NEW k \in Line
        PROVE  /\ Len(CallsTaken(k)') <= Len(CallsSent(k)')
               /\ \A i \in 1..Len(CallsTaken(k)') : CallsTaken(k)'[i] = CallsSent(k)'[i]
    <3>1. CallsSent(k)' = CallsSent(k)
      BY <1>3, Zenon DEF CallTaken, SameCallsSent
    <3>2. CASE k # l
      BY <1>3, <3>1, <3>2, Zenon DEF CallTaken, TakenOK
    <3>3. CASE k = l
      <4>1. CallsTaken(k)' = Append(CallsTaken(k), CallsSent(k)[Len(CallsTaken(k)) + 1])
        BY <1>3, <3>3, Zenon DEF CallTaken, NextCall
      <4>2. /\ CallsTaken(k) \in Seq(AnyCall) /\ Len(CallsTaken(k)) \in Nat /\ Len(CallsSent(k)) \in Nat
            /\ \A i \in 1..Len(CallsTaken(k)) : CallsTaken(k)[i] = CallsSent(k)[i]
        BY CallTyped, Zenon DEF TakenOK
      <4>3. Len(CallsTaken(k)) < Len(CallsSent(k))
        BY <1>3, <3>3, TakesWaiting, Zenon
      <4> QED
        BY <3>1, <4>1, <4>2, <4>3
    <3> QED
      BY <3>2, <3>3, Zenon
  <2> QED
    BY <2>1, Zenon DEF TakenOK
<1> QED
  BY <1>1, <1>2, <1>3, CallsAlone, Zenon

\* A caller on its way to send has its call from before, or a new one.
LEMMA SendersKept ==
    ASSUME TypeOK, Next
    PROVE  /\ calls' \in Nat /\ calls \in Nat /\ calls <= calls'
           /\ \A d \in Caller : pc'[d] \in {"lock", "send"} =>
                 (pc[d] \in {"lock", "send"} /\ id'[d] = id[d]) \/ id'[d] = calls + 1
<1>1. CallersTyped /\ MaxCalls \in Nat
  BY RpcSessionAssumption, Zenon DEF TypeOK
<1>2. calls \in Nat
  BY <1>1 DEF CallersTyped
<1>3. CASE UNCHANGED caller_vars
  BY <1>2, <1>3 DEF caller_vars
<1>4. CASE Disconnect
  BY <1>2, <1>4 DEF Disconnect
<1>5. ASSUME NEW c \in Caller, Invoke(c)
      PROVE  /\ calls' = calls + 1 /\ id'[c] = calls + 1
             /\ \A d \in Caller : d # c => pc'[d] = pc[d] /\ id'[d] = id[d]
  BY <1>1, <1>5, Zenon DEF Invoke, CallersTyped
<1>6. ASSUME NEW c \in Caller, Lock(c) \/ SendCall(c) \/ ReturnsFrom(c)
      PROVE  /\ calls' = calls
             /\ \A d \in Caller : pc'[d] \in {"lock", "send"} => pc[d] \in {"lock", "send"} /\ id'[d] = id[d]
  <2>1. ASSUME Lock(c) \/ SendCall(c) PROVE calls' = calls /\ id' = id /\ pc[c] \in {"lock", "send"} /\ \A d \in Caller : d # c => pc'[d] = pc[d]
    BY <1>1, <2>1, Zenon DEF Lock, SendCall, CallersTyped
  <2>2. ASSUME ReturnsFrom(c)
        PROVE  /\ calls' = calls /\ pc'[c] \in {"idle", "receive"}
               /\ \A d \in Caller : d # c => pc'[d] = pc[d] /\ id'[d] = id[d]
    BY <1>1, <2>2, Zenon DEF ReturnsFrom, Return, CallersTyped
  <2> QED
    BY <1>6, <2>1, <2>2, Zenon
<1> QED
  BY <1>2, <1>3, <1>4, <1>5, <1>6, CallerMoves

\* No two calls get the same number.
LEMMA NumberedStep ==
    ASSUME TypeOK, ServerOK, CallersOK, NumberedOK, Next
    PROVE  NumberedOK'
<1> HIDE DEF CallsSent, CallsTaken
<1>1. \A l \in Line : /\ CallsSent(l) \in Seq(AnyCall) /\ Len(CallsSent(l)) \in Nat
                     /\ \A k \in 1..Len(CallsSent(l)) : CallsSent(l)[k].id \in Nat
  <2>1. \A l \in Line : CallsSent(l) \in Seq(AnyCall) /\ Len(CallsSent(l)) \in Nat
    BY CallTyped, Zenon
  <2>2. \A m \in AnyCall : m.id \in Nat
    BY DEF AnyCall, MessageOf
  <2> QED
    BY <2>1, <2>2
<1>2. CASE SameCallsSent
  <2>1. ASSUME NEW l \in Line, NEW k \in 1..Len(CallsSent(l))
        PROVE  /\ CallsSent(l)[k].id <= calls'
               /\ \A d \in Caller : pc'[d] \in {"lock", "send"} => CallsSent(l)[k].id # id'[d]
    <3>1. CallsSent(l)[k].id <= calls /\ CallsSent(l)[k].id \in Nat
      BY <1>1, Zenon DEF NumberedOK
    <3>2. \A d \in Caller : pc[d] \in {"lock", "send"} => CallsSent(l)[k].id # id[d]
      BY Zenon DEF NumberedOK
    <3> QED
      BY <3>1, <3>2, SendersKept
  <2> QED
    BY <1>2, <2>1 DEF NumberedOK, SameCallsSent
<1>3. ASSUME NEW c \in Caller, NEW l \in Line, SendCall(c), NEW m, m = MessageOf(id[c], stub[c]), CallSent(l, m)
      PROVE  NumberedOK'
  <2>1. /\ m.id = id[c] /\ id[c] \in Nat /\ id[c] <= calls /\ calls \in Nat /\ calls' = calls /\ id' = id
        /\ pc[c] = "send" /\ pc'[c] = "receive" /\ \A d \in Caller : d # c => pc'[d] = pc[d]
    BY <1>3, RpcSessionAssumption DEF MessageOf, TypeOK, CallersTyped, SendCall
  <2>2. \A d \in Caller : pc'[d] \in {"lock", "send"} => pc[d] \in {"lock", "send"} /\ id[d] # id[c]
    BY <2>1, Zenon DEF CallersOK
  <2>3. ASSUME NEW n \in Line, NEW k \in 1..Len(CallsSent(n)')
        PROVE  \/ k \in 1..Len(CallsSent(n)) /\ CallsSent(n)'[k] = CallsSent(n)[k]
               \/ CallsSent(n)'[k] = m
    <3>1. CASE n # l
      BY <1>3, <2>3, <3>1, Zenon DEF CallSent
    <3>2. CASE n = l
      <4>1. CallsSent(n)' = Append(CallsSent(n), m)
        BY <1>3, <3>2, Zenon DEF CallSent
      <4> QED
        BY <1>1, <2>3, <4>1
    <3> QED
      BY <3>1, <3>2, Zenon
  <2>4. \A n \in Line : \A k \in 1..Len(CallsSent(n)) :
           /\ CallsSent(n)[k].id <= calls /\ CallsSent(n)[k].id # id[c]
           /\ \A d \in Caller : pc[d] \in {"lock", "send"} => CallsSent(n)[k].id # id[d]
    BY <2>1, Zenon DEF NumberedOK
  <2>5. \A n \in Line : \A k \in 1..Len(CallsSent(n)') :
           /\ CallsSent(n)'[k].id <= calls'
           /\ \A d \in Caller : pc'[d] \in {"lock", "send"} => CallsSent(n)'[k].id # id'[d]
    BY <2>1, <2>2, <2>3, <2>4
  <2>6. ASSUME NEW n \in Line, NEW o \in Line, NEW j \in 1..Len(CallsSent(n)'), NEW k \in 1..Len(CallsSent(o)'),
               CallsSent(n)'[j].id = CallsSent(o)'[k].id
        PROVE  CallsSent(n)'[j] = CallsSent(o)'[k]
    <3>1. CASE CallsSent(n)'[j] = m
      BY <2>1, <2>3, <2>4, <2>6, <3>1, Zenon
    <3>2. CASE CallsSent(o)'[k] = m
      BY <2>1, <2>3, <2>4, <2>6, <3>2, Zenon
    <3>3. CASE CallsSent(n)'[j] # m /\ CallsSent(o)'[k] # m
      BY <2>3, <2>6, <3>3 DEF NumberedOK
    <3> QED
      BY <3>1, <3>2, <3>3, Zenon
  <2> QED
    BY <2>5, <2>6, Zenon DEF NumberedOK
<1>4. ASSUME NEW l \in Line, CallTaken(l, NextCall(l)) PROVE SameCallsSent
  BY <1>4, Zenon DEF CallTaken
<1> QED
  BY <1>2, <1>3, <1>4, CallsAlone, Zenon DEF SameCalls

\* What is executed was received and permitted.
LEMMA ExecutedStep ==
    ASSUME TypeOK, ServerOK, ExecutedOK, Next
    PROVE  ExecutedOK'
<1> HIDE DEF CallsSent, CallsTaken
<1> DEFINE Allowed(m, i) == m.id = i /\ (m.proc # 0 => m.credential.gids > 0)
<1>1. executed \in Seq(1..MaxCalls)
  BY Zenon DEF TypeOK, ServerTyped
<1>2. \A i \in 1..Len(executed) : \E l \in Line : \E k \in 1..Len(CallsTaken(l)) :
         Allowed(CallsTaken(l)[k], executed[i])
  BY Zenon DEF ExecutedOK
<1>3. SUFFICES \A i \in 1..Len(executed') : \E l \in Line : \E k \in 1..Len(CallsTaken(l)') :
                  Allowed(CallsTaken(l)'[k], executed'[i])
  BY Zenon DEF ExecutedOK
<1> HIDE DEF Allowed
<1>4. \A l \in Line : \A k \in 1..Len(CallsTaken(l)) :
         k \in 1..Len(CallsTaken(l)') /\ CallsTaken(l)'[k] = CallsTaken(l)[k]
  <2>1. CASE SameCallsTaken
    BY <2>1, Zenon DEF SameCallsTaken
  <2>2. ASSUME NEW l \in Line, CallTaken(l, NextCall(l)), NEW n \in Line, NEW k \in 1..Len(CallsTaken(n))
        PROVE  k \in 1..Len(CallsTaken(n)') /\ CallsTaken(n)'[k] = CallsTaken(n)[k]
    <3>1. CASE n # l
      BY <2>2, <3>1, Zenon DEF CallTaken
    <3>2. CASE n = l
      <4>1. CallsTaken(n)' = Append(CallsTaken(n), NextCall(n))
        BY <2>2, <3>2, Zenon DEF CallTaken
      <4>2. CallsTaken(n) \in Seq(AnyCall) /\ Len(CallsTaken(n)) \in Nat
        BY CallTyped, Zenon
      <4> QED
        BY <2>2, <4>1, <4>2
    <3> QED
      BY <3>1, <3>2, Zenon
  <2>3. \A c \in Caller, l \in Line : CallSent(l, MessageOf(id[c], stub[c])) => SameCallsTaken
    BY Zenon DEF CallSent
  <2> QED
    BY <2>1, <2>2, <2>3, CallsAlone, Zenon DEF SameCalls
<1>5. CASE executed' = executed
  BY <1>2, <1>4, <1>5, Zenon
<1>6. ASSUME NEW l \in Line, NEW k \in 1..Len(CallsTaken(l)'), NEW m, m = CallsTaken(l)'[k],
             AnswersCall(l, m)
      PROVE  \A i \in 1..Len(executed') : \E n \in Line : \E j \in 1..Len(CallsTaken(n)') :
                  Allowed(CallsTaken(n)'[j], executed'[i])
  <2>1. CASE executed' = executed
    BY <1>5, <2>1, Zenon
  <2>2. CASE executed' # executed
    <3>1. executed' = Append(executed, m.id) /\ Allowed(m, m.id)
      BY <1>6, <2>2, Zenon DEF AnswersCall, Allowed
    <3>2. ASSUME NEW i \in 1..Len(executed')
          PROVE  (i \in 1..Len(executed) /\ executed'[i] = executed[i]) \/ executed'[i] = m.id
      BY <1>1, <3>1
    <3> QED
      BY <1>2, <1>4, <1>6, <3>1, <3>2, Zenon
  <2> QED
    BY <2>1, <2>2, Zenon
<1>7. ASSUME NEW l \in Line, Takes(l)
      PROVE  \E k \in 1..Len(CallsTaken(l)') : NextCall(l) = CallsTaken(l)'[k] /\ AnswersCall(l, NextCall(l))
  <2>1. CallsTaken(l)' = Append(CallsTaken(l), NextCall(l))
    BY <1>7, TakesLines, Zenon DEF CallTaken
  <2>2. CallsTaken(l) \in Seq(AnyCall) /\ Len(CallsTaken(l)) \in Nat
    BY CallTyped, Zenon
  <2>3. Len(CallsTaken(l)') = Len(CallsTaken(l)) + 1 /\ CallsTaken(l)'[Len(CallsTaken(l)) + 1] = NextCall(l)
    BY <2>1, <2>2
  <2> QED
    BY <1>7, <2>2, <2>3, TakesAnswers
<1>8. CASE ReceiveTcpFails
  <2>1. ASSUME NEW k \in 1..Len(CallsTaken("tcp")), AnswersCall("tcp", CallsTaken("tcp")[k])
        PROVE  \A i \in 1..Len(executed') : \E n \in Line : \E j \in 1..Len(CallsTaken(n)') :
                  Allowed(CallsTaken(n)'[j], executed'[i])
    <3>1. "tcp" \in Line
      BY Zenon DEF Line
    <3> QED
      BY <1>4, <1>6, <2>1, <3>1, Zenon
  <2> QED
    BY <1>5, <1>8, <2>1, FailsAnswers, Zenon
<1>9. Peek \/ Reply \/ ReplyFails \/ Remove \/ UNCHANGED server_vars => executed' = executed
  BY Zenon DEF Peek, Reply, ReplyFails, Remove, server_vars
<1> QED
  BY <1>5, <1>6, <1>7, <1>8, <1>9, ServerMovesOr, Zenon DEF ServerMoves

-----------------------------------------------------------------------------
(***************************************************************************)
(* The journey of a call.                                                  *)
(***************************************************************************)
SameExecutions(i) == Executions(i)' = Executions(i)

\* A step leaves a line as it is ...
LineKept(l) ==
    /\ CallsSent(l)' = CallsSent(l) /\ CallsTaken(l)' = CallsTaken(l)
    /\ RepliesSent(l)' = RepliesSent(l) /\ RepliesTaken(l)' = RepliesTaken(l)
    /\ Serving(l)' <=> Serving(l)
    /\ Serving(l) => server'.id = server.id /\ server'.reply = server.reply
    /\ server.at = "ended" => server'.at = "ended"

\* ... and a caller, who calls on line l.
CallerKept(d, l) ==
    /\ pc'[d] = pc[d] /\ id'[d] = id[d] /\ stub'[d] = stub[d] /\ LineOf(d) = l /\ LineKept(l)
    /\ \A i : i = id[d] => SameExecutions(i)

\* What stays if a step leaves a line, an execution and a caller alone: a quiet line ...
LEMMA QuietKept == ASSUME NEW l, LineKept(l), Quiet(l) PROVE Quiet(l)'
BY Zenon DEF LineKept, Quiet

\* ... what a reply tells ...
LEMMA TellsKept ==
    ASSUME NEW s, NEW i, NEW r, SameExecutions(i), Tells(s, i, r) PROVE Tells(s, i, r)'
BY Zenon DEF SameExecutions, Tells, Once

\* ... where a call is (which is said of its line, number and stub, before a step ...
LEMMA TravelsNow ==
    ASSUME NEW c, NEW l, NEW i, NEW s, LineOf(c) = l, id[c] = i, stub[c] = s
    PROVE  Travels(c) <=> TravelsOn(l, i, s)
BY Zenon DEF Travels

\* ... and after it) ...
LEMMA TravelsThen ==
    ASSUME NEW c, NEW l, NEW i, NEW s, LineOf(c)' = l, id'[c] = i, stub'[c] = s
    PROVE  Travels(c)' <=> TravelsOn(l, i, s)'
BY Zenon DEF Travels, TravelsOn, Unsent, Sent, Served, Answered, CallsSent, CallsTaken, RepliesSent,
   RepliesTaken, Serving, Executions, MessageOf, Tells, Once

\* ... for its caller ...
LEMMA TravelsKept ==
    ASSUME NEW d \in Caller, NEW l \in Line, CallerKept(d, l), Travels(d),
           transport' = transport, auth' = auth
    PROVE  Travels(d)'
<1>1. PICK i, s : i = id[d] /\ s = stub[d]
  BY Zenon
<1>2. /\ i = id'[d] /\ s = stub'[d] /\ LineOf(d) = l /\ LineOf(d)' = l /\ LineKept(l)
      /\ SameExecutions(i) /\ MessageOf(i, s)' = MessageOf(i, s)
  BY <1>1, SameMessages, Zenon DEF CallerKept, LineOf
<1>3. TravelsOn(l, i, s)
  BY <1>1, <1>2, TravelsNow, Zenon
<1>4. ASSUME Unsent(l, i) PROVE TravelsOn(l, i, s)'
  BY <1>2, <1>4, Zenon DEF Unsent, LineKept, SameExecutions, TravelsOn
<1>5. ASSUME Sent(l, i, s) PROVE TravelsOn(l, i, s)'
  BY <1>2, <1>5, Zenon DEF Sent, LineKept, SameExecutions, TravelsOn
<1>6. ASSUME Served(l, i, s) PROVE TravelsOn(l, i, s)'
  <2>1. PICK r : r = server.reply /\ r = server'.reply
    BY <1>2, <1>6, Zenon DEF Served, LineKept
  <2>2. Tells(s, i, r)'
    BY <1>2, <1>6, <2>1, TellsKept, Zenon DEF Served
  <2>3. Tells(s, i, server.reply)'
    BY <2>1, <2>2, Zenon DEF Tells
  <2> QED
    BY <1>2, <1>6, <2>3, Zenon DEF Served, LineKept, TravelsOn
<1>7. ASSUME Answered(l, i, s) PROVE TravelsOn(l, i, s)'
  <2>1. PICK r \in AnyReply :
           RepliesSent(l) = Append(RepliesTaken(l), [id |-> i, reply |-> r]) /\ Tells(s, i, r)
    BY <1>7, Zenon DEF Answered
  <2>2. Tells(s, i, r)'
    BY <1>2, <2>1, TellsKept, Zenon
  <2> QED
    BY <1>2, <1>7, <2>1, <2>2, Zenon DEF Answered, LineKept, TravelsOn
<1>8. TravelsOn(l, i, s)'
  BY <1>3, <1>4, <1>5, <1>6, <1>7, Zenon DEF TravelsOn
<1> QED
  BY <1>1, <1>2, <1>8, TravelsThen, Zenon

\* ... and what the last call returned.
LEMMA ResultKept ==
    ASSUME NEW c \in Caller, ResultOK(c), returned'[c] = returned[c],
           \A i : returned[c] # NULL /\ i = returned[c].id => SameExecutions(i)
    PROVE  ResultOK(c)'
<1>1. PICK r : r = returned[c] /\ r = returned'[c]
  BY Zenon
<1>2. CASE r = NULL
  BY <1>1, <1>2, Zenon DEF ResultOK
<1>3. CASE r # NULL
  <2>1. PICK i : i = r.id
    BY Zenon
  <2>2. SameExecutions(i)
    BY <1>1, <1>3, <2>1, Zenon
  <2>3. (Once(i)' <=> Once(i)) /\ Executions(i)' = Executions(i)
    BY <2>2, Zenon DEF SameExecutions, Once
  <2>4. /\ Once(returned[c].id) = Once(i) /\ Executions(returned[c].id) = Executions(i)
        /\ Once(returned[c].id)' = Once(i)' /\ Executions(returned[c].id)' = Executions(i)'
    BY <1>1, <2>1, Zenon DEF Once, Executions
  <2> QED
    BY <1>1, <2>3, <2>4, Zenon DEF ResultOK
<1> QED
  BY <1>2, <1>3, Zenon

\* One execution more, of the call j, or none
LEMMA ExecutionsAre ==
    ASSUME TypeOK, NEW j, executed' \in {executed, Append(executed, j)}
    PROVE  /\ \A i : i # j => SameExecutions(i)
           /\ executed' = executed => SameExecutions(j)
           /\ executed' = Append(executed, j) /\ Executions(j) = {} => Once(j)'
<1>1. executed \in Seq(1..MaxCalls)
  BY Zenon DEF TypeOK, ServerTyped
<1>2. \A i : executed' = executed => SameExecutions(i)
  BY Zenon DEF SameExecutions, Executions
<1>3. CASE executed' = Append(executed, j)
  <2>1. /\ DOMAIN executed' = DOMAIN executed \cup {Len(executed) + 1}
        /\ executed'[Len(executed) + 1] = j /\ Len(executed) + 1 \notin DOMAIN executed
        /\ \A k \in DOMAIN executed : executed'[k] = executed[k]
    BY <1>1, <1>3
  <2>2. \A i : i # j => SameExecutions(i)
    BY <2>1, Zenon DEF SameExecutions, Executions
  <2>3. Executions(j) = {} => Executions(j)' = {Len(executed) + 1}
    BY <2>1, Zenon DEF Executions
  <2> QED
    BY <1>2, <2>2, <2>3, Zenon DEF Once
<1> QED
  BY <1>2, <1>3, Zenon

\* Nothing is executed.
LEMMA ExecutionsStay == ASSUME executed' = executed, NEW i PROVE SameExecutions(i)
BY Zenon DEF SameExecutions, Executions

\* Nobody but a caller that waits has a line that is not quiet.
LEMMA OneWaits ==
    ASSUME CallersOK, transport \in {"tcp", "quic"}, NEW c \in Caller, NEW d \in Caller,
           Active(c), Active(d), LineOf(c) = LineOf(d)
    PROVE  c = d
<1>1. CASE transport = "tcp"
  BY <1>1, Zenon DEF CallersOK
<1>2. CASE transport # "tcp"
  BY <1>2, Zenon DEF LineOf
<1> QED
  BY <1>1, <1>2, Zenon

\* The steps that leave the lines, the executions and the waiting callers alone
Idle ==
    \/ Disconnect \/ Peek \/ Remove
    \/ \E c \in Caller : Invoke(c) \/ Lock(c)

\* An idle step leaves every line alone ...
LEMMA IdleServer ==
    ASSUME TypeOK, Idle, NEW l \in Line PROVE LineKept(l) /\ executed' = executed
<1>1. SameLines
  <2>1. Silent
    BY Zenon DEF Idle, Silent
  <2> QED
    BY <2>1, SilentLines, Zenon
<1>2. CASE server' = server /\ executed' = executed
  BY <1>1, <1>2, Zenon DEF LineKept, Serving, SameLines, SameCallsSent, SameCallsTaken, SameRepliesSent, SameRepliesTaken
<1>3. CASE Peek \/ Remove
  <2>1. /\ executed' = executed /\ server.at \in {"peek", "remove"}
        /\ server' \in {At("receive"), At("remove"), At("ended")}
    BY <1>3, Zenon DEF Peek, Remove
  <2>2. server'.at \in {"receive", "remove", "ended"}
    BY <2>1, AtIs, Zenon
  <2> QED
    BY <1>1, <2>1, <2>2, Zenon DEF LineKept, Serving, SameLines, SameCallsSent, SameCallsTaken, SameRepliesSent,
       SameRepliesTaken
<1>4. Disconnect \/ (\E c \in Caller : Invoke(c) \/ Lock(c)) => server' = server /\ executed' = executed
  BY Zenon DEF Disconnect, Invoke, Lock, server_vars
<1> QED
  BY <1>2, <1>3, <1>4, Zenon DEF Idle

\* ... and every caller that waits.
LEMMA IdleCallers ==
    ASSUME TypeOK, Idle
    PROVE  /\ returned' = returned /\ calls <= calls' /\ calls \in Nat
           /\ \A d \in Caller : (pc[d] = "receive" \/ pc'[d] = "receive") =>
                 pc'[d] = pc[d] /\ id'[d] = id[d] /\ stub'[d] = stub[d]
           /\ \A d \in Caller : pc'[d] \in {"lock", "send"} =>
                 (pc[d] \in {"lock", "send"} /\ id'[d] = id[d]) \/ id'[d] = calls + 1
<1>1. Next
  BY Zenon DEF Idle, Next, Environment, ServerStep, CallerStep
<1>2. CallersTyped
  BY Zenon DEF TypeOK
<1>3. CASE Disconnect
  BY <1>1, <1>2, <1>3, SendersKept, Zenon DEF Disconnect, CallersTyped
<1>4. CASE Peek \/ Remove
  BY <1>1, <1>2, <1>4, SendersKept, Zenon DEF Peek, Remove, caller_vars, CallersTyped
<1>5. ASSUME NEW c \in Caller, Invoke(c)
      PROVE  /\ returned' = returned
             /\ \A d \in Caller : (pc[d] = "receive" \/ pc'[d] = "receive") =>
                   pc'[d] = pc[d] /\ id'[d] = id[d] /\ stub'[d] = stub[d]
  BY <1>2, <1>5, Zenon DEF Invoke, CallersTyped
<1>6. ASSUME NEW c \in Caller, Lock(c)
      PROVE  /\ returned' = returned
             /\ \A d \in Caller : (pc[d] = "receive" \/ pc'[d] = "receive") =>
                   pc'[d] = pc[d] /\ id'[d] = id[d] /\ stub'[d] = stub[d]
  BY <1>2, <1>6, Zenon DEF Lock, CallersTyped
<1> QED
  BY <1>1, <1>3, <1>4, <1>5, <1>6, SendersKept, Zenon DEF Idle

\* A member of a sequence
LEMMA InSequence == ASSUME NEW S, NEW q \in Seq(S), NEW k \in DOMAIN q PROVE q[k] \in S
OBVIOUS

\* What was executed had been called ...
LEMMA ExecutedCalls ==
    ASSUME TypeOK, JourneyOK, NEW k \in DOMAIN executed PROVE executed[k] \in Nat /\ executed[k] <= calls
<1>1. executed[k] <= calls
  BY Zenon DEF JourneyOK
<1>2. executed \in Seq(1..MaxCalls)
  BY Zenon DEF TypeOK, ServerTyped
<1>3. executed[k] \in 1..MaxCalls
  BY <1>2, InSequence, Zenon
<1> QED
  BY <1>1, <1>3

\* ... so that a new call was not executed.
LEMMA NothingExecuted ==
    ASSUME TypeOK, JourneyOK, NEW i \in Nat, i > calls PROVE Executions(i) = {}
<1>1. calls \in Nat
  BY RpcSessionAssumption DEF TypeOK, CallersTyped
<1>2. \A k \in DOMAIN executed : executed[k] \in Nat /\ executed[k] <= calls
  BY ExecutedCalls, Zenon
<1> QED
  BY <1>1, <1>2 DEF Executions

\* An idle step leaves every call where it is.
LEMMA IdleStep ==
    ASSUME TypeOK, CallersOK, JourneyOK, Idle, transport' = transport, auth' = auth
    PROVE  JourneyOK'
<1>1. \A l \in Line : LineKept(l)
  BY IdleServer, Zenon
<1>2. executed' = executed
  <2>1. "tcp" \in Line
    BY Zenon DEF Line
  <2> QED
    BY <2>1, IdleServer, Zenon
<1>3. \A i : SameExecutions(i)
  BY <1>2, ExecutionsStay, Zenon
<1>4. ASSUME NEW d \in Caller, pc'[d] = "receive" PROVE Travels(d)'
  <2>1. PICK l \in Line : l = LineOf(d)
    BY LineIs, Zenon
  <2>2. pc[d] = "receive" /\ CallerKept(d, l)
    BY <1>1, <1>3, <1>4, <2>1, IdleCallers, Zenon DEF CallerKept
  <2> QED
    BY <2>1, <2>2, TravelsKept, Zenon DEF JourneyOK
<1>5. ASSUME NEW l \in Line, NobodyWaits(l)' PROVE Quiet(l)'
  <2>1. NobodyWaits(l)
    BY <1>5, IdleCallers, Zenon DEF NobodyWaits, LineOf
  <2> QED
    BY <1>1, <2>1, QuietKept, Zenon DEF JourneyOK
<1>6. ASSUME NEW d \in Caller, pc'[d] \in {"lock", "send"} PROVE Executions(id[d])' = {}
  <2>1. PICK i : i = id'[d]
    BY Zenon
  <2>2. Executions(i) = {}
    <3>1. CASE i = calls + 1
      BY <3>1, IdleCallers, NothingExecuted
    <3>2. CASE pc[d] \in {"lock", "send"} /\ i = id[d]
      BY <3>2, Zenon DEF JourneyOK
    <3> QED
      BY <1>6, <2>1, <3>1, <3>2, IdleCallers, Zenon
  <2>3. Executions(i)' = {}
    BY <1>3, <2>2, Zenon DEF SameExecutions
  <2> QED
    BY <2>1, <2>3, Zenon DEF Executions
<1>7. \A k \in DOMAIN executed' : executed'[k] <= calls'
  <2>1. \A k \in DOMAIN executed : executed[k] \in Nat /\ executed[k] <= calls
    BY ExecutedCalls, Zenon
  <2>2. calls' \in Nat /\ calls \in Nat
    <3>1. Next
      BY Zenon DEF Idle, Next, Environment, ServerStep, CallerStep
    <3> QED
      BY <3>1, SendersKept, Zenon
  <2> QED
    BY <1>2, <2>1, <2>2, IdleCallers
<1>8. \A c \in Caller : ResultOK(c)'
  BY <1>3, IdleCallers, ResultKept, Zenon DEF JourneyOK
<1> QED
  BY <1>4, <1>5, <1>6, <1>7, <1>8, Zenon DEF JourneyOK

\* The server and the messages of a line stay as they are.
LEMMA LineStays ==
    ASSUME NEW l, server' = server, CallsSent(l)' = CallsSent(l), CallsTaken(l)' = CallsTaken(l),
           RepliesSent(l)' = RepliesSent(l), RepliesTaken(l)' = RepliesTaken(l)
    PROVE  LineKept(l)
BY Zenon DEF LineKept, Serving

\* When one caller's call goes on, those of the others stay where they are.
LEMMA OneGoesOn ==
    ASSUME TypeOK, CallersOK, JourneyOK, transport' = transport, auth' = auth, calls' = calls,
           NEW c \in Caller, NEW l \in Line, NEW i, l = LineOf(c), i = id[c], Active(c),
           \A m \in Line \ {l} : LineKept(m),
           executed' \in {executed, Append(executed, i)},
           \A d \in Caller \ {c} : /\ pc'[d] = pc[d] /\ id'[d] = id[d] /\ stub'[d] = stub[d]
                                   /\ returned'[d] = returned[d],
           pc'[c] \notin {"lock", "send"}, ResultOK(c)',
           pc'[c] = "receive" => Travels(c)', pc'[c] # "receive" => Quiet(l)'
    PROVE  JourneyOK'
<1>1. \A j : j # i => SameExecutions(j)
  BY ExecutionsAre
<1>2. pc[c] # "idle" /\ transport \in {"tcp", "quic"}
  BY Zenon DEF Active, TypeOK
<1>3. \A d \in Caller \ {c} : pc[d] # "idle" => id[d] # i
  BY <1>2, Zenon DEF CallersOK
<1>4. \A d \in Caller : LineOf(d)' = LineOf(d)
  BY Zenon DEF LineOf
<1>5. ASSUME NEW d \in Caller, pc'[d] = "receive" PROVE Travels(d)'
  <2>1. CASE d = c
    BY <1>5, <2>1, Zenon
  <2>2. CASE d # c
    <3>1. PICK m \in Line : m = LineOf(d)
      BY LineIs, Zenon
    <3>2. Active(d) /\ pc[d] = "receive"
      BY <1>5, <2>2, Zenon DEF Active
    <3>3. m # l
      BY <1>2, <2>2, <3>1, <3>2, OneWaits, Zenon
    <3>4. \A j : j = id[d] => SameExecutions(j)
      BY <1>1, <1>3, <2>2, <3>2, Zenon
    <3>5. CallerKept(d, m)
      BY <2>2, <3>1, <3>3, <3>4, Zenon DEF CallerKept
    <3>6. Travels(d)
      BY <3>2, Zenon DEF JourneyOK
    <3> QED
      BY <3>5, <3>6, TravelsKept, Zenon
  <2> QED
    BY <2>1, <2>2, Zenon
<1>6. ASSUME NEW m \in Line, NobodyWaits(m)' PROVE Quiet(m)'
  <2>1. CASE m = l
    BY <1>4, <1>6, <2>1, Zenon DEF NobodyWaits
  <2>2. CASE m # l
    <3>1. NobodyWaits(m)
      BY <1>4, <1>6, <2>2, Zenon DEF NobodyWaits
    <3>2. Quiet(m)
      BY <3>1, Zenon DEF JourneyOK
    <3> QED
      BY <2>2, <3>2, QuietKept, Zenon
  <2> QED
    BY <2>1, <2>2, Zenon
<1>7. ASSUME NEW d \in Caller, pc'[d] \in {"lock", "send"} PROVE Executions(id[d])' = {}
  <2>1. PICK j : j = id'[d]
    BY Zenon
  <2>2. d # c /\ pc[d] \in {"lock", "send"} /\ j = id[d]
    BY <1>7, <2>1, Zenon
  <2>3. Executions(j) = {} /\ SameExecutions(j)
    BY <1>1, <1>3, <2>2, Zenon DEF JourneyOK
  <2> QED
    BY <2>1, <2>3, Zenon DEF SameExecutions, Executions
<1>8. \A k \in DOMAIN executed' : executed'[k] <= calls'
  <2>1. \A k \in DOMAIN executed : executed[k] <= calls
    BY ExecutedCalls, Zenon
  <2>2. i \in 1..calls /\ calls \in Nat
    BY <1>2, RpcSessionAssumption DEF TypeOK, CallersTyped
  <2>3. executed \in Seq(1..MaxCalls)
    BY Zenon DEF TypeOK, ServerTyped
  <2>4. CASE executed' = Append(executed, i)
    <3>1. ASSUME NEW k \in DOMAIN executed' PROVE (k \in DOMAIN executed /\ executed'[k] = executed[k]) \/ executed'[k] = i
      BY <2>3, <2>4
    <3> QED
      BY <2>1, <2>2, <3>1
  <2> QED
    BY <2>1, <2>4, Zenon
<1>9. ASSUME NEW d \in Caller PROVE ResultOK(d)'
  <2>1. CASE d # c
    <3>1. \A j : returned[d] # NULL /\ j = returned[d].id => SameExecutions(j)
      BY <1>1, <1>2, Zenon DEF CallersOK
    <3>2. ResultOK(d)
      BY Zenon DEF JourneyOK
    <3> QED
      BY <2>1, <3>1, <3>2, ResultKept, Zenon
  <2> QED
    BY <2>1, Zenon
<1> QED
  BY <1>5, <1>6, <1>7, <1>8, <1>9, Zenon DEF JourneyOK

\* If a line is not quiet, somebody waits there.
LEMMA SomebodyWaits ==
    ASSUME JourneyOK, NEW l \in Line, ~Quiet(l)
    PROVE  \E c \in Caller : pc[c] = "receive" /\ LineOf(c) = l /\ Travels(c)
BY Zenon DEF JourneyOK, NobodyWaits

\* A call is sent.
LEMMA SendStep ==
    ASSUME TypeOK, ServerOK, CallersOK, JourneyOK, ~reset, transport' = transport, auth' = auth,
           NEW c \in Caller, SendCall(c)
    PROVE  JourneyOK'
<1>1. PICK l, i, s : l \in Line /\ l = LineOf(c) /\ i = id[c] /\ s = stub[c]
  BY LineIs, Zenon
<1>2. /\ pc[c] = "send" /\ Active(c) /\ calls' = calls /\ executed' = executed /\ server' = server
      /\ id' = id /\ stub' = stub /\ returned' = returned
  BY Zenon DEF SendCall, server_vars, Active
<1>3. pc'[c] = "receive" /\ \A d \in Caller \ {c} : pc'[d] = pc[d]
  BY Zenon DEF SendCall, TypeOK, CallersTyped
<1>4. NobodyWaits(l)
  <2>1. \A d \in Caller : pc[d] = "receive" /\ LineOf(d) = l => d = c
    BY <1>1, <1>2, OneWaits, Zenon DEF Active, TypeOK
  <2> QED
    BY <1>2, <2>1, Zenon DEF NobodyWaits
<1>5. Quiet(l) /\ Executions(i) = {}
  BY <1>1, <1>2, <1>4, Zenon DEF JourneyOK
<1>6. Executions(i)' = {} /\ (Serving(l)' <=> Serving(l)) /\ MessageOf(i, s)' = MessageOf(i, s)
  BY <1>2, <1>5, SameMessages, Zenon DEF Executions, Serving
<1>7. ASSUME ServerGone PROVE TravelsOn(l, i, s)' /\ \A m \in Line \ {l} : LineKept(m)
  <2>1. SameLines
    BY <1>1, <1>7, SendCallLines, Zenon
  <2>2. \A m \in Line : LineKept(m)
    BY <1>2, <2>1, LineStays, Zenon DEF SameLines, SameCallsSent, SameCallsTaken, SameRepliesSent, SameRepliesTaken
  <2>3. server.at = "ended"
    BY <1>7, Zenon DEF ServerGone, ServerOK
  <2>4. TravelsOn(l, i, s)'
    BY <1>1, <1>2, <1>5, <1>6, <2>2, <2>3, Zenon DEF Quiet, LineKept, Unsent, TravelsOn
  <2> QED
    BY <2>2, <2>4, Zenon
<1>8. ASSUME ~ServerGone PROVE TravelsOn(l, i, s)' /\ \A m \in Line \ {l} : LineKept(m)
  <2>1. CallSent(l, MessageOf(i, s))
    BY <1>1, <1>8, SendCallLines, Zenon
  <2>2. \A m \in Line \ {l} : LineKept(m)
    BY <1>2, <2>1, LineStays, Zenon DEF CallSent, SameCallsTaken, SameRepliesSent, SameRepliesTaken
  <2>3. server.at # "ended"
    BY <1>8, Zenon DEF ServerGone, ServerOK, TypeOK
  <2>4. Sent(l, i, s)'
    BY <1>1, <1>5, <1>6, <2>1, <2>3, Zenon DEF Quiet, CallSent, SameCallsTaken, SameRepliesSent, SameRepliesTaken, Sent
  <2> QED
    BY <2>2, <2>4, Zenon DEF TravelsOn
<1>9. LineOf(c)' = l /\ id'[c] = i /\ stub'[c] = s
  BY <1>1, <1>2, Zenon DEF LineOf
<1>10. Travels(c)'
  BY <1>7, <1>8, <1>9, TravelsThen, Zenon
<1>11. ResultOK(c)'
  <2>1. \A j : SameExecutions(j)
    BY <1>2, ExecutionsStay, Zenon
  <2> QED
    BY <1>2, <2>1, ResultKept, Zenon DEF JourneyOK
<1> QED
  BY <1>1, <1>2, <1>3, <1>7, <1>8, <1>10, <1>11, OneGoesOn, Zenon

\* A reply is received: it is the caller's own, as no other can be on the line.
LEMMA ReceiveStep ==
    ASSUME TypeOK, CallersOK, JourneyOK, ~reset, transport' = transport, auth' = auth,
           NEW c \in Caller, ReceiveReply(c)
    PROVE  JourneyOK'
<1>1. PICK l, i, s : l \in Line /\ l = LineOf(c) /\ i = id[c] /\ s = stub[c]
  BY LineIs, Zenon
<1>2. /\ pc[c] = "receive" /\ Active(c) /\ calls' = calls /\ executed' = executed /\ server' = server
      /\ Len(RepliesTaken(l)) < Len(RepliesSent(l)) /\ Return(c, NextReply(l).reply)
  BY <1>1, Zenon DEF ReceiveReply, Return, server_vars, Active, Waiting, NextMessage, NextReply, RepliesTaken, RepliesSent
<1>3. TravelsOn(l, i, s)
  BY <1>1, <1>2, TravelsNow, Zenon DEF JourneyOK
<1>4. RepliesSent(l) \in Seq(ReplyMessage) /\ RepliesTaken(l) \in Seq(ReplyMessage)
  BY <1>1, Zenon DEF TypeOK, LinesTyped
<1>5. Len(RepliesTaken(l)) \in Nat
  BY <1>4
<1>6. RepliesSent(l) # RepliesTaken(l)
  BY <1>2, <1>5
<1>7. Answered(l, i, s)
  BY <1>3, <1>6, Zenon DEF TravelsOn, Unsent, Sent, Served
<1>8. PICK r \in AnyReply :
         RepliesSent(l) = Append(RepliesTaken(l), [id |-> i, reply |-> r]) /\ Tells(s, i, r)
  BY <1>7, Zenon DEF Answered
<1>9. NextReply(l) = [id |-> i, reply |-> r]
  BY <1>4, <1>8 DEF NextReply
<1>10. Return(c, r) /\ r # NULL
  BY <1>2, <1>9, RpcSessionAssumption
<1>11. /\ pc' = [pc EXCEPT ![c] = "idle"] /\ stub' = [stub EXCEPT ![c] = NULL] /\ id' = [id EXCEPT ![c] = 0]
       /\ returned' = [returned EXCEPT ![c] =
                          [id |-> id[c], code |-> StubReturns(stub[c], r), results |-> r.results]]
  BY <1>10, Zenon DEF Return, StubCrashes
<1>12. /\ pc'[c] = "idle"
       /\ \A d \in Caller \ {c} : /\ pc'[d] = pc[d] /\ id'[d] = id[d] /\ stub'[d] = stub[d]
                                   /\ returned'[d] = returned[d]
       /\ returned'[c] = [id |-> i, code |-> StubReturns(s, r), results |-> r.results]
  BY <1>1, <1>11, Zenon DEF TypeOK, CallersTyped
<1>13. ResultOK(c)'
  <2>1. Tells(s, i, r)'
    BY <1>2, <1>8, ExecutionsStay, TellsKept, Zenon
  <2>2. Once(returned[c].id)' = Once(i)' /\ Executions(returned[c].id)' = Executions(i)'
    BY <1>12 DEF Once, Executions
  <2> QED
    BY <1>12, <2>1, <2>2 DEF ResultOK, Tells
<1>14. ReplyTaken(l, NextReply(l))
  BY <1>1, ReceiveReplyLines, Zenon
<1>15. \A m \in Line \ {l} : LineKept(m)
  BY <1>2, <1>14, LineStays, Zenon DEF ReplyTaken, SameCallsSent, SameCallsTaken, SameRepliesSent
<1>16. Quiet(l)'
  <2>1. Serving(l)' <=> Serving(l)
    BY <1>2, Zenon DEF Serving
  <2> QED
    BY <1>1, <1>7, <1>8, <1>9, <1>14, <2>1, Zenon DEF Answered, Quiet, ReplyTaken, SameCallsSent, SameCallsTaken, SameRepliesSent
<1> QED
  BY <1>1, <1>2, <1>12, <1>13, <1>15, <1>16, OneGoesOn, Zenon

\* A caller finds the socket closed.
LEMMA EndStep ==
    ASSUME TypeOK, ServerOK, CallersOK, JourneyOK, ~reset, transport' = transport, auth' = auth,
           NEW c \in Caller, ReceiveEnds(c)
    PROVE  JourneyOK'
<1>1. PICK l, i, s : l \in Line /\ l = LineOf(c) /\ i = id[c] /\ s = stub[c]
  BY LineIs, Zenon
<1>2. /\ pc[c] = "receive" /\ Active(c) /\ calls' = calls /\ executed' = executed /\ server' = server
      /\ ~(Len(RepliesTaken(l)) < Len(RepliesSent(l))) /\ Return(c, NULL) /\ socket = "closed"
  BY <1>1, Zenon DEF ReceiveEnds, Return, server_vars, Active, Waiting, RepliesTaken, RepliesSent
<1>3. TravelsOn(l, i, s)
  BY <1>1, <1>2, TravelsNow, Zenon DEF JourneyOK
<1>4. RepliesTaken(l) \in Seq(ReplyMessage)
  BY <1>1, Zenon DEF TypeOK, LinesTyped
<1>5. RepliesSent(l) = RepliesTaken(l)
  <2>1. \A x : Len(Append(RepliesTaken(l), x)) = Len(RepliesTaken(l)) + 1 /\ Len(RepliesTaken(l)) \in Nat
    BY <1>4
  <2>2. ~Answered(l, i, s)
    <3>1. SUFFICES ASSUME Answered(l, i, s) PROVE FALSE
      BY Zenon
    <3>2. PICK x : RepliesSent(l) = Append(RepliesTaken(l), x)
      BY <3>1, Zenon DEF Answered
    <3> QED
      BY <1>2, <2>1, <3>2
  <2> QED
    BY <1>3, <2>2, Zenon DEF TravelsOn, Unsent, Sent, Served
<1>6. server.at = "ended"
  BY <1>2, Zenon DEF ServerOK
<1>7. \A m \in Line : LineKept(m)
  <2>1. SameLines
    BY SilentLines, Zenon DEF Silent
  <2> QED
    BY <1>2, <2>1, LineStays, Zenon DEF SameLines, SameCallsSent, SameCallsTaken, SameRepliesSent, SameRepliesTaken
<1>8. \A j : SameExecutions(j)
  BY <1>2, ExecutionsStay, Zenon
<1>9. CASE StubCrashes(stub[c], NULL)
  <2>1. pc' = pc /\ stub' = stub /\ id' = id /\ returned' = returned
    BY <1>2, <1>9, Zenon DEF Return
  <2>2. CallerKept(c, l)
    BY <1>1, <1>7, <1>8, <2>1, Zenon DEF CallerKept
  <2>3. Travels(c)'
    BY <1>1, <1>2, <2>2, TravelsKept, Zenon DEF JourneyOK
  <2>4. ResultOK(c)'
    BY <1>8, <2>1, ResultKept, Zenon DEF JourneyOK
  <2> QED
    BY <1>1, <1>2, <1>7, <2>1, <2>3, <2>4, OneGoesOn, Zenon
<1>10. CASE ~StubCrashes(stub[c], NULL)
  <2>1. /\ pc' = [pc EXCEPT ![c] = "idle"] /\ stub' = [stub EXCEPT ![c] = NULL] /\ id' = [id EXCEPT ![c] = 0]
        /\ returned' = [returned EXCEPT ![c] =
                           [id |-> id[c], code |-> StubReturns(stub[c], NULL), results |-> NULL]]
    BY <1>2, <1>10, Zenon DEF Return
  <2>2. /\ pc'[c] = "idle"
        /\ \A d \in Caller \ {c} : /\ pc'[d] = pc[d] /\ id'[d] = id[d] /\ stub'[d] = stub[d]
                                    /\ returned'[d] = returned[d]
        /\ returned'[c].code = StubReturns(s, NULL)
    BY <1>1, <2>1, Zenon DEF TypeOK, CallersTyped
  <2>3. StubReturns(s, NULL) = 1
    BY DEF StubReturns, validate_successful_accepted_reply, validate_rpc_reply_structure
  <2>4. ResultOK(c)'
    BY <2>2, <2>3 DEF ResultOK
  <2>5. Quiet(l)'
    BY <1>1, <1>5, <1>6, <1>7, Zenon DEF Quiet, LineKept
  <2> QED
    BY <1>1, <1>2, <1>7, <2>2, <2>4, <2>5, OneGoesOn, Zenon
<1> QED
  BY <1>9, <1>10, Zenon

\* The server takes a call: its caller waits for it.
LEMMA TakeStep ==
    ASSUME TypeOK, ServerOK, CallersOK, JourneyOK, ~reset, transport' = transport, auth' = auth,
           NEW l \in Line, Takes(l)
    PROVE  JourneyOK'
<1>1. Len(CallsTaken(l)) < Len(CallsSent(l)) /\ CallsSent(l) \in Seq(AnyCall) /\ CallsTaken(l) \in Seq(AnyCall)
  BY TakesWaiting, CallTyped, Zenon
<1>2. CallsSent(l) # CallsTaken(l) /\ server.at \in {"peek", "receive"}
  <2>1. Len(CallsTaken(l)) \in Nat
    BY <1>1
  <2> QED
    BY <1>1, <2>1, TakesOn
<1>3. PICK c \in Caller : pc[c] = "receive" /\ LineOf(c) = l /\ Travels(c)
  BY <1>2, SomebodyWaits, Zenon DEF Quiet
<1>4. PICK i, s : i = id[c] /\ s = stub[c]
  BY Zenon
<1>5. Sent(l, i, s)
  BY <1>2, <1>3, <1>4, TravelsNow, Zenon DEF TravelsOn, Unsent, Served, Answered
<1>6. i \in 1..MaxCalls /\ s \in AnyRequest
  BY <1>3, <1>4, RpcSessionAssumption DEF TypeOK, CallersTyped
<1>7. NextCall(l) = MessageOf(i, s)
  BY <1>1, <1>5 DEF Sent, NextCall
<1>8. AnswersCall(l, MessageOf(i, s)) /\ CallTaken(l, MessageOf(i, s))
  BY <1>7, TakesAnswers, TakesLines, Zenon
<1>9. PICK r \in AnyReply, done \in BOOLEAN :
         /\ server'.at = "reply" /\ server'.line = l /\ server'.id = i /\ server'.reply = r
         /\ executed' = IF done THEN Append(executed, i) ELSE executed
         /\ Fits(s, i, r, done)
  <2>1. MessageOf(i, s).id = i
    BY Zenon DEF MessageOf
  <2> QED
    BY <1>6, <1>8, <2>1 DEF AnswersCall
<1>10. Tells(s, i, r)'
  <2>1. Executions(i) = {}
    BY <1>5, Zenon DEF Sent
  <2>2. CASE done
    BY <1>9, <2>1, <2>2, ExecutionsAre DEF Fits, Tells
  <2>3. CASE ~done
    BY <1>9, <2>1, <2>3, ExecutionsStay, Zenon DEF Fits, Tells, SameExecutions
  <2> QED
    BY <2>2, <2>3, Zenon
<1>11. Served(l, i, s)'
  <2>1. Tells(s, i, server.reply)'
    BY <1>9, <1>10, Zenon DEF Tells
  <2>2. CallsSent(l)' = CallsTaken(l)' /\ RepliesSent(l)' = RepliesTaken(l)'
    BY <1>5, <1>8, Zenon DEF Sent, CallTaken, SameCallsSent, SameRepliesSent, SameRepliesTaken
  <2> QED
    BY <1>9, <2>1, <2>2, Zenon DEF Served, Serving
<1>12. /\ pc' = pc /\ id' = id /\ stub' = stub /\ returned' = returned /\ calls' = calls
  BY Zenon DEF Takes, ReceiveTcp, ReceiveQuic, caller_vars
<1>13. Travels(c)'
  <2>1. LineOf(c)' = l /\ id'[c] = i /\ stub'[c] = s
    BY <1>3, <1>4, <1>12, Zenon DEF LineOf
  <2> QED
    BY <1>11, <2>1, TravelsThen, Zenon DEF TravelsOn
<1>14. \A m \in Line \ {l} : LineKept(m)
  BY <1>2, <1>8, <1>9, Zenon DEF LineKept, Serving, CallTaken, SameCallsSent, SameRepliesSent, SameRepliesTaken
<1>15. ResultOK(c)'
  <2>1. \A j : returned[c] # NULL /\ j = returned[c].id => SameExecutions(j)
    <3>1. executed' \in {executed, Append(executed, i)}
      BY <1>9, Zenon
    <3>2. returned[c] # NULL => returned[c].id # i
      BY <1>3, <1>4, Zenon DEF CallersOK
    <3> QED
      BY <3>1, <3>2, ExecutionsAre
  <2> QED
    BY <1>12, <2>1, ResultKept, Zenon DEF JourneyOK
<1> QED
  BY <1>3, <1>4, <1>9, <1>12, <1>13, <1>14, <1>15, OneGoesOn, Zenon DEF Active

\* The server sends the reply: the caller of the call waits for it.
LEMMA ReplyStep ==
    ASSUME TypeOK, ServerOK, CallersOK, JourneyOK, ~reset, transport' = transport, auth' = auth, Reply
    PROVE  JourneyOK'
<1>1. PICK l, r : l = server.line /\ r = server.reply
  BY Zenon
<1>2. server.at = "reply" /\ l \in Line /\ r \in AnyReply
  BY <1>1, Zenon DEF Reply, ServerOK
<1>3. Serving(l)
  BY <1>1, <1>2, Zenon DEF Serving
<1>4. PICK c \in Caller : pc[c] = "receive" /\ LineOf(c) = l /\ Travels(c)
  BY <1>2, <1>3, SomebodyWaits, Zenon DEF Quiet
<1>5. PICK i, s : i = id[c] /\ s = stub[c]
  BY Zenon
<1>6. Served(l, i, s)
  BY <1>2, <1>3, <1>4, <1>5, TravelsNow, Zenon DEF TravelsOn, Unsent, Sent, Answered
<1>7. ReplySent(l, [id |-> i, reply |-> r])
  BY <1>1, <1>2, <1>6, ReplyLines, Zenon DEF Served
<1>8. server'.at \in {"remove", "peek"}
  BY AtIs, Zenon DEF Reply, ServerReady
<1>9. /\ pc' = pc /\ id' = id /\ stub' = stub /\ returned' = returned /\ calls' = calls
      /\ executed' = executed
  BY Zenon DEF Reply, caller_vars
<1>10. Answered(l, i, s)'
  <2>1. Tells(s, i, r)'
    BY <1>1, <1>6, <1>9, ExecutionsStay, TellsKept, Zenon DEF Served
  <2>2. /\ CallsSent(l)' = CallsTaken(l)'
        /\ RepliesSent(l)' = Append(RepliesTaken(l)', [id |-> i, reply |-> r])
    BY <1>2, <1>6, <1>7, Zenon DEF Served, ReplySent, SameCallsSent, SameCallsTaken, SameRepliesTaken
  <2> QED
    BY <1>2, <1>8, <2>1, <2>2, Zenon DEF Answered, Serving
<1>11. Travels(c)'
  <2>1. LineOf(c)' = l /\ id'[c] = i /\ stub'[c] = s
    BY <1>4, <1>5, <1>9, Zenon DEF LineOf
  <2> QED
    BY <1>10, <2>1, TravelsThen, Zenon DEF TravelsOn
<1>12. \A m \in Line \ {l} : LineKept(m)
  BY <1>1, <1>2, <1>7, <1>8, Zenon DEF LineKept, Serving, ReplySent, SameCallsSent, SameCallsTaken, SameRepliesTaken
<1>13. ResultOK(c)'
  <2>1. \A j : SameExecutions(j)
    BY <1>9, ExecutionsStay, Zenon
  <2> QED
    BY <1>9, <2>1, ResultKept, Zenon DEF JourneyOK
<1> QED
  BY <1>2, <1>4, <1>5, <1>9, <1>11, <1>12, <1>13, OneGoesOn, Zenon DEF Active

\* The calls go from stage to stage.
LEMMA JourneyStep ==
    ASSUME TypeOK, ServerOK, CallersOK, Next, ~reset => JourneyOK, ~reset'
    PROVE  JourneyOK'
<1>1. transport' = transport /\ auth' = auth
  BY ConnectionKept, Zenon
<1>2. ~Reset /\ (reset' = reset)
  <2>1. Reset \/ reset' = reset
    BY Zenon DEF Next, Environment, Reset, Disconnect, Invoke, ServerStep, Peek, ReceiveTcp, ReceiveTcpFails, Reply,
       ReplyFails, Remove, ReceiveQuic, CallerStep, Lock, SendCall, ReceiveReply, ReceiveEnds, ReceiveFails, Return
  <2> QED
    BY <2>1, Zenon DEF Reset
<1>3. ~reset /\ JourneyOK
  BY <1>2, Zenon
<1>4. ~ReceiveTcpFails /\ ~ReplyFails /\ \A c \in Caller : ~ReceiveFails(c)
  BY <1>3, Zenon DEF ReceiveTcpFails, ReplyFails, ReceiveFails
<1>5. \/ Idle \/ Reply \/ \E l \in Line : Takes(l)
      \/ \E c \in Caller : SendCall(c) \/ ReceiveReply(c) \/ ReceiveEnds(c)
  BY <1>2, <1>4, NextIs, Zenon DEF Silent, Idle
<1> QED
  BY <1>1, <1>3, <1>5, IdleStep, SendStep, ReceiveStep, EndStep, TakeStep, ReplyStep, Zenon

-----------------------------------------------------------------------------
(***************************************************************************)
(* The theorems.                                                           *)
(***************************************************************************)
\* The invariant holds initially ...
LEMMA SessionInit == Init => SessionInv
<1> SUFFICES ASSUME Init PROVE SessionInv
  BY Zenon
<1>1. /\ transport \in {"tcp", "quic"} /\ mutex = NULL /\ calls = 0
      /\ pc = [c \in Caller |-> "idle"] /\ id = [c \in Caller |-> 0] /\ stub = [c \in Caller |-> NULL]
      /\ returned = [c \in Caller |-> NULL] /\ reset = FALSE /\ client = "open" /\ socket = "open"
      /\ server = At("peek") /\ executed = <<>>
  BY Zenon DEF Init, ServerReady
<1>2. server \in ServerRecord /\ server.at = "peek"
  BY <1>1, AtIs, Zenon
<1>3. Shaped
  BY Zenon DEF Init, Shaped, OnChan
<1>4. \A l \in Line : /\ CallsSent(l) = <<>> /\ CallsTaken(l) = <<>>
                       /\ RepliesSent(l) = <<>> /\ RepliesTaken(l) = <<>>
  BY Zenon DEF Init, Chan, CallsSent, CallsTaken, RepliesSent, RepliesTaken
<1>5. TypeOK
  <2>1. CallersTyped
    BY <1>1, RpcSessionAssumption DEF CallersTyped
  <2>2. LinesTyped
    <3>1. \A S : <<>> \in Seq(S)
      OBVIOUS
    <3> QED
      BY <1>3, <1>4, <3>1, Zenon DEF LinesTyped
  <2>3. ServerTyped
    BY <1>1, <1>2 DEF ServerTyped, ServerRecord
  <2> QED
    BY <1>1, <2>1, <2>2, <2>3, Zenon DEF TypeOK
<1>6. ServerOK
  BY <1>1, <1>2, Zenon DEF ServerOK
<1>7. CallersOK
  BY <1>1, Zenon DEF CallersOK, Active
<1>8. MessagesOK
  BY <1>1, <1>4 DEF MessagesOK, TakenOK, NumberedOK, ExecutedOK
<1>9. JourneyOK
  BY <1>1, <1>2, <1>4 DEF JourneyOK, Quiet, Serving, ResultOK
<1> QED
  BY <1>5, <1>6, <1>7, <1>8, <1>9, Zenon DEF SessionInv

\* ... is kept by every step ...
LEMMA SessionStep == SessionInv /\ [Next]_vars => SessionInv'
<1> SUFFICES ASSUME SessionInv, [Next]_vars PROVE SessionInv'
  BY Zenon
<1>1. TypeOK /\ ServerOK /\ CallersOK /\ TakenOK /\ NumberedOK /\ ExecutedOK /\ (~reset => JourneyOK)
  BY Zenon DEF SessionInv, MessagesOK
<1>2. CASE Next
  <2>1. TypeOK' /\ ServerOK' /\ CallersOK'
    BY <1>1, <1>2, TypeStep, ServerOKStep, CallersOKStep, Zenon
  <2>2. TakenOK' /\ NumberedOK' /\ ExecutedOK'
    BY <1>1, <1>2, TakenStep, NumberedStep, ExecutedStep, Zenon
  <2>3. ~reset' => JourneyOK'
    BY <1>1, <1>2, JourneyStep, Zenon
  <2> QED
    BY <2>1, <2>2, <2>3, Zenon DEF SessionInv, MessagesOK
<1>3. CASE UNCHANGED vars
  <2>1. /\ UNCHANGED <<transport, auth, mutex, pc, stub, id, returned, calls, client>>
        /\ UNCHANGED <<server, socket, executed, input, output, reset>>
    BY <1>3, Zenon DEF vars, connection, caller_vars, server_vars
  <2>2. Shaped' /\ SameLines /\ AnyCall' = AnyCall
    BY <1>1, <2>1, KeepsLines, SameMessages, Zenon DEF TypeOK, LinesTyped
  <2>3. TypeOK'
    <3>1. CallersTyped'
      BY <1>1, <2>1, Zenon DEF TypeOK, CallersTyped
    <3>2. ServerTyped'
      BY <1>1, <2>1, Zenon DEF TypeOK, ServerTyped
    <3>3. LinesTyped'
      BY <1>1, <2>2, Zenon DEF TypeOK, LinesTyped, SameLines, SameCallsSent, SameCallsTaken, SameRepliesSent, SameRepliesTaken
    <3> QED
      BY <1>1, <2>1, <3>1, <3>2, <3>3, Zenon DEF TypeOK
  <2>4. ServerOK' /\ CallersOK'
    BY <1>1, <2>1, Zenon DEF ServerOK, Waiting, CallersOK, Active
  <2>5. TakenOK'
    BY <1>1, <2>2, Zenon DEF TakenOK, SameLines, SameCallsSent, SameCallsTaken
  <2>6. NumberedOK'
    BY <1>1, <2>1, <2>2 DEF NumberedOK, SameLines, SameCallsSent
  <2>7. ExecutedOK'
    BY <1>1, <2>1, <2>2 DEF ExecutedOK, SameLines, SameCallsTaken
  <2>8. ASSUME ~reset' PROVE JourneyOK'
    <3>1. JourneyOK /\ (\A l \in Line : LineKept(l)) /\ \A i : SameExecutions(i)
      BY <1>1, <2>1, <2>2, <2>8, LineStays, ExecutionsStay, Zenon
         DEF SameLines, SameCallsSent, SameCallsTaken, SameRepliesSent, SameRepliesTaken
    <3>2. ASSUME NEW c \in Caller, pc'[c] = "receive" PROVE Travels(c)'
      <4>1. PICK l \in Line : l = LineOf(c)
        BY LineIs, Zenon
      <4>2. CallerKept(c, l)
        BY <2>1, <3>1, <4>1, Zenon DEF CallerKept
      <4> QED
        BY <2>1, <3>1, <3>2, <4>2, TravelsKept, Zenon DEF JourneyOK
    <3>3. ASSUME NEW l \in Line, NobodyWaits(l)' PROVE Quiet(l)'
      <4>1. NobodyWaits(l)
        BY <2>1, <3>3, Zenon DEF NobodyWaits, LineOf
      <4> QED
        BY <3>1, <4>1, QuietKept, Zenon DEF JourneyOK
    <3>4. \A c \in Caller : pc'[c] \in {"lock", "send"} => Executions(id[c])' = {}
      BY <2>1, <3>1, Zenon DEF JourneyOK, Executions
    <3>5. \A k \in DOMAIN executed' : executed'[k] <= calls'
      BY <2>1, <3>1, Zenon DEF JourneyOK
    <3>6. \A c \in Caller : ResultOK(c)'
      BY <2>1, <3>1, ResultKept, Zenon DEF JourneyOK
    <3> QED
      BY <3>2, <3>3, <3>4, <3>5, <3>6, Zenon DEF JourneyOK
  <2> QED
    BY <2>3, <2>4, <2>5, <2>6, <2>7, <2>8, Zenon DEF SessionInv, MessagesOK
<1> QED
  BY <1>2, <1>3, Zenon

\* ... and so always holds.
LEMMA SessionSafety == Spec => []SessionInv
BY SessionInit, SessionStep, PTL DEF Spec

\* A stub that returns 0 has the results of its own call, executed exactly once, and
\* a call that the server refuses was not executed: for any number of threads, any
\* calls and any credential, until the connection is reset.
THEOREM ResultSafety == Spec => []OwnResult
<1>1. SessionInv => OwnResult
  BY Zenon DEF SessionInv, JourneyOK, ResultOK, OwnResult, Once, Executions
<1> QED
  BY <1>1, SessionSafety, PTL

\* Nothing but a NULL procedure is executed for a client that gave no group, and only
\* a NULL procedure's stub crashes its client, also when the connection is reset.
THEOREM CredentialSafety == Spec => []OnlyNullForAnyone
<1>1. SessionInv => OnlyNullForAnyone
  <2> SUFFICES ASSUME SessionInv PROVE OnlyNullForAnyone
    BY Zenon
  <2>1. TypeOK /\ CallersOK /\ TakenOK /\ NumberedOK /\ ExecutedOK
    BY Zenon DEF SessionInv, MessagesOK
  <2>2. ASSUME NEW i \in DOMAIN executed, NEW l \in Line, NEW m \in DOMAIN CallsTaken(l),
               CallsTaken(l)[m].id = executed[i], CallsTaken(l)[m].proc # 0
        PROVE  CallsTaken(l)[m].credential.gids > 0
    <3>1. i \in 1..Len(executed) /\ m \in 1..Len(CallsTaken(l))
      BY <2>1, CallTyped DEF TypeOK, ServerTyped
    <3>2. PICK k \in Line : \E j \in 1..Len(CallsTaken(k)) :
             /\ CallsTaken(k)[j].id = executed[i]
             /\ CallsTaken(k)[j].proc # 0 => CallsTaken(k)[j].credential.gids > 0
      BY <2>1, <3>1, Zenon DEF ExecutedOK
    <3>3. PICK j \in 1..Len(CallsTaken(k)) :
             /\ CallsTaken(k)[j].id = executed[i]
             /\ CallsTaken(k)[j].proc # 0 => CallsTaken(k)[j].credential.gids > 0
      BY <3>2, Zenon
    <3>4. /\ CallsTaken(k)[j] = CallsSent(k)[j] /\ j \in 1..Len(CallsSent(k))
          /\ CallsTaken(l)[m] = CallsSent(l)[m] /\ m \in 1..Len(CallsSent(l))
      BY <2>1, <3>1, CallTyped DEF TakenOK
    <3>5. CallsSent(k)[j] = CallsSent(l)[m]
      BY <2>1, <2>2, <3>3, <3>4 DEF NumberedOK
    <3> QED
      BY <2>2, <3>3, <3>4, <3>5, Zenon
  <2>3. client = "crashed" => \E c \in Caller : pc[c] = "receive" /\ stub[c].proc = 0
    BY <2>1, Zenon DEF CallersOK
  <2> QED
    BY <2>2, <2>3, Zenon DEF OnlyNullForAnyone, CallsTaken
<1> QED
  BY <1>1, SessionSafety, PTL

-----------------------------------------------------------------------------
(***************************************************************************)
(* The lines are used as the channels of RecordChannel.                    *)
(***************************************************************************)
\* What the channels' variables stand for
Ids(q) == [k \in DOMAIN q |-> q[k].id]
Breaks(ch) == reset \/ client # "open" \/ ServerGone \/ (ch = <<"call", "tcp">> /\ GivingUp)

\* Only a server that has a reply to send has met an error and not given up yet.
ErrorOK == server.error => server.at = "reply"

\* ErrorOK holds initially ...
LEMMA ErrorInit == Init => ErrorOK
BY AtIs, Zenon DEF Init, ServerReady, ErrorOK

\* ... and is kept.
LEMMA ErrorStep == ASSUME TypeOK, ServerOK, ErrorOK, [Next]_vars PROVE ErrorOK'
<1>1. CASE server' = server
  BY <1>1, Zenon DEF ErrorOK
<1>2. CASE \E place \in {"peek", "receive", "remove", "ended", "killed"} : server' = At(place)
  BY <1>2, AtIs, Zenon DEF ErrorOK
<1>3. CASE \E l \in Line : Takes(l)
  BY <1>3, TakesAnswers DEF AnswersCall, ErrorOK
<1>4. CASE ReceiveTcpFails
  BY <1>2, <1>4, FailsAnswers DEF AnswersCall, ErrorOK
<1>5. CASE Peek \/ Reply \/ ReplyFails \/ Remove
  BY <1>2, <1>5, Zenon DEF Peek, Reply, ReplyFails, Remove, ServerReady
<1> QED
  BY <1>1, <1>3, <1>4, <1>5, ServerMovesOr, Zenon DEF ServerMoves, vars, server_vars

\* A server's thread that has ended stays so ...
LEMMA GoneStays == ASSUME TypeOK, ServerOK, Next, ServerGone PROVE ServerGone'
<1>1. server.at \in {"ended", "killed"} /\ transport = "tcp" /\ transport' = transport
  BY ConnectionKept, Zenon DEF ServerGone, ServerOK
<1>2. ~ServerMoves
  BY <1>1, TakesOn, Zenon DEF ServerMoves, Peek, ReceiveTcpFails, Reply, ReplyFails, Remove
<1> QED
  BY <1>1, <1>2, ServerMovesOr, Zenon DEF ServerGone, server_vars

\* ... and one that gives up ends.
LEMMA GivesUp ==
    ASSUME TypeOK, ServerOK, ErrorOK, Next, GivingUp PROVE GivingUp' \/ ServerGone'
<1>1. server.at \in {"reply", "remove"} /\ transport = "tcp" /\ transport' = transport
  BY ConnectionKept, Zenon DEF GivingUp, ErrorOK
<1>2. CASE UNCHANGED server_vars
  BY <1>1, <1>2, Zenon DEF GivingUp, server_vars
<1>3. CASE ServerMoves
  <2>1. (Reply /\ server.error) \/ (ReplyFails /\ server.error) \/ Remove
    BY <1>1, <1>3, TakesOn, Zenon DEF ServerMoves, Peek, ReceiveTcpFails, Reply, ReplyFails, Remove, GivingUp
  <2>2. server' \in {At("remove"), At("ended"), At("killed")}
    BY <1>1, <2>1, Zenon DEF Reply, ReplyFails, Remove
  <2> QED
    BY <1>1, <2>2, AtIs, Zenon DEF GivingUp, ServerGone
<1> QED
  BY <1>2, <1>3, ServerMovesOr, Zenon

\* A connection that is reset or closed by the client stays so.
LEMMA ClosedStays == ASSUME TypeOK, Next, reset \/ client # "open" PROVE reset' \/ client' # "open"
<1>1. reset => reset'
  BY Zenon DEF Next, Environment, Reset, Disconnect, Invoke, ServerStep, Peek, ReceiveTcp, ReceiveTcpFails, Reply,
     ReplyFails, Remove, ReceiveQuic, CallerStep, Lock, SendCall, ReceiveReply, ReceiveEnds, ReceiveFails, Return
<1>2. client # "open" => client' = client
  BY CallerMoves, Zenon DEF caller_vars, Disconnect, Invoke, Lock, SendCall, ReturnsFrom
<1> QED
  BY <1>1, <1>2, Zenon

\* What is broken stays broken.
LEMMA BrokenStays ==
    ASSUME TypeOK, ServerOK, ErrorOK, Next, NEW ch, Breaks(ch) PROVE Breaks(ch)'
BY GoneStays, GivesUp, ClosedStays, Zenon DEF Breaks

\* Channels break, and nothing happens on the others.
LEMMA IsBreak ==
    ASSUME \A ch \in Chan : Breaks(ch) => Breaks(ch)',
           \A ch \in Chan : Breaks(ch)' \/ (input'[ch] = input[ch] /\ output'[ch] = output[ch])
    PROVE  Channel!Break
BY Zenon DEF Channel!Break, Breaks

\* A message more is a number more.
LEMMA IdsAppend ==
    ASSUME NEW S, NEW q \in Seq(S), NEW m PROVE Ids(Append(q, m)) = Append(Ids(q), m.id)
<1>1. /\ DOMAIN q = 1..Len(q) /\ Len(q) \in Nat /\ DOMAIN Append(q, m) = 1..(Len(q) + 1)
      /\ \A k \in 1..Len(q) : Append(q, m)[k] = q[k]
      /\ Append(q, m)[Len(q) + 1] = m
  OBVIOUS
<1>2. Ids(q) \in Seq({q[k].id : k \in 1..Len(q)}) /\ Len(Ids(q)) = Len(q)
  BY <1>1 DEF Ids
<1> QED
  BY <1>1, <1>2 DEF Ids

\* A message sent on a line that the other end has read to the end
LEMMA IsSend ==
    ASSUME OnChan(input), NEW ch \in Chan, NEW S, input[ch] \in Seq(S), NEW m, m.id \in 1..MaxCalls,
           input' = [input EXCEPT ![ch] = Append(@, m)], output' = output, input[ch] = output[ch],
           ~Breaks(ch), \A k \in Chan : Breaks(k)' <=> Breaks(k)
    PROVE  Channel!Send(ch)
<1> DEFINE in == [k \in Chan |-> Ids(input[k])]
<1>1. in' = [in EXCEPT ![ch] = Append(@, m.id)]
  <2>1. Ids(input'[ch]) = Append(in[ch], m.id) /\ \A k \in Chan \ {ch} : Ids(input'[k]) = in[k]
    BY IdsAppend, Zenon DEF OnChan
  <2> QED
    BY <2>1, Zenon
<1> QED
  BY <1>1, Zenon DEF Channel!Send, Breaks, Ids

\* A message received
LEMMA IsDeliver ==
    ASSUME OnChan(output), NEW ch \in Chan, NEW S, input[ch] \in Seq(S), output[ch] \in Seq(S),
           Len(output[ch]) < Len(input[ch]),
           output' = [output EXCEPT ![ch] = Append(@, input[ch][Len(output[ch]) + 1])], input' = input,
           ~Breaks(ch), \A k \in Chan : Breaks(k)' <=> Breaks(k)
    PROVE  Channel!Deliver(ch)
<1> DEFINE out == [k \in Chan |-> Ids(output[k])]
           m == input[ch][Len(output[ch]) + 1]
<1>1. out' = [out EXCEPT ![ch] = Append(@, m.id)]
  <2>1. Ids(output'[ch]) = Append(out[ch], m.id) /\ \A k \in Chan \ {ch} : Ids(output'[k]) = out[k]
    BY IdsAppend, Zenon DEF OnChan
  <2> QED
    BY <2>1, Zenon
<1>2. Len(Ids(output[ch])) = Len(output[ch]) /\ Len(Ids(input[ch])) = Len(input[ch])
  BY DEF Ids
<1>3. Ids(input[ch])[Len(output[ch]) + 1] = m.id
  BY DEF Ids
<1> QED
  BY <1>1, <1>2, <1>3, Zenon DEF Channel!Deliver, Breaks, Ids

\* A silent step breaks channels at most.
LEMMA SilentUses == ASSUME TypeOK, ServerOK, ErrorOK, Next, Silent PROVE Channel!Break
<1>1. input' = input /\ output' = output
  BY Zenon DEF Silent, Disconnect, Reset, Peek, ReceiveTcpFails, ReplyFails, Remove, Invoke, Lock, ReceiveEnds,
     ReceiveFails, Return
<1> QED
  BY <1>1, BrokenStays, IsBreak, Zenon

\* A step that touches one channel, if this has broken or breaks
LEMMA BrokenUses ==
    ASSUME TypeOK, ServerOK, ErrorOK, Next, NEW ch, Breaks(ch)',
           \A k \in Chan \ {ch} : input'[k] = input[k] /\ output'[k] = output[k]
    PROVE  Channel!Break
BY BrokenStays, IsBreak, Zenon

\* A line carries messages both ways.
LEMMA TwoWays == \A l \in Line : <<"call", l>> \in Chan /\ <<"reply", l>> \in Chan
BY Zenon DEF Chan

\* SendCall is a Send on the caller's line or happens on a broken one.
LEMMA SendUses ==
    ASSUME SessionInv, ErrorOK, Next, NEW c \in Caller, SendCall(c) PROVE Channel!Next
<1>1. TypeOK /\ ServerOK /\ CallersOK /\ (~reset => JourneyOK) /\ OnChan(input) /\ OnChan(output)
  BY Zenon DEF SessionInv, TypeOK, LinesTyped, Shaped
<1>2. PICK l, ch : l \in Line /\ l = LineOf(c) /\ ch = <<"call", l>> /\ ch \in Chan
  <2>1. LineOf(c) \in Line /\ <<"call", LineOf(c)>> \in Chan
    BY LineIs, TwoWays, Zenon
  <2> QED
    BY <2>1, Zenon
<1>3. CASE reset \/ ServerGone
  <2>1. input' = input /\ output' = output
    BY <1>3, Zenon DEF SendCall
  <2> QED
    BY <1>1, <2>1, BrokenStays, IsBreak, Zenon DEF Channel!Next
<1>4. CASE ~(reset \/ ServerGone)
  <2>1. input' = [input EXCEPT ![ch] = Append(@, CallMessage(c))] /\ output' = output
    BY <1>2, <1>4, Zenon DEF SendCall
  <2>2. CASE Breaks(ch)
    <3>1. Breaks(ch)'
      BY <1>1, <2>2, BrokenStays, Zenon
    <3> QED
      BY <1>1, <2>1, <3>1, BrokenUses, Zenon DEF OnChan, Channel!Next
  <2>3. CASE ~Breaks(ch)
    <3>1. Active(c) /\ pc[c] = "send" /\ transport \in {"tcp", "quic"}
      BY <1>1, Zenon DEF SendCall, Active, TypeOK
    <3>2. NobodyWaits(l)
      <4>1. \A d \in Caller : pc[d] = "receive" /\ LineOf(d) = l => d = c
        BY <1>1, <1>2, <3>1, OneWaits, Zenon DEF Active
      <4> QED
        BY <3>1, <4>1, Zenon DEF NobodyWaits
    <3>3. server.at # "ended"
      BY <1>1, <1>4, <3>1, Zenon DEF ServerGone, ServerOK
    <3>4. CallsSent(l) = CallsTaken(l)
      BY <1>1, <1>2, <1>4, <3>2, <3>3, Zenon DEF JourneyOK, Quiet
    <3>5. input[ch] = output[ch] /\ input[ch] \in Seq(AnyCall)
      BY <1>1, <1>2, <3>4, CallTyped, Zenon DEF CallsSent, CallsTaken
    <3>6. CallMessage(c).id \in 1..MaxCalls
      BY <1>1, <3>1, RpcSessionAssumption DEF TypeOK, CallersTyped, CallMessage
    <3>7. \A k \in Chan : Breaks(k)' <=> Breaks(k)
      BY Zenon DEF SendCall, Breaks, ServerGone, GivingUp, connection, server_vars
    <3> QED
      BY <1>1, <1>2, <2>1, <2>3, <3>5, <3>6, <3>7, IsSend, Zenon DEF Channel!Next
  <2> QED
    BY <2>2, <2>3, Zenon
<1> QED
  BY <1>3, <1>4, Zenon

\* ReceiveReply is a Deliver ...
LEMMA ReceiveUses ==
    ASSUME SessionInv, ErrorOK, Next, NEW c \in Caller, ReceiveReply(c) PROVE Channel!Next
<1>1. TypeOK /\ ServerOK /\ OnChan(input) /\ OnChan(output)
  BY Zenon DEF SessionInv, TypeOK, LinesTyped, Shaped
<1>2. PICK l, ch : l \in Line /\ l = LineOf(c) /\ ch = <<"reply", l>> /\ ch \in Chan
  <2>1. LineOf(c) \in Line /\ <<"reply", LineOf(c)>> \in Chan
    BY LineIs, TwoWays, Zenon
  <2> QED
    BY <2>1, Zenon
<1>3. /\ output' = [output EXCEPT ![ch] = Append(@, input[ch][Len(output[ch]) + 1])] /\ input' = input
      /\ Len(output[ch]) < Len(input[ch]) /\ Return(c, NextReply(l).reply)
  BY <1>2, Zenon DEF ReceiveReply, Return, Waiting, NextMessage, NextReply, RepliesSent, RepliesTaken
<1>4. CASE Breaks(ch)
  <2>1. Breaks(ch)'
    BY <1>1, <1>4, BrokenStays, Zenon
  <2> QED
    BY <1>1, <1>3, <2>1, BrokenUses, Zenon DEF OnChan, Channel!Next
<1>5. CASE ~Breaks(ch)
  <2>1. input[ch] \in Seq(ReplyMessage) /\ output[ch] \in Seq(ReplyMessage)
    BY <1>1, <1>2, Zenon DEF TypeOK, LinesTyped, RepliesSent, RepliesTaken
  <2>2. NextReply(l) \in ReplyMessage
    BY <1>2, <1>3, <2>1 DEF NextReply, RepliesSent, RepliesTaken
  <2>3. NextReply(l).reply # NULL
    BY <2>2, RpcSessionAssumption, Zenon DEF ReplyMessage
  <2>4. client' = client
    BY <1>3, <2>3, Zenon DEF Return, StubCrashes
  <2>5. \A k \in Chan : Breaks(k)' <=> Breaks(k)
    BY <1>3, <2>4, Zenon DEF Return, Breaks, ServerGone, GivingUp, connection, server_vars
  <2> QED
    BY <1>1, <1>2, <1>3, <1>5, <2>1, <2>5, IsDeliver, Zenon DEF Channel!Next
<1> QED
  BY <1>4, <1>5, Zenon

\* ... and so is the receipt of a call.
LEMMA TakeUses ==
    ASSUME SessionInv, ErrorOK, Next, NEW l \in Line, Takes(l) PROVE Channel!Next
<1>1. TypeOK /\ ServerOK /\ OnChan(input) /\ OnChan(output)
  BY Zenon DEF SessionInv, TypeOK, LinesTyped, Shaped
<1>2. PICK ch : ch = <<"call", l>> /\ ch \in Chan
  BY TwoWays, Zenon
<1>3. /\ output' = [output EXCEPT ![ch] = Append(@, input[ch][Len(output[ch]) + 1])] /\ input' = input
      /\ client' = client /\ reset' = reset /\ transport' = transport /\ socket' = socket
  BY <1>2, Zenon DEF Takes, ReceiveTcp, ReceiveQuic, NextMessage, caller_vars, connection
<1>4. CASE Breaks(ch)'
  BY <1>1, <1>3, <1>4, BrokenUses, Zenon DEF OnChan, Channel!Next
<1>5. CASE ~Breaks(ch)'
  <2>1. ~Breaks(ch)
    BY <1>1, <1>5, BrokenStays, Zenon
  <2>2. /\ input[ch] \in Seq(AnyCall) /\ output[ch] \in Seq(AnyCall)
        /\ Len(output[ch]) < Len(input[ch])
    BY <1>1, <1>2, CallTyped, TakesWaiting, Zenon DEF CallsSent, CallsTaken
  <2>3. ASSUME NEW k \in Chan PROVE ~Breaks(k) /\ ~Breaks(k)'
    <3>1. CASE k = ch
      BY <1>5, <2>1, <3>1, Zenon
    <3>2. CASE k # ch
      <4>1. k # <<"call", "tcp">> \/ transport # "tcp"
        BY <1>1, <1>2, <3>2, TakesOn, Zenon
      <4> QED
        BY <1>3, <1>5, <2>1, <4>1, Zenon DEF Breaks, GivingUp
    <3> QED
      BY <3>1, <3>2, Zenon
  <2> QED
    BY <1>1, <1>2, <1>3, <2>1, <2>2, <2>3, IsDeliver, Zenon DEF Channel!Next
<1> QED
  BY <1>4, <1>5, Zenon

\* Reply is a Send.
LEMMA ReplyUses == ASSUME SessionInv, ErrorOK, Next, Reply PROVE Channel!Next
<1>1. TypeOK /\ ServerOK /\ ~reset /\ JourneyOK /\ OnChan(input) /\ OnChan(output)
  BY Zenon DEF SessionInv, TypeOK, LinesTyped, Shaped, Reply
<1>2. PICK l, ch : l = server.line /\ l \in Line /\ ch = <<"reply", l>> /\ ch \in Chan
  BY <1>1 DEF Chan, Reply, ServerOK
<1> DEFINE m == [id |-> server.id, reply |-> server.reply]
<1>3. /\ input' = [input EXCEPT ![ch] = Append(@, m)] /\ output' = output
      /\ server.at = "reply" /\ m.id \in 1..MaxCalls
  BY <1>1, <1>2, Zenon DEF Reply, ServerOK
<1> HIDE DEF m
<1>4. CASE Breaks(ch)
  <2>1. Breaks(ch)'
    BY <1>1, <1>4, BrokenStays, Zenon
  <2> QED
    BY <1>1, <1>3, <2>1, BrokenUses, Zenon DEF OnChan, Channel!Next
<1>5. CASE ~Breaks(ch)
  <2>1. Serving(l)
    BY <1>2, <1>3, Zenon DEF Serving
  <2>2. PICK c \in Caller : pc[c] = "receive" /\ LineOf(c) = l /\ Travels(c)
    BY <1>1, <1>2, <1>3, <2>1, SomebodyWaits, Zenon DEF Quiet
  <2>3. RepliesSent(l) = RepliesTaken(l)
    BY <2>1, <2>2, TravelsNow, Zenon DEF TravelsOn, Unsent, Sent, Served, Answered
  <2>4. input[ch] = output[ch] /\ input[ch] \in Seq(ReplyMessage)
    BY <1>1, <1>2, <2>3, Zenon DEF RepliesSent, RepliesTaken, TypeOK, LinesTyped
  <2>5. ~ServerGone /\ ~ServerGone'
    <3>1. server'.at \in {"remove", "peek"} /\ socket' = socket
      BY AtIs, Zenon DEF Reply, ServerReady
    <3> QED
      BY <1>1, <1>3, <3>1, Zenon DEF ServerGone, ServerOK
  <2>6. GivingUp' <=> GivingUp
    <3>1. transport' = transport
      BY ConnectionKept, Zenon
    <3>2. CASE server.error /\ transport = "tcp"
      BY <3>1, <3>2, AtIs, Zenon DEF Reply, GivingUp
    <3>3. CASE ~(server.error /\ transport = "tcp")
      BY <1>3, <3>1, <3>3, AtIs, Zenon DEF Reply, ServerReady, GivingUp
    <3> QED
      BY <3>2, <3>3, Zenon
  <2>7. client' = client /\ reset' = reset
    BY Zenon DEF Reply, caller_vars
  <2>8. \A k \in Chan : Breaks(k)' <=> Breaks(k)
    BY <2>5, <2>6, <2>7, Zenon DEF Breaks
  <2> QED
    BY <1>1, <1>2, <1>3, <1>5, <2>4, <2>8, IsSend, Zenon DEF Channel!Next
<1> QED
  BY <1>4, <1>5, Zenon

\* The safety part of UsesChannel: whatever the threads and the server do is a step of
\* RecordChannel on their lines or leaves these alone.  Nobody sends on a line before
\* the other end has received what was sent before.
THEOREM ChannelSafety == Spec => Channel!Init /\ [][Channel!Next]_(Channel!vars)
<1>1. Init => Channel!Init
  <2> SUFFICES ASSUME Init PROVE Channel!Init
    BY Zenon
  <2>1. Ids(<<>>) = <<>>
    BY DEF Ids
  <2>2. \A ch \in Chan : Ids(input[ch]) = <<>> /\ Ids(output[ch]) = <<>>
    BY <2>1, Zenon DEF Init
  <2>3. \A ch \in Chan : ~Breaks(ch)
    <3>1. server.at = "peek" /\ server.error = FALSE
      BY AtIs, Zenon DEF Init, ServerReady
    <3> QED
      BY <3>1, Zenon DEF Init, Breaks, ServerGone, GivingUp
  <2> QED
    BY <2>2, <2>3, Zenon DEF Channel!Init, Ids, Breaks
<1>2. SessionInv /\ ErrorOK /\ [Next]_vars => [Channel!Next]_(Channel!vars)
  <2> SUFFICES ASSUME SessionInv, ErrorOK, [Next]_vars PROVE [Channel!Next]_(Channel!vars)
    BY Zenon
  <2>1. TypeOK /\ ServerOK
    BY Zenon DEF SessionInv
  <2>2. CASE Next
    BY <2>1, <2>2, NextIs, SilentUses, SendUses, ReceiveUses, TakeUses, ReplyUses, Zenon DEF Channel!Next
  <2>3. CASE UNCHANGED vars
    BY <2>3, Zenon DEF vars, connection, caller_vars, server_vars, Channel!vars, ServerGone, GivingUp
  <2> QED
    BY <2>2, <2>3, Zenon
<1>3. SessionInv /\ ErrorOK /\ [Next]_vars => ErrorOK'
  BY ErrorStep, Zenon DEF SessionInv
<1> QED
  BY <1>1, <1>2, <1>3, ErrorInit, SessionSafety, PTL DEF Spec
=============================================================================
