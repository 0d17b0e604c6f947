----------------------------- MODULE RpcMessages -----------------------------
(***************************************************************************)
(* RPC messages and what both ends make of them: the credentials of a      *)
(* connection (src/authentication), the checks and the dispatch of a call  *)
(* on the server (src/transport, src/nfs/server), the replies it builds    *)
(* and the checks of a reply on the client (src/common_rpc), and the stubs *)
(* that make the calls (src/nfs/clients).                                  *)
(*                                                                         *)
(* A message is a record of what these checks look at.  The values inside  *)
(* an Any are represented by the call they belong to.  A oneof field of a  *)
(* received message is NULL exactly if its case says something else, so    *)
(* one field stands for the case and the pointer.                          *)
(***************************************************************************)
EXTENDS Naturals, Integers

CONSTANTS MAX_N_GIDS,  \* the groups a credential has room for
          NULL

Smaller(a, b) == IF a < b THEN a ELSE b

-----------------------------------------------------------------------------
(***************************************************************************)
(* Credentials.                                                            *)
(***************************************************************************)
create_auth_none_opaque_auth == [flavor |-> "AUTH_NONE", body |-> "empty", gids |-> 0]

create_auth_sys_opaque_auth(number_of_gids) ==
    [flavor |-> "AUTH_SYS", body |-> "auth_sys", gids |-> Smaller(number_of_gids, MAX_N_GIDS)]

\* An empty repeated field is unpacked as a NULL pointer.
CredentialAccepted(credential) ==
    \/ credential.flavor = "AUTH_NONE" /\ credential.body = "empty"
    \/ credential.flavor = "AUTH_SYS" /\ credential.body = "auth_sys" /\ credential.gids > 0

VerifierAccepted(verifier) == verifier.flavor = "AUTH_NONE" /\ verifier.body = "empty"

AuthStat(credential, verifier) ==
    IF credential = NULL \/ ~CredentialAccepted(credential) THEN "AUTH_BADCRED"
    ELSE IF verifier = NULL \/ ~VerifierAccepted(verifier) THEN "AUTH_BADVERF"
    ELSE "AUTH_OK"

validate_credential_and_verifier_tcp(credential, verifier) == AuthStat(credential, verifier)

validate_credential_and_verifier_quic(credential, verifier) == AuthStat(credential, verifier)

-----------------------------------------------------------------------------
(***************************************************************************)
(* Replies, as the server builds them.                                     *)
(***************************************************************************)
AcceptedReply(accept_stat, data_case, results) ==
    [stat |-> "MSG_ACCEPTED", detail |-> accept_stat, verifier |-> create_auth_none_opaque_auth,
     data_case |-> data_case, results |-> results]

RejectedReply(reject_stat, data_case, auth_stat) ==
    [stat |-> "MSG_DENIED", detail |-> reject_stat, verifier |-> NULL,
     data_case |-> data_case, results |-> auth_stat]

wrap_procedure_results_in_successful_accepted_reply(type_url, id) ==
    AcceptedReply("SUCCESS", "results", [type_url |-> type_url, of |-> id])

create_prog_mismatch_accepted_reply == AcceptedReply("PROG_MISMATCH", "mismatch_info", NULL)

create_default_case_accepted_reply(accept_stat) == AcceptedReply(accept_stat, "default_case", NULL)

create_rpc_mismatch_rejected_reply == RejectedReply("RPC_MISMATCH", "mismatch_info", NULL)

create_auth_error_rejected_reply(auth_stat) == RejectedReply("AUTH_ERROR", "auth_stat", auth_stat)

-----------------------------------------------------------------------------
(***************************************************************************)
(* The server: which procedure a call reaches, and what it answers.        *)
(***************************************************************************)
Procedure(proc, params, results) == [proc |-> proc, params |-> params, results |-> results]

\* The parameters each procedure tests for and the results it answers with; the NULL
\* procedures test nothing.
call_nfs ==
    {Procedure(0, NULL, "nfs/None"), Procedure(1, "nfs/FHandle", "nfs/AttrStat"),
     Procedure(2, "nfs/SAttrArgs", "nfs/AttrStat"), Procedure(4, "nfs/DirOpArgs", "nfs/DirOpRes"),
     Procedure(5, "nfs/FHandle", "nfs/ReadLinkRes"), Procedure(6, "nfs/ReadArgs", "nfs/ReadRes"),
     Procedure(8, "nfs/WriteArgs", "nfs/AttrStat"), Procedure(9, "nfs/CreateArgs", "nfs/DirOpRes"),
     Procedure(10, "nfs/DirOpArgs", "nfs/NfsStat"), Procedure(11, "nfs/RenameArgs", "nfs/NfsStat"),
     Procedure(12, "nfs/LinkArgs", "nfs/NfsStat"), Procedure(13, "nfs/SymLinkArgs", "nfs/NfsStat"),
     Procedure(14, "nfs/CreateArgs", "nfs/DirOpRes"), Procedure(15, "nfs/DirOpArgs", "nfs/NfsStat"),
     Procedure(16, "nfs/ReadDirArgs", "nfs/ReadDirRes"), Procedure(17, "nfs/FHandle", "nfs/StatFsRes")}

call_mount == {Procedure(0, NULL, "mount/None"), Procedure(1, "mount/DirPath", "mount/FhStatus")}

\* How a procedure may end: with results, because its arguments are not what it expects,
\* or because something went wrong at the server.
Outcome == {"SUCCESS", "GARBAGE_ARGS", "SYSTEM_ERR"}

\* The procedure the call reaches, as a set of at most one
Reached(call) ==
    LET program == CASE call.prog = "MOUNT" -> call_mount
                     [] call.prog = "NFS"   -> call_nfs
                     [] OTHER               -> {}
    IN  IF call.vers = 2 THEN {p \in program : p.proc = call.proc} ELSE {}

\* The ways in which the procedure may answer this call.
Outcomes(call) ==
    IF Reached(call) = {} THEN {"NOT_REACHED"}
    ELSE LET p == CHOOSE p \in Reached(call) : TRUE
         IN  CASE p.params = NULL        -> {"SUCCESS"}
               [] p.params = call.params -> Outcome
               [] OTHER                  -> {"GARBAGE_ARGS"}

\* The procedure has done what it is there for.
Executes(call, outcome) == Reached(call) # {} /\ outcome = "SUCCESS"

forward_rpc_call_to_program(call, outcome) ==
    CASE call.prog \notin {"MOUNT", "NFS"} -> create_default_case_accepted_reply("PROG_UNAVAIL")
      [] call.prog \in {"MOUNT", "NFS"} /\ call.vers # 2 -> create_prog_mismatch_accepted_reply
      [] call.prog \in {"MOUNT", "NFS"} /\ call.vers = 2 /\ Reached(call) = {} ->
            create_default_case_accepted_reply("PROC_UNAVAIL")
      [] OTHER ->
            IF outcome = "SUCCESS"
            THEN wrap_procedure_results_in_successful_accepted_reply(
                    (CHOOSE p \in Reached(call) : TRUE).results, call.id)
            ELSE create_default_case_accepted_reply(outcome)

-----------------------------------------------------------------------------
\* What the server does with a received message: the reply (NULL: none), whether the
\* program was called and whether the handler reports an error to its caller.
Handled(reply, called, error) == [reply |-> reply, called |-> called, error |-> error]

\* Only the NULL procedures may be called with AUTH_NONE.
TooWeak(call) == call.credential.flavor = "AUTH_NONE" /\ call.proc # 0

\* The checks common to both transports, with the result of theirs of the credential
Process(message, auth_stat, outcome) ==
    CASE message.mtype # "CALL" -> Handled(NULL, FALSE, TRUE)
      [] message.mtype = "CALL" /\ message.rpcvers # 2 ->
            Handled(create_rpc_mismatch_rejected_reply, FALSE, FALSE)
      [] message.mtype = "CALL" /\ message.rpcvers = 2 /\ auth_stat # "AUTH_OK" ->
            Handled(create_auth_error_rejected_reply(auth_stat), FALSE, TRUE)
      [] message.mtype = "CALL" /\ message.rpcvers = 2 /\ auth_stat = "AUTH_OK" ->
            IF TooWeak(message)
            THEN Handled(create_auth_error_rejected_reply("AUTH_TOOWEAK"), FALSE, FALSE)
            ELSE Handled(forward_rpc_call_to_program(message, outcome), TRUE, FALSE)

\* Mutant: a call without groups in its credential is forwarded.
process_single_rpc_tcp_anyone(message, outcome) == Process(message, "AUTH_OK", outcome)

process_single_rpc_tcp(message, outcome) ==
    Process(message, validate_credential_and_verifier_tcp(message.credential, message.verifier), outcome)

handle_client_quic(message, outcome) ==
    Process(message, validate_credential_and_verifier_quic(message.credential, message.verifier), outcome)

-----------------------------------------------------------------------------
(***************************************************************************)
(* The client: what it makes of a reply.  NULL is no reply.                *)
(***************************************************************************)
\* Each kind of reply comes with the data that belongs to it.
validate_rpc_reply_structure(reply) ==
    /\ reply # NULL
    /\ \/ reply.stat = "MSG_DENIED" /\ reply.detail = "RPC_MISMATCH" /\ reply.data_case = "mismatch_info"
       \/ reply.stat = "MSG_DENIED" /\ reply.detail = "AUTH_ERROR" /\ reply.data_case = "auth_stat"
       \/ /\ reply.stat = "MSG_ACCEPTED" /\ VerifierAccepted(reply.verifier)
          /\ reply.data_case = CASE reply.detail = "SUCCESS"       -> "results"
                                 [] reply.detail = "PROG_MISMATCH" -> "mismatch_info"
                                 [] OTHER                          -> "default_case"

validate_successful_accepted_reply(reply) ==
    IF ~validate_rpc_reply_structure(reply) THEN 1
    ELSE CASE reply.detail = "RPC_MISMATCH"  -> 2
           [] reply.detail = "AUTH_ERROR"    -> 3
           [] reply.detail = "SUCCESS"       -> 0
           [] reply.detail = "PROG_MISMATCH" -> 4
           [] OTHER                          -> 5

\* What a stub returns; 0 comes with the results.
StubReturns(stub, reply) ==
    IF validate_successful_accepted_reply(reply) > 0 THEN validate_successful_accepted_reply(reply)
    ELSE IF reply.results.type_url # stub.results THEN -2
    ELSE 0

\* The stubs of the NULL procedures read the reply's body before they look at the error.
StubCrashes(stub, reply) == stub.proc = 0 /\ reply = NULL

\* A stub: the procedure it calls, its parameters and the results it expects.
Stub(prog, proc, params, results) ==
    [rpcvers |-> 2, prog |-> prog, vers |-> 2, proc |-> proc, params |-> params, results |-> results]

mount_procedure_0_do_nothing == Stub("MOUNT", 0, NULL, "mount/None")
mount_procedure_1_add_mount_entry == Stub("MOUNT", 1, "mount/DirPath", "mount/FhStatus")
nfs_procedure_0_do_nothing == Stub("NFS", 0, NULL, "nfs/None")
nfs_procedure_1_get_file_attributes == Stub("NFS", 1, "nfs/FHandle", "nfs/AttrStat")
nfs_procedure_2_set_file_attributes == Stub("NFS", 2, "nfs/SAttrArgs", "nfs/AttrStat")
nfs_procedure_4_look_up_file_name == Stub("NFS", 4, "nfs/DirOpArgs", "nfs/DirOpRes")
nfs_procedure_5_read_from_symbolic_link == Stub("NFS", 5, "nfs/FHandle", "nfs/ReadLinkRes")
nfs_procedure_6_read_from_file == Stub("NFS", 6, "nfs/ReadArgs", "nfs/ReadRes")
nfs_procedure_8_write_to_file == Stub("NFS", 8, "nfs/WriteArgs", "nfs/AttrStat")
nfs_procedure_9_create_file == Stub("NFS", 9, "nfs/CreateArgs", "nfs/DirOpRes")
nfs_procedure_10_remove_file == Stub("NFS", 10, "nfs/DirOpArgs", "nfs/NfsStat")
nfs_procedure_11_rename_file == Stub("NFS", 11, "nfs/RenameArgs", "nfs/NfsStat")
nfs_procedure_12_create_link_to_file == Stub("NFS", 12, "nfs/LinkArgs", "nfs/NfsStat")
nfs_procedure_13_create_symbolic_link == Stub("NFS", 13, "nfs/SymLinkArgs", "nfs/NfsStat")
nfs_procedure_14_create_directory == Stub("NFS", 14, "nfs/CreateArgs", "nfs/DirOpRes")
nfs_procedure_15_remove_directory == Stub("NFS", 15, "nfs/DirOpArgs", "nfs/NfsStat")
nfs_procedure_16_read_from_directory == Stub("NFS", 16, "nfs/ReadDirArgs", "nfs/ReadDirRes")
nfs_procedure_17_get_filesystem_attributes == Stub("NFS", 17, "nfs/FHandle", "nfs/StatFsRes")

Stubs ==
    {mount_procedure_0_do_nothing, mount_procedure_1_add_mount_entry, nfs_procedure_0_do_nothing,
     nfs_procedure_1_get_file_attributes, nfs_procedure_2_set_file_attributes,
     nfs_procedure_4_look_up_file_name, nfs_procedure_5_read_from_symbolic_link,
     nfs_procedure_6_read_from_file, nfs_procedure_8_write_to_file, nfs_procedure_9_create_file,
     nfs_procedure_10_remove_file, nfs_procedure_11_rename_file,
     nfs_procedure_12_create_link_to_file, nfs_procedure_13_create_symbolic_link,
     nfs_procedure_14_create_directory, nfs_procedure_15_remove_directory,
     nfs_procedure_16_read_from_directory, nfs_procedure_17_get_filesystem_attributes}
=============================================================================
