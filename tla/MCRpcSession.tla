---------------------------- MODULE MCRpcSession ----------------------------
EXTENDS RpcSession

\* Calls that no stub makes, but invoke_rpc_remote or another implementation may
Other(rpcvers, prog, vers, proc, params) ==
    [rpcvers |-> rpcvers, prog |-> prog, vers |-> vers, proc |-> proc, params |-> params, results |-> NULL]

\* Any call, and another one before, during or after it
MCRequests ==
    <<Stubs \cup {Other(3, "NFS", 2, 1, "nfs/FHandle"), Other(2, "PORTMAP", 2, 0, NULL),
                  Other(2, "MOUNT", 3, 0, NULL), Other(2, "NFS", 2, 7, NULL),
                  Other(2, "NFS", 2, 1, "nfs/DirOpArgs")},
      {nfs_procedure_0_do_nothing, mount_procedure_1_add_mount_entry}>>

None == create_auth_none_opaque_auth

MCAuths ==
    {<<None, None>>, <<create_auth_sys_opaque_auth(0), None>>, <<create_auth_sys_opaque_auth(3), None>>,
     <<create_auth_sys_opaque_auth(1), create_auth_sys_opaque_auth(1)>>}
=============================================================================
