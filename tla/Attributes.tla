----------------------------- MODULE Attributes ------------------------------
(***************************************************************************)
(* SETATTR, CREATE, WRITE, READ and REMOVE of one name of one directory,   *)
(* run by several server threads of a TCP server, system call by system    *)
(* call.  NfsServer.tla runs every procedure in one step and leaves the    *)
(* permissions open.  Here the permissions are those of Permissions.tla,   *)
(* they are looked up before the file is opened or changed, nothing is     *)
(* locked in between, and the attributes change one system call at a time. *)
(*                                                                         *)
(* file is what the path names (NONE: nothing).  Its data is its size, its *)
(* ino never occurs twice.  The path is what the file handle stands for in *)
(* the inode cache, so a call goes on with whatever file has that path.    *)
(***************************************************************************)
EXTENDS Permissions, Naturals, Sequences

CONSTANTS
    Worker,      \* the server threads
    Creds,       \* the callers' [uid, gid]
    Modes,       \* the modes of files
    Sattrs,      \* the attributes clients ask for
    Dir,         \* the attributes of the directory
    Umask,       \* what the server's umask takes from the mode of a new file
    WRITE_SIZE,  \* the end of the range a WRITE writes
    MaxCalls     \* how many calls arrive

VARIABLES
    file,        \* [ino, uid, gid, mode, size, times] or NONE
    next_ino,
    thread,      \* thread[t]: the locals of the call of thread t
    calls
attributes_vars == <<file, next_ino, thread, calls>>

\* NONE is no mode and no new file (Open).
NoNullFile ==
    NONE \notin [ino : Nat, uid : {0}, gid : {0}, size : {0}, times : {"created"},
                 mode : {m \ Umask : m \in Modes \cup ({s.mode : s \in Sattrs} \ {NONE})}]

ASSUME AttributesAssumption ==
    NONE \notin Modes /\ MaxCalls \in Nat /\ WRITE_SIZE \in Nat /\ NoNullFile

(***************************************************************************)
(* The locals of a call.  reply is NONE until it answers; result is the    *)
(* file whose attributes, or whose data, the answer carries.  done, since  *)
(* and disturbed are history: which system calls of the call changed the   *)
(* file, the next inode number when the call looked for the file, and      *)
(* whether another thread changed the file since the call began.           *)
(***************************************************************************)
Idle == [at |-> "idle", proc |-> NONE, cred |-> NONE, sattr |-> NONE, reply |-> NONE, result |-> NONE,
         done |-> <<>>, since |-> 0, disturbed |-> FALSE]

\* A call sets the times only if seconds and microseconds of both are given; "half" is neither that nor -1.
SetsTimes(sattr) == sattr.times \notin {NONE, "half"}

\* Mutant: the size is set only when the mode is not.
PlanElseIf(proc, sattr) ==
    LET Ends == <<"owner">> \o IF sattr.mode = NONE /\ sattr.size # NONE THEN <<"size">> ELSE <<>>
    IN  CASE proc = "SETATTR" -> (IF sattr.mode # NONE THEN <<"mode">> ELSE <<>>) \o Ends \o <<"attributes">>
          [] proc = "CREATE"  -> <<"open">> \o Ends \o <<"handle", "attributes">>
          [] proc = "WRITE"   -> <<"write", "attributes">>
          [] proc = "READ"    -> <<"read", "attributes">>
          [] proc = "REMOVE"  -> <<"unlink">>

\* The system calls that follow the permission check.  chown is called even when it is to leave both ids.
Plan(proc, sattr) ==
    LET Step(wanted, step) == IF wanted THEN <<step>> ELSE <<>>
        Ends == <<"owner">> \o Step(sattr.size # NONE, "size") \o Step(SetsTimes(sattr), "times")
    IN  CASE proc = "SETATTR" -> Step(sattr.mode # NONE, "mode") \o Ends \o <<"attributes">>
          [] proc = "CREATE"  -> <<"open">> \o Ends \o <<"handle", "attributes">>
          [] proc = "WRITE"   -> <<"write", "attributes">>
          [] proc = "READ"    -> <<"read", "attributes">>
          [] proc = "REMOVE"  -> <<"unlink">>

After(t) ==
    LET plan == Plan(thread[t].proc, thread[t].sattr)
        here == IF thread[t].at = "check" THEN 0 ELSE CHOOSE i \in 1..Len(plan) : plan[i] = thread[t].at
    IN  IF here = Len(plan) THEN "idle" ELSE plan[here + 1]

AttributesInit ==
    /\ file \in {NONE} \cup {[ino |-> 0, uid |-> c.uid, gid |-> c.gid, mode |-> m, size |-> 0, times |-> "created"] :
                             c \in Creds, m \in Modes}
    /\ next_ino = 1
    /\ thread = [t \in Worker |-> Idle]
    /\ calls = 0

Answers(t, stat) == thread' = [thread EXCEPT ![t].at = "idle", ![t].reply = stat]
Continues(t) == thread' = [thread EXCEPT ![t].at = After(t)]

\* The system call of t leaves new at the path, and t goes on.
Changes(t, new) ==
    /\ file' = new
    /\ thread' = [u \in Worker |->
          IF u = t
          THEN [thread[t] EXCEPT !.at = After(t),
                                 !.done = IF new = file THEN @ ELSE Append(@, thread[t].at),
                                 !.reply = IF After(t) = "idle" THEN "NFS_OK" ELSE @]
          ELSE [thread[u] EXCEPT !.disturbed = @ \/ (thread[u].at # "idle" /\ new # file)]]

(***************************************************************************)
(* A call arrives.  The check that the file is there, or is not, comes     *)
(* first; SETATTR has none.                                                *)
(***************************************************************************)
Begin(t) ==
    /\ thread[t].at = "idle"
    /\ calls < MaxCalls
    /\ calls' = calls + 1
    /\ \E proc \in {"SETATTR", "CREATE", "WRITE", "READ", "REMOVE"}, cred \in Creds :
          \E sattr \in IF proc \in {"SETATTR", "CREATE"} THEN Sattrs ELSE {NONE} :
             thread' = [thread EXCEPT ![t] =
                 [Idle EXCEPT !.at = IF proc = "SETATTR" THEN "check" ELSE "exists",
                              !.proc = proc, !.cred = cred, !.sattr = sattr, !.since = next_ino]]
    /\ UNCHANGED <<file, next_ino>>

\* Mutant: the file is not looked for.
ExistsUnseen(t) ==
    /\ thread[t].at = "exists"
    /\ thread' = [thread EXCEPT ![t].at = "check", ![t].since = next_ino]
    /\ UNCHANGED <<file, next_ino, calls>>

Exists(t) ==
    /\ thread[t].at = "exists"
    /\ LET proc == thread[t].proc
           stat == CASE proc = "CREATE" /\ file # NONE -> "NFSERR_EXIST"
                     [] proc = "REMOVE" /\ file = NONE -> "NFSERR_NOENT"
                     [] proc \in {"READ", "WRITE"} /\ file = NONE -> "SYSTEM_ERR"
                     [] OTHER -> "NFS_OK"
       IN  IF stat # "NFS_OK" THEN Answers(t, stat)
           ELSE thread' = [thread EXCEPT ![t].at = "check", ![t].since = next_ino]
    /\ UNCHANGED <<file, next_ino, calls>>

\* What the permission check of t answers if it looks now.
Permission(t) ==
    LET c == thread[t].cred
    IN  CASE thread[t].proc = "SETATTR" -> check_setattr_proc_permissions(file, thread[t].sattr, c.uid, c.gid)
          [] thread[t].proc = "CREATE"  -> check_create_proc_permissions(Dir, c.uid, c.gid)
          [] thread[t].proc = "WRITE"   -> check_write_proc_permissions(file, c.uid, c.gid)
          [] thread[t].proc = "READ"    -> check_read_proc_permissions(file, c.uid, c.gid)
          [] thread[t].proc = "REMOVE"  -> check_remove_proc_permissions(Dir, c.uid, c.gid)

\* Mutant: only a failing check ends the call, not a negative answer.
CheckErrorsOnly(t) ==
    /\ thread[t].at = "check"
    /\ IF Permission(t) # "SYSTEM_ERR" THEN Continues(t) ELSE Answers(t, Permission(t))
    /\ UNCHANGED <<file, next_ino, calls>>

Check(t) ==
    /\ thread[t].at = "check"
    /\ IF Permission(t) = "NFS_OK" THEN Continues(t) ELSE Answers(t, Permission(t))
    /\ UNCHANGED <<file, next_ino, calls>>

(***************************************************************************)
(* The system calls.  One that names a file that is gone fails.            *)
(***************************************************************************)
Or(wanted, old) == IF wanted = NONE THEN old ELSE wanted

Chmod(t) ==
    /\ thread[t].at = "mode" /\ file # NONE
    /\ Changes(t, [file EXCEPT !.mode = thread[t].sattr.mode])
    /\ UNCHANGED <<next_ino, calls>>

Chown(t) ==
    /\ thread[t].at = "owner" /\ file # NONE
    /\ Changes(t, [file EXCEPT !.uid = Or(thread[t].sattr.uid, @), !.gid = Or(thread[t].sattr.gid, @)])
    /\ UNCHANGED <<next_ino, calls>>

Truncate(t) ==
    /\ thread[t].at = "size" /\ file # NONE
    /\ Changes(t, [file EXCEPT !.size = thread[t].sattr.size])
    /\ UNCHANGED <<next_ino, calls>>

Utimes(t) ==
    /\ thread[t].at = "times" /\ file # NONE
    /\ Changes(t, [file EXCEPT !.times = thread[t].sattr.times])
    /\ UNCHANGED <<next_ino, calls>>

\* Without O_EXCL a file that is there by now is opened as it is.  When the mode is left out, open reads
\* an argument that was not passed.
Open(t) ==
    /\ thread[t].at = "open"
    /\ IF file # NONE THEN Changes(t, file) /\ UNCHANGED next_ino
       ELSE \E mode \in IF thread[t].sattr.mode = NONE THEN Modes ELSE {thread[t].sattr.mode} :
               /\ Changes(t, [ino |-> next_ino, uid |-> 0, gid |-> 0, mode |-> mode \ Umask, size |-> 0, times |-> "created"])
               /\ next_ino' = next_ino + 1
    /\ UNCHANGED calls

\* create_nfs_filehandle looks at the file once more.
MakeHandle(t) ==
    /\ thread[t].at = "handle" /\ file # NONE
    /\ Continues(t)
    /\ UNCHANGED <<file, next_ino, calls>>

write_to_file(t) ==
    /\ thread[t].at = "write" /\ file # NONE
    /\ Changes(t, [file EXCEPT !.size = IF @ < WRITE_SIZE THEN WRITE_SIZE ELSE @])
    /\ UNCHANGED <<next_ino, calls>>

read_from_file(t) ==
    /\ thread[t].at = "read" /\ file # NONE
    /\ Continues(t)
    /\ UNCHANGED <<file, next_ino, calls>>

Unlink(t) ==
    /\ thread[t].at = "unlink" /\ file # NONE
    /\ Changes(t, NONE)
    /\ UNCHANGED <<next_ino, calls>>

\* The answer carries the attributes the file has now.
get_attributes(t) ==
    /\ thread[t].at = "attributes" /\ file # NONE
    /\ thread' = [thread EXCEPT ![t].at = "idle", ![t].reply = "NFS_OK", ![t].result = file]
    /\ UNCHANGED <<file, next_ino, calls>>

\* A system call fails: the file is gone, or for a reason of its own.  What is done stays done.
Fails(t) ==
    /\ thread[t].at \notin {"idle", "exists", "check"}
    /\ \E stat \in {"SYSTEM_ERR"} \cup IF thread[t].at \in {"open", "write", "unlink"} THEN {"NFSERR_IO"} ELSE {} :
          Answers(t, stat)
    /\ UNCHANGED <<file, next_ino, calls>>

Step(t) ==
    \/ Exists(t) \/ Check(t) \/ Chmod(t) \/ Chown(t) \/ Truncate(t) \/ Utimes(t) \/ Open(t)
    \/ MakeHandle(t) \/ write_to_file(t) \/ read_from_file(t) \/ Unlink(t) \/ get_attributes(t) \/ Fails(t)

AttributesNext == \E t \in Worker : Begin(t) \/ Step(t)
AttributesSpec == AttributesInit /\ [][AttributesNext]_attributes_vars

-----------------------------------------------------------------------------
Requested(t) == thread[t].sattr
Took(t, attr) ==
    /\ Or(Requested(t).uid, attr.uid) = attr.uid
    /\ Or(Requested(t).gid, attr.gid) = attr.gid
    /\ Or(Requested(t).size, attr.size) = attr.size
    /\ SetsTimes(Requested(t)) => attr.times = Requested(t).times

(***************************************************************************)
(* What the answer of SETATTR or CREATE says of the file, although the     *)
(* update takes several system calls (nfsproc_setattr.c, l. 133-180;       *)
(* nfsproc_create.c, l. 254-362).  An NFS status other than NFS_OK: this   *)
(* call changed nothing.  NFS_OK, and no other thread changed the file     *)
(* meanwhile: the attributes sent back are the requested ones, and CREATE  *)
(* made the file itself.  Only after SYSTEM_ERR may some of the updates be *)
(* there and others not.                                                   *)
(***************************************************************************)
AnswerTellsEffect ==
    \A t \in Worker : (thread[t].at = "idle" /\ thread[t].proc \in {"SETATTR", "CREATE"}) =>
        /\ thread[t].reply \notin {"NFS_OK", "SYSTEM_ERR"} => thread[t].done = <<>>
        /\ (thread[t].reply = "NFS_OK" /\ ~thread[t].disturbed) =>
              /\ Took(t, thread[t].result)
              /\ thread[t].proc = "SETATTR" =>
                    Or(Requested(t).mode, thread[t].result.mode) = thread[t].result.mode
              /\ thread[t].proc = "CREATE" =>
                    /\ thread[t].result.ino >= thread[t].since
                    /\ Head(thread[t].done) = "open"
                    /\ Requested(t).mode # NONE => thread[t].result.mode = Requested(t).mode \ Umask

(***************************************************************************)
(* CREATE never changes the owner, size or times of a file that was there  *)
(* when it looked (the lstat of nfsproc_create.c, l. 181).  It may change  *)
(* those of a file another client created since, as open has no O_EXCL     *)
(* (l. 257).                                                               *)
(***************************************************************************)
CreateSparesOldFiles ==
    [][\A t \in Worker :
          (thread[t].proc = "CREATE" /\ thread'[t].done # thread[t].done /\ file # NONE)
              => file.ino >= thread[t].since]_attributes_vars

(***************************************************************************)
(* A call reads or changes a file only if the file's permissions, as they  *)
(* are at that moment, allow it, unless this call or another thread        *)
(* changed the file since the call began (nfs_permissions.c is consulted   *)
(* once, by path, before the system calls).                                *)
(***************************************************************************)
AllowedUnlessChanged ==
    [][\A t \in Worker :
          (thread'[t].done # thread[t].done \/ (thread[t].at = "read" /\ thread'[t].at = "attributes"))
              => \/ Permission(t) = "NFS_OK"
                 \/ thread[t].disturbed
                 \/ thread[t].done # <<>>]_attributes_vars
=============================================================================
