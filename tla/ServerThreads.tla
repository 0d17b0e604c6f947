---------------------------- MODULE ServerThreads ----------------------------
(***************************************************************************)
(* The threads of the TCP server: the main thread accepts connections and  *)
(* starts one thread for each (run_server_tcp), the thread serves its      *)
(* client until the client closes or a call fails (handle_client_tcp), and *)
(* SIGTERM makes the main thread cancel and join them all (handle_signal). *)
(* They share nfs_server_threads_list, a linked list with one entry per    *)
(* thread, and its mutex (src/nfs/server/nfs_server_threads.c).            *)
(*                                                                         *)
(* The list is a heap: 'head' and 'next' are pointers to entries and an    *)
(* entry may be freed while something still points to it.  The entry of a  *)
(* thread is named after the thread.  What a call does to the rest of the  *)
(* server is NfsServer.tla's subject; of the calls only READDIR matters    *)
(* here, for it takes readdir_sessions_mutex (directory_reading.c), which  *)
(* the thread that discards expired sessions (server.c) takes, too.        *)
(* Allocation does not fail.                                               *)
(***************************************************************************)
EXTENDS Naturals

CONSTANTS Thread,  \* the client-handling threads
          Main,    \* the thread that accepts connections and takes SIGTERM
          Cleaner, \* readdir_periodic_cleanup_thread
          NULL

ASSUME ThreadsAssumption == 
    {NULL, Main, Cleaner} \cap Thread = {} /\ Main # NULL /\ Cleaner # NULL

VARIABLES mutex,      \* the owner of nfs_server_threads_list_mutex, or NULL
          head,       \* nfs_server_threads_list
          next,       \* the field of each entry
          freed,      \* the entries that were allocated and freed
          socket,     \* the client socket of each thread
          pc,         \* where each thread is
          cancelled,  \* the threads sent pthread_cancel
          main,       \* where the main thread is
          cur,        \* its local: new_entry, or curr_entry of the clean-up
          crashed,    \* a pointer was followed that is NULL or freed
          rdmutex,    \* the owner of readdir_sessions_mutex, or NULL
          cleaner     \* where the clean-up thread is

sessions == <<rdmutex, cleaner>>
vars == <<mutex, head, next, freed, socket, pc, cancelled, main, cur, crashed, rdmutex, cleaner>>

\* "serve": in recv or processing a call; "want": waiting for readdir_sessions_mutex
\* in read_from_directory; "readdir": owning it
Serving == {"serve", "want", "readdir"}

\* "none": not started; "lock": waiting for the list's mutex in
\* remove_server_thread; "remove": owning it; "done": terminated
ThreadPc == {"none", "lock", "remove", "done"} \cup Serving

\* "want" and "sweep" in clean_up_expired_readdir_sessions, "sleep" outside
CleanerPc == {"sleep", "want", "sweep", "done"}

\* "accept" .. "link": run_server_tcp; the rest: handle_signal
Adding == {"add", "lock", "link"}
Stopping == {"stop", "cancel", "join", "release", "reap", "exit"}

Init ==
    /\ mutex = NULL /\ head = NULL /\ next = [t \in Thread |-> NULL]
    /\ freed = {} /\ cancelled = {} /\ crashed = FALSE
    /\ socket = [t \in Thread |-> "none"]
    /\ pc = [t \in Thread |-> "none"]
    /\ main = "accept" /\ cur = NULL
    /\ rdmutex = NULL /\ cleaner = "sleep"

\* Nothing happens after a crash or the exit of the process.
Running == ~crashed /\ main # "exit"

\* The entries a walk along the pointers from p passes: those in every set of entries that
\* p leads into and the pointers do not lead out of.
ReachIn(pointer, p) ==
    {t \in Thread : \A S \in SUBSET Thread :
        p \in S \cup {NULL} /\ (\A s \in S : pointer[s] \in S \cup {NULL}) => t \in S}

Reach(p) == ReachIn(next, p)

-----------------------------------------------------------------------------
(***************************************************************************)
(* The main thread in run_server_tcp.                                      *)
(***************************************************************************)
\* accept and pthread_create: the thread runs before it has an entry
Accept(t) ==
    /\ Running /\ main = "accept" /\ pc[t] = "none"
    /\ pc' = [pc EXCEPT ![t] = "serve"]
    /\ socket' = [socket EXCEPT ![t] = "open"]
    /\ main' = "add" /\ cur' = t
    /\ UNCHANGED <<mutex, head, next, freed, cancelled, crashed, sessions>>

\* add_server_thread: the head is read before the mutex is taken ...
ReadHead ==
    /\ Running /\ main = "add"
    /\ next' = [next EXCEPT ![cur] = head]
    /\ main' = "lock"
    /\ UNCHANGED <<mutex, head, freed, socket, pc, cancelled, cur, crashed, sessions>>

AddLock ==
    /\ Running /\ main = "lock" /\ mutex = NULL
    /\ mutex' = Main /\ main' = "link"
    /\ UNCHANGED <<head, next, freed, socket, pc, cancelled, cur, crashed, sessions>>

\* ... and written while it is held.
AddLink ==
    /\ Running /\ main = "link"
    /\ head' = cur /\ mutex' = NULL
    /\ main' = "accept" /\ cur' = NULL
    /\ UNCHANGED <<next, freed, socket, pc, cancelled, crashed, sessions>>

-----------------------------------------------------------------------------
(***************************************************************************)
(* A client-handling thread.                                               *)
(***************************************************************************)
\* The client closed the connection: the thread ends, its entry stays.
ClientCloses(t) ==
    /\ Running /\ pc[t] = "serve"
    /\ pc' = [pc EXCEPT ![t] = "done"]
    /\ UNCHANGED <<mutex, head, next, freed, socket, cancelled, main, cur, crashed, sessions>>

\* recv failed, or process_single_rpc_tcp did.
Fail(t) ==
    /\ Running /\ pc[t] = "serve"
    /\ pc' = [pc EXCEPT ![t] = "lock"]
    /\ UNCHANGED <<mutex, head, next, freed, socket, cancelled, main, cur, crashed, sessions>>

\* A READDIR: read_from_directory locks, reads the stream and unlocks.  A thread
\* with a cancellation pending does not get past recv.
ReadDirCall(t) ==
    /\ Running /\ pc[t] = "serve" /\ t \notin cancelled
    /\ pc' = [pc EXCEPT ![t] = "want"]
    /\ UNCHANGED <<mutex, head, next, freed, socket, cancelled, main, cur, crashed, sessions>>

ReadDirLock(t) ==
    /\ Running /\ pc[t] = "want" /\ rdmutex = NULL
    /\ rdmutex' = t
    /\ pc' = [pc EXCEPT ![t] = "readdir"]
    /\ UNCHANGED <<mutex, head, next, freed, socket, cancelled, main, cur, crashed, cleaner>>

ReadDirUnlock(t) ==
    /\ Running /\ pc[t] = "readdir"
    /\ rdmutex' = NULL
    /\ pc' = [pc EXCEPT ![t] = "serve"]
    /\ UNCHANGED <<mutex, head, next, freed, socket, cancelled, main, cur, crashed, cleaner>>

\* recv is a cancellation point, and so are opendir, readdir and fprintf under
\* readdir_sessions_mutex, which stays locked; pthread_mutex_lock is none.
TakeCancel(t) ==
    /\ Running /\ pc[t] \in {"serve", "readdir"} /\ t \in cancelled
    /\ pc' = [pc EXCEPT ![t] = "done"]
    /\ UNCHANGED <<mutex, head, next, freed, socket, cancelled, main, cur, crashed, sessions>>

RemoveLock(t) ==
    /\ Running /\ pc[t] = "lock" /\ mutex = NULL
    /\ mutex' = t
    /\ pc' = [pc EXCEPT ![t] = "remove"]
    /\ UNCHANGED <<head, next, freed, socket, cancelled, main, cur, crashed, sessions>>

\* clean_up_nfs_server_threads_list_entry: closes the socket, frees the entry.
CleanUpEntry(t) ==
    /\ socket' = [socket EXCEPT ![t] = "closed"]
    /\ freed' = freed \cup {t}

\* The entry is the first: returns without unlocking the mutex.
RemoveHead(t) ==
    /\ Running /\ pc[t] = "remove" /\ head = t /\ head \notin freed
    /\ head' = next[t]
    /\ CleanUpEntry(t)
    /\ pc' = [pc EXCEPT ![t] = "done"]
    /\ UNCHANGED <<mutex, next, cancelled, main, cur, crashed, sessions>>

\* Mutant: the entry is freed but the one before it still points to it.
RemoveMiddleKeepsLink(t) ==
    /\ Running /\ pc[t] = "remove" /\ head \notin {NULL, t} /\ Reach(head) \cap freed = {}
    /\ t \in Reach(head)
    /\ CleanUpEntry(t)
    /\ mutex' = NULL
    /\ pc' = [pc EXCEPT ![t] = "done"]
    /\ UNCHANGED <<head, next, cancelled, main, cur, crashed, sessions>>

\* The entry is further down the list.
RemoveMiddle(t) ==
    /\ Running /\ pc[t] = "remove" /\ head \notin {NULL, t} /\ Reach(head) \cap freed = {}
    /\ t \in Reach(head)
    /\ next' = [s \in Thread |-> IF s \in Reach(head) /\ next[s] = t THEN next[t] ELSE next[s]]
    /\ CleanUpEntry(t)
    /\ mutex' = NULL
    /\ pc' = [pc EXCEPT ![t] = "done"]
    /\ UNCHANGED <<head, cancelled, main, cur, crashed, sessions>>

\* There is no entry, and there are others.
RemoveNotFound(t) ==
    /\ Running /\ pc[t] = "remove" /\ head # NULL /\ Reach(head) \cap freed = {}
    /\ t \notin Reach(head)
    /\ mutex' = NULL
    /\ pc' = [pc EXCEPT ![t] = "done"]
    /\ UNCHANGED <<head, next, freed, socket, cancelled, main, cur, crashed, sessions>>

\* (*head)->server_thread of an empty list, or the walk meets a freed entry.
RemoveCrashes(t) ==
    /\ Running /\ pc[t] = "remove"
    /\ head \in freed \cup {NULL} \/ (head # t /\ Reach(head) \cap freed # {})
    /\ crashed' = TRUE
    /\ UNCHANGED <<mutex, head, next, freed, socket, pc, cancelled, main, cur, sessions>>

-----------------------------------------------------------------------------
(***************************************************************************)
(* SIGTERM: handle_signal interrupts the main thread wherever it is.       *)
(***************************************************************************)
\* The head is passed by value, before clean_up_nfs_server_threads_list locks.
SigTerm ==
    /\ Running /\ main \notin Stopping
    /\ main' = "stop" /\ cur' = head
    /\ UNCHANGED <<mutex, head, next, freed, socket, pc, cancelled, crashed, sessions>>

StopLock ==
    /\ Running /\ main = "stop" /\ mutex = NULL
    /\ mutex' = Main /\ main' = "cancel"
    /\ UNCHANGED <<head, next, freed, socket, pc, cancelled, cur, crashed, sessions>>

Cancel ==
    /\ Running /\ main = "cancel" /\ cur # NULL
    /\ cancelled' = cancelled \cup {cur}
    /\ main' = "join"
    /\ UNCHANGED <<mutex, head, next, freed, socket, pc, cur, crashed, sessions>>

\* Mutant: the thread is cancelled and not waited for.
JoinNoWait ==
    /\ Running /\ main = "join"
    /\ CleanUpEntry(cur)
    /\ cur' = next[cur] /\ main' = "cancel"
    /\ UNCHANGED <<mutex, head, next, pc, cancelled, crashed, sessions>>

\* Mutant: the walk stays where it is.
JoinStays ==
    /\ Running /\ main = "join" /\ pc[cur] = "done"
    /\ CleanUpEntry(cur)
    /\ main' = "cancel"
    /\ UNCHANGED <<mutex, head, next, pc, cancelled, cur, crashed, sessions>>

\* pthread_join returns, then the entry is freed and its socket closed.
Join ==
    /\ Running /\ main = "join" /\ pc[cur] = "done"
    /\ CleanUpEntry(cur)
    /\ cur' = next[cur] /\ main' = "cancel"
    /\ UNCHANGED <<mutex, head, next, pc, cancelled, crashed, sessions>>

StopUnlock ==
    /\ Running /\ main = "cancel" /\ cur = NULL
    /\ mutex' = NULL /\ main' = "release"
    /\ UNCHANGED <<head, next, freed, socket, pc, cancelled, cur, crashed, sessions>>

\* The state of the transport, the cache and the mount list are freed and the
\* clean-up thread is cancelled ...
Release ==
    /\ Running /\ main = "release" /\ main' = "reap"
    /\ UNCHANGED <<mutex, head, next, freed, socket, pc, cancelled, cur, crashed, sessions>>

\* ... joined, its list freed, and the process exits.
Exit ==
    /\ Running /\ main = "reap" /\ cleaner = "done" /\ main' = "exit"
    /\ UNCHANGED <<mutex, head, next, freed, socket, pc, cancelled, cur, crashed, sessions>>

-----------------------------------------------------------------------------
(***************************************************************************)
(* readdir_periodic_cleanup_thread.                                        *)
(***************************************************************************)
\* sleep returns, unless a cancellation is pending
CleanerWakes ==
    /\ Running /\ cleaner = "sleep" /\ main # "reap" /\ cleaner' = "want"
    /\ UNCHANGED <<mutex, head, next, freed, socket, pc, cancelled, main, cur, crashed, rdmutex>>

CleanerLock ==
    /\ Running /\ cleaner = "want" /\ rdmutex = NULL
    /\ rdmutex' = Cleaner /\ cleaner' = "sweep"
    /\ UNCHANGED <<mutex, head, next, freed, socket, pc, cancelled, main, cur, crashed>>

CleanerUnlock ==
    /\ Running /\ cleaner = "sweep"
    /\ rdmutex' = NULL /\ cleaner' = "sleep"
    /\ UNCHANGED <<mutex, head, next, freed, socket, pc, cancelled, main, cur, crashed>>

\* sleep is a cancellation point, and closedir under the mutex may be one.
CleanerEnds ==
    /\ Running /\ main = "reap" /\ cleaner \in {"sleep", "sweep"}
    /\ cleaner' = "done"
    /\ UNCHANGED <<mutex, head, next, freed, socket, pc, cancelled, main, cur, crashed, rdmutex>>

-----------------------------------------------------------------------------
ThreadStep(t) ==
    \/ ReadDirUnlock(t) \/ TakeCancel(t) \/ RemoveLock(t) \/ RemoveHead(t) \/ RemoveMiddle(t)
    \/ RemoveNotFound(t) \/ RemoveCrashes(t)

MainStep ==
    \/ ReadHead \/ AddLock \/ AddLink
    \/ StopLock \/ Cancel \/ Join \/ StopUnlock \/ Release \/ Exit

CleanerStep == CleanerUnlock \/ CleanerEnds

Environment ==
    \/ \E t \in Thread : Accept(t) \/ ClientCloses(t) \/ Fail(t) \/ ReadDirCall(t)
    \/ SigTerm \/ CleanerWakes

Next ==
    \/ Environment \/ MainStep \/ CleanerStep \/ CleanerLock
    \/ \E t \in Thread : ThreadStep(t) \/ ReadDirLock(t)

Spec == Init /\ [][Next]_vars

\* Threads are scheduled, and one that competes for readdir_sessions_mutex gets
\* it some time if it is free again and again; clients, SIGTERM and the period
\* of the clean-up come when they like.
Fairness ==
    /\ WF_vars(MainStep) /\ WF_vars(CleanerStep) /\ SF_vars(CleanerLock)
    /\ \A t \in Thread : WF_vars(ThreadStep(t)) /\ SF_vars(ReadDirLock(t))

FairSpec == Spec /\ Fairness

-----------------------------------------------------------------------------
\* Every variable has its type.
TypeOK ==
    /\ mutex \in Thread \cup {Main, NULL}
    /\ head \in Thread \cup {NULL} /\ cur \in Thread \cup {NULL}
    /\ next \in [Thread -> Thread \cup {NULL}]
    /\ freed \subseteq Thread /\ cancelled \subseteq Thread
    /\ socket \in [Thread -> {"none", "open", "closed"}]
    /\ pc \in [Thread -> ThreadPc]
    /\ main \in {"accept"} \cup Adding \cup Stopping
    /\ main \in Adding \cup {"join"} => cur \in Thread
    /\ crashed \in BOOLEAN
    /\ rdmutex \in Thread \cup {Cleaner, NULL} /\ cleaner \in CleanerPc

\* No walk along the list meets a freed entry or goes round in circles,
\* although add_server_thread links an entry to the head it read before it
\* took the mutex, and the clean-up walks from a head read before, too.
ListSound ==
    /\ main \notin Stopping => Reach(head) \cap freed = {}
    /\ main \in {"cancel", "join"} => Reach(cur) \cap freed = {}
    /\ \A t \in Reach(head) : t \notin Reach(next[t])

\* remove_server_thread only follows a bad pointer on behalf of a thread that
\* has no entry yet: run_server_tcp starts it before it adds the entry, or
\* SIGTERM came between the two.
CrashOnlyBeforeEntry ==
    crashed => \E t \in Thread : pc[t] = "remove" /\ t \notin Reach(head)

\* No thread reads from its client's socket after the socket was closed:
\* whoever closes it (the thread itself in remove_server_thread, the main
\* thread after pthread_join) does so when the thread has stopped serving.
SocketOpenWhileServing == \A t \in Thread : pc[t] \in Serving => socket[t] = "open"

\* "terminate all server threads" comes before handle_signal frees the state
\* the threads use.  One may be missed: the thread run_server_tcp had started
\* and not yet added when the signal came.
ShutdownMissesOnlyNewest ==
    LET left == {t \in Thread : pc[t] \notin {"none", "done"}}
    IN  main = "release" => left \cap Reach(head) = {} /\ \A s, t \in left : s = t

-----------------------------------------------------------------------------
\* A thread that terminated as the owner of the mutex.
MutexLeaked == mutex \in Thread /\ pc[mutex] = "done"

\* A thread that was cancelled as the owner of the other.
SessionsLeaked == rdmutex \in Thread /\ pc[rdmutex] = "done"

\* SIGTERM ends the process except in these cases: the list's mutex was leaked,
\* the handler interrupted add_server_thread between lock and unlock, it joins
\* a thread that waits for the mutex the handler owns, or it joins a thread or
\* the clean-up thread that waits for readdir_sessions_mutex, which a thread
\* cancelled in read_from_directory has left locked.
ShutdownEnds ==
    main = "stop" ~> \/ main = "exit" \/ crashed \/ MutexLeaked
                     \/ main = "stop" /\ mutex = Main
                     \/ main = "join" /\ mutex = Main /\ pc[cur] = "lock"
                     \/ main = "join" /\ SessionsLeaked /\ pc[cur] = "want"
                     \/ main = "reap" /\ SessionsLeaked /\ cleaner = "want"
=============================================================================
