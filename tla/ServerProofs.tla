---------------------------- MODULE ServerProofs ----------------------------
(***************************************************************************)
(* For any number of client threads: the types of ServerThreads, that no   *)
(* thread serves on a closed socket, that walks along the list of threads  *)
(* meet no freed entry and no circle, and whom SIGTERM may miss.  What the *)
(* threads do to a file: the theorems about Attributes.  For any number of *)
(* listings, directories of any size and any byte count: that the list of  *)
(* ReadDir sessions has at most one session for a client and a directory,  *)
(* and that a listing has every entry once, in order.                      *)
(***************************************************************************)
EXTENDS ServerThreads, Attributes, ReadDir, TLAPS

\* Every step of the main thread or of a client thread keeps the types: in
\* particular run_server_tcp and the clean-up walk always have an entry in
\* hand where they follow a pointer.
LEMMA TypeStep == TypeOK /\ [Next]_vars => TypeOK'
<1> SUFFICES ASSUME TypeOK, [Next]_vars PROVE TypeOK'
  BY Zenon
<1> USE ThreadsAssumption DEF TypeOK, ThreadPc, Serving, CleanerPc, Adding, Stopping, sessions
<1>1. CASE UNCHANGED vars
  BY <1>1 DEF vars
<1>2. ASSUME NEW t \in Thread, Accept(t) PROVE TypeOK'
  BY <1>2, Zenon DEF Accept
<1>3. ASSUME NEW t \in Thread, ClientCloses(t) \/ Fail(t) \/ TakeCancel(t) \/ RemoveLock(t)
      PROVE TypeOK'
  BY <1>3 DEF ClientCloses, Fail, TakeCancel, RemoveLock
<1>4. ASSUME NEW t \in Thread, ReadDirCall(t) \/ ReadDirLock(t) \/ ReadDirUnlock(t)
      PROVE TypeOK'
  BY <1>4 DEF ReadDirCall, ReadDirLock, ReadDirUnlock
<1>5. ASSUME NEW t \in Thread, RemoveHead(t) PROVE TypeOK'
  BY <1>5 DEF RemoveHead, CleanUpEntry
<1>6. ASSUME NEW t \in Thread, RemoveMiddle(t) PROVE TypeOK'
  <2>1. next' \in [Thread -> Thread \cup {NULL}]
    BY <1>6, Zenon DEF RemoveMiddle
  <2> QED
    BY <1>6, <2>1, Zenon DEF RemoveMiddle, CleanUpEntry
<1>7. ASSUME NEW t \in Thread, RemoveNotFound(t) \/ RemoveCrashes(t) PROVE TypeOK'
  BY <1>7, Zenon DEF RemoveNotFound, RemoveCrashes
<1>8. ASSUME ReadHead \/ AddLock \/ AddLink \/ SigTerm PROVE TypeOK'
  BY <1>8, Zenon DEF ReadHead, AddLock, AddLink, SigTerm
<1>9. ASSUME StopLock \/ Cancel \/ StopUnlock \/ Release \/ Exit PROVE TypeOK'
  BY <1>9, Zenon DEF StopLock, Cancel, StopUnlock, Release, Exit
<1>10. CASE Join
  BY <1>10, Zenon DEF Join, CleanUpEntry
<1>11. CASE CleanerWakes \/ CleanerLock \/ CleanerUnlock \/ CleanerEnds
  BY <1>11, Zenon DEF CleanerWakes, CleanerLock, CleanerUnlock, CleanerEnds
<1> QED
  BY <1>1, <1>2, <1>3, <1>4, <1>5, <1>6, <1>7, <1>8, <1>9, <1>10, <1>11, Zenon
     DEF Next, Environment, MainStep, ThreadStep, CleanerStep

\* The type invariant of the threads, for every set of threads.
THEOREM TypeCorrect == Spec => []TypeOK
<1>1. Init => TypeOK
  BY ThreadsAssumption, Zenon DEF Init, TypeOK, ThreadPc, Serving, CleanerPc, Adding, Stopping
<1> QED
  BY <1>1, TypeStep, PTL DEF Spec

\* A socket is closed by remove_server_thread, called by a thread that no
\* longer serves, or by the clean-up after pthread_join: a thread that is in
\* the loop of handle_client_tcp has an open socket.
THEOREM SocketSafety == Spec => []SocketOpenWhileServing
<1>1. Init => SocketOpenWhileServing
  BY Zenon DEF Init, SocketOpenWhileServing, Serving
<1>2. TypeOK /\ SocketOpenWhileServing /\ [Next]_vars => SocketOpenWhileServing'
  <2> SUFFICES ASSUME TypeOK, SocketOpenWhileServing, [Next]_vars,
                      NEW s \in Thread, pc'[s] \in Serving
               PROVE  socket'[s] = "open"
    BY Zenon DEF SocketOpenWhileServing
  <2> USE DEF TypeOK, SocketOpenWhileServing, ThreadPc, Serving
  <2>1. CASE UNCHANGED vars
    BY <2>1, Zenon DEF vars
  <2>2. ASSUME NEW t \in Thread, Accept(t) PROVE socket'[s] = "open"
    BY <2>2, Zenon DEF Accept
  <2>3. ASSUME NEW t \in Thread, ClientCloses(t) \/ Fail(t) \/ TakeCancel(t) \/ RemoveLock(t)
                                   \/ RemoveNotFound(t) \/ RemoveCrashes(t)
        PROVE  socket'[s] = "open"
    BY <2>3, Zenon DEF ClientCloses, Fail, TakeCancel, RemoveLock, RemoveNotFound, RemoveCrashes
  <2>4. ASSUME NEW t \in Thread, RemoveHead(t) \/ RemoveMiddle(t) PROVE socket'[s] = "open"
    BY <2>4 DEF RemoveHead, RemoveMiddle, CleanUpEntry
  <2>5. ASSUME NEW t \in Thread, ReadDirCall(t) \/ ReadDirLock(t) \/ ReadDirUnlock(t)
        PROVE  socket'[s] = "open"
    BY <2>5, Zenon DEF ReadDirCall, ReadDirLock, ReadDirUnlock
  <2>6. CASE CleanerWakes \/ CleanerLock \/ CleanerUnlock \/ CleanerEnds
    BY <2>6, Zenon DEF CleanerWakes, CleanerLock, CleanerUnlock, CleanerEnds
  <2>7. CASE ReadHead \/ AddLock \/ AddLink \/ SigTerm \/ StopLock \/ Cancel \/ StopUnlock
          \/ Release \/ Exit
    BY <2>7, Zenon DEF ReadHead, AddLock, AddLink, SigTerm, StopLock, Cancel, StopUnlock, Release, Exit
  <2>8. CASE Join
    BY <2>8, Zenon DEF Join, Adding, CleanUpEntry
  <2> QED
    BY <2>1, <2>2, <2>3, <2>4, <2>5, <2>6, <2>7, <2>8, Zenon
       DEF Next, Environment, MainStep, ThreadStep, CleanerStep
<1> QED
  BY <1>1, <1>2, TypeCorrect, PTL DEF Spec

-----------------------------------------------------------------------------
\* The threads that have something to do.
Active == {t \in Thread : pc[t] \notin {"none", "done"}}

\* The mutex: run_server_tcp and handle_signal own it while they write or walk the list, a
\* thread while it removes its entry.
LockOK ==
    /\ main \in {"link", "cancel", "join"} => mutex = Main
    /\ \A t \in Thread : pc[t] = "remove" => mutex = t

\* The list does not go round in circles, has entries of started threads, and none that
\* was freed before the clean-up walks it; a freed entry is one of a terminated thread.
EntriesOK ==
    /\ \A t \in Reach(head) : pc[t] # "none" /\ t \notin Reach(next[t])
    /\ main \in {"accept", "stop"} \cup Adding => Reach(head) \cap freed = {}
    /\ \A t \in freed : pc[t] = "done"

\* The entry that add_server_thread is about to link is not on the list, and leads to its
\* head, unless remove_server_thread has removed the head and kept the mutex.  It is the
\* only thread at work without an entry on the list.
AddingOK ==
    /\ main \in Adding => cur \notin Reach(head) \cup freed /\ pc[cur] # "none"
    /\ main \in {"lock", "link"} => next[cur] = head \/ MutexLeaked
    /\ main = "accept" => Active \subseteq Reach(head)
    /\ main \in Adding => Active \subseteq Reach(head) \cup {cur}
    /\ \A s, t \in Active \ Reach(head) : s = t

\* The clean-up starts at the head, unless again the mutex was kept, and the threads it has
\* passed have terminated.
StoppingOK ==
    /\ main = "stop" => cur = head \/ MutexLeaked
    /\ main \in {"cancel", "join"} =>
          /\ cur \in Reach(head) \cup {NULL} /\ Reach(cur) \cap freed = {}
          /\ Active \cap Reach(head) \subseteq Reach(cur)
    /\ main \in {"release", "reap", "exit"} => Active \cap Reach(head) = {}

ListInv == TypeOK /\ LockOK /\ EntriesOK /\ AddingOK /\ StoppingOK /\ CrashOnlyBeforeEntry

Pointers == [Thread -> Thread \cup {NULL}]

\* A walk passes the entry it starts from and with an entry the next one.
LEMMA ReachClosed ==
    ASSUME NEW n \in Pointers, NEW p \in Thread \cup {NULL}
    PROVE  /\ ReachIn(n, p) \subseteq Thread /\ p \in ReachIn(n, p) \cup {NULL}
           /\ \A s \in ReachIn(n, p) : n[s] \in ReachIn(n, p) \cup {NULL}
<1>1. ASSUME NEW s \in ReachIn(n, p), n[s] # NULL PROVE n[s] \in ReachIn(n, p)
  <2>1. s \in Thread /\ n[s] \in Thread
    BY <1>1, Zenon DEF ReachIn, Pointers
  <2>2. ASSUME NEW S \in SUBSET Thread, p \in S \cup {NULL}, \A u \in S : n[u] \in S \cup {NULL}
        PROVE  n[s] \in S
    BY <1>1, <2>2, Zenon DEF ReachIn
  <2> QED
    BY <2>1, <2>2, Zenon DEF ReachIn
<1> QED
  BY <1>1, Zenon DEF ReachIn

\* A walk stays in a set of entries that the pointers do not lead out of.
LEMMA ReachLeast ==
    ASSUME NEW n \in Pointers, NEW p \in Thread \cup {NULL}, NEW S \in SUBSET Thread,
           p \in S \cup {NULL}, \A s \in S : n[s] \in S \cup {NULL}
    PROVE  ReachIn(n, p) \subseteq S
BY Zenon DEF ReachIn

\* A walk from an entry of a walk passes a part of it.
LEMMA ReachFurther ==
    ASSUME NEW n \in Pointers, NEW p \in Thread \cup {NULL}, NEW q \in ReachIn(n, p) \cup {NULL}
    PROVE  ReachIn(n, q) \subseteq ReachIn(n, p)
<1>1. /\ ReachIn(n, p) \in SUBSET Thread /\ q \in Thread \cup {NULL}
      /\ \A s \in ReachIn(n, p) : n[s] \in ReachIn(n, p) \cup {NULL}
  BY ReachClosed, Zenon
<1> QED
  BY <1>1, ReachLeast, Zenon

\* A walk passes its first entry and then goes on from the next.
LEMMA ReachSplit ==
    ASSUME NEW n \in Pointers, NEW p \in Thread
    PROVE  ReachIn(n, p) = {p} \cup ReachIn(n, n[p])
<1>1. n[p] \in Thread \cup {NULL}
  BY Zenon DEF Pointers
<1> DEFINE rest == ReachIn(n, n[p])
           S == {p} \cup rest
<1>2. rest \subseteq Thread /\ n[p] \in rest \cup {NULL} /\ \A s \in rest : n[s] \in rest \cup {NULL}
  BY <1>1, ReachClosed, Zenon
<1> HIDE DEF rest
<1>3. ReachIn(n, p) \subseteq S
  <2>1. S \in SUBSET Thread /\ p \in S \cup {NULL} /\ \A s \in S : n[s] \in S \cup {NULL}
    BY <1>2, Zenon
  <2> HIDE DEF S
  <2> QED
    BY <2>1, ReachLeast, Zenon
<1>4. p \in ReachIn(n, p) /\ n[p] \in ReachIn(n, p) \cup {NULL}
  <2>1. p # NULL
    BY ThreadsAssumption, Zenon
  <2> QED
    BY <2>1, ReachClosed
<1>5. rest \subseteq ReachIn(n, p)
  BY <1>4, ReachFurther, Zenon DEF rest
<1> QED
  BY <1>3, <1>4, <1>5, Zenon DEF rest

\* A walk depends on the entries it passes only.
LEMMA ReachSame ==
    ASSUME NEW m \in Pointers, NEW n \in Pointers, NEW p \in Thread \cup {NULL},
           \A s \in ReachIn(n, p) : m[s] = n[s]
    PROVE  ReachIn(m, p) = ReachIn(n, p)
<1> DEFINE M == ReachIn(m, p)
           N == ReachIn(n, p)
<1>1. /\ M \in SUBSET Thread /\ p \in M \cup {NULL} /\ \A s \in M : m[s] \in M \cup {NULL}
      /\ N \in SUBSET Thread /\ p \in N \cup {NULL} /\ \A s \in N : n[s] \in N \cup {NULL}
  BY ReachClosed, Zenon
<1>2. \A s \in N : m[s] \in N \cup {NULL}
  BY <1>1, Zenon
<1>3. M \subseteq N
  <2> HIDE DEF N
  <2> QED
    BY <1>1, <1>2, ReachLeast, Zenon
<1>4. \A s \in M : n[s] \in M \cup {NULL}
  BY <1>1, <1>3, Zenon
<1>5. N \subseteq M
  <2> HIDE DEF M
  <2> QED
    BY <1>1, <1>4, ReachLeast, Zenon
<1> QED
  BY <1>3, <1>5, Zenon

\* remove_server_thread takes one entry out of the list and leaves no circle.
LEMMA ReachWithout ==
    ASSUME NEW n \in Pointers, NEW p \in Thread, NEW t \in ReachIn(n, p) \ {p},
           \A s \in ReachIn(n, p) : s \notin ReachIn(n, n[s]),
           NEW m, m = [s \in Thread |-> IF s \in ReachIn(n, p) /\ n[s] = t THEN n[t] ELSE n[s]]
    PROVE  /\ m \in Pointers
           /\ ReachIn(m, p) = ReachIn(n, p) \ {t}
           /\ \A s \in ReachIn(m, p) : s \notin ReachIn(m, m[s])
<1> DEFINE N == ReachIn(n, p)
           M == ReachIn(m, p)
<1>1. /\ N \in SUBSET Thread /\ p \in N /\ t \in Thread /\ NULL \notin Thread
      /\ \A s \in N : n[s] \in N \cup {NULL}
  BY ReachClosed, ThreadsAssumption, Zenon
<1>2. m \in Pointers
  BY <1>1, Zenon DEF Pointers
<1>3. /\ M \in SUBSET Thread /\ p \in M /\ \A s \in M : m[s] \in M \cup {NULL}
  BY <1>1, <1>2, ReachClosed, Zenon
<1>4. /\ \A s \in N : n[s] = t => m[s] = n[t]
      /\ \A s \in N : n[s] # t => m[s] = n[s]
  BY <1>1, Zenon
<1>5. n[t] # t
  <2>1. n[t] \in Thread => n[t] \in ReachIn(n, n[t])
    BY <1>1, ReachClosed, Zenon
  <2> QED
    BY <1>1, <2>1, Zenon
<1>6. M \subseteq N \ {t}
  <2> DEFINE S == N \ {t}
  <2>1. S \in SUBSET Thread /\ p \in S \cup {NULL}
    BY <1>1, Zenon
  <2>2. \A s \in S : m[s] \in S \cup {NULL}
    BY <1>1, <1>4, <1>5, Zenon
  <2> HIDE DEF S
  <2>3. M \subseteq S
    BY <1>2, <2>1, <2>2, ReachLeast, Zenon
  <2> QED
    BY <2>3, Zenon DEF S
<1>7. PICK u \in M : n[u] = t
  <2> SUFFICES ASSUME \A u \in M : n[u] # t PROVE FALSE
    BY Zenon
  <2>1. \A s \in M : n[s] \in M \cup {NULL}
    BY <1>3, <1>4, <1>6, Zenon
  <2> HIDE DEF M
  <2>2. N \subseteq M
    BY <1>3, <2>1, ReachLeast, Zenon
  <2> QED
    BY <1>6, <2>2, Zenon
<1>8. N \subseteq M \cup {t}
  <2> DEFINE S == M \cup {t}
  <2>1. S \in SUBSET Thread /\ p \in S \cup {NULL}
    BY <1>1, <1>3, Zenon
  <2>2. n[t] \in M \cup {NULL}
    BY <1>3, <1>4, <1>6, <1>7, Zenon
  <2>3. \A s \in S : n[s] \in S \cup {NULL}
    BY <1>3, <1>4, <1>6, <2>2, Zenon
  <2> HIDE DEF S
  <2>4. N \subseteq S
    BY <2>1, <2>3, ReachLeast, Zenon
  <2> QED
    BY <2>4, Zenon DEF S
<1>9. ASSUME NEW s \in M PROVE s \notin ReachIn(m, m[s])
  <2> DEFINE q == m[s]
             Q == ReachIn(n, q)
             R == ReachIn(n, n[s])
  <2>1. s \in N /\ s \in Thread /\ n[s] \in N \cup {NULL} /\ q \in N \cup {NULL} /\ q \in Thread \cup {NULL}
    BY <1>1, <1>3, <1>6, Zenon
  <2>2. /\ Q \in SUBSET Thread /\ q \in Q \cup {NULL} /\ \A r \in Q : n[r] \in Q \cup {NULL}
    BY <2>1, ReachClosed, Zenon
  <2>3. Q \subseteq N
    BY <2>1, ReachFurther, Zenon
  <2>4. \A r \in Q : m[r] \in Q \cup {NULL}
    <3> HIDE DEF q, Q, N
    <3> SUFFICES ASSUME NEW r \in Q PROVE m[r] \in Q \cup {NULL}
      BY Zenon
    <3>1. CASE n[r] # t
      BY <1>4, <2>2, <2>3, <3>1, Zenon
    <3>2. CASE n[r] = t
      <4>1. t \in Q
        BY <1>1, <2>2, <3>2, Zenon
      <4> QED
        BY <1>4, <2>2, <2>3, <3>2, <4>1, Zenon
    <3> QED
      BY <3>1, <3>2, Zenon
  <2>5. ReachIn(m, q) \subseteq Q
    <3> HIDE DEF Q, q
    <3> QED
      BY <1>2, <2>1, <2>2, <2>4, ReachLeast, Zenon
  <2>6. Q \subseteq R
    <3>1. CASE n[s] # t
      BY <1>4, <2>1, <3>1, Zenon
    <3>2. CASE n[s] = t
      <4>1. q = n[t] /\ R = ReachIn(n, t)
        BY <1>4, <2>1, <3>2, Zenon
      <4>2. n[t] \in ReachIn(n, t) \cup {NULL}
        BY <1>1, ReachSplit, ReachClosed, Zenon DEF Pointers
      <4> QED
        BY <1>1, <4>1, <4>2, ReachFurther, Zenon
    <3> QED
      BY <3>1, <3>2, Zenon
  <2> QED
    BY <2>1, <2>5, <2>6, Zenon
<1> QED
  BY <1>2, <1>6, <1>8, <1>9, Zenon

\* A step that leaves the list, the main thread and the clean-up alone, starts no thread
\* and revives none.
LEMMA ThreadsAside ==
    ASSUME ListInv, ~crashed, TypeOK', LockOK', UNCHANGED <<head, next, freed, main, cur, crashed>>,
           \A t \in Thread : pc'[t] = "none" <=> pc[t] = "none",
           \A t \in Thread : pc[t] = "done" => pc'[t] = "done",
           MutexLeaked => MutexLeaked'
    PROVE  ListInv'
<1> USE DEF Reach
<1>1. Active' \subseteq Active
  BY Zenon DEF Active
<1>2. Active \in SUBSET Thread /\ Reach(head) \in SUBSET Thread /\ freed \in SUBSET Thread
  BY Zenon DEF Active, ReachIn, ListInv, TypeOK
<1>3. EntriesOK'
  BY <1>2, Zenon DEF ListInv, EntriesOK
<1>4. AddingOK'
  <2>1. main \in Adding => cur \in Thread
    BY Zenon DEF ListInv, TypeOK
  <2> HIDE DEF Reach
  <2>2. Reach(head)' = Reach(head)
    BY Zenon DEF Reach
  <2> QED
    BY <1>1, <2>1, <2>2, Zenon DEF ListInv, AddingOK
<1>5. StoppingOK'
  <2> HIDE DEF Reach
  <2>1. Reach(head)' = Reach(head) /\ Reach(cur)' = Reach(cur)
    BY Zenon DEF Reach
  <2> QED
    BY <1>1, <2>1, Zenon DEF ListInv, StoppingOK
<1> QED
  BY <1>3, <1>4, <1>5, Zenon DEF ListInv, CrashOnlyBeforeEntry

\* Every step keeps the list and the threads in step.
LEMMA ListStep == ListInv /\ [Next]_vars => ListInv'
<1> SUFFICES ASSUME ListInv, [Next]_vars PROVE ListInv'
  BY Zenon
<1> USE ThreadsAssumption DEF sessions
<1>t. /\ TypeOK /\ LockOK /\ EntriesOK /\ AddingOK /\ StoppingOK /\ CrashOnlyBeforeEntry /\ TypeOK'
      /\ next \in Pointers /\ next' \in Pointers /\ head \in Thread \cup {NULL}
      /\ cur \in Thread \cup {NULL} /\ pc \in [Thread -> ThreadPc]
      /\ Reach(head) \subseteq Thread /\ Active \subseteq Thread /\ freed \subseteq Thread
      /\ head \in Reach(head) \cup {NULL}
      /\ mutex \in Thread \cup {Main, NULL}
  BY TypeStep, ReachClosed, Zenon DEF ListInv, TypeOK, Pointers, Reach, Active
<1> DEFINE Listed == Reach(head)
<1>1. CASE UNCHANGED vars
  BY <1>1, <1>t DEF vars, ListInv, LockOK, EntriesOK, AddingOK, StoppingOK, CrashOnlyBeforeEntry,
                   Reach, Active, MutexLeaked
<1>2. ASSUME NEW t \in Thread,
             ClientCloses(t) \/ Fail(t) \/ TakeCancel(t) \/ ReadDirCall(t) \/ ReadDirLock(t) \/ ReadDirUnlock(t)
      PROVE  ListInv'
  <2>1. /\ ~crashed /\ UNCHANGED <<mutex, head, next, freed, main, cur, crashed>>
        /\ pc[t] \in Serving /\ pc'[t] \in Serving \cup {"lock", "done"}
        /\ \A s \in Thread \ {t} : pc'[s] = pc[s]
    BY <1>2, <1>t, Zenon DEF ClientCloses, Fail, TakeCancel, ReadDirCall, ReadDirLock, ReadDirUnlock, Running, Serving
  <2>2. LockOK'
    BY <1>t, <2>1, Zenon DEF LockOK, Serving
  <2>3. MutexLeaked => MutexLeaked'
    BY <2>1, Zenon DEF MutexLeaked, Serving
  <2>4. \A s \in Thread : (pc'[s] = "none" <=> pc[s] = "none") /\ (pc[s] = "done" => pc'[s] = "done")
    BY <2>1, Zenon DEF Serving
  <2> QED
    BY <1>t, <2>1, <2>2, <2>3, <2>4, ThreadsAside, Zenon
<1>3. CASE CleanerWakes \/ CleanerLock \/ CleanerUnlock \/ CleanerEnds
  <2>1. ~crashed /\ UNCHANGED <<mutex, head, next, freed, pc, main, cur, crashed>>
    BY <1>3, Zenon DEF CleanerWakes, CleanerLock, CleanerUnlock, CleanerEnds, Running
  <2>2. LockOK' /\ (MutexLeaked => MutexLeaked')
    BY <1>t, <2>1, Zenon DEF LockOK, MutexLeaked
  <2> QED
    BY <1>t, <2>1, <2>2, ThreadsAside, Zenon
<1>4. ASSUME NEW t \in Thread, RemoveLock(t) \/ RemoveNotFound(t) PROVE ListInv'
  <2>1. /\ ~crashed /\ UNCHANGED <<head, next, freed, main, cur, crashed>>
        /\ \A s \in Thread \ {t} : pc'[s] = pc[s]
        /\ \/ mutex = NULL /\ mutex' = t /\ pc[t] = "lock" /\ pc'[t] = "remove"
           \/ mutex' = NULL /\ pc[t] = "remove" /\ pc'[t] = "done"
    BY <1>4, <1>t, Zenon DEF RemoveLock, RemoveNotFound, Running
  <2>2. LockOK'
    BY <1>t, <2>1, Zenon DEF LockOK
  <2>3. ~MutexLeaked
    BY <1>t, <2>1, Zenon DEF LockOK, MutexLeaked
  <2> QED
    BY <1>t, <2>1, <2>2, <2>3, ThreadsAside, Zenon
<1>5. ASSUME NEW t \in Thread, RemoveCrashes(t) PROVE ListInv'
  <2>1. /\ UNCHANGED <<mutex, head, next, freed, pc, main, cur>> /\ pc[t] = "remove" /\ crashed'
        /\ head \in freed \cup {NULL} \/ Reach(head) \cap freed # {}
    BY <1>5, Zenon DEF RemoveCrashes
  <2>2. t \notin Reach(head)
    <3>1. mutex = t
      BY <1>t, <2>1, Zenon DEF LockOK
    <3>2. main \notin {"cancel", "join"}
      BY <1>t, <3>1, Zenon DEF LockOK
    <3>3. CASE main \in {"release", "reap", "exit"}
      BY <1>t, <2>1, <3>3, Zenon DEF StoppingOK, Active
    <3>4. CASE main \in {"accept", "stop"} \cup Adding
      <4>1. Reach(head) \cap freed = {}
        BY <1>t, <3>4, Zenon DEF EntriesOK
      <4>2. head = NULL
        BY <1>t, <2>1, <4>1, Zenon
      <4>3. Reach(head) = {}
        <5>1. {} \in SUBSET Thread /\ head \in {} \cup {NULL} /\ \A s \in {} : next[s] \in {} \cup {NULL}
          BY <4>2, Zenon
        <5> QED
          BY <1>t, <5>1, ReachLeast, Zenon DEF Reach
      <4> QED
        BY <4>3, Zenon
    <3> QED
      BY <1>t, <3>2, <3>3, <3>4, Zenon DEF TypeOK, Stopping
  <2>3. Reach(head)' = Reach(head) /\ Reach(cur)' = Reach(cur) /\ Active' = Active
        /\ MutexLeaked' = MutexLeaked
    BY <2>1, Zenon DEF Reach, Active, MutexLeaked
  <2>4. CrashOnlyBeforeEntry'
    BY <2>1, <2>2, <2>3, Zenon DEF CrashOnlyBeforeEntry
  <2>5. LockOK' /\ AddingOK' /\ StoppingOK'
    BY <1>t, <2>1, <2>3 DEF LockOK, AddingOK, StoppingOK
  <2>6. EntriesOK'
    BY <1>t, <2>1, Zenon DEF EntriesOK, Reach
  <2> QED
    BY <1>t, <2>4, <2>5, <2>6, Zenon DEF ListInv
<1>6. ASSUME NEW t \in Thread, Accept(t) PROVE ListInv'
  <2>1. /\ UNCHANGED <<mutex, head, next, freed, crashed>> /\ ~crashed
        /\ main = "accept" /\ main' = "add" /\ cur' = t /\ pc[t] = "none" /\ pc'[t] = "serve"
        /\ \A s \in Thread \ {t} : pc'[s] = pc[s]
    BY <1>6, <1>t, Zenon DEF Accept, Running
  <2>2. t \notin Reach(head) \cup freed
    BY <1>t, <2>1, Zenon DEF EntriesOK
  <2>3. Reach(head)' = Reach(head) /\ Active' = Active \cup {t}
    BY <1>t, <2>1, Zenon DEF Reach, Active
  <2>4. LockOK'
    BY <1>t, <2>1, Zenon DEF LockOK
  <2>5. EntriesOK'
    BY <1>t, <2>1, Zenon DEF EntriesOK, Reach, Adding
  <2>6. AddingOK'
    BY <1>t, <2>1, <2>2, <2>3 DEF AddingOK, Adding
  <2>7. StoppingOK' /\ CrashOnlyBeforeEntry'
    BY <2>1, Zenon DEF StoppingOK, CrashOnlyBeforeEntry
  <2> QED
    BY <1>t, <2>4, <2>5, <2>6, <2>7, Zenon DEF ListInv
<1>7. CASE ReadHead
  <2>1. /\ UNCHANGED <<mutex, head, freed, crashed, pc, cur>> /\ ~crashed /\ main = "add" /\ main' = "lock"
        /\ cur \in Thread /\ next'[cur] = head /\ \A s \in Thread \ {cur} : next'[s] = next[s]
    BY <1>7, <1>t, Zenon DEF ReadHead, Running, TypeOK, Adding
  <2>2. cur \notin Reach(head)
    BY <1>t, <2>1, Zenon DEF AddingOK, Adding
  <2>3. \A p \in Reach(head) \cup {NULL} : ReachIn(next', p) = ReachIn(next, p)
    <3> SUFFICES ASSUME NEW p \in Reach(head) \cup {NULL} PROVE ReachIn(next', p) = ReachIn(next, p)
      BY Zenon
    <3>1. ReachIn(next, p) \subseteq Reach(head)
      BY <1>t, ReachFurther, Zenon DEF Reach
    <3>2. \A s \in ReachIn(next, p) : next'[s] = next[s]
      BY <1>t, <2>1, <2>2, <3>1, Zenon
    <3> QED
      BY <1>t, <3>2, ReachSame
  <2>4. Reach(head)' = Reach(head) /\ Active' = Active
    BY <1>t, <2>1, <2>3, Zenon DEF Reach, Active
  <2>5. LockOK'
    BY <1>t, <2>1, Zenon DEF LockOK
  <2>6. EntriesOK'
    <3>1. ASSUME NEW s \in Reach(head) PROVE s \notin ReachIn(next', next'[s])
      <4>1. next'[s] = next[s] /\ next[s] \in Reach(head) \cup {NULL}
        BY <1>t, <2>1, <2>2, ReachClosed, Zenon DEF Reach
      <4> QED
        BY <1>t, <2>3, <4>1, Zenon DEF EntriesOK, Reach
    <3>2. EntriesOK' = /\ \A s \in Reach(head) : pc[s] # "none" /\ s \notin ReachIn(next', next'[s])
                       /\ main' \in {"accept", "stop"} \cup Adding => Reach(head) \cap freed = {}
                       /\ \A s \in freed : pc[s] = "done"
      BY <2>1, <2>4, Zenon DEF EntriesOK, Reach
    <3> QED
      BY <1>t, <2>1, <3>1, <3>2, Zenon DEF EntriesOK, Adding
  <2>7. AddingOK'
    BY <1>t, <2>1, <2>4, Zenon DEF AddingOK, Adding
  <2>8. StoppingOK' /\ CrashOnlyBeforeEntry'
    BY <2>1, Zenon DEF StoppingOK, CrashOnlyBeforeEntry
  <2> QED
    BY <1>t, <2>5, <2>6, <2>7, <2>8, Zenon DEF ListInv
<1>8. CASE AddLink
  <2>1. /\ UNCHANGED <<next, freed, crashed, pc>> /\ ~crashed /\ main = "link" /\ main' = "accept"
        /\ head' = cur /\ mutex' = NULL /\ cur \in Thread /\ mutex = Main
    BY <1>8, <1>t, Zenon DEF AddLink, Running, TypeOK, Adding, LockOK
  <2>2. next[cur] = head
    BY <1>t, <2>1, Zenon DEF AddingOK, MutexLeaked
  <2>3. Reach(head)' = Reach(head) \cup {cur} /\ Active' = Active
    BY <1>t, <2>1, <2>2, ReachSplit DEF Reach, Active
  <2>4. LockOK'
    BY <1>t, <2>1, Zenon DEF LockOK
  <2>5. EntriesOK'
    <3>1. \A s \in Reach(head) \cup {cur} : pc[s] # "none" /\ s \notin Reach(next[s])
      BY <1>t, <2>1, <2>2, Zenon DEF EntriesOK, AddingOK, Adding
    <3>2. (Reach(head) \cup {cur}) \cap freed = {}
      BY <1>t, <2>1, Zenon DEF EntriesOK, AddingOK, Adding
    <3> QED
      BY <1>t, <2>1, <2>3, <3>1, <3>2, Zenon DEF EntriesOK, Reach
  <2>6. AddingOK'
    BY <1>t, <2>1, <2>3, Zenon DEF AddingOK, Adding
  <2>7. StoppingOK' /\ CrashOnlyBeforeEntry'
    BY <2>1, Zenon DEF StoppingOK, CrashOnlyBeforeEntry
  <2> QED
    BY <1>t, <2>4, <2>5, <2>6, <2>7, Zenon DEF ListInv
<1>9. CASE AddLock \/ SigTerm \/ StopLock \/ Cancel \/ StopUnlock \/ Release \/ Exit
  <2>1. /\ UNCHANGED <<head, next, freed, pc, crashed>> /\ ~crashed
        /\ \/ main = "lock" /\ main' = "link" /\ mutex = NULL /\ mutex' = Main /\ cur' = cur
           \/ main \notin Stopping /\ main' = "stop" /\ mutex' = mutex /\ cur' = head
           \/ main = "stop" /\ main' = "cancel" /\ mutex = NULL /\ mutex' = Main /\ cur' = cur
           \/ main = "cancel" /\ main' = "join" /\ mutex' = mutex /\ cur' = cur
           \/ main = "cancel" /\ main' = "release" /\ mutex' = NULL /\ cur' = cur /\ cur = NULL
           \/ main = "release" /\ main' = "reap" /\ mutex' = mutex /\ cur' = cur
           \/ main = "reap" /\ main' = "exit" /\ mutex' = mutex /\ cur' = cur
    BY <1>9, Zenon DEF AddLock, SigTerm, StopLock, Cancel, StopUnlock, Release, Exit, Running
  <2>2. Reach(head)' = Reach(head) /\ Active' = Active
    BY <2>1, Zenon DEF Reach, Active
  <2>3. main \notin Stopping => main \in {"accept"} \cup Adding
    BY <1>t, Zenon DEF TypeOK
  <2>4. LockOK'
    <3>1. mutex' = NULL => mutex = NULL \/ mutex = Main
      BY <1>t, <2>1, Zenon DEF LockOK
    <3>2. \A t \in Thread : pc[t] = "remove" => mutex = t
      BY <1>t, Zenon DEF LockOK
    <3>3. \A t \in Thread : pc'[t] = "remove" => mutex' = t
      BY <2>1, <3>1, <3>2, Zenon
    <3>4. main' \in {"link", "cancel", "join"} => mutex' = Main
      BY <1>t, <2>1, Zenon DEF LockOK
    <3> QED
      BY <3>3, <3>4, Zenon DEF LockOK
  <2>5. EntriesOK'
    <3>1. main' \in {"accept", "stop"} \cup Adding => main \in {"accept", "stop"} \cup Adding
      BY <2>1, <2>3, Zenon DEF Adding
    <3> QED
      BY <1>t, <2>1, <3>1, Zenon DEF EntriesOK, Reach
  <2>6. AddingOK'
    <3>1. main' \in Adding => main = "lock" /\ main' = "link" /\ mutex = NULL /\ cur' = cur
      BY <2>1, Zenon DEF Adding
    <3>2. mutex = NULL => ~MutexLeaked
      BY Zenon DEF MutexLeaked
    <3>3. main' # "accept" /\ main' # "lock"
      BY <2>1, Zenon
    <3> QED
      BY <1>t, <2>1, <2>2, <3>1, <3>2, <3>3, Zenon DEF AddingOK, Adding
  <2>7. StoppingOK'
    <3>1. CASE main' = "link"
      BY <3>1, Zenon DEF StoppingOK
    <3>2. CASE main' = "stop"
      BY <2>1, <3>2, Zenon DEF StoppingOK
    <3>3. CASE main' = "cancel"
      <4>1. cur = head /\ Reach(head) \cap freed = {} /\ cur' = cur
        BY <1>t, <2>1, <3>3, Zenon DEF StoppingOK, EntriesOK, MutexLeaked
      <4>2. Reach(cur)' = Reach(head)
        BY <2>1, <4>1, Zenon DEF Reach
      <4> QED
        BY <1>t, <2>1, <2>2, <3>3, <4>1, <4>2, Zenon DEF StoppingOK
    <3>4. CASE main' = "join"
      <4>1. main = "cancel" /\ cur' = cur /\ Reach(cur)' = Reach(cur)
        BY <2>1, <3>4, Zenon DEF Reach
      <4> QED
        BY <1>t, <2>1, <2>2, <3>4, <4>1, Zenon DEF StoppingOK
    <3>5. CASE main' = "release"
      <4>1. main = "cancel" /\ cur = NULL
        BY <2>1, <3>5, Zenon
      <4>2. Reach(cur) = {}
        <5>1. {} \in SUBSET Thread /\ cur \in {} \cup {NULL} /\ \A s \in {} : next[s] \in {} \cup {NULL}
          BY <4>1, Zenon
        <5> QED
          BY <1>t, <5>1, ReachLeast, Zenon DEF Reach
      <4> QED
        BY <1>t, <2>2, <3>5, <4>1, <4>2, Zenon DEF StoppingOK
    <3>6. CASE main' \in {"reap", "exit"}
      BY <1>t, <2>1, <2>2, <3>6, Zenon DEF StoppingOK
    <3> QED
      BY <2>1, <3>1, <3>2, <3>3, <3>4, <3>5, <3>6, Zenon
  <2> QED
    BY <1>t, <2>1, <2>4, <2>5, <2>6, <2>7, Zenon DEF ListInv, CrashOnlyBeforeEntry
<1>10. CASE Join
  <2>1. /\ UNCHANGED <<mutex, head, next, pc, crashed>> /\ ~crashed /\ main = "join" /\ main' = "cancel"
        /\ cur \in Thread /\ pc[cur] = "done" /\ cur' = next[cur] /\ freed' = freed \cup {cur}
    BY <1>10, <1>t, Zenon DEF Join, CleanUpEntry, Running, TypeOK
  <2>2. /\ cur \in Reach(head) /\ Reach(cur) \cap freed = {} /\ Active \cap Reach(head) \subseteq Reach(cur)
    BY <1>t, <2>1, Zenon DEF StoppingOK
  <2>3. Reach(head)' = Reach(head) /\ Active' = Active /\ Reach(cur)' = Reach(next[cur])
    BY <2>1, Zenon DEF Reach, Active
  <2>4. Reach(cur) = {cur} \cup Reach(next[cur]) /\ next[cur] \in Reach(head) \cup {NULL}
    BY <1>t, <2>1, <2>2, ReachSplit, ReachClosed, Zenon DEF Reach
  <2>5. cur \notin Reach(next[cur]) /\ cur \notin Active
    BY <1>t, <2>1, <2>2, Zenon DEF EntriesOK, Active
  <2>6. LockOK'
    BY <1>t, <2>1, Zenon DEF LockOK
  <2>7. EntriesOK'
    BY <1>t, <2>1, Zenon DEF EntriesOK, Reach, Adding
  <2>8. AddingOK'
    BY <1>t, <2>1, <2>3, Zenon DEF AddingOK, Adding
  <2>9. StoppingOK'
    BY <2>1, <2>2, <2>3, <2>4, <2>5, Zenon DEF StoppingOK
  <2> QED
    BY <1>t, <2>1, <2>6, <2>7, <2>8, <2>9, Zenon DEF ListInv, CrashOnlyBeforeEntry
<1>11. ASSUME NEW t \in Thread, RemoveHead(t) \/ RemoveMiddle(t) PROVE ListInv'
  <2>1. /\ UNCHANGED <<main, cur, crashed>> /\ ~crashed
        /\ pc[t] = "remove" /\ pc'[t] = "done" /\ \A s \in Thread \ {t} : pc'[s] = pc[s]
        /\ freed' = freed \cup {t}
    BY <1>11, <1>t, Zenon DEF RemoveHead, RemoveMiddle, CleanUpEntry, Running
  <2>2. mutex = t /\ main \notin {"link", "cancel", "join"} /\ ~MutexLeaked
    BY <1>t, <2>1, Zenon DEF LockOK, MutexLeaked
  <2>3. t \in Reach(head) /\ main \notin {"release", "reap", "exit"}
    <3>1. t \in Reach(head)
      BY <1>11, <1>t, Zenon DEF RemoveHead, RemoveMiddle
    <3> QED
      BY <1>t, <2>1, <3>1, Zenon DEF StoppingOK, Active
  <2>4. main \in {"accept", "stop", "add", "lock"}
    BY <1>t, <2>2, <2>3, Zenon DEF TypeOK, Adding, Stopping
  <2>5. /\ ReachIn(next', head') = Reach(head) \ {t}
        /\ \A s \in Reach(head) \ {t} : s \notin ReachIn(next', next'[s])
    <3>1. CASE RemoveHead(t)
      <4>1. head = t /\ head' = next[t] /\ next' = next
        BY <3>1, Zenon DEF RemoveHead
      <4>2. ReachIn(next, head) = {t} \cup ReachIn(next, next[t]) /\ t \notin ReachIn(next, next[t])
        BY <1>t, <2>3, <4>1, ReachSplit, Zenon DEF EntriesOK, Reach
      <4> QED
        BY <1>t, <4>1, <4>2, Zenon DEF EntriesOK, Reach
    <3>2. CASE RemoveMiddle(t)
      <4>1. /\ head' = head /\ head \in Thread \ {t}
            /\ next' = [s \in Thread |-> IF s \in ReachIn(next, head) /\ next[s] = t THEN next[t] ELSE next[s]]
        BY <1>t, <3>2, Zenon DEF RemoveMiddle, Reach
      <4>2. /\ t \in ReachIn(next, head) \ {head}
            /\ \A s \in ReachIn(next, head) : s \notin ReachIn(next, next[s])
        BY <1>t, <2>3, <4>1, Zenon DEF EntriesOK, Reach
      <4>3. /\ ReachIn(next', head) = ReachIn(next, head) \ {t}
            /\ \A s \in ReachIn(next', head) : s \notin ReachIn(next', next'[s])
        BY <1>t, <4>1, <4>2, ReachWithout
      <4> QED
        BY <4>1, <4>3, Zenon DEF Reach
    <3> QED
      BY <1>11, <3>1, <3>2, Zenon
  <2>6. Reach(head)' = Reach(head) \ {t} /\ Active' = Active \ {t}
    BY <1>t, <2>1, <2>5, Zenon DEF Reach, Active
  <2>7. LockOK'
    BY <1>t, <2>1, <2>2, Zenon DEF LockOK
  <2>8. EntriesOK'
    <3>1. EntriesOK' = /\ \A s \in Reach(head) \ {t} : pc'[s] # "none" /\ s \notin ReachIn(next', next'[s])
                       /\ main' \in {"accept", "stop"} \cup Adding => (Reach(head) \ {t}) \cap freed' = {}
                       /\ \A s \in freed' : pc'[s] = "done"
      BY <2>6, Zenon DEF EntriesOK, Reach
    <3>2. Reach(head) \cap freed = {}
      BY <1>t, <2>4, Zenon DEF EntriesOK, Adding
    <3> QED
      BY <1>t, <2>1, <2>5, <3>1, <3>2, Zenon DEF EntriesOK
  <2>9. next'[cur] = head' \/ MutexLeaked' \/ main # "lock"
    <3>1. CASE RemoveHead(t)
      BY <1>t, <2>1, <2>2, <3>1, Zenon DEF RemoveHead, MutexLeaked
    <3>2. CASE RemoveMiddle(t)
      <4>1. head' = head /\ head # t
        BY <3>2, Zenon DEF RemoveMiddle
      <4>2. main = "lock" => cur \in Thread /\ next[cur] = head
        BY <1>t, <2>2, Zenon DEF AddingOK, TypeOK, Adding
      <4>3. main = "lock" => next'[cur] = next[cur]
        BY <3>2, <4>1, <4>2, Zenon DEF RemoveMiddle
      <4> QED
        BY <4>1, <4>2, <4>3, Zenon
    <3> QED
      BY <1>11, <3>1, <3>2, Zenon
  <2>10. AddingOK'
    <3>1. main \in Adding => cur \in Thread /\ cur \notin Reach(head) \cup freed /\ cur # t /\ pc[cur] # "none"
      BY <1>t, <2>3, Zenon DEF AddingOK, TypeOK
    <3> QED
      BY <1>t, <2>1, <2>2, <2>6, <2>9, <3>1, Zenon DEF AddingOK
  <2>11. StoppingOK'
    <3>1. CASE RemoveHead(t)
      <4>1. MutexLeaked'
        BY <2>1, <2>2, <3>1, Zenon DEF RemoveHead, MutexLeaked
      <4> QED
        BY <2>1, <2>2, <2>3, <4>1, Zenon DEF StoppingOK
    <3>2. CASE RemoveMiddle(t)
      <4>1. head' = head
        BY <3>2, Zenon DEF RemoveMiddle
      <4> QED
        BY <1>t, <2>1, <2>2, <2>3, <4>1, Zenon DEF StoppingOK
    <3> QED
      BY <1>11, <3>1, <3>2, Zenon
  <2> QED
    BY <1>t, <2>1, <2>7, <2>8, <2>10, <2>11, Zenon DEF ListInv, CrashOnlyBeforeEntry
<1> QED
  BY <1>1, <1>2, <1>3, <1>4, <1>5, <1>6, <1>7, <1>8, <1>9, <1>10, <1>11, Zenon
     DEF Next, Environment, MainStep, ThreadStep, CleanerStep

\* Of every behaviour, from the start of the server on.
LEMMA ListInvariant == Spec => []ListInv
<1>1. Init => ListInv
  <2> SUFFICES ASSUME Init PROVE ListInv
    BY Zenon
  <2>1. TypeOK
    BY ThreadsAssumption, Zenon DEF Init, TypeOK, ThreadPc, Serving, CleanerPc, Adding, Stopping
  <2>2. Reach(head) = {} /\ Active = {}
    <3>1. /\ next \in Pointers /\ {} \in SUBSET Thread /\ head \in {} \cup {NULL}
          /\ \A s \in {} : next[s] \in {} \cup {NULL}
      BY Zenon DEF Init, Pointers
    <3>2. head \in Thread \cup {NULL} /\ Active = {}
      BY Zenon DEF Init, Active
    <3> QED
      BY <3>1, <3>2, ReachLeast DEF Reach
  <2> QED
    BY <2>1, <2>2, Zenon DEF Init, ListInv, LockOK, EntriesOK, AddingOK, StoppingOK, CrashOnlyBeforeEntry, Adding
<1> QED
  BY <1>1, ListStep, PTL DEF Spec

\* add_server_thread and the clean-up of SIGTERM use a head read without the mutex; still
\* no walk along the list meets a freed entry or a circle.
THEOREM ListSafety == Spec => []ListSound
<1>1. ListInv => ListSound
  BY Zenon DEF ListInv, TypeOK, EntriesOK, StoppingOK, ListSound
<1> QED
  BY <1>1, ListInvariant, PTL

\* remove_server_thread follows a bad pointer only for a thread without an entry.
THEOREM CrashSafety == Spec => []CrashOnlyBeforeEntry
BY ListInvariant, PTL DEF ListInv

\* When handle_signal frees the state of the server, all threads have terminated but one
\* at most, which run_server_tcp had started and not yet added to the list.
THEOREM ShutdownSafety == Spec => []ShutdownMissesOnlyNewest
<1>1. ListInv => ShutdownMissesOnlyNewest
  <2> SUFFICES ASSUME ListInv, main = "release"
               PROVE  Active \cap Reach(head) = {} /\ \A s, t \in Active : s = t
    BY Zenon DEF ShutdownMissesOnlyNewest, Active
  <2> QED
    BY Zenon DEF ListInv, StoppingOK, AddingOK
<1> QED
  BY <1>1, ListInvariant, PTL

-----------------------------------------------------------------------------
(***************************************************************************)
(* Attributes.tla: what the client threads do to a file, for any number of *)
(* them and any users, modes and attributes.  Files are used as their      *)
(* permissions allow, CREATE spares the files that were there when it      *)
(* looked, and the answers of SETATTR and CREATE tell what became of the   *)
(* file.  Only the last proof needs the order in which the system calls of *)
(* a procedure come.                                                       *)
(***************************************************************************)
\* The places of a call where a system call changes the file.
Effects == {"mode", "owner", "size", "times", "open", "write", "unlink"}

\* The locals of a call and the file are records; what a call has done is a sequence.
Shape ==
    /\ DOMAIN thread = Worker
    /\ \A t \in Worker :
          /\ DOMAIN thread[t] = {"at", "proc", "cred", "sattr", "reply", "result", "done", "since", "disturbed"}
          /\ thread[t].done \in Seq(Effects)
          /\ thread[t].disturbed \in BOOLEAN
    /\ file # NONE => DOMAIN file = {"ino", "uid", "gid", "mode", "size", "times"}

\* A call that got through its permission check is still permitted, or another thread
\* has changed the file since, or the call itself has.
Permitted ==
    \A t \in Worker : thread[t].at \notin {"idle", "exists", "check"} =>
        Permission(t) = "NFS_OK" \/ thread[t].disturbed \/ thread[t].done # <<>>

\* The numbers of files grow, and the file a CREATE meets beyond its look is no older
\* than the look.
Newer ==
    /\ next_ino \in Nat
    /\ file # NONE => file.ino \in Nat /\ file.ino < next_ino
    /\ \A t \in Worker :
          /\ thread[t].since \in Nat /\ thread[t].since <= next_ino
          /\ (thread[t].proc = "CREATE" /\ (thread[t].at \notin {"idle", "exists"} \/ thread[t].done # <<>>)
                  /\ file # NONE) => thread[t].since <= file.ino

AccessInv == Shape /\ Permitted /\ Newer

-----------------------------------------------------------------------------
(***************************************************************************)
(* What a step of a call does, in the terms of the invariant.              *)
(***************************************************************************)
\* Every call stays the same call.
SameCalls ==
    \A u \in Worker : /\ thread'[u].proc = thread[u].proc
                      /\ thread'[u].cred = thread[u].cred
                      /\ thread'[u].sattr = thread[u].sattr

\* A change of the file is noted by the thread that makes it and by the others.
ChangeNoted(t) ==
    /\ \A u \in Worker \ {t} :
          /\ thread'[u].at = thread[u].at
          /\ thread'[u].done = thread[u].done
          /\ thread'[u].since = thread[u].since
          /\ thread'[u].reply = thread[u].reply /\ thread'[u].result = thread[u].result
          /\ thread[u].disturbed => thread'[u].disturbed
          /\ thread[u].at = "idle" => thread'[u].disturbed = thread[u].disturbed
          /\ thread[u].at # "idle" /\ file' # file => thread'[u].disturbed
    /\ thread'[t].disturbed = thread[t].disturbed
    /\ thread'[t].done # thread[t].done => thread'[t].done # <<>>
    /\ file' # file => thread'[t].done # <<>>

\* The next number is given to a new file alone.
FileNumbered ==
    \/ next_ino' = next_ino /\ file' \in {file, NONE}
    \/ next_ino' = next_ino /\ file # NONE /\ file'.ino = file.ino
    \/ next_ino' = next_ino + 1 /\ file'.ino = next_ino

\* Before and in its check a call changes nothing, and it gets through if permitted.
\* A CREATE gets through its look if there is no file.
Guarded(t) ==
    /\ thread[t].at # "idle"
    /\ thread[t].at \in {"exists", "check"} => file' = file /\ thread'[t].done = thread[t].done
    /\ thread[t].at = "exists" => thread'[t].at \in {"idle", "check"}
    /\ thread[t].at = "check" => thread'[t].at = "idle" \/ Permission(t) = "NFS_OK"
    /\ \/ thread'[t].since = thread[t].since /\ (thread[t].at = "exists" => thread'[t].at = "idle")
       \/ thread[t].at = "exists" /\ thread'[t].since = next_ino /\ (thread[t].proc = "CREATE" => file = NONE)

\* A call that has done nothing has a sequence, too.
LEMMA EmptySequence == <<>> \in Seq(Effects)
  OBVIOUS

\* What Append makes is a sequence that is not empty.
LEMMA Appended ==
    ASSUME NEW S, NEW s \in Seq(S), NEW e \in S
    PROVE  Append(s, e) \in Seq(S) /\ Append(s, e) # <<>>
<1>1. Append(s, e) \in Seq(S) /\ Len(Append(s, e)) = Len(s) + 1 /\ Len(s) \in Nat
  OBVIOUS
<1>2. Len(<<>>) = 0
  BY Zenon
<1> QED
  BY <1>1, <1>2

\* Every action of Step is of one of these kinds: it answers, it goes on, or it changes
\* the file (Answers, Continues, Changes), or it is the look or the last step of a call.
LEMMA StepEffect ==
    ASSUME Shape, NEW t \in Worker, Step(t)
    PROVE  Shape' /\ SameCalls /\ ChangeNoted(t) /\ FileNumbered /\ Guarded(t)
<1> DEFINE Effect == Shape' /\ SameCalls /\ ChangeNoted(t)
<1> USE DEF Shape, SameCalls, ChangeNoted
<1>1. ASSUME NEW stat, Answers(t, stat), file' = file PROVE Effect /\ thread'[t].at = "idle"
                  /\ thread'[t].done = thread[t].done /\ thread'[t].since = thread[t].since
  BY <1>1, Zenon DEF Answers
<1>2. ASSUME Continues(t), file' = file
      PROVE  Effect /\ thread'[t].done = thread[t].done /\ thread'[t].since = thread[t].since
  BY <1>2, Zenon DEF Continues
<1>3. ASSUME NEW new, Changes(t, new), thread[t].at \in Effects,
             new # NONE => DOMAIN new = {"ino", "uid", "gid", "mode", "size", "times"}
      PROVE  Effect /\ file' = new /\ thread'[t].since = thread[t].since
  <2> DEFINE done == IF new = file THEN thread[t].done ELSE Append(thread[t].done, thread[t].at)
  <2>1. file' = new /\ DOMAIN thread' = Worker
    BY <1>3, Zenon DEF Changes
  <2>2. /\ DOMAIN thread'[t] = DOMAIN thread[t]
        /\ thread'[t].done = done
        /\ thread'[t].proc = thread[t].proc /\ thread'[t].cred = thread[t].cred
        /\ thread'[t].sattr = thread[t].sattr /\ thread'[t].since = thread[t].since
        /\ thread'[t].disturbed = thread[t].disturbed
    BY <1>3, Zenon DEF Changes
  <2>3. done \in Seq(Effects) /\ (new # file => done # <<>>)
    <3>1. thread[t].done \in Seq(Effects)
      BY Zenon
    <3>2. Append(thread[t].done, thread[t].at) \in Seq(Effects)
          /\ Append(thread[t].done, thread[t].at) # <<>>
      BY <1>3, <3>1, Appended, Zenon
    <3> QED
      BY <3>1, <3>2, Zenon
  <2>4. ASSUME NEW u \in Worker \ {t}
        PROVE  /\ DOMAIN thread'[u] = DOMAIN thread[u]
               /\ thread'[u].disturbed = (thread[u].disturbed \/ (thread[u].at # "idle" /\ new # file))
               /\ thread'[u].proc = thread[u].proc /\ thread'[u].cred = thread[u].cred
               /\ thread'[u].sattr = thread[u].sattr /\ thread'[u].since = thread[u].since
               /\ thread'[u].done = thread[u].done /\ thread'[u].at = thread[u].at
               /\ thread'[u].reply = thread[u].reply /\ thread'[u].result = thread[u].result
    BY <1>3, Zenon DEF Changes
  <2>5. SameCalls
    BY <2>2, <2>4, Zenon
  <2>6. ChangeNoted(t)
    <3>1. ASSUME NEW u \in Worker \ {t}, thread[u].at = "idle" PROVE thread'[u].disturbed = thread[u].disturbed
      <4>1. thread[u].disturbed \in BOOLEAN
        BY Zenon
      <4> QED
        BY <2>4, <3>1, <4>1, Zenon
    <3> QED
      BY <2>1, <2>2, <2>3, <2>4, <3>1, Zenon
  <2>7. \A u \in Worker :
           /\ DOMAIN thread'[u] = {"at", "proc", "cred", "sattr", "reply", "result", "done", "since", "disturbed"}
           /\ thread'[u].done \in Seq(Effects)
           /\ thread'[u].disturbed \in BOOLEAN
    <3>1. ASSUME NEW u \in Worker \ {t} PROVE thread'[u].disturbed \in BOOLEAN
      BY <2>4, Zenon
    <3> HIDE DEF done
    <3> QED
      BY <2>2, <2>3, <2>4, <3>1
  <2>8. Shape'
    BY <1>3, <2>1, <2>7, Zenon
  <2> QED
    BY <2>1, <2>2, <2>5, <2>6, <2>8, Zenon
<1> USE DEF FileNumbered, Guarded
<1> HIDE DEF Shape, SameCalls, ChangeNoted
<1> DEFINE Goal == Effect /\ FileNumbered /\ Guarded(t)
<1>4. ASSUME NEW new, Changes(t, new), thread[t].at \in Effects, file # NONE, next_ino' = next_ino,
             DOMAIN new = DOMAIN file /\ new.ino = file.ino
      PROVE  Goal
  <2>1. DOMAIN new = {"ino", "uid", "gid", "mode", "size", "times"}
    BY <1>4, Zenon DEF Shape
  <2>2. Effect /\ file' = new /\ thread'[t].since = thread[t].since
    BY <1>3, <1>4, <2>1, Zenon
  <2>3. FileNumbered /\ Guarded(t)
    BY <1>4, <2>2, Zenon DEF Effects
  <2> QED
    BY <2>2, <2>3, Zenon
<1>5. CASE Exists(t)
  <2>1. CASE thread' = [thread EXCEPT ![t].at = "check", ![t].since = next_ino]
    <3>1. thread[t].at = "exists" /\ UNCHANGED <<file, next_ino>> /\ (thread[t].proc = "CREATE" => file = NONE)
      BY <1>5, <2>1 DEF Exists, Answers, Shape
    <3>2. Effect
      BY <2>1, <3>1, Zenon DEF Shape, SameCalls, ChangeNoted
    <3>3. thread'[t].at = "check" /\ thread'[t].since = next_ino /\ thread'[t].done = thread[t].done
      BY <2>1, Zenon DEF Shape
    <3> QED
      BY <3>1, <3>2, <3>3, Zenon
  <2>2. CASE \E stat : Answers(t, stat)
    <3>1. file' = file /\ next_ino' = next_ino /\ thread[t].at = "exists"
      BY <1>5, Zenon DEF Exists
    <3> QED
      BY <1>1, <2>2, <3>1, Zenon
  <2> QED
    BY <1>5, <2>1, <2>2, Zenon DEF Exists
<1>6. CASE Check(t)
  BY <1>6, <1>1, <1>2, Zenon DEF Check
<1>7. CASE Chmod(t)
  <2> DEFINE new == [file EXCEPT !.mode = thread[t].sattr.mode]
  <2>1. Changes(t, new) /\ next_ino' = next_ino /\ file # NONE /\ thread[t].at \in Effects
    BY <1>7, Zenon DEF Chmod, Effects
  <2>2. DOMAIN new = DOMAIN file /\ new.ino = file.ino
    BY <2>1, Zenon DEF Shape
  <2> HIDE DEF new
  <2> QED
    BY <1>4, <2>1, <2>2, Zenon
<1>8. CASE Chown(t)
  <2> DEFINE new == [file EXCEPT !.uid = Or(thread[t].sattr.uid, @), !.gid = Or(thread[t].sattr.gid, @)]
  <2>1. Changes(t, new) /\ next_ino' = next_ino /\ file # NONE /\ thread[t].at \in Effects
    BY <1>8, Zenon DEF Chown, Effects
  <2>2. DOMAIN new = DOMAIN file /\ new.ino = file.ino
    BY <2>1, Zenon DEF Shape
  <2> HIDE DEF new
  <2> QED
    BY <1>4, <2>1, <2>2, Zenon
<1>9. CASE Truncate(t)
  <2> DEFINE new == [file EXCEPT !.size = thread[t].sattr.size]
  <2>1. Changes(t, new) /\ next_ino' = next_ino /\ file # NONE /\ thread[t].at \in Effects
    BY <1>9, Zenon DEF Truncate, Effects
  <2>2. DOMAIN new = DOMAIN file /\ new.ino = file.ino
    BY <2>1, Zenon DEF Shape
  <2> HIDE DEF new
  <2> QED
    BY <1>4, <2>1, <2>2, Zenon
<1>10. CASE Utimes(t)
  <2> DEFINE new == [file EXCEPT !.times = thread[t].sattr.times]
  <2>1. Changes(t, new) /\ next_ino' = next_ino /\ file # NONE /\ thread[t].at \in Effects
    BY <1>10, Zenon DEF Utimes, Effects
  <2>2. DOMAIN new = DOMAIN file /\ new.ino = file.ino
    BY <2>1, Zenon DEF Shape
  <2> HIDE DEF new
  <2> QED
    BY <1>4, <2>1, <2>2, Zenon
<1>11. CASE write_to_file(t)
  <2> DEFINE new == [file EXCEPT !.size = IF @ < WRITE_SIZE THEN WRITE_SIZE ELSE @]
  <2>1. Changes(t, new) /\ next_ino' = next_ino /\ file # NONE /\ thread[t].at \in Effects
    BY <1>11, Zenon DEF write_to_file, Effects
  <2>2. DOMAIN new = DOMAIN file /\ new.ino = file.ino
    BY <2>1, Zenon DEF Shape
  <2> HIDE DEF new
  <2> QED
    BY <1>4, <2>1, <2>2, Zenon
<1>12. CASE Open(t)
  <2>1. thread[t].at = "open"
    BY <1>12, Zenon DEF Open
  <2>2. CASE file # NONE
    <3>1. Changes(t, file) /\ next_ino' = next_ino
      BY <1>12, <2>2, Zenon DEF Open
    <3> QED
      BY <1>4, <2>1, <2>2, <3>1, Zenon DEF Effects
  <2>3. CASE file = NONE
    <3> DEFINE created(mode) == [ino |-> next_ino, uid |-> 0, gid |-> 0, mode |-> mode \ Umask,
                                 size |-> 0, times |-> "created"]
    <3>1. PICK mode : Changes(t, created(mode)) /\ next_ino' = next_ino + 1
      BY <1>12, <2>3, Zenon DEF Open
    <3>2. /\ DOMAIN created(mode) = {"ino", "uid", "gid", "mode", "size", "times"}
          /\ created(mode).ino = next_ino
      BY Zenon
    <3> HIDE DEF created
    <3>3. Effect /\ file' = created(mode) /\ thread'[t].since = thread[t].since
      BY <1>3, <2>1, <3>1, <3>2, Zenon DEF Effects
    <3> QED
      BY <2>1, <3>1, <3>2, <3>3, Zenon
  <2> QED
    BY <2>2, <2>3, Zenon
<1>13. CASE Unlink(t)
  <2>1. Changes(t, NONE) /\ next_ino' = next_ino /\ thread[t].at = "unlink"
    BY <1>13, Zenon DEF Unlink
  <2>2. Effect /\ file' = NONE /\ thread'[t].since = thread[t].since
    BY <1>3, <2>1, Zenon DEF Effects
  <2> QED
    BY <2>1, <2>2, Zenon
<1>14. CASE MakeHandle(t) \/ read_from_file(t)
  BY <1>14, <1>2, Zenon DEF MakeHandle, read_from_file
<1>15. CASE get_attributes(t)
  BY <1>15 DEF get_attributes, Shape, SameCalls, ChangeNoted
<1>16. CASE Fails(t)
  BY <1>16, <1>1, Zenon DEF Fails
<1> QED
  BY <1>5, <1>6, <1>7, <1>8, <1>9, <1>10, <1>11, <1>12, <1>13, <1>14, <1>15, <1>16, Zenon DEF Step

\* A new call: the thread starts from fresh locals and the others do not notice.
BeginEffect(t) ==
    /\ UNCHANGED <<file, next_ino>>
    /\ thread[t].at = "idle" /\ thread'[t].done = <<>> /\ thread'[t].since = next_ino
    /\ thread'[t].at = "exists" \/ (thread'[t].at = "check" /\ thread'[t].proc = "SETATTR")
    /\ \A u \in Worker \ {t} : thread'[u] = thread[u]

\* Begin does that.
LEMMA Begins == ASSUME Shape, NEW t \in Worker, Begin(t) PROVE Shape' /\ BeginEffect(t)
<1>1. PICK proc, cred, sattr :
         thread' = [thread EXCEPT ![t] =
             [Idle EXCEPT !.at = IF proc = "SETATTR" THEN "check" ELSE "exists",
                          !.proc = proc, !.cred = cred, !.sattr = sattr, !.since = next_ino]]
  BY Zenon DEF Begin
<1>2. thread[t].at = "idle" /\ UNCHANGED <<file, next_ino>>
  BY Zenon DEF Begin
<1>3. /\ DOMAIN thread' = Worker
      /\ \A u \in Worker \ {t} : thread'[u] = thread[u]
      /\ DOMAIN thread'[t] = {"at", "proc", "cred", "sattr", "reply", "result", "done", "since", "disturbed"}
      /\ thread'[t].at = IF proc = "SETATTR" THEN "check" ELSE "exists"
      /\ thread'[t].proc = proc /\ thread'[t].since = next_ino
      /\ thread'[t].done = <<>> /\ thread'[t].disturbed = FALSE
  BY <1>1, Zenon DEF Shape, Idle
<1>4. BeginEffect(t)
  BY <1>2, <1>3, Zenon DEF BeginEffect
<1>5. Shape'
  BY <1>2, <1>3, EmptySequence, Zenon DEF Shape
<1> QED
  BY <1>4, <1>5, Zenon

\* The answer of a permission check depends on the call and the file alone.
LEMMA SamePermission ==
    ASSUME NEW u \in Worker, file' = file, thread'[u].proc = thread[u].proc,
           thread'[u].cred = thread[u].cred, thread'[u].sattr = thread[u].sattr
    PROVE  Permission(u)' = Permission(u)
  BY Zenon DEF Permission

-----------------------------------------------------------------------------
\* No file is there, or it is an old one, and nobody calls.
LEMMA AccessInit == AttributesInit => AccessInv
<1> SUFFICES ASSUME AttributesInit PROVE AccessInv
  BY Zenon
<1>1. Shape
  <2>1. \A t \in Worker : thread[t] = Idle
    BY Zenon DEF AttributesInit
  <2>2. /\ DOMAIN Idle = {"at", "proc", "cred", "sattr", "reply", "result", "done", "since", "disturbed"}
        /\ Idle.done = <<>> /\ Idle.disturbed = FALSE
    BY Zenon DEF Idle
  <2>3. file # NONE => DOMAIN file = {"ino", "uid", "gid", "mode", "size", "times"}
    BY DEF AttributesInit
  <2> QED
    BY <2>1, <2>2, <2>3, EmptySequence, Zenon DEF AttributesInit, Shape
<1>2. Permitted
  BY Zenon DEF AttributesInit, Permitted, Idle
<1>3. Newer
  BY DEF AttributesInit, Newer, Idle
<1> QED
  BY <1>1, <1>2, <1>3, Zenon DEF AccessInv

\* Neither the begin of a call nor a system call of any thread ends the invariant.
LEMMA AccessStep == AccessInv /\ [AttributesNext]_attributes_vars => AccessInv'
<1> SUFFICES ASSUME AccessInv, [AttributesNext]_attributes_vars PROVE AccessInv'
  BY Zenon
<1> USE DEF AccessInv
<1>1. CASE UNCHANGED attributes_vars
  BY <1>1, Zenon DEF attributes_vars, Shape, Permitted, Newer, Permission
<1>2. ASSUME NEW t \in Worker, Begin(t) PROVE AccessInv'
  <2>1. Shape' /\ BeginEffect(t)
    BY <1>2, Begins, Zenon
  <2>2. Permitted'
    BY <2>1, SamePermission, Zenon DEF BeginEffect, Permitted
  <2>3. Newer'
    BY <2>1 DEF BeginEffect, Newer
  <2> QED
    BY <2>1, <2>2, <2>3, Zenon
<1>3. ASSUME NEW t \in Worker, Step(t) PROVE AccessInv'
  <2>1. Shape' /\ SameCalls /\ ChangeNoted(t) /\ FileNumbered /\ Guarded(t)
    BY <1>3, StepEffect, Zenon
  <2>2. Permitted'
    <3> SUFFICES ASSUME NEW u \in Worker, thread'[u].at \notin {"idle", "exists", "check"}
                 PROVE  Permission(u)' = "NFS_OK" \/ thread'[u].disturbed \/ thread'[u].done # <<>>
      BY Zenon DEF Permitted
    <3>1. file' = file => Permission(u)' = Permission(u)
      BY <2>1, SamePermission, Zenon DEF SameCalls
    <3>2. CASE u = t
      BY <2>1, <3>1, <3>2, Zenon DEF Permitted, ChangeNoted, Guarded
    <3>3. CASE u # t
      BY <2>1, <3>1, <3>3, Zenon DEF Permitted, ChangeNoted
    <3> QED
      BY <3>2, <3>3, Zenon
  <2>3. Newer'
    BY <2>1 DEF Newer, SameCalls, ChangeNoted, FileNumbered, Guarded
  <2> QED
    BY <2>1, <2>2, <2>3, Zenon
<1> QED
  BY <1>1, <1>2, <1>3, Zenon DEF AttributesNext

\* The invariant of all calls, for any threads, users and attributes.
LEMMA AccessCorrect == AttributesSpec => []AccessInv
  BY AccessInit, AccessStep, PTL DEF AttributesSpec

\* nfs_permissions.c is consulted once, by path, before the system calls of a procedure:
\* a file is read or changed only as its permissions allow at that moment, unless this
\* call or another thread has changed it since.
THEOREM PermissionSafety == AttributesSpec => AllowedUnlessChanged
<1> DEFINE Allowed ==
      \A t \in Worker :
          (thread'[t].done # thread[t].done \/ (thread[t].at = "read" /\ thread'[t].at = "attributes"))
              => \/ Permission(t) = "NFS_OK"
                 \/ thread[t].disturbed
                 \/ thread[t].done # <<>>
<1>1. AccessInv /\ [AttributesNext]_attributes_vars => [Allowed]_attributes_vars
  <2> SUFFICES ASSUME AccessInv, AttributesNext, NEW t \in Worker,
                      \/ thread'[t].done # thread[t].done
                      \/ thread[t].at = "read" /\ thread'[t].at = "attributes"
               PROVE  Permission(t) = "NFS_OK" \/ thread[t].disturbed \/ thread[t].done # <<>>
    BY Zenon
  <2>1. ASSUME NEW u \in Worker, Begin(u)
        PROVE  Permission(t) = "NFS_OK" \/ thread[t].disturbed \/ thread[t].done # <<>>
    BY <2>1, Begins, Zenon DEF AccessInv, BeginEffect
  <2>2. ASSUME NEW u \in Worker, Step(u)
        PROVE  Permission(t) = "NFS_OK" \/ thread[t].disturbed \/ thread[t].done # <<>>
    BY <2>2, StepEffect, Zenon DEF AccessInv, Permitted, ChangeNoted, Guarded
  <2> QED
    BY <2>1, <2>2, Zenon DEF AttributesNext
<1> QED
  BY <1>1, AccessCorrect, PTL DEF AttributesSpec, AllowedUnlessChanged

\* open in nfsproc_create.c has no O_EXCL, so CREATE may go on with a file that it did
\* not make; but never with one that was there when it looked with lstat.
THEOREM CreateSafety == AttributesSpec => CreateSparesOldFiles
<1> DEFINE Spared ==
      \A t \in Worker :
          (thread[t].proc = "CREATE" /\ thread'[t].done # thread[t].done /\ file # NONE)
              => file.ino >= thread[t].since
<1>1. AccessInv /\ [AttributesNext]_attributes_vars => [Spared]_attributes_vars
  <2> SUFFICES ASSUME AccessInv, AttributesNext, NEW t \in Worker,
                      thread[t].proc = "CREATE", thread'[t].done # thread[t].done, file # NONE
               PROVE  file.ino >= thread[t].since
    BY Zenon
  <2>1. thread[t].at \notin {"idle", "exists"} \/ thread[t].done # <<>>
    <3>1. ASSUME NEW u \in Worker, Begin(u) PROVE thread[t].done # <<>>
      BY <3>1, Begins, Zenon DEF AccessInv, BeginEffect
    <3>2. ASSUME NEW u \in Worker, Step(u) PROVE thread[t].at \notin {"idle", "exists"}
      BY <3>2, StepEffect, Zenon DEF AccessInv, ChangeNoted, Guarded
    <3> QED
      BY <3>1, <3>2, Zenon DEF AttributesNext
  <2> QED
    BY <2>1, Zenon DEF AccessInv, Newer
<1> QED
  BY <1>1, AccessCorrect, PTL DEF AttributesSpec, CreateSparesOldFiles

-----------------------------------------------------------------------------
(***************************************************************************)
(* What the answer of SETATTR and CREATE tells.  This needs the order of   *)
(* the system calls: which attributes are set by the time a call has come  *)
(* to a place of its plan.                                                 *)
(***************************************************************************)
Asks(t) == thread[t].proc \in {"SETATTR", "CREATE"}

\* Where a SETATTR or a CREATE is that is not answered, and why it comes by there.
Placed(t) ==
    LET at == thread[t].at
    IN  Asks(t) /\ at # "idle" =>
          /\ thread[t].sattr \in Sattrs
          /\ at \in {"exists", "check", "mode", "open", "owner", "size", "times", "handle", "attributes"}
          /\ at = "mode" => thread[t].proc = "SETATTR" /\ thread[t].sattr.mode # NONE
          /\ at \in {"exists", "open", "handle"} => thread[t].proc = "CREATE"
          /\ at = "size" => thread[t].sattr.size # NONE
          /\ at = "times" => SetsTimes(thread[t].sattr)
          /\ at \in {"exists", "check", "mode", "open"} => thread[t].done = <<>>

\* What the file is by then, as long as no other thread has changed it.
Updated(t) ==
    LET at == thread[t].at  sattr == thread[t].sattr
    IN  Asks(t) /\ ~thread[t].disturbed =>
          /\ thread[t].proc = "CREATE" /\ at \in {"check", "open"} => file = NONE
          /\ thread[t].proc = "CREATE" /\ at \in {"owner", "size", "times", "handle", "attributes"} =>
                /\ thread[t].done # <<>> /\ Head(thread[t].done) = "open"
                /\ sattr.mode # NONE => file.mode = sattr.mode \ Umask
          /\ thread[t].proc = "SETATTR" /\ at \in {"owner", "size", "times", "attributes"} =>
                (sattr.mode # NONE => file.mode = sattr.mode)
          /\ at \in {"size", "times", "handle", "attributes"} =>
                /\ Or(sattr.uid, file.uid) = file.uid
                /\ Or(sattr.gid, file.gid) = file.gid
          /\ at \in {"times", "handle", "attributes"} => Or(sattr.size, file.size) = file.size
          /\ at \in {"handle", "attributes"} => (SetsTimes(sattr) => file.times = sattr.times)

\* What AnswerTellsEffect says of one thread.
Told(t) ==
    (thread[t].at = "idle" /\ Asks(t)) =>
        /\ thread[t].reply \notin {"NFS_OK", "SYSTEM_ERR"} => thread[t].done = <<>>
        /\ (thread[t].reply = "NFS_OK" /\ ~thread[t].disturbed) =>
              /\ Took(t, thread[t].result)
              /\ thread[t].proc = "SETATTR" =>
                    Or(thread[t].sattr.mode, thread[t].result.mode) = thread[t].result.mode
              /\ thread[t].proc = "CREATE" =>
                    /\ thread[t].result.ino >= thread[t].since
                    /\ Head(thread[t].done) = "open"
                    /\ thread[t].sattr.mode # NONE => thread[t].result.mode = thread[t].sattr.mode \ Umask

UpdateInv == AccessInv /\ \A t \in Worker : Placed(t) /\ Updated(t) /\ Told(t)

\* The place after the one where a SETATTR or a CREATE is.
Following(t) ==
    LET at == thread[t].at  proc == thread[t].proc  sattr == thread[t].sattr
        last  == IF proc = "CREATE" THEN "handle" ELSE "attributes"
        times == IF SetsTimes(sattr) THEN "times" ELSE last
        size  == IF sattr.size # NONE THEN "size" ELSE times
    IN  CASE at = "check" /\ proc = "CREATE" -> "open"
          [] at = "check" /\ proc # "CREATE" -> IF sattr.mode # NONE THEN "mode" ELSE "owner"
          [] at \in {"mode", "open"} -> "owner"
          [] at = "owner" -> size
          [] at = "size" -> times
          [] at = "times" -> last
          [] at = "handle" -> "attributes"

\* The places of a plan differ, so CHOOSE finds the one place of a step.
LEMMA OnePlace ==
    ASSUME NEW plan, NEW at, NEW i \in 1..Len(plan), plan[i] = at,
           \A j \in 1..Len(plan) : plan[j] = at => j = i
    PROVE  (CHOOSE j \in 1..Len(plan) : plan[j] = at) = i
  BY Zenon

\* Plan puts the steps of nfsproc_setattr.c and nfsproc_create.c in this order.
LEMMA AfterFollows ==
    ASSUME NEW t \in Worker, Asks(t), Placed(t), thread[t].at \notin {"idle", "exists", "attributes"}
    PROVE  After(t) = Following(t)
<1> DEFINE at == thread[t].at
           proc == thread[t].proc
           sattr == thread[t].sattr
           plan == Plan(proc, sattr)
           here == CHOOSE j \in 1..Len(plan) : plan[j] = at
<1>1. ASSUME NEW i \in 1..Len(plan) - 1, plan[i] = at, at # "check",
             \A j \in 1..Len(plan) : plan[j] = at => j = i
      PROVE  After(t) = plan[i + 1]
  <2>1. here = i
    <3> HIDE DEF plan, at
    <3> QED
      BY <1>1, OnePlace
  <2> HIDE DEF here
  <2> QED
    BY <1>1, <2>1 DEF After
<1>2. at = "check" /\ Len(plan) # 0 => After(t) = plan[1]
  BY DEF After
<1> HIDE DEF here
<1>3. CASE proc = "SETATTR" /\ sattr.mode # NONE /\ sattr.size # NONE /\ SetsTimes(sattr)
  <2>1. /\ Len(plan) = 5 /\ plan[1] = "mode" /\ plan[2] = "owner" /\ plan[3] = "size" /\ plan[4] = "times"
        /\ plan[5] = "attributes"
    BY <1>3 DEF Plan
  <2> HIDE DEF plan
  <2> QED
    BY <1>3, <1>1, <1>2, <2>1 DEF Following, Placed, Asks
<1>4. CASE proc = "SETATTR" /\ sattr.mode # NONE /\ sattr.size # NONE /\ ~SetsTimes(sattr)
  <2>1. /\ Len(plan) = 4 /\ plan[1] = "mode" /\ plan[2] = "owner" /\ plan[3] = "size" /\ plan[4] = "attributes"
    BY <1>4 DEF Plan
  <2> HIDE DEF plan
  <2> QED
    BY <1>4, <1>1, <1>2, <2>1 DEF Following, Placed, Asks
<1>5. CASE proc = "SETATTR" /\ sattr.mode # NONE /\ sattr.size = NONE /\ SetsTimes(sattr)
  <2>1. /\ Len(plan) = 4 /\ plan[1] = "mode" /\ plan[2] = "owner" /\ plan[3] = "times" /\ plan[4] = "attributes"
    BY <1>5 DEF Plan
  <2> HIDE DEF plan
  <2> QED
    BY <1>5, <1>1, <1>2, <2>1 DEF Following, Placed, Asks
<1>6. CASE proc = "SETATTR" /\ sattr.mode # NONE /\ sattr.size = NONE /\ ~SetsTimes(sattr)
  <2>1. /\ Len(plan) = 3 /\ plan[1] = "mode" /\ plan[2] = "owner" /\ plan[3] = "attributes"
    BY <1>6 DEF Plan
  <2> HIDE DEF plan
  <2> QED
    BY <1>6, <1>1, <1>2, <2>1 DEF Following, Placed, Asks
<1>7. CASE proc = "SETATTR" /\ sattr.mode = NONE /\ sattr.size # NONE /\ SetsTimes(sattr)
  <2>1. /\ Len(plan) = 4 /\ plan[1] = "owner" /\ plan[2] = "size" /\ plan[3] = "times" /\ plan[4] = "attributes"
    BY <1>7 DEF Plan
  <2> HIDE DEF plan
  <2> QED
    BY <1>7, <1>1, <1>2, <2>1 DEF Following, Placed, Asks
<1>8. CASE proc = "SETATTR" /\ sattr.mode = NONE /\ sattr.size # NONE /\ ~SetsTimes(sattr)
  <2>1. /\ Len(plan) = 3 /\ plan[1] = "owner" /\ plan[2] = "size" /\ plan[3] = "attributes"
    BY <1>8 DEF Plan
  <2> HIDE DEF plan
  <2> QED
    BY <1>8, <1>1, <1>2, <2>1 DEF Following, Placed, Asks
<1>9. CASE proc = "SETATTR" /\ sattr.mode = NONE /\ sattr.size = NONE /\ SetsTimes(sattr)
  <2>1. /\ Len(plan) = 3 /\ plan[1] = "owner" /\ plan[2] = "times" /\ plan[3] = "attributes"
    BY <1>9 DEF Plan
  <2> HIDE DEF plan
  <2> QED
    BY <1>9, <1>1, <1>2, <2>1 DEF Following, Placed, Asks
<1>10. CASE proc = "SETATTR" /\ sattr.mode = NONE /\ sattr.size = NONE /\ ~SetsTimes(sattr)
  <2>1. /\ Len(plan) = 2 /\ plan[1] = "owner" /\ plan[2] = "attributes"
    BY <1>10 DEF Plan
  <2> HIDE DEF plan
  <2> QED
    BY <1>10, <1>1, <1>2, <2>1 DEF Following, Placed, Asks
<1>11. CASE proc = "CREATE" /\ sattr.size # NONE /\ SetsTimes(sattr)
  <2>1. /\ Len(plan) = 6 /\ plan[1] = "open" /\ plan[2] = "owner" /\ plan[3] = "size" /\ plan[4] = "times"
        /\ plan[5] = "handle" /\ plan[6] = "attributes"
    BY <1>11 DEF Plan
  <2> HIDE DEF plan
  <2> QED
    BY <1>11, <1>1, <1>2, <2>1 DEF Following, Placed, Asks
<1>12. CASE proc = "CREATE" /\ sattr.size # NONE /\ ~SetsTimes(sattr)
  <2>1. /\ Len(plan) = 5 /\ plan[1] = "open" /\ plan[2] = "owner" /\ plan[3] = "size" /\ plan[4] = "handle"
        /\ plan[5] = "attributes"
    BY <1>12 DEF Plan
  <2> HIDE DEF plan
  <2> QED
    BY <1>12, <1>1, <1>2, <2>1 DEF Following, Placed, Asks
<1>13. CASE proc = "CREATE" /\ sattr.size = NONE /\ SetsTimes(sattr)
  <2>1. /\ Len(plan) = 5 /\ plan[1] = "open" /\ plan[2] = "owner" /\ plan[3] = "times" /\ plan[4] = "handle"
        /\ plan[5] = "attributes"
    BY <1>13 DEF Plan
  <2> HIDE DEF plan
  <2> QED
    BY <1>13, <1>1, <1>2, <2>1 DEF Following, Placed, Asks
<1>14. CASE proc = "CREATE" /\ sattr.size = NONE /\ ~SetsTimes(sattr)
  <2>1. /\ Len(plan) = 4 /\ plan[1] = "open" /\ plan[2] = "owner" /\ plan[3] = "handle" /\ plan[4] = "attributes"
    BY <1>14 DEF Plan
  <2> HIDE DEF plan
  <2> QED
    BY <1>14, <1>1, <1>2, <2>1 DEF Following, Placed, Asks
<1> QED
  BY <1>3, <1>4, <1>5, <1>6, <1>7, <1>8, <1>9, <1>10, <1>11, <1>12, <1>13, <1>14, Zenon DEF Asks

\* A step of one thread leaves the call of another where it is, and tells it of a change.
LEMMA OthersKeep ==
    ASSUME NEW t \in Worker, NEW u \in Worker \ {t}, SameCalls, ChangeNoted(t),
           Shape, Placed(u), Updated(u), Told(u)
    PROVE  Placed(u)' /\ Updated(u)' /\ Told(u)'
<1>1. /\ thread'[u].at = thread[u].at /\ thread'[u].done = thread[u].done
      /\ thread'[u].since = thread[u].since
      /\ thread'[u].reply = thread[u].reply /\ thread'[u].result = thread[u].result
      /\ thread'[u].proc = thread[u].proc /\ thread'[u].sattr = thread[u].sattr
      /\ thread[u].disturbed => thread'[u].disturbed
      /\ thread[u].at # "idle" /\ file' # file => thread'[u].disturbed
  BY Zenon DEF SameCalls, ChangeNoted
<1>2. Placed(u)'
  BY <1>1, Zenon DEF Placed, Asks
<1>3. Updated(u)'
  <2>1. CASE file' = file \/ thread'[u].disturbed
    BY <1>1, <2>1, Zenon DEF Updated, Asks
  <2>2. CASE thread[u].at = "idle"
    BY <1>1, <2>2, Zenon DEF Updated, Asks
  <2> QED
    BY <1>1, <2>1, <2>2, Zenon
<1>4. Told(u)'
  BY <1>1, Zenon DEF Told, Took, Asks, Requested
<1> QED
  BY <1>2, <1>3, <1>4, Zenon

\* The first step of a list of steps stays the first when others are added.
LEMMA FirstStays ==
    ASSUME NEW S, NEW s \in Seq(S), NEW e \in S
    PROVE  Head(Append(s, e)) = IF s = <<>> THEN e ELSE Head(s)
  OBVIOUS

\* A system call of a SETATTR or a CREATE that changes the file, or would if it were not
\* as it is already.
LEMMA ChangesUpdates ==
    ASSUME UpdateInv, NEW t \in Worker, Asks(t), thread[t].at \in Effects, NEW new, Changes(t, new)
    PROVE  /\ file' = new
           /\ thread'[t].at = Following(t) /\ Following(t) # "idle"
           /\ thread'[t].proc = thread[t].proc /\ thread'[t].sattr = thread[t].sattr
           /\ thread'[t].disturbed = thread[t].disturbed
           /\ new = file => thread'[t].done = thread[t].done
           /\ new # file \/ thread[t].done # <<>> =>
                 /\ thread'[t].done # <<>>
                 /\ Head(thread'[t].done) = IF thread[t].done = <<>> THEN thread[t].at ELSE Head(thread[t].done)
<1>1. Placed(t) /\ Shape
  BY Zenon DEF UpdateInv, AccessInv
<1>2. After(t) = Following(t)
  BY <1>1, AfterFollows, Zenon DEF Effects
<1>3. Following(t) # "idle"
  BY <1>1, Zenon DEF Following, Placed, Asks, Effects
<1>4. /\ file' = new
      /\ thread'[t].at = After(t)
      /\ thread'[t].proc = thread[t].proc /\ thread'[t].sattr = thread[t].sattr
      /\ thread'[t].disturbed = thread[t].disturbed
      /\ thread'[t].done = IF new = file THEN thread[t].done ELSE Append(thread[t].done, thread[t].at)
  BY <1>1, Zenon DEF Changes, Shape
<1>5. LET added == Append(thread[t].done, thread[t].at)
      IN  added # <<>> /\ Head(added) = IF thread[t].done = <<>> THEN thread[t].at ELSE Head(thread[t].done)
  <2>1. thread[t].done \in Seq(Effects)
    BY <1>1, Zenon DEF Shape
  <2> QED
    BY <2>1, Appended, FirstStays, Zenon
<1> QED
  BY <1>2, <1>3, <1>4, <1>5, Zenon

\* A step of a SETATTR or a CREATE itself.
LEMMA OwnStep ==
    ASSUME NoNullFile, UpdateInv, NEW t \in Worker, Asks(t), Step(t)
    PROVE  Placed(t)' /\ Updated(t)' /\ Told(t)'
<1> DEFINE Goal == Placed(t)' /\ Updated(t)' /\ Told(t)'
           sattr == thread[t].sattr
<1>1. Shape /\ Placed(t) /\ Updated(t) /\ thread[t].disturbed \in BOOLEAN
  BY Zenon DEF UpdateInv, AccessInv, Shape
<1>2. ASSUME NEW stat, Answers(t, stat), stat # "NFS_OK", stat # "SYSTEM_ERR" => thread[t].done = <<>>
      PROVE  Goal
  <2>1. /\ thread'[t].at = "idle" /\ thread'[t].reply = stat /\ thread'[t].done = thread[t].done
    BY <1>1, <1>2, Zenon DEF Answers, Shape
  <2> QED
    BY <1>2, <2>1, Zenon DEF Placed, Updated, Told
<1>3. CASE Exists(t)
  <2>1. thread[t].at = "exists" /\ thread[t].proc = "CREATE" /\ thread[t].done = <<>>
    BY <1>1, <1>3, Zenon DEF Exists, Placed
  <2>2. CASE file # NONE
    BY <1>2, <1>3, <2>1, <2>2, Zenon DEF Exists
  <2>3. CASE file = NONE
    <3>1. thread' = [thread EXCEPT ![t].at = "check", ![t].since = next_ino] /\ file' = file
      BY <1>3, <2>1, <2>3, Zenon DEF Exists
    <3>2. /\ thread'[t].at = "check" /\ thread'[t].done = <<>>
          /\ thread'[t].proc = "CREATE" /\ thread'[t].sattr = sattr
      BY <1>1, <2>1, <3>1, Zenon DEF Shape
    <3> QED
      BY <1>1, <2>1, <2>3, <3>1, <3>2, Zenon DEF Placed, Updated, Told, Asks
  <2> QED
    BY <2>2, <2>3, Zenon
<1>4. CASE Check(t)
  <2>1. thread[t].at = "check" /\ thread[t].done = <<>> /\ file' = file
    BY <1>1, <1>4, Zenon DEF Check, Placed
  <2>2. CASE Permission(t) # "NFS_OK"
    BY <1>2, <1>4, <2>1, <2>2, Zenon DEF Check
  <2>3. CASE Permission(t) = "NFS_OK"
    <3>1. thread' = [thread EXCEPT ![t].at = Following(t)]
      BY <1>1, <1>4, <2>1, <2>3, AfterFollows, Zenon DEF Check, Continues
    <3>2. /\ thread'[t].at = Following(t) /\ thread'[t].done = <<>>
          /\ thread'[t].proc = thread[t].proc /\ thread'[t].sattr = sattr
          /\ thread'[t].disturbed = thread[t].disturbed
      BY <1>1, <2>1, <3>1, Zenon DEF Shape
    <3>3. /\ thread[t].proc = "CREATE" => Following(t) = "open"
          /\ thread[t].proc = "SETATTR" => Following(t) = IF sattr.mode # NONE THEN "mode" ELSE "owner"
      BY <2>1, Zenon DEF Following
    <3> QED
      BY <1>1, <2>1, <3>2, <3>3, Zenon DEF Placed, Updated, Told, Asks
  <2> QED
    BY <2>2, <2>3, Zenon
<1>5. CASE Chmod(t)
  <2> DEFINE new == [file EXCEPT !.mode = sattr.mode]
  <2>1. thread[t].at = "mode" /\ Changes(t, new) /\ file # NONE
    BY <1>5, Zenon DEF Chmod
  <2>2. DOMAIN new = DOMAIN file /\ new.mode = sattr.mode
    BY <1>1, <2>1, Zenon DEF Shape
  <2> HIDE DEF new
  <2>3. Following(t) = "owner"
    BY <2>1, Zenon DEF Following
  <2> QED
    BY <1>1, <2>1, <2>2, <2>3, ChangesUpdates DEF Effects, Placed, Updated, Told, Asks, Shape
<1>6. CASE Chown(t)
  <2> DEFINE new == [file EXCEPT !.uid = Or(sattr.uid, @), !.gid = Or(sattr.gid, @)]
  <2>1. thread[t].at = "owner" /\ Changes(t, new) /\ file # NONE
    BY <1>6, Zenon DEF Chown
  <2>2. /\ DOMAIN new = DOMAIN file /\ new.mode = file.mode
        /\ Or(sattr.uid, new.uid) = new.uid /\ Or(sattr.gid, new.gid) = new.gid
        /\ new.size = file.size /\ new.times = file.times
    BY <1>1, <2>1, Zenon DEF Shape, Or
  <2> HIDE DEF new
  <2>3. LET last  == IF thread[t].proc = "CREATE" THEN "handle" ELSE "attributes"
            times == IF SetsTimes(sattr) THEN "times" ELSE last
        IN  Following(t) = IF sattr.size # NONE THEN "size" ELSE times
    BY <2>1, Zenon DEF Following
  <2>4. Placed(t)' /\ Told(t)'
    BY <1>1, <2>1, <2>3, ChangesUpdates, Zenon DEF Effects, Placed, Told, Asks
  <2>5. Updated(t)'
    BY <1>1, <2>1, <2>2, <2>3, ChangesUpdates DEF Effects, Placed, Updated, Asks, Or
  <2> QED
    BY <2>4, <2>5, Zenon
<1>7. CASE Truncate(t)
  <2> DEFINE new == [file EXCEPT !.size = sattr.size]
  <2>1. thread[t].at = "size" /\ Changes(t, new) /\ file # NONE
    BY <1>7, Zenon DEF Truncate
  <2>2. /\ DOMAIN new = DOMAIN file /\ new.mode = file.mode /\ new.uid = file.uid /\ new.gid = file.gid
        /\ new.size = sattr.size
    BY <1>1, <2>1, Zenon DEF Shape
  <2> HIDE DEF new
  <2>3. LET last == IF thread[t].proc = "CREATE" THEN "handle" ELSE "attributes"
        IN  Following(t) = IF SetsTimes(sattr) THEN "times" ELSE last
    BY <2>1, Zenon DEF Following
  <2>4. Placed(t)' /\ Told(t)'
    BY <1>1, <2>1, <2>3, ChangesUpdates, Zenon DEF Effects, Placed, Told, Asks
  <2>5. Updated(t)'
    BY <1>1, <2>1, <2>2, <2>3, ChangesUpdates DEF Effects, Placed, Updated, Asks, Or
  <2> QED
    BY <2>4, <2>5, Zenon
<1>8. CASE Utimes(t)
  <2> DEFINE new == [file EXCEPT !.times = sattr.times]
  <2>1. thread[t].at = "times" /\ Changes(t, new) /\ file # NONE
    BY <1>8, Zenon DEF Utimes
  <2>2. /\ DOMAIN new = DOMAIN file /\ new.mode = file.mode /\ new.uid = file.uid /\ new.gid = file.gid
        /\ new.size = file.size /\ new.times = sattr.times
    BY <1>1, <2>1, Zenon DEF Shape
  <2> HIDE DEF new
  <2>3. Following(t) = IF thread[t].proc = "CREATE" THEN "handle" ELSE "attributes"
    BY <2>1, Zenon DEF Following
  <2>4. Placed(t)' /\ Told(t)'
    BY <1>1, <2>1, <2>3, ChangesUpdates, Zenon DEF Effects, Placed, Told, Asks
  <2>5. Updated(t)'
    BY <1>1, <2>1, <2>2, <2>3, ChangesUpdates DEF Effects, Placed, Updated, Asks, Or
  <2> QED
    BY <2>4, <2>5, Zenon
<1>9. CASE Open(t)
  <2>1. /\ thread[t].at = "open" /\ thread[t].proc = "CREATE" /\ thread[t].done = <<>>
        /\ Following(t) = "owner"
    BY <1>1, <1>9, Zenon DEF Open, Placed, Following
  <2>2. CASE file # NONE
    <3>1. Changes(t, file) /\ thread[t].disturbed
      BY <1>1, <1>9, <2>1, <2>2, Zenon DEF Open, Updated
    <3> QED
      BY <1>1, <2>1, <3>1, ChangesUpdates, Zenon DEF Effects, Placed, Updated, Told, Asks
  <2>3. CASE file = NONE
    <3> DEFINE created(mode) == [ino |-> next_ino, uid |-> 0, gid |-> 0, mode |-> mode \ Umask,
                                 size |-> 0, times |-> "created"]
    <3>1. PICK mode \in IF sattr.mode = NONE THEN Modes ELSE {sattr.mode} : Changes(t, created(mode))
      BY <1>9, <2>3, Zenon DEF Open
    <3>2. created(mode) # NONE
      <4>1. mode \in Modes \cup ({s.mode : s \in Sattrs} \ {NONE})
        BY <1>1, <2>1, <3>1, Zenon DEF Placed
      <4>2. next_ino \in Nat
        BY Zenon DEF UpdateInv, AccessInv, Newer
      <4> QED
        BY <4>1, <4>2 DEF NoNullFile
    <3>3. sattr.mode # NONE => created(mode).mode = sattr.mode \ Umask
      BY <3>1, Zenon
    <3> HIDE DEF created
    <3>4. /\ file' = created(mode) /\ thread'[t].at = "owner"
          /\ thread'[t].proc = "CREATE" /\ thread'[t].sattr = sattr
          /\ thread'[t].done # <<>> /\ Head(thread'[t].done) = "open"
      BY <2>1, <2>3, <3>1, <3>2, ChangesUpdates, Zenon DEF Effects
    <3> QED
      BY <1>1, <2>1, <3>3, <3>4, Zenon DEF Placed, Updated, Told, Asks
  <2> QED
    BY <2>2, <2>3, Zenon
<1>10. CASE MakeHandle(t)
  <2>1. thread[t].at = "handle" /\ file' = file
    BY <1>10, Zenon DEF MakeHandle
  <2>2. Following(t) = "attributes"
    BY <2>1, Zenon DEF Following
  <2>3. thread' = [thread EXCEPT ![t].at = "attributes"]
    BY <1>1, <1>10, <2>1, <2>2, AfterFollows, Zenon DEF MakeHandle, Continues
  <2>4. /\ thread'[t].at = "attributes" /\ thread'[t].done = thread[t].done
        /\ thread'[t].proc = thread[t].proc /\ thread'[t].sattr = sattr
        /\ thread'[t].disturbed = thread[t].disturbed
    BY <1>1, <2>3, Zenon DEF Shape
  <2> QED
    BY <1>1, <2>1, <2>4, Zenon DEF Placed, Updated, Told, Asks
<1>11. CASE get_attributes(t)
  <2>1. /\ thread[t].at = "attributes" /\ file # NONE
        /\ thread' = [thread EXCEPT ![t].at = "idle", ![t].reply = "NFS_OK", ![t].result = file]
    BY <1>11, Zenon DEF get_attributes
  <2>2. /\ thread'[t].at = "idle" /\ thread'[t].reply = "NFS_OK" /\ thread'[t].result = file
        /\ thread'[t].done = thread[t].done /\ thread'[t].since = thread[t].since
        /\ thread'[t].proc = thread[t].proc /\ thread'[t].sattr = sattr
        /\ thread'[t].disturbed = thread[t].disturbed
    BY <1>1, <2>1, Zenon DEF Shape
  <2>3. thread[t].proc = "CREATE" => file.ino >= thread[t].since
    BY <2>1, Zenon DEF UpdateInv, AccessInv, Newer
  <2>4. Told(t)'
    BY <1>1, <2>1, <2>2, <2>3, Zenon DEF Updated, Told, Took, Requested, Asks, Or
  <2> QED
    BY <2>2, <2>4, Zenon DEF Placed, Updated
<1>12. CASE Fails(t)
  <2>1. PICK stat : /\ Answers(t, stat)
                    /\ stat = "SYSTEM_ERR" \/ (stat = "NFSERR_IO" /\ thread[t].at \in {"open", "write", "unlink"})
    BY <1>12, Zenon DEF Fails
  <2>2. thread[t].at \in {"open", "write", "unlink"} => thread[t].done = <<>>
    BY <1>1, Zenon DEF Placed
  <2> QED
    BY <1>2, <2>1, <2>2, Zenon
<1>13. ~write_to_file(t) /\ ~read_from_file(t) /\ ~Unlink(t)
  BY <1>1, Zenon DEF Placed, write_to_file, read_from_file, Unlink
<1> QED
  BY <1>3, <1>4, <1>5, <1>6, <1>7, <1>8, <1>9, <1>10, <1>11, <1>12, <1>13, Zenon DEF Step

\* A new call has done nothing, and the answers of the other threads stand.
LEMMA BeginUpdates ==
    ASSUME UpdateInv, NEW t \in Worker, Begin(t), NEW u \in Worker
    PROVE  Placed(u)' /\ Updated(u)' /\ Told(u)'
<1>1. Shape /\ BeginEffect(t)
  BY Begins, Zenon DEF UpdateInv, AccessInv
<1>2. CASE u # t
  BY <1>1, <1>2 DEF UpdateInv, BeginEffect, Placed, Updated, Told, Took, Requested, Asks
<1>3. CASE u = t
  <2>1. PICK proc \in {"SETATTR", "CREATE", "WRITE", "READ", "REMOVE"}, cred \in Creds :
           \E sattr \in IF proc \in {"SETATTR", "CREATE"} THEN Sattrs ELSE {NONE} :
              thread' = [thread EXCEPT ![t] =
                 [Idle EXCEPT !.at = IF proc = "SETATTR" THEN "check" ELSE "exists",
                              !.proc = proc, !.cred = cred, !.sattr = sattr, !.since = next_ino]]
    BY Zenon DEF Begin
  <2>2. PICK sattr \in IF proc \in {"SETATTR", "CREATE"} THEN Sattrs ELSE {NONE} :
           thread' = [thread EXCEPT ![t] =
              [Idle EXCEPT !.at = IF proc = "SETATTR" THEN "check" ELSE "exists",
                           !.proc = proc, !.cred = cred, !.sattr = sattr, !.since = next_ino]]
    BY <2>1, Zenon
  <2>3. /\ thread'[t].proc = proc /\ thread'[t].sattr = sattr
        /\ thread'[t].at = IF proc = "SETATTR" THEN "check" ELSE "exists"
        /\ thread'[t].done = <<>>
    BY <1>1, <2>2, Zenon DEF Shape, Idle
  <2> QED
    BY <1>3, <2>3, Zenon DEF Placed, Updated, Told, Asks
<1> QED
  BY <1>2, <1>3, Zenon

\* No step of any thread ends the invariant of the answers.
LEMMA UpdateStep == ASSUME NoNullFile PROVE UpdateInv /\ [AttributesNext]_attributes_vars => UpdateInv'
<1> SUFFICES ASSUME UpdateInv, [AttributesNext]_attributes_vars PROVE UpdateInv'
  BY Zenon
<1>1. AccessInv'
  BY AccessStep, Zenon DEF UpdateInv
<1>2. ASSUME NEW u \in Worker PROVE Placed(u)' /\ Updated(u)' /\ Told(u)'
  <2>1. CASE UNCHANGED attributes_vars
    BY <2>1, Zenon DEF UpdateInv, attributes_vars, Placed, Updated, Told, Took, Requested, Asks
  <2>2. ASSUME NEW t \in Worker, Begin(t) PROVE Placed(u)' /\ Updated(u)' /\ Told(u)'
    BY <2>2, BeginUpdates, Zenon
  <2>3. ASSUME NEW t \in Worker, Step(t) PROVE Placed(u)' /\ Updated(u)' /\ Told(u)'
    <3>1. Shape /\ SameCalls /\ ChangeNoted(t)
      BY <2>3, StepEffect, Zenon DEF UpdateInv, AccessInv
    <3>2. CASE u # t
      BY <3>1, <3>2, OthersKeep, Zenon DEF UpdateInv
    <3>3. CASE u = t /\ Asks(t)
      BY <2>3, <3>3, OwnStep, Zenon
    <3>4. CASE u = t /\ ~Asks(t)
      BY <3>1, <3>4, Zenon DEF SameCalls, Asks, Placed, Updated, Told
    <3> QED
      BY <3>2, <3>3, <3>4, Zenon
  <2> QED
    BY <2>1, <2>2, <2>3, Zenon DEF AttributesNext
<1> QED
  BY <1>1, <1>2, Zenon DEF UpdateInv

\* SETATTR and CREATE change a file with several system calls and nothing is locked
\* between them (nfsproc_setattr.c, nfsproc_create.c).  Whatever the other threads do: an
\* NFS error means that nothing was changed, and NFS_OK, if nobody interfered, that all
\* the requested attributes are those of the answer.
THEOREM AnswerSafety == AttributesSpec => []AnswerTellsEffect
<1>1. AttributesInit => UpdateInv
  <2> SUFFICES ASSUME AttributesInit PROVE UpdateInv
    BY Zenon
  <2>1. ASSUME NEW t \in Worker PROVE Placed(t) /\ Updated(t) /\ Told(t)
    <3>1. thread[t].at = "idle" /\ thread[t].proc = NONE /\ thread[t].reply = NONE /\ thread[t].done = <<>>
      BY Zenon DEF AttributesInit, Idle
    <3> QED
      BY <3>1, Zenon DEF Placed, Updated, Told, Asks
  <2> QED
    BY <2>1, AccessInit, Zenon DEF UpdateInv
<1>2. UpdateInv => AnswerTellsEffect
  BY Zenon DEF UpdateInv, Told, AnswerTellsEffect, Asks, Requested
<1>3. UpdateInv /\ [AttributesNext]_attributes_vars => UpdateInv'
  BY UpdateStep, AttributesAssumption, Zenon
<1> QED
  BY <1>1, <1>2, <1>3, PTL DEF AttributesSpec

-----------------------------------------------------------------------------
(***************************************************************************)
(* ReadDir: the sessions of READDIR and the listings of the clients.       *)
(***************************************************************************)
INSTANCE WellFoundedInduction

Session == [client : Listing, dir : DOMAIN Entries, pos : Nat, age : Nat]

\* A list of sessions: each for the directory its client lists, no two for the same
\* client and directory.
SessionList(list) ==
    /\ list \in Seq(Session)
    /\ \A k \in DOMAIN list : list[k].dir = Directory[list[k].client]
    /\ \A j, k \in DOMAIN list : Matches(list[j], list[k].client) => j = k

\* A listing is not past the end of its directory.
CookiesOK ==
    /\ cookie \in [Listing -> Nat] /\ names \in [Listing -> Seq(Nat)]
    /\ state \in [Listing -> {"idle", "reading", "done", "failed"}]
    /\ \A l \in Listing : cookie[l] <= Len(Entries[Directory[l]])

ReadDirInv == SessionList(session_list) /\ CookiesOK /\ ListingExact

\* A non-empty set of natural numbers has a least element.
LEMMA LeastElement ==
    ASSUME NEW S \in SUBSET Nat, S # {}
    PROVE  \E x \in S : \A y \in S : x <= y
<1> DEFINE R == {ss \in Nat \X Nat : ss[1] < ss[2]}
<1>1. IsWellFoundedOn(R, Nat)
  BY NatLessThanWellFounded, Zenon DEF OpToRel
<1> HIDE DEF R
<1>2. PICK x \in S : \A y \in S : ~(<<y, x>> \in R)
  BY <1>1, WFMin, Zenon
<1>3. \A y \in S : x <= y
  <2> SUFFICES ASSUME NEW y \in S, y < x PROVE FALSE
    OBVIOUS
  <2>1. <<y, x>> \in R
    BY Zenon DEF R
  <2> QED
    BY <1>2, <2>1, Zenon
<1> QED
  BY <1>3, Zenon

\* There are running totals of the sizes of the entries of a directory from any position on.
LEMMA TotalsExist ==
    ASSUME NEW e \in Seq(Nat), NEW from \in 0..Len(e)
    PROVE  \E g \in [from..Len(e) -> Nat] :
              g = [n \in from..Len(e) |-> IF n = from THEN 0 ELSE g[n - 1] + e[n]]
<1> DEFINE Totals(g, m) == \A n \in from..m : g[n] = IF n = from THEN 0 ELSE g[n - 1] + e[n]
           without == {m \in from..Len(e) : \A g \in [from..m -> Nat] : ~Totals(g, m)}
<1>1. from \in Nat /\ Len(e) \in Nat /\ Len(e) \in from..Len(e) /\ from..Len(e) \in SUBSET Nat
  OBVIOUS
<1>2. ASSUME without # {} PROVE FALSE
  <2>1. PICK m \in without : \A k \in without : m <= k
    BY <1>1, <1>2, LeastElement, Zenon
  <2>2. CASE m = from
    <3> DEFINE g == [n \in from..m |-> 0]
    <3>1. g \in [from..m -> Nat] /\ Totals(g, m)
      BY <1>1, <2>2
    <3> QED
      BY <2>1, <3>1, Zenon
  <2>3. CASE m # from
    <3>0. m \in from..Len(e) /\ m \in Nat /\ m >= from /\ m <= Len(e)
      BY <1>1
    <3>1. m - 1 \in from..Len(e) /\ m - 1 \notin without /\ m \in DOMAIN e
      <4> HIDE DEF without
      <4>1. m - 1 \in from..Len(e) /\ m \in 1..Len(e) /\ ~(m <= m - 1)
        BY <1>1, <2>3, <3>0
      <4> QED
        BY <2>1, <4>1
    <3>2. PICK f \in [from..(m - 1) -> Nat] : Totals(f, m - 1)
      BY <3>1, Zenon
    <3> DEFINE g == [n \in from..m |-> IF n = m THEN f[m - 1] + e[m] ELSE f[n]]
    <3>3. g \in [from..m -> Nat]
      <4>1. f[m - 1] + e[m] \in Nat /\ \A n \in from..m : n # m => n \in from..(m - 1)
        BY <1>1, <3>0, <3>1, <3>2
      <4> QED
        BY <4>1, Zenon
    <3>4. Totals(g, m)
      <4> SUFFICES ASSUME NEW n \in from..m
                   PROVE  g[n] = IF n = from THEN 0 ELSE g[n - 1] + e[n]
        BY Zenon
      <4>1. CASE n = m
        BY <1>1, <2>3, <3>1, <4>1
      <4>2. CASE n # m
        <5>1. n \in from..(m - 1) /\ g[n] = f[n] /\ (n # from => n - 1 \in from..m /\ n - 1 # m)
          BY <1>1, <2>1, <4>2
        <5>2. n # from => g[n - 1] = f[n - 1]
          BY <5>1, Zenon
        <5>3. f[n] = IF n = from THEN 0 ELSE f[n - 1] + e[n]
          BY <3>2, <5>1, Zenon
        <5> HIDE DEF g
        <5> QED
          BY <5>1, <5>2, <5>3, Zenon
      <4> QED
        BY <4>1, <4>2, Zenon
    <3> HIDE DEF g, Totals
    <3> QED
      BY <2>1, <3>3, <3>4, Zenon
  <2> QED
    BY <2>2, <2>3, Zenon
<1>3. PICK g \in [from..Len(e) -> Nat] : Totals(g, Len(e))
  BY <1>1, <1>2, Zenon
<1>4. g = [n \in from..Len(e) |-> IF n = from THEN 0 ELSE g[n - 1] + e[n]]
  BY <1>3, Zenon
<1> QED
  BY <1>4, Zenon

\* The size of a part of a directory is a number.
LEMMA SizeIs ==
    ASSUME DirectoriesOK, NEW d \in DOMAIN Entries, NEW from \in 0..Len(Entries[d]), NEW to \in from..Len(Entries[d])
    PROVE  /\ Size(d, from, to) \in Nat
           /\ Size(d, from, from) = 0
<1> DEFINE e == Entries[d]
           IsTotals(g) == g = [n \in from..Len(e) |-> IF n = from THEN 0 ELSE g[n - 1] + e[n]]
           sum == CHOOSE g : IsTotals(g)
<1>1. e \in Seq(Nat)
  BY DEF DirectoriesOK
<1>2. \E g : IsTotals(g)
  BY <1>1, TotalsExist, Zenon
<1>3. IsTotals(sum)
  BY <1>2, Zenon
<1>4. Size(d, from, to) = sum[to] /\ Size(d, from, from) = sum[from]
  BY Zenon DEF Size
<1>5. \A n \in from..Len(e) : sum[n] = IF n = from THEN 0 ELSE sum[n - 1] + e[n]
  BY <1>3, Zenon
<1>6. Len(e) \in Nat /\ from \in Nat /\ from <= Len(e)
  BY <1>1
<1> HIDE DEF sum, IsTotals
<1>7. \A n \in from..Len(e) : sum[n] \in Nat
  <2> DEFINE bad == {n \in from..Len(e) : sum[n] \notin Nat}
  <2> SUFFICES ASSUME bad # {} PROVE FALSE
    BY Zenon
  <2>1. PICK n \in bad : \A k \in bad : n <= k
    <3>1. bad \in SUBSET Nat
      BY <1>6
    <3> QED
      BY <3>1, LeastElement, Zenon
  <2>2. n \in from..Len(e) /\ sum[n] \notin Nat
    BY Zenon
  <2>3. n # from /\ sum[n] = sum[n - 1] + e[n]
    BY <1>5, <2>2
  <2>4. n - 1 \in from..Len(e) /\ n \in 1..Len(e) /\ ~(n <= n - 1)
    BY <1>6, <2>2, <2>3
  <2>5. sum[n - 1] \in Nat
    BY <2>1, <2>4, Zenon
  <2> QED
    BY <1>1, <2>2, <2>3, <2>4, <2>5
<1>8. from \in from..Len(e)
  BY <1>6
<1> QED
  BY <1>4, <1>5, <1>7, <1>8, Zenon

\* There is a last entry that fits in the reply.
LEMMA LastFits ==
    ASSUME DirectoriesOK, NEW d \in DOMAIN Entries, NEW from \in 0..Len(Entries[d])
    PROVE  LastFitting(d, from) \in from..Len(Entries[d])
<1> DEFINE len == Len(Entries[d])
           size(n) == Size(d, from, n)
           Fits(to) == size(to) <= ByteCount /\ (to < len => size(to + 1) > ByteCount)
<1>1. len \in Nat /\ from \in Nat /\ from <= len /\ ByteCount \in Nat
  BY DEF DirectoriesOK
<1>2. size(from) = 0 /\ \A n \in from..len : size(n) \in Nat
  BY <1>1, SizeIs
<1> HIDE DEF len, size
<1>3. \E to \in from..len : Fits(to)
  <2> DEFINE past == {n \in from..len : size(n) > ByteCount}
  <2>1. CASE past = {}
    <3>1. len \in from..len /\ ~(len < len) /\ size(len) <= ByteCount
      BY <1>1, <1>2, <2>1
    <3> QED
      BY <3>1, Zenon
  <2>2. CASE past # {}
    <3>1. PICK n \in past : \A k \in past : n <= k
      <4>1. past \in SUBSET Nat
        BY <1>1
      <4> QED
        BY <2>2, <4>1, LeastElement, Zenon
    <3>2. n \in from..len /\ size(n) > ByteCount
      BY Zenon
    <3>3. n # from
      BY <1>1, <1>2, <3>2
    <3>4. n - 1 \in from..len /\ (n - 1) + 1 = n /\ ~(n <= n - 1)
      BY <1>1, <3>2, <3>3
    <3>5. ~(size(n - 1) > ByteCount)
      BY <3>1, <3>4, Zenon
    <3>6. size(n - 1) <= ByteCount
      BY <1>1, <1>2, <3>4, <3>5
    <3> QED
      BY <3>2, <3>4, <3>6, Zenon
  <2> QED
    BY <2>1, <2>2, Zenon
<1>4. LastFitting(d, from) = CHOOSE to \in from..len : Fits(to)
  BY Zenon DEF LastFitting, len, size
<1> HIDE DEF Fits
<1> QED
  BY <1>3, <1>4, Zenon DEF len

\* A call leaves its client at most at the end of the directory, and says that the end is
\* reached only there.
LEMMA ScanIs ==
    ASSUME DirectoriesOK, NEW d \in DOMAIN Entries, NEW from \in 0..Len(Entries[d])
    PROVE  LET scan == Scan[d][from]
           IN  /\ scan.last \in from..Len(Entries[d]) /\ scan.pos \in Nat
               /\ scan.eof => scan.last = Len(Entries[d])
<1>1. /\ Scan[d][from].last = LastFitting(d, from)
      /\ Scan[d][from].eof = EndOfStream(d, from)
      /\ Scan[d][from].pos = Consumed(d, from)
  BY Zenon DEF Scan
<1>2. LastFitting(d, from) \in from..Len(Entries[d]) /\ Len(Entries[d]) \in Nat
  BY LastFits DEF DirectoriesOK
<1>3. Consumed(d, from) \in {LastFitting(d, from), LastFitting(d, from) + 1}
  BY Zenon DEF Consumed
<1> QED
  BY <1>1, <1>2, <1>3 DEF EndOfStream

\* find_readdir_session, get_readdir_session and remove_readdir_session find the first
\* session that matches, if any does.
LEMMA SessionFound ==
    ASSUME NEW list, SessionList(list), NEW l \in Listing
    PROVE  /\ SessionOf(list, l) # 0 <=> \E k \in DOMAIN list : Matches(list[k], l)
           /\ SessionOf(list, l) # 0 => /\ SessionOf(list, l) \in 1..Len(list)
                                        /\ Matches(list[SessionOf(list, l)], l)
<1> DEFINE places == {k \in DOMAIN list : Matches(list[k], l)}
           First(k) == Matches(list[k], l) /\ \A j \in 1..(k - 1) : ~Matches(list[j], l)
<1>1. list \in Seq(Session) /\ Len(list) \in Nat /\ DOMAIN list = 1..Len(list)
  BY DEF SessionList
<1>2. CASE places = {}
  <2>1. SessionOf(list, l) = 0
    BY <1>2, Zenon DEF SessionOf
  <2> QED
    BY <1>2, <2>1, Zenon
<1>3. CASE places # {}
  <2>1. places \in SUBSET Nat
    BY <1>1
  <2>2. PICK k \in places : \A j \in places : k <= j
    BY <1>3, <2>1, LeastElement, Zenon
  <2>3. k \in DOMAIN list /\ Matches(list[k], l)
    BY Zenon
  <2>4. \A j \in 1..(k - 1) : j \in DOMAIN list /\ ~(k <= j)
    BY <1>1, <2>3
  <2>5. First(k)
    BY <2>2, <2>3, <2>4, Zenon
  <2>6. SessionOf(list, l) = CHOOSE n \in DOMAIN list : First(n)
    BY <1>3, Zenon DEF SessionOf
  <2>7. SessionOf(list, l) \in DOMAIN list /\ First(SessionOf(list, l))
    <3> HIDE DEF First
    <3> QED
      BY <2>3, <2>5, <2>6, Zenon
  <2> QED
    BY <1>1, <1>3, <2>7
<1> QED
  BY <1>2, <1>3, Zenon

\* A new session is for a client and a directory that had none.
LEMMA OpenedOne ==
    ASSUME DirectoriesOK, SessionList(session_list), NEW l \in Listing
    PROVE  SessionList(Opened(l)) /\ SessionOf(Opened(l), l) # 0
<1> DEFINE new == NewSession(l)
           list == <<new>> \o session_list
           len == Len(session_list)
<1>1. CASE SessionOf(session_list, l) # 0
  BY <1>1, Zenon DEF Opened
<1>2. CASE SessionOf(session_list, l) = 0
  <2>1. session_list \in Seq(Session) /\ len \in Nat /\ DOMAIN session_list = 1..len
    BY DEF SessionList
  <2>2. new \in Session /\ new.dir = Directory[l] /\ new.client = l
    BY Zenon DEF NewSession, Session, DirectoriesOK
  <2> HIDE DEF new
  <2>3. list \in Seq(Session) /\ Len(list) = len + 1 /\ list[1] = new
    BY <2>1, <2>2
  <2>4. \A k \in 2..(len + 1) : list[k] = session_list[k - 1] /\ k - 1 \in DOMAIN session_list
    BY <2>1, <2>2
  <2>5. DOMAIN list = 1..(len + 1)
    BY <2>3
  <2> HIDE DEF list, len
  <2>6. \A k \in DOMAIN list : k = 1 \/ k \in 2..(len + 1)
    BY <2>1, <2>5
  <2>7. \A k \in DOMAIN list : list[k].dir = Directory[list[k].client]
    BY <2>2, <2>3, <2>4, <2>6, Zenon DEF SessionList
  <2>8. \A k \in DOMAIN session_list : ~Matches(session_list[k], l)
    BY <1>2, SessionFound, Zenon
  <2>9. \A k \in DOMAIN session_list : ~Matches(new, session_list[k].client)
    BY <2>2, <2>8, Zenon DEF SessionList, Matches, SameUser
  <2>10. ASSUME NEW j \in DOMAIN list, NEW k \in DOMAIN list, Matches(list[j], list[k].client) PROVE j = k
    <3>1. CASE j = 1 /\ k = 1
      BY <3>1, Zenon
    <3>2. CASE j = 1 /\ k \in 2..(len + 1)
      BY <2>3, <2>4, <2>9, <2>10, <3>2, Zenon
    <3>3. CASE j \in 2..(len + 1) /\ k = 1
      BY <2>2, <2>3, <2>4, <2>8, <2>10, <3>3, Zenon
    <3>4. CASE j \in 2..(len + 1) /\ k \in 2..(len + 1)
      <4>1. j - 1 = k - 1
        BY <2>4, <2>10, <3>4, Zenon DEF SessionList
      <4> QED
        BY <2>1, <3>4, <4>1
    <3> QED
      BY <2>6, <3>1, <3>2, <3>3, <3>4, Zenon
  <2>11. SessionList(list)
    BY <2>3, <2>7, <2>10, Zenon DEF SessionList
  <2>12. 1 \in DOMAIN list /\ Matches(list[1], l)
    BY <2>1, <2>2, <2>3, <2>5 DEF Matches, SameUser
  <2>13. SessionOf(list, l) # 0
    BY <2>11, <2>12, SessionFound, Zenon
  <2>14. Opened(l) = list
    BY <1>2, Zenon DEF Opened, list, new
  <2> QED
    BY <2>11, <2>13, <2>14, Zenon
<1> QED
  BY <1>1, <1>2, Zenon

\* Some of the sessions of a list, in any order, are a list of sessions.
LEMMA PartOfList ==
    ASSUME NEW list, SessionList(list), NEW part \in Seq(Session),
           \A j \in DOMAIN part : \E k \in DOMAIN list : part[j] = list[k],
           \A i, j \in DOMAIN part : part[i] = part[j] => i = j
    PROVE  SessionList(part)
<1>1. \A j \in DOMAIN part : part[j].dir = Directory[part[j].client]
  BY DEF SessionList
<1>2. ASSUME NEW i \in DOMAIN part, NEW j \in DOMAIN part, Matches(part[i], part[j].client) PROVE i = j
  <2>1. PICK k \in DOMAIN list : part[i] = list[k]
    BY Zenon
  <2>2. PICK m \in DOMAIN list : part[j] = list[m]
    BY Zenon
  <2>3. k = m
    BY <1>2, <2>1, <2>2, Zenon DEF SessionList
  <2> QED
    BY <2>1, <2>2, <2>3, Zenon
<1> QED
  BY <1>1, <1>2, Zenon DEF SessionList

\* The sessions of a list differ.
LEMMA SessionsDiffer ==
    ASSUME NEW list, SessionList(list), NEW j \in DOMAIN list, NEW k \in DOMAIN list, list[j] = list[k]
    PROVE  j = k
<1>1. Matches(list[j], list[k].client)
  BY Zenon DEF SessionList, Matches, SameUser
<1> QED
  BY <1>1, Zenon DEF SessionList

\* A session with a new position or age is a session for the same client and directory.
LEMMA TouchedList ==
    ASSUME NEW list, SessionList(list), NEW new \in Seq(Session), DOMAIN new = DOMAIN list,
           \A k \in DOMAIN list : new[k].client = list[k].client /\ new[k].dir = list[k].dir
    PROVE  SessionList(new)
<1>1. \A j, k \in DOMAIN new : Matches(new[j], new[k].client) => Matches(list[j], list[k].client)
  BY Zenon DEF Matches, SameUser
<1> QED
  BY <1>1, Zenon DEF SessionList

\* The end of a call closes one session or touches it.
LEMMA ClosedOne ==
    ASSUME NEW list, SessionList(list), NEW l \in Listing, SessionOf(list, l) # 0,
           NEW pos \in Nat, NEW eof
    PROVE  SessionList(Closed(list, l, pos, eof))
<1> DEFINE k == SessionOf(list, l)
           len == Len(list)
<1>1. list \in Seq(Session) /\ len \in Nat /\ DOMAIN list = 1..len /\ k \in 1..len
  BY SessionFound DEF SessionList
<1> HIDE DEF k, len
<1>2. CASE eof
  <2> DEFINE n == len - 1
             f == [j \in 1..n |-> IF j < k THEN j ELSE j + 1]
  <2>1. n \in Nat /\ f \in [1..n -> 1..len] /\ \A i, j \in 1..n : f[i] = f[j] => i = j
    <3>1. n \in Nat /\ \A j \in 1..n : j \in 1..len /\ j + 1 \in 1..len
      BY <1>1
    <3>2. \A i, j \in 1..n : f[i] = f[j] => i = j
      BY <1>1
    <3> QED
      BY <3>1, <3>2, Zenon
  <2>2. Closed(list, l, pos, eof) = [j \in 1..n |-> IF j < k THEN list[j] ELSE list[j + 1]]
    BY <1>2, Zenon DEF Closed, RemoveAt, k, len
  <2> DEFINE part == [j \in 1..n |-> IF j < k THEN list[j] ELSE list[j + 1]]
  <2>3. \A j \in 1..n : part[j] = list[f[j]] /\ f[j] \in DOMAIN list
    BY <1>1, <2>1, Zenon
  <2>4. part \in Seq(Session) /\ DOMAIN part = 1..n
    <3>1. \A j \in 1..n : (IF j < k THEN list[j] ELSE list[j + 1]) \in Session
      BY <1>1
    <3>2. part \in [1..n -> Session]
      BY <3>1, Zenon
    <3> QED
      BY <2>1, <3>2
  <2> HIDE DEF part, f
  <2>5. \A i, j \in 1..n : part[i] = part[j] => i = j
    BY <2>1, <2>3, SessionsDiffer
  <2>6. SessionList(part)
    <3>1. /\ \A j \in DOMAIN part : \E m \in DOMAIN list : part[j] = list[m]
          /\ \A i, j \in DOMAIN part : part[i] = part[j] => i = j
      BY <2>3, <2>4, <2>5, Zenon
    <3> QED
      BY <2>4, <3>1, PartOfList, Zenon
  <2> QED
    BY <2>2, <2>6, Zenon DEF part
<1>3. CASE ~eof
  <2> DEFINE new == [list EXCEPT ![k] = [list[k] EXCEPT !.pos = pos, !.age = 0]]
  <2>1. Closed(list, l, pos, eof) = new
    BY <1>3, Zenon DEF Closed, k
  <2>2. list[k] \in Session
    BY <1>1
  <2>3. [list[k] EXCEPT !.pos = pos, !.age = 0] \in Session
    BY <2>2, Zenon DEF Session
  <2>4. new \in Seq(Session) /\ DOMAIN new = DOMAIN list
    BY <1>1, <2>3
  <2>5. \A j \in DOMAIN list : new[j].client = list[j].client /\ new[j].dir = list[j].dir
    BY <1>1, <2>2, Zenon DEF Session
  <2> QED
    BY <2>1, <2>4, <2>5, TouchedList, Zenon
<1> QED
  BY <1>2, <1>3, Zenon

\* The names of a reply follow those the listing has.
LEMMA NamesFollow ==
    ASSUME NEW from \in Nat, NEW last \in Nat, from <= last
    PROVE  [k \in 1..from |-> k] \o [k \in 1..(last - from) |-> from + k] = [k \in 1..last |-> k]
<1> DEFINE s == [k \in 1..from |-> k]
           t == [k \in 1..(last - from) |-> from + k]
           all == [k \in 1..last |-> k]
<1>1. last - from \in Nat /\ from + (last - from) = last
  OBVIOUS
<1>2. s \in [1..from -> Nat] /\ t \in [1..(last - from) -> Nat] /\ all \in [1..last -> Nat]
  BY <1>1
<1>3. s \in Seq(Nat) /\ t \in Seq(Nat) /\ all \in Seq(Nat)
  BY <1>1, <1>2
<1>4. Len(s) = from /\ Len(t) = last - from /\ Len(all) = last
  BY <1>1, <1>2, <1>3
<1>5. /\ \A k \in 1..from : s[k] = k
      /\ \A k \in 1..(last - from) : t[k] = from + k
      /\ \A k \in 1..last : all[k] = k
  BY Zenon
<1> HIDE DEF s, t, all
<1>6. s \o t \in Seq(Nat) /\ Len(s \o t) = last
  <2>1. s \o t \in Seq(Nat) /\ Len(s \o t) = Len(s) + Len(t)
    BY <1>3
  <2> QED
    BY <1>1, <1>4, <2>1, Zenon
<1>7. \A k \in 1..last : (s \o t)[k] = k
  <2> SUFFICES ASSUME NEW k \in 1..last PROVE (s \o t)[k] = k
    BY Zenon
  <2>1. CASE k <= from
    BY <1>3, <1>4, <1>5, <2>1
  <2>2. CASE k > from
    <3>1. k - from \in 1..(last - from) /\ from + (k - from) = k
      BY <2>2
    <3>2. k \in (Len(s) + 1)..(Len(s) + Len(t)) /\ k - Len(s) = k - from
      BY <1>1, <1>4, <2>2
    <3>3. (s \o t)[k] = t[k - Len(s)]
      BY <1>3, <3>2
    <3> QED
      BY <1>5, <3>1, <3>2, <3>3, Zenon
  <2>3. k <= from \/ k > from
    OBVIOUS
  <2> QED
    BY <2>1, <2>2, <2>3, Zenon
<1>8. s \o t = all
  <2> DEFINE u == s \o t
  <2>1. u \in Seq(Nat) /\ all \in Seq(Nat) /\ Len(u) = Len(all) /\ \A k \in 1..Len(u) : u[k] = all[k]
    BY <1>3, <1>4, <1>5, <1>6, <1>7
  <2> HIDE DEF u
  <2>2. u = all
    BY <2>1
  <2> QED
    BY <2>2, Zenon DEF u
<1> QED
  BY <1>8, Zenon DEF s, t, all

\* A call of another listing or the passing of time does not disturb a listing; its own
\* call extends it.
LEMMA ReadDirStep == ASSUME DirectoriesOK PROVE ReadDirInv /\ [ListingNext]_listing_vars => ReadDirInv'
<1> SUFFICES ASSUME ReadDirInv, [ListingNext]_listing_vars PROVE ReadDirInv'
  BY Zenon
<1>t. /\ SessionList(session_list) /\ session_list \in Seq(Session) /\ DOMAIN session_list = 1..Len(session_list)
      /\ Len(session_list) \in Nat /\ CookiesOK
      /\ \A l \in Listing : Directory[l] \in DOMAIN Entries /\ Len(Entries[Directory[l]]) \in Nat
      /\ \A l \in Listing : names[l] = [k \in 1..cookie[l] |-> k]
      /\ \A l \in Listing : state[l] = "done" => cookie[l] = Len(Entries[Directory[l]])
  <2>1. SessionList(session_list) /\ session_list \in Seq(Session) /\ CookiesOK
    BY Zenon DEF ReadDirInv, SessionList
  <2>2. DOMAIN session_list = 1..Len(session_list) /\ Len(session_list) \in Nat
    BY <2>1
  <2>3. \A l \in Listing : Directory[l] \in DOMAIN Entries /\ Len(Entries[Directory[l]]) \in Nat
    BY DEF DirectoriesOK
  <2> QED
    BY <2>1, <2>2, <2>3, Zenon DEF ReadDirInv, ListingExact
<1>1. CASE UNCHANGED listing_vars
  <2>1. SessionList(session_list')
    BY <1>1, <1>t, Zenon DEF listing_vars
  <2>2. CookiesOK' /\ ListingExact'
    BY <1>1, <1>t, Zenon DEF listing_vars, CookiesOK, ListingExact
  <2> QED
    BY <2>1, <2>2, Zenon DEF ReadDirInv, SessionList, Matches, SameUser
<1>2. ASSUME NEW l \in Listing, BeginListing(l) PROVE ReadDirInv'
  <2>1. SessionList(session_list')
    BY <1>2, <1>t, Zenon DEF BeginListing
  <2>2. /\ cookie'[l] = 0 /\ names'[l] = <<>> /\ state'[l] = "reading"
        /\ \A m \in Listing \ {l} : cookie'[m] = cookie[m] /\ names'[m] = names[m] /\ state'[m] = state[m]
    BY <1>2, <1>t, Zenon DEF BeginListing, CookiesOK
  <2>3. names'[l] = [k \in 1..0 |-> k] /\ <<>> \in Seq(Nat)
    BY <2>2
  <2>4. CookiesOK'
    BY <1>2, <1>t, <2>3 DEF BeginListing, CookiesOK
  <2>5. ListingExact'
    BY <1>t, <2>2, <2>3, Zenon DEF ListingExact
  <2> QED
    BY <2>1, <2>4, <2>5, Zenon DEF ReadDirInv, SessionList
<1>3. ASSUME NEW l \in Listing, Read(l) PROVE ReadDirInv'
  <2> DEFINE d == Directory[l]
             scan == Scan[d][cookie[l]]
             from == cookie[l]
  <2>n. names[l] = [k \in 1..from |-> k]
    BY <1>t, Zenon
  <2>1. d \in DOMAIN Entries /\ from \in 0..Len(Entries[d]) /\ from \in Nat /\ Len(Entries[d]) \in Nat
    BY <1>t DEF CookiesOK
  <2>2. /\ scan.last \in from..Len(Entries[d]) /\ scan.pos \in Nat
        /\ scan.eof => scan.last = Len(Entries[d])
    BY <2>1, ScanIs, Zenon
  <2>3. /\ session_list' = Closed(Opened(l), l, scan.pos, scan.eof)
        /\ names' = [names EXCEPT ![l] = names[l] \o [k \in 1..(scan.last - from) |-> from + k]]
        /\ cookie' = [cookie EXCEPT ![l] = IF scan.last > from THEN scan.last ELSE from]
        /\ state' = [state EXCEPT ![l] = IF scan.eof THEN "done" ELSE "reading"]
    BY <1>3, Zenon DEF Read, Start
  <2> HIDE DEF scan, from, d
  <2>4. SessionList(session_list')
    BY <1>t, <2>2, <2>3, OpenedOne, ClosedOne, Zenon
  <2>5. scan.last \in Nat /\ from <= scan.last /\ scan.last <= Len(Entries[d])
    BY <2>1, <2>2
  <2>6. (IF scan.last > from THEN scan.last ELSE from) = scan.last
    BY <2>1, <2>5
  <2>7. names[l] \o [k \in 1..(scan.last - from) |-> from + k] = [k \in 1..scan.last |-> k]
    BY <2>n, <2>1, <2>5, NamesFollow
  <2>8. [k \in 1..scan.last |-> k] \in Seq(Nat)
    <3>1. [k \in 1..scan.last |-> k] \in [1..scan.last -> Nat]
      OBVIOUS
    <3> QED
      BY <2>5, <3>1
  <2>9. /\ cookie'[l] = scan.last /\ names'[l] = [k \in 1..scan.last |-> k]
        /\ state'[l] = IF scan.eof THEN "done" ELSE "reading"
        /\ \A m \in Listing \ {l} : cookie'[m] = cookie[m] /\ names'[m] = names[m] /\ state'[m] = state[m]
    BY <1>t, <2>3, <2>6, <2>7, Zenon DEF CookiesOK
  <2>10. CookiesOK'
    <3>1. cookie' \in [Listing -> Nat] /\ names' \in [Listing -> Seq(Nat)]
      BY <1>t, <2>3, <2>5, <2>6, <2>7, <2>8, Zenon DEF CookiesOK
    <3>2. state' \in [Listing -> {"idle", "reading", "done", "failed"}]
      BY <1>t, <2>3, Zenon DEF CookiesOK
    <3>3. \A m \in Listing : cookie'[m] <= Len(Entries[Directory[m]])
      BY <1>t, <2>5, <2>9, Zenon DEF CookiesOK, d
    <3> QED
      BY <3>1, <3>2, <3>3, Zenon DEF CookiesOK
  <2>11. ListingExact'
    BY <1>t, <2>2, <2>9, Zenon DEF ListingExact, d
  <2> QED
    BY <2>4, <2>10, <2>11, Zenon DEF ReadDirInv, SessionList
<1>4. ASSUME NEW l \in Listing, ReadFails(l) PROVE ReadDirInv'
  <2>1. SessionList(session_list')
    BY <1>4, <1>t, OpenedOne, Zenon DEF ReadFails
  <2>2. CookiesOK' /\ ListingExact'
    BY <1>4, <1>t, Zenon DEF ReadFails, CookiesOK, ListingExact
  <2> QED
    BY <2>1, <2>2, Zenon DEF ReadDirInv, SessionList
<1>5. CASE Tick
  <2> DEFINE older(k) == IF session_list[k].age <= Timeout THEN session_list[k].age + 1 ELSE session_list[k].age
             new == [k \in DOMAIN session_list |-> [session_list[k] EXCEPT !.age = older(k)]]
  <2>1. \A k \in DOMAIN session_list : session_list[k] \in Session /\ older(k) \in Nat
    <3>1. \A k \in DOMAIN session_list : session_list[k] \in Session
      BY <1>t
    <3>2. \A k \in DOMAIN session_list : session_list[k].age \in Nat
      BY <3>1, Zenon DEF Session
    <3> QED
      BY <3>1, <3>2
  <2> HIDE DEF older
  <2>2. \A k \in DOMAIN session_list : new[k] \in Session /\ new[k].client = session_list[k].client
                                     /\ new[k].dir = session_list[k].dir
    BY <2>1, Zenon DEF Session
  <2>3. DOMAIN new = DOMAIN session_list
    BY Zenon
  <2>4. new \in Seq(Session)
    <3>1. new \in [1..Len(session_list) -> Session]
      BY <1>t, <2>1, Zenon DEF Session
    <3> HIDE DEF new
    <3> QED
      BY <1>t, <3>1
  <2>5. session_list' = new
    BY <1>5, Zenon DEF Tick, older
  <2> HIDE DEF new
  <2>6. SessionList(session_list')
    BY <1>t, <2>2, <2>3, <2>4, <2>5, TouchedList, Zenon
  <2>7. CookiesOK' /\ ListingExact'
    BY <1>5, <1>t, Zenon DEF Tick, CookiesOK, ListingExact
  <2> QED
    BY <2>6, <2>7, Zenon DEF ReadDirInv, SessionList
<1>6. CASE CleanUp
  <2> DEFINE kept == {k \in DOMAIN session_list : ~Expired(session_list[k])}
  <2>0. PICK n \in 0..Len(session_list) : \E f \in [1..n -> kept] :
                                    /\ \A i, j \in 1..n : i < j => f[i] < f[j]
                                    /\ session_list' = [j \in 1..n |-> session_list[f[j]]]
    BY <1>6, Zenon DEF CleanUp
  <2>1. n \in Nat
    BY <1>t, <2>0
  <2>2. PICK f \in [1..n -> kept] : /\ \A i, j \in 1..n : i < j => f[i] < f[j]
                                    /\ session_list' = [j \in 1..n |-> session_list[f[j]]]
    BY <2>0, Zenon
  <2>3. f \in [1..n -> DOMAIN session_list]
    BY <2>2, Zenon
  <2>4. \A i, j \in 1..n : f[i] = f[j] => i = j
    <3> SUFFICES ASSUME NEW i \in 1..n, NEW j \in 1..n, f[i] = f[j] PROVE i = j
      BY Zenon
    <3>1. f[i] \in Nat /\ f[j] \in Nat
      BY <1>t, <2>3
    <3>2. ~(i < j) /\ ~(j < i)
      BY <2>2, <3>1
    <3> QED
      BY <2>1, <3>2
  <2>5. session_list' = [j \in 1..n |-> session_list[f[j]]]
    BY <2>2, Zenon
  <2> HIDE DEF kept
  <2>6. SessionList(session_list')
    <3>1. \A j \in 1..n : session_list'[j] = session_list[f[j]] /\ f[j] \in DOMAIN session_list
      BY <2>3, <2>5, Zenon
    <3>2. session_list' \in Seq(Session) /\ DOMAIN session_list' = 1..n
      <4>1. \A j \in 1..n : session_list[f[j]] \in Session
        BY <1>t, <3>1
      <4>2. session_list' \in [1..n -> Session]
        BY <2>5, <4>1, Zenon
      <4> QED
        BY <2>1, <4>2
    <3>3. \A i, j \in 1..n : session_list'[i] = session_list'[j] => i = j
      BY <1>t, <2>4, <3>1, SessionsDiffer
    <3>4. /\ \A j \in DOMAIN session_list' : \E m \in DOMAIN session_list : session_list'[j] = session_list[m]
          /\ \A i, j \in DOMAIN session_list' : session_list'[i] = session_list'[j] => i = j
      BY <3>1, <3>2, <3>3, Zenon
    <3>5. SessionList(session_list)
      BY <1>t, Zenon
    <3> QED
      BY <3>2, <3>4, <3>5, PartOfList, Zenon
  <2>7. CookiesOK' /\ ListingExact'
    BY <1>6, <1>t, Zenon DEF CleanUp, CookiesOK, ListingExact
  <2> QED
    BY <2>6, <2>7, Zenon DEF ReadDirInv, SessionList
<1> QED
  BY <1>1, <1>2, <1>3, <1>4, <1>5, <1>6, Zenon DEF ListingNext

\* Of every behaviour, from the start of the server on.
LEMMA ReadDirInvariant == ListingSpec => []ReadDirInv
<1>1. ASSUME ListingInit PROVE ReadDirInv
  <2>1. /\ session_list = <<>> /\ \A l \in Listing : cookie[l] = 0 /\ names[l] = <<>> /\ state[l] = "idle"
        /\ cookie \in [Listing -> Nat] /\ names \in [Listing -> Seq(Nat)]
        /\ state \in [Listing -> {"idle", "reading", "done", "failed"}]
    BY <1>1 DEF ListingInit
  <2>2. <<>> = [k \in 1..0 |-> k] /\ <<>> \in Seq(Session) /\ DOMAIN session_list = {}
    BY <2>1
  <2>3. \A l \in Listing : Len(Entries[Directory[l]]) \in Nat
    BY ReadDirAssumption DEF DirectoriesOK
  <2> QED
    BY <2>1, <2>2, <2>3 DEF ReadDirInv, SessionList, CookiesOK, ListingExact
<1>2. ReadDirInv /\ [ListingNext]_listing_vars => ReadDirInv'
  BY ReadDirStep, ReadDirAssumption, Zenon
<1> QED
  BY <1>1, <1>2, PTL DEF ListingSpec

\* The session find_readdir_session finds, the one get_readdir_session returns and the one
\* remove_readdir_session frees are the same.
THEOREM SessionSafety == ListingSpec => []OneSession
<1>1. ReadDirInv => OneSession
  BY Zenon DEF ReadDirInv, SessionList, OneSession
<1> QED
  BY <1>1, ReadDirInvariant, PTL

\* A listing made of many READDIR calls has every entry of the directory once and in order,
\* whatever other listings do with the stream and whenever the clean-up thread closes it.
THEOREM ListingSafety == ListingSpec => []ListingExact
BY ReadDirInvariant, PTL DEF ReadDirInv
=============================================================================
