------------------------- MODULE InodeCacheThreads -------------------------
(***************************************************************************)
(* The inode cache at the level of its pointers (inode_cache.c): a linked  *)
(* list in the heap, whose head is the global inode_cache of server.c.     *)
(* The QUIC server has one thread; the TCP server runs the NFS procedures  *)
(* of every client on a thread of its own, and no lock guards the list.    *)
(*                                                                         *)
(* One action is one read or write of a shared pointer, or a run of them   *)
(* between which no other thread can tell the difference.  The Makefile    *)
(* compiles without optimisation: every "*head" in the source is a read of *)
(* its own.  A step that follows NULL or a pointer to freed memory breaks  *)
(* the program, and nothing is said of what happens after it.              *)
(*                                                                         *)
(* Abstraction: a procedure's use of the path it got is one step.  The     *)
(* mapping of the mounted directory is there from the start, and no        *)
(* procedure removes it.                                                   *)
(***************************************************************************)
EXTENDS InodeCache, FiniteSets

CONSTANTS
    Threads,    \* the threads that serve clients
    Nodes,      \* addresses of mappings, reused after free
    Inos,       \* inode numbers of files below the mounted directory
    Paths,      \* and their paths
    Root,       \* the inode number and the path of the mounted directory
    Kinds,      \* the operations the threads call
    MaxCalls    \* bound on the calls of all threads

ASSUME InodeCacheThreadsAssumption ==
    /\ Root \notin Inos \union Paths
    /\ Kinds \subseteq {"add", "remove", "remove_path", "update", "get"}
    /\ IsFiniteSet(Nodes) /\ NULL \notin Nodes
    /\ MaxCalls \in Nat

VARIABLES
    head,       \* inode_cache
    node,       \* the heap: the mapping at each address
    live,       \* the addresses that are allocated
    calls,      \* the number of calls so far
    op,         \* the call of each thread
    pc,         \* its next step
    curr, prev, \* curr_mapping (or new_mapping, new_head) and prev_mapping
    got,        \* the path pointer returned, as the string it pointed to
    broken,     \* NULL or freed memory has been used
    alone,      \* history: no other call has overlapped with this one
    safe,       \* history: the mappings added by such calls and not removed since
    clash       \* history: the calls that have overlapped: "none", "adds" (and look-ups), "any"

vars == <<head, node, live, calls, op, pc, curr, prev, got, broken, alone, safe, clash>>

Pointers == Nodes \union {NULL}
NoCall == [kind |-> "none", ino |-> Root, path |-> Root, new |-> Root]
\* The arguments an operation does not have are Root.
Calls == {c \in [kind : Kinds, ino : Inos \union {Root}, path : Paths \union {Root}, new : Paths \union {Root}] :
            /\ c.ino # Root <=> c.kind \in {"add", "remove", "get"}
            /\ c.path # Root <=> c.kind \in {"add", "remove_path", "update"}
            /\ c.new # Root <=> c.kind = "update"}

\* The addresses of the list that starts at h in the heap nd (cut off after as many as
\* there are nodes).
ListFrom(nd, h) ==
    LET Rest[d \in 0 .. Cardinality(Nodes)] ==
            [n \in Pointers |-> IF n = NULL \/ d = 0 THEN <<>> ELSE <<n>> \o Rest[d - 1][nd[n].next]]
    IN  Rest[Cardinality(Nodes)][h]

List == ListFrom(node, head)
Reachable == {List[k] : k \in DOMAIN List}

\* The mappings from the head on.
Contents == [k \in DOMAIN List |-> Mapping(node[List[k]].ino, node[List[k]].path)]

-----------------------------------------------------------------------------
\* Memory: a step that dereferences the pointers in P.
Uses(P) == broken' = (broken \/ ~ P \subseteq live)

\* The comparison by which a removal finds its mapping.
IsWanted(t, n) ==
    IF op[t].kind = "remove" THEN node[n].ino = op[t].ino ELSE node[n].path = op[t].path

\* strcmp reads the path's string, which an update may have freed.
UsesKey(t, n) ==
    broken' = (broken \/ n \notin live \/ (op[t].kind # "remove" /\ ~node[n].path_live))

Goto(t, label) == pc' = [pc EXCEPT ![t] = label]

-----------------------------------------------------------------------------
\* A procedure calls an operation of the cache.
Begin(t) ==
    /\ pc[t] = "idle" /\ calls < MaxCalls
    /\ calls' = calls + 1
    /\ \E c \in Calls :
          LET others == {u \in Threads : pc[u] # "idle"}
          IN  /\ op' = [op EXCEPT ![t] = c] /\ Goto(t, c.kind)
              /\ alone' = [u \in Threads |-> IF u = t THEN others = {} ELSE alone[u] /\ u \notin others]
              /\ clash' = CASE others = {} -> clash
                            [] others # {} /\ {op[u].kind : u \in others} \union {c.kind} \subseteq {"add", "get"} ->
                                  IF clash = "any" THEN "any" ELSE "adds"
                            [] OTHER -> "any"
    /\ UNCHANGED <<head, node, live, curr, prev, got, broken, safe>>

\* Mutant: the new mapping is not linked to the old ones.
AddLinkNoNext(t) ==
    /\ pc[t] = "add"
    /\ \E n \in Nodes \ live :
        /\ node' = [node EXCEPT ![n] = [ino |-> op[t].ino, path |-> op[t].path, path_live |-> TRUE, next |-> NULL]]
        /\ live' = live \union {n}
        /\ safe' = safe \ {n}
        /\ curr' = [curr EXCEPT ![t] = n]
    /\ Goto(t, "publish")
    /\ UNCHANGED <<head, calls, op, prev, got, broken, alone, clash>>

\* add_inode_mapping: the new mapping, with next = *head ...
AddLink(t) ==
    /\ pc[t] = "add"
    /\ \E n \in Nodes \ live :
        /\ node' = [node EXCEPT ![n] = [ino |-> op[t].ino, path |-> op[t].path, path_live |-> TRUE, next |-> head]]
        /\ live' = live \union {n}
        /\ safe' = safe \ {n}
        /\ curr' = [curr EXCEPT ![t] = n]
    /\ Goto(t, "publish")
    /\ UNCHANGED <<head, calls, op, prev, got, broken, alone, clash>>

\* ... and *head = new_mapping.
AddPublish(t) ==
    /\ pc[t] = "publish"
    /\ head' = curr[t]
    /\ safe' = IF alone[t] THEN safe \union {curr[t]} ELSE safe
    /\ Goto(t, "idle")
    /\ UNCHANGED <<node, live, calls, op, curr, prev, got, broken, alone, clash>>

-----------------------------------------------------------------------------
\* remove_inode_mapping_by_inode_number and ..._by_absolute_path.

\* Is the first mapping the one to remove?
RemoveFirst(t) ==
    /\ pc[t] \in {"remove", "remove_path"}
    /\ IF head = NULL THEN broken' = TRUE /\ UNCHANGED pc
       ELSE UsesKey(t, head) /\ Goto(t, IF IsWanted(t, head) THEN "new_head" ELSE "second")
    /\ UNCHANGED <<head, node, live, calls, op, curr, prev, got, alone, safe, clash>>

\* new_head = (*head)->next, or curr_mapping = (*head)->next
ReadSecond(t) ==
    /\ pc[t] \in {"new_head", "second"}
    /\ Uses({head})
    /\ curr' = [curr EXCEPT ![t] = IF head = NULL THEN NULL ELSE node[head].next]
    /\ Goto(t, IF pc[t] = "new_head" THEN "free_head" ELSE "first")
    /\ UNCHANGED <<head, node, live, calls, op, prev, got, alone, safe, clash>>

\* free_inode_cache_mapping(*head), which ignores NULL
FreeHead(t) ==
    /\ pc[t] = "free_head"
    /\ Uses({head} \ {NULL})
    /\ live' = live \ {head} /\ safe' = safe \ {head}
    /\ Goto(t, "set_head")
    /\ UNCHANGED <<head, node, calls, op, curr, prev, got, alone, clash>>

\* *head = new_head
SetHead(t) ==
    /\ pc[t] = "set_head"
    /\ head' = curr[t]
    /\ Goto(t, "idle")
    /\ UNCHANGED <<node, live, calls, op, curr, prev, got, broken, alone, safe, clash>>

\* prev_mapping = *head
ReadFirst(t) ==
    /\ pc[t] = "first"
    /\ prev' = [prev EXCEPT ![t] = head]
    /\ Goto(t, "walk")
    /\ UNCHANGED <<head, node, live, calls, op, curr, got, broken, alone, safe, clash>>

\* One turn of the loop over the rest of the list.
RemoveWalk(t) ==
    /\ pc[t] = "walk"
    /\ IF curr[t] = NULL THEN Goto(t, "idle") /\ UNCHANGED <<broken, curr, prev>>
       ELSE /\ UsesKey(t, curr[t])
            /\ IF IsWanted(t, curr[t]) THEN Goto(t, "unlink") /\ UNCHANGED <<curr, prev>>
               ELSE /\ prev' = [prev EXCEPT ![t] = curr[t]]
                    /\ curr' = [curr EXCEPT ![t] = node[curr[t]].next]
                    /\ UNCHANGED pc
    /\ UNCHANGED <<head, node, live, calls, op, got, alone, safe, clash>>

\* prev_mapping->next = curr_mapping->next
Unlink(t) ==
    /\ pc[t] = "unlink"
    /\ Uses({prev[t], curr[t]})
    /\ node' = IF prev[t] = NULL THEN node ELSE [node EXCEPT ![prev[t]].next = node[curr[t]].next]
    /\ safe' = safe \ {curr[t]}
    /\ Goto(t, "free")
    /\ UNCHANGED <<head, live, calls, op, curr, prev, got, alone, clash>>

\* free_inode_cache_mapping(curr_mapping)
FreeMapping(t) ==
    /\ pc[t] = "free"
    /\ Uses({curr[t]})
    /\ live' = live \ {curr[t]}
    /\ Goto(t, "idle")
    /\ UNCHANGED <<head, node, calls, op, curr, prev, got, alone, safe, clash>>

-----------------------------------------------------------------------------
\* update_inode_mapping_absolute_path_by_absolute_path and
\* get_absolute_path_from_inode_number, get_nfs_filehandle_from_inode_number.

ReadHead(t) ==
    /\ pc[t] \in {"update", "get"}
    /\ curr' = [curr EXCEPT ![t] = head]
    /\ Goto(t, IF pc[t] = "update" THEN "update_walk" ELSE "get_walk")
    /\ UNCHANGED <<head, node, live, calls, op, prev, got, broken, alone, safe, clash>>

\* One turn of update's loop; at the mapping, its path is freed ...
UpdateWalk(t) ==
    /\ pc[t] = "update_walk"
    /\ IF curr[t] = NULL THEN Goto(t, "idle") /\ UNCHANGED <<broken, curr, node>>
       ELSE /\ UsesKey(t, curr[t])
            /\ IF node[curr[t]].path = op[t].path
               THEN /\ node' = [node EXCEPT ![curr[t]].path_live = FALSE]
                    /\ Goto(t, "store") /\ UNCHANGED curr
               ELSE /\ curr' = [curr EXCEPT ![t] = node[curr[t]].next]
                    /\ UNCHANGED <<pc, node>>
    /\ UNCHANGED <<head, live, calls, op, prev, got, alone, safe, clash>>

\* Mutant: the pointer is cleared and the copy not stored.
StoreNothing(t) ==
    /\ pc[t] = "store"
    /\ Uses({curr[t]})
    /\ node' = [node EXCEPT ![curr[t]].path = NULL, ![curr[t]].path_live = TRUE]
    /\ Goto(t, "idle")
    /\ UNCHANGED <<head, live, calls, op, curr, prev, got, alone, safe, clash>>

\* ... and the copy of the new one stored.
Store(t) ==
    /\ pc[t] = "store"
    /\ Uses({curr[t]})
    /\ node' = [node EXCEPT ![curr[t]].path = op[t].new, ![curr[t]].path_live = TRUE]
    /\ Goto(t, "idle")
    /\ UNCHANGED <<head, live, calls, op, curr, prev, got, alone, safe, clash>>

\* Mutant: the search goes on to the last mapping of the inode number.
GetWalkLast(t) ==
    /\ pc[t] = "get_walk"
    /\ IF curr[t] = NULL
       THEN got' = [got EXCEPT ![t] = NULL] /\ Goto(t, "got_none") /\ UNCHANGED <<broken, curr>>
       ELSE /\ Uses({curr[t]})
            /\ IF node[curr[t]].ino = op[t].ino /\ node[curr[t]].next = NULL
               THEN got' = [got EXCEPT ![t] = node[curr[t]].path] /\ Goto(t, "use") /\ UNCHANGED curr
               ELSE /\ curr' = [curr EXCEPT ![t] = node[curr[t]].next]
                    /\ UNCHANGED <<pc, got>>
    /\ UNCHANGED <<head, node, live, calls, op, prev, alone, safe, clash>>

\* One turn of get's loop; at the mapping, the pointer to its path is returned.
GetWalk(t) ==
    /\ pc[t] = "get_walk"
    /\ IF curr[t] = NULL
       THEN got' = [got EXCEPT ![t] = NULL] /\ Goto(t, "got_none") /\ UNCHANGED <<broken, curr>>
       ELSE /\ Uses({curr[t]})
            /\ IF node[curr[t]].ino = op[t].ino
               THEN got' = [got EXCEPT ![t] = node[curr[t]].path] /\ Goto(t, "use") /\ UNCHANGED curr
               ELSE /\ curr' = [curr EXCEPT ![t] = node[curr[t]].next]
                    /\ UNCHANGED <<pc, got>>
    /\ UNCHANGED <<head, node, live, calls, op, prev, alone, safe, clash>>

\* The NFS procedure uses the path it was given.
Use(t) ==
    /\ pc[t] \in {"use", "got_none"}
    /\ broken' = (broken \/ (pc[t] = "use" /\
                     (curr[t] \notin live \/ node[curr[t]].path # got[t] \/ ~node[curr[t]].path_live)))
    /\ Goto(t, "idle")
    /\ UNCHANGED <<head, node, live, calls, op, curr, prev, got, alone, safe, clash>>

-----------------------------------------------------------------------------
Init ==
    /\ \E n \in Nodes :
        /\ head = n
        /\ live = {n}
    /\ node = [n \in Nodes |-> [ino |-> Root, path |-> Root, path_live |-> TRUE, next |-> NULL]]
    /\ calls = 0
    /\ op = [t \in Threads |-> NoCall]
    /\ pc = [t \in Threads |-> "idle"]
    /\ curr = [t \in Threads |-> NULL]
    /\ prev = [t \in Threads |-> NULL]
    /\ got = [t \in Threads |-> NULL]
    /\ broken = FALSE
    /\ alone = [t \in Threads |-> TRUE]
    /\ safe = live /\ clash = "none"

Next ==
    /\ ~broken
    /\ \E t \in Threads :
        \/ Begin(t) \/ AddLink(t) \/ AddPublish(t)
        \/ RemoveFirst(t) \/ ReadSecond(t) \/ FreeHead(t) \/ SetHead(t)
        \/ ReadFirst(t) \/ RemoveWalk(t) \/ Unlink(t) \/ FreeMapping(t)
        \/ ReadHead(t) \/ UpdateWalk(t) \/ Store(t) \/ GetWalk(t) \/ Use(t)

Spec == Init /\ [][Next]_vars

-----------------------------------------------------------------------------
\* What the list stands for.
Cache == INSTANCE InodeCacheSpec WITH cache <- Contents

\* As long as no two calls overlap, which is always so in the QUIC server, the linked
\* list does what the list of mappings does: every operation of inode_cache.c takes
\* effect in one step, and the pointer manipulation around that step is invisible.
SerialLikeList == Cache!Init /\ [][clash = "none" => Cache!Next \/ UNCHANGED Contents]_vars

\* As long as no two calls overlap, get_absolute_path_from_inode_number returns the path
\* of the newest mapping of the inode number, and NULL only if there is none.
GetReturnsNewest ==
    clash = "none" => \A t \in Threads : pc[t] \in {"use", "got_none"} =>
        got[t] = get_absolute_path_from_inode_number(Contents, op[t].ino)

\* NULL and freed memory are used, or a mapping that was added by a call nothing
\* overlapped and was not removed is lost, only after a removal or an update overlapped
\* with another call.  Additions and look-ups may overlap freely: what they lose is what
\* they were adding.  The exception is real: remove_inode_mapping_by_absolute_path frees
\* the mapping (l. 117, 130) and an update the path (l. 159) that another thread walks
\* over or was given.
SafeUnlessRemovalOverlaps == broken \/ ~(safe \subseteq Reachable) => clash = "any"
=============================================================================
