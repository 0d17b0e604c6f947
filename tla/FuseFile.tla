------------------------------ MODULE FuseFile ------------------------------
(***************************************************************************)
(* Reading, writing, opening and truncating one remote file through the    *)
(* FUSE client (src/fuse/handlers).  libfuse runs every request on its own *)
(* thread; the handler (nfs_read, nfs_write, nfs_open, nfs_truncate) puts  *)
(* a CallbackData and the operation's data on its STACK, starts a detached *)
(* worker thread on them and sleeps until the worker says it is finished.  *)
(* The worker (blocking_read, blocking_write, ...) resolves the path, then *)
(* sends the file in pieces of BytesPerRpc bytes, one RPC after the other. *)
(*                                                                         *)
(* Several requests run at once against a server with a thread per client: *)
(* nothing makes a request of several RPCs atomic, nor the two accesses to *)
(* the file (the data, then the attributes) of one READ.                   *)
(*                                                                         *)
(* Abstraction: one file, always under the path of the requests; a byte is *)
(* the request and the place in its buffer it came from.  A path that does *)
(* not resolve and an RPC that fails, for whatever reason, are one failure *)
(* (RpcMayFail).  One READ's fread and one WRITE's fwrite are one access    *)
(* each (TODO QNFS-25 in file_management.c: not for large buffers).        *)
(***************************************************************************)
EXTENDS Naturals, Sequences

CONSTANTS
    Callers,        \* the threads of libfuse
    BytesPerRpc,    \* READ_BYTES_PER_RPC, WRITE_BYTES_PER_RPC
    Requests,       \* the requests libfuse may make
    MaxLength,      \* bound on the length of the file
    MaxRequests,    \* bound on the requests of a caller
    RpcMayFail      \* whether RPCs may fail

\* What libfuse asks for, and the bounds.
RequestsOK ==
    /\ BytesPerRpc \in Nat \ {0}
    /\ MaxLength \in Nat /\ MaxRequests \in Nat
    /\ \A r \in Requests :
        /\ r \in [kind : {"read", "write", "truncate", "open"}, offset : 0 .. MaxLength, size : 0 .. MaxLength]
        /\ r.kind = "write" => r.offset + r.size <= MaxLength
        /\ r.kind = "open" => r.size = 0
    /\ RpcMayFail \in BOOLEAN

ASSUME FuseFileAssumption == RequestsOK

VARIABLES
    file,           \* the bytes of the file on the server
    asked,          \* the number of requests of each caller
    request,        \* the data on the handler's stack frame
    handler,        \* what the handler's thread is doing
    is_finished,    \* callback_data.is_finished
    lock,           \* who holds callback_data.lock
    error_code,     \* callback_data.error_code, and the handler's result
    worker,         \* what the blocking thread is doing
    done,           \* bytes_read or bytes_written
    buffer,         \* the bytes put into read_buffer
    crashed,        \* the FUSE process has been aborted
    seen            \* history: what each position held during the request

frame == <<request, is_finished, lock, error_code, done, buffer>>
fuse_vars == <<file, asked, frame, handler, worker, crashed, seen>>

Zero == <<"zero", 0>>
EOF  == <<"eof", 0>>
Byte(c, k) == <<c, k>>
Bytes == {Zero} \union {Byte(c, k) : c \in Callers \union {"old"}, k \in 1 .. MaxLength}

Positions == 1 .. MaxLength + 1
At(f, p)  == IF p <= Len(f) THEN f[p] ELSE EOF
Smallest(a, b) == IF a < b THEN a ELSE b

None == [kind |-> "none", offset |-> 0, size |-> 0]
-----------------------------------------------------------------------------
\* The server's side of an RPC.

\* read_from_file
FileRead(offset, count) == SubSeq(file, offset + 1, Smallest(Len(file), offset + count))

\* truncate(2), by which SETATTR sets the size of the file
FileTruncate(size) == [p \in 1 .. size |-> IF p <= Len(file) THEN file[p] ELSE Zero]

\* write_to_file
FileWrite(offset, data) ==
    [p \in 1 .. (IF data = <<>> \/ offset + Len(data) < Len(file) THEN Len(file) ELSE offset + Len(data)) |->
        IF p \in offset + 1 .. offset + Len(data) THEN data[p - offset]
        ELSE IF p <= Len(file) THEN file[p] ELSE Zero]

\* A new content of the file, and what the requests under way saw of it.
SetFile(f) ==
    /\ file' = f
    /\ seen' = [c \in Callers |-> [p \in Positions |-> seen[c][p] \union {At(f, p)}]]

-----------------------------------------------------------------------------
\* The worker.

Left(c) == request[c].size - done[c]

Chunk(c) == Smallest(Left(c), BytesPerRpc)

\* Mutant: every piece goes to the start of the range.
OffsetStays(c) == request[c].offset

Offset(c) == request[c].offset + done[c]

\* error_code and "goto signal"
Finish(c, e) ==
    /\ error_code' = [error_code EXCEPT ![c] = e]
    /\ worker' = [worker EXCEPT ![c] = "lock"]

\* resolve_absolute_path at the start of each blocking_* function; an open
\* without O_TRUNC ends there.
Resolve(c) ==
    /\ worker[c] = "resolve"
    /\ \/ worker' = [worker EXCEPT ![c] = request[c].kind] /\ UNCHANGED error_code
       \/ request[c].kind = "open" /\ Finish(c, "ok")
       \/ RpcMayFail /\ Finish(c, "failed")
    /\ UNCHANGED <<file, asked, request, is_finished, lock, done, buffer, handler, crashed, seen>>

\* free(read_data), where read_data is on the stack of nfs_read: glibc aborts.
FreeStack(c) ==
    /\ crashed' = TRUE
    /\ UNCHANGED <<error_code, worker>>

\* One READ: the data ...
ReadData(c) ==
    /\ worker[c] = "read"
    /\ \/ /\ LET data == FileRead(Offset(c), Chunk(c))
             IN  /\ buffer' = [buffer EXCEPT ![c] = @ \o data]
                 /\ done' = [done EXCEPT ![c] = @ + Len(data)]
          /\ worker' = [worker EXCEPT ![c] = "attributes"]
          /\ UNCHANGED <<error_code, crashed>>
       \/ RpcMayFail /\ FreeStack(c) /\ UNCHANGED <<buffer, done>>
    /\ UNCHANGED <<file, asked, request, is_finished, lock, handler, seen>>

\* Mutant: an off-by-one at the end of the file.
ReadsOnShort(c, file_size) == Left(c) > 0 /\ Offset(c) + 1 < file_size

\* The condition of blocking_read's loop, on the size in the READ's reply.
ReadsOn(c, file_size) == Left(c) > 0 /\ Offset(c) < file_size

\* ... and the attributes after the read, whose size decides whether to go on.
ReadAttributes(c) ==
    /\ worker[c] = "attributes"
    /\ IF ReadsOn(c, Len(file))
       THEN worker' = [worker EXCEPT ![c] = "read"] /\ UNCHANGED error_code
       ELSE Finish(c, "ok")
    /\ UNCHANGED <<file, asked, request, is_finished, lock, done, buffer, handler, crashed, seen>>

\* One turn of blocking_write's loop.
WriteChunk(c) ==
    /\ worker[c] = "write"
    /\ \/ /\ Left(c) > 0
          /\ SetFile(FileWrite(Offset(c), [k \in 1 .. Chunk(c) |-> Byte(c, done[c] + k)]))
          /\ done' = [done EXCEPT ![c] = @ + Chunk(c)]
          /\ UNCHANGED <<error_code, worker>>
       \/ Left(c) = 0 /\ Finish(c, "ok") /\ UNCHANGED <<file, seen, done>>
       \/ RpcMayFail /\ Left(c) > 0 /\ Finish(c, "failed") /\ UNCHANGED <<file, seen, done>>
    /\ UNCHANGED <<asked, request, is_finished, lock, buffer, handler, crashed>>

\* The SETATTR with only a size.
SetSize(c) ==
    /\ \/ SetFile(FileTruncate(request[c].size)) /\ Finish(c, "ok")
       \/ RpcMayFail /\ Finish(c, "failed") /\ UNCHANGED <<file, seen>>
    /\ UNCHANGED <<asked, request, is_finished, lock, done, buffer, handler, crashed>>

Truncate(c) == worker[c] = "truncate" /\ SetSize(c)

\* blocking_open, for O_TRUNC: the size is 0.
OpenTruncates(c) == worker[c] = "open" /\ SetSize(c)

\* Mutant: is_finished is set, and the handler woken, before the lock is taken.
WorkerLockEarly(c) ==
    /\ worker[c] = "lock"
    /\ is_finished' = [is_finished EXCEPT ![c] = TRUE]
    /\ handler' = [handler EXCEPT ![c] = IF @ = "sleep" THEN "wait" ELSE @]
    /\ worker' = [worker EXCEPT ![c] = "signal"]
    /\ UNCHANGED <<file, asked, request, lock, error_code, done, buffer, crashed, seen>>

\* The label "signal": the lock, is_finished and the signal, the unlock.
WorkerLock(c) ==
    /\ worker[c] = "lock" /\ lock[c] = "free"
    /\ lock' = [lock EXCEPT ![c] = "worker"]
    /\ worker' = [worker EXCEPT ![c] = "signal"]
    /\ UNCHANGED <<file, asked, request, is_finished, error_code, done, buffer, handler, crashed, seen>>

\* Mutant: no pthread_cond_signal.
WorkerSignalSilent(c) ==
    /\ worker[c] = "signal"
    /\ is_finished' = [is_finished EXCEPT ![c] = TRUE]
    /\ worker' = [worker EXCEPT ![c] = "unlock"]
    /\ UNCHANGED <<file, asked, request, lock, error_code, done, buffer, handler, crashed, seen>>

WorkerSignal(c) ==
    /\ worker[c] = "signal"
    /\ is_finished' = [is_finished EXCEPT ![c] = TRUE]
    /\ handler' = [handler EXCEPT ![c] = IF @ = "sleep" THEN "wait" ELSE @]
    /\ worker' = [worker EXCEPT ![c] = "unlock"]
    /\ UNCHANGED <<file, asked, request, lock, error_code, done, buffer, crashed, seen>>

WorkerUnlock(c) ==
    /\ worker[c] = "unlock"
    /\ lock' = [lock EXCEPT ![c] = "free"]
    /\ worker' = [worker EXCEPT ![c] = "none"]
    /\ UNCHANGED <<file, asked, request, is_finished, error_code, done, buffer, handler, crashed, seen>>

-----------------------------------------------------------------------------
\* The handler's thread.

\* nfs_read, nfs_write, nfs_open, nfs_truncate up to wait_for_nfs_reply.
CallHandler(c) ==
    /\ handler[c] = "idle" /\ asked[c] < MaxRequests
    /\ \E r \in Requests : request' = [request EXCEPT ![c] = r]
    /\ asked' = [asked EXCEPT ![c] = @ + 1]
    /\ is_finished' = [is_finished EXCEPT ![c] = FALSE]
    /\ error_code' = [error_code EXCEPT ![c] = "ok"]
    /\ lock' = [lock EXCEPT ![c] = "free"]
    /\ done' = [done EXCEPT ![c] = 0]
    /\ buffer' = [buffer EXCEPT ![c] = <<>>]
    /\ worker' = [worker EXCEPT ![c] = "resolve"]
    /\ handler' = [handler EXCEPT ![c] = "wait"]
    /\ seen' = [seen EXCEPT ![c] = [p \in Positions |-> {At(file, p)}]]
    /\ UNCHANGED <<file, crashed>>

\* wait_for_nfs_reply: the lock, and the test of is_finished.
Wait(c) ==
    /\ handler[c] = "wait" /\ lock[c] = "free"
    /\ handler' = [handler EXCEPT ![c] = IF is_finished[c] THEN "return" ELSE "sleep"]
    /\ UNCHANGED <<file, asked, frame, worker, crashed, seen>>

\* pthread_cond_wait may return unasked.
HandlerWakes(c) ==
    /\ handler[c] = "sleep"
    /\ handler' = [handler EXCEPT ![c] = "wait"]
    /\ UNCHANGED <<file, asked, frame, worker, crashed, seen>>

\* The mutex is destroyed and the handler's frame is gone.
Return(c) ==
    /\ handler[c] = "return"
    /\ handler' = [handler EXCEPT ![c] = "idle"]
    /\ UNCHANGED <<file, asked, frame, worker, crashed, seen>>

-----------------------------------------------------------------------------
FuseInit ==
    /\ \E n \in 0 .. MaxLength : file = [k \in 1 .. n |-> Byte("old", k)]
    /\ asked = [c \in Callers |-> 0]
    /\ request = [c \in Callers |-> None]
    /\ handler = [c \in Callers |-> "idle"]
    /\ is_finished = [c \in Callers |-> FALSE]
    /\ lock = [c \in Callers |-> "free"]
    /\ error_code = [c \in Callers |-> "ok"]
    /\ worker = [c \in Callers |-> "none"]
    /\ done = [c \in Callers |-> 0]
    /\ buffer = [c \in Callers |-> <<>>]
    /\ crashed = FALSE
    /\ seen = [c \in Callers |-> [p \in Positions |-> {}]]

WorkerStep(c) ==
    \/ Resolve(c) \/ ReadData(c) \/ ReadAttributes(c) \/ WriteChunk(c) \/ Truncate(c) \/ OpenTruncates(c)
    \/ WorkerLock(c) \/ WorkerSignal(c) \/ WorkerUnlock(c)

FuseNext ==
    /\ ~crashed
    /\ \E c \in Callers :
        WorkerStep(c) \/ CallHandler(c) \/ Wait(c) \/ HandlerWakes(c) \/ Return(c)

FuseSpec == FuseInit /\ [][FuseNext]_fuse_vars

\* Threads run; an RPC is answered or fails.  Nothing is assumed of new
\* requests and of spurious wake-ups.
FuseFairSpec ==
    /\ FuseSpec
    /\ \A c \in Callers :
        /\ WF_fuse_vars(~crashed /\ WorkerStep(c))
        /\ WF_fuse_vars(~crashed /\ Wait(c))
        /\ WF_fuse_vars(~crashed /\ Return(c))

-----------------------------------------------------------------------------
Returning(c, kind) == handler[c] = "return" /\ request[c].kind = kind /\ error_code[c] = "ok"

\* A successful nfs_read returns, at every place of its buffer, a byte the file held
\* at that position at some moment of the call, and it returns fewer bytes than asked
\* for only if the file ended there at some moment of the call: the loop of
\* blocking_read neither skips, repeats nor drops a piece, whatever other requests do
\* to the file between its RPCs and between the data and the size of one READ.
ReadReturnsFile ==
    \A c \in Callers : Returning(c, "read") =>
        /\ Len(buffer[c]) = done[c]
        /\ \A k \in 1 .. done[c] : buffer[c][k] \in seen[c][request[c].offset + k]
        /\ done[c] < request[c].size =>
               EOF \in seen[c][request[c].offset + done[c] + 1]

\* A successful nfs_write returns the whole size, and every byte of its buffer was in
\* the file at its own position at some moment of the call: the pieces of
\* blocking_write cover the range, in place.
WriteStoresBuffer ==
    \A c \in Callers : Returning(c, "write") =>
        /\ done[c] = request[c].size
        /\ \A k \in 1 .. request[c].size : Byte(c, k) \in seen[c][request[c].offset + k]

\* The stack frame of a handler, its mutex included, outlives the detached worker that
\* uses it: when wait_for_nfs_reply is through, the worker has left its critical
\* section and touches callback_data no more.
FrameOutlivesWorker ==
    \A c \in Callers : handler[c] \in {"return", "idle"} => worker[c] = "none" /\ lock[c] = "free"

\* Every FUSE request returns (or the process has been aborted): the handler misses no
\* wake-up and the loops of the workers end.
RequestReturns == \A c \in Callers : handler[c] # "idle" ~> (handler[c] = "idle" \/ crashed)
=============================================================================
