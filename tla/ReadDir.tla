------------------------------- MODULE ReadDir -------------------------------
(***************************************************************************)
(* READDIR from both ends: clients list a directory with one call after    *)
(* another (blocking_readdir of the FUSE client, handle_ls of the REPL),   *)
(* the server keeps an open directory stream for each client and directory *)
(* in the list of ReadDir sessions (src/nfs/server/directory_reading.c),   *)
(* and the periodic clean-up thread closes the streams not read for        *)
(* READDIR_SESSION_TIMEOUT.  Every access to the list happens with         *)
(* readdir_sessions_mutex held, so a call and a clean-up are one step.     *)
(*                                                                         *)
(* A directory is the sequence of the packed sizes of its entries, and a   *)
(* cookie (telldir) is a position in it, meaningful to every stream of the *)
(* directory.  The entries do not change during a listing.                 *)
(***************************************************************************)
EXTENDS Naturals, Sequences

CONSTANTS Listing,    \* the listings clients make, each with its own credential
          User,       \* the machine name and uid in the credential of a listing
          Gid,        \* the gid in it
          Directory,        \* the directory it lists
          Entries,    \* the sizes of the entries of each directory
          ByteCount,  \* READDIR_BYTES_PER_RPC
          Timeout     \* READDIR_SESSION_TIMEOUT, in ticks

\* Every listing has a user, a gid and a directory; an entry takes some room.
DirectoriesOK ==
    /\ DOMAIN User = Listing /\ DOMAIN Gid = Listing /\ DOMAIN Directory = Listing
    /\ \A l \in Listing : Directory[l] \in DOMAIN Entries
    /\ \A d \in DOMAIN Entries : Entries[d] \in Seq(Nat \ {0})
    /\ ByteCount \in Nat \ {0} /\ Timeout \in Nat

ASSUME ReadDirAssumption == DirectoriesOK

VARIABLES session_list,  \* readdir_sessions_list, newest first
          state,        \* "idle", "reading", "done" or "failed"
          cookie,    \* offset_cookie of each listing
          names      \* filenames_list of each listing: positions in the directory

listing_vars == <<session_list, state, cookie, names>>

ListingInit ==
    /\ session_list = <<>>
    /\ state = [l \in Listing |-> "idle"]
    /\ cookie = [l \in Listing |-> 0]
    /\ names = [l \in Listing |-> <<>>]

-----------------------------------------------------------------------------
\* compare_authsysparams: the gid of the second credential is compared with itself
SameUser(l, m) == User[l] = User[m] /\ Gid[m] = Gid[m]

Matches(s, l) == s.dir = Directory[l] /\ SameUser(l, s.client)

\* find_readdir_session and get_readdir_session: the first that matches, or 0
SessionOf(list, l) ==
    IF \E k \in DOMAIN list : Matches(list[k], l)
    THEN CHOOSE k \in DOMAIN list :
            Matches(list[k], l) /\ \A j \in 1..(k - 1) : ~Matches(list[j], l)
    ELSE 0

NewSession(l) == [client |-> l, dir |-> Directory[l], pos |-> 0, age |-> 0]

\* Mutant: a session is created whether there is one or not.
OpenedAlways(l) == <<NewSession(l)>> \o session_list

\* The list once the session is there.
Opened(l) == IF SessionOf(session_list, l) = 0 THEN <<NewSession(l)>> \o session_list ELSE session_list

\* Mutant: the stream is read from where it is.
StartNoSeek(l) == LET list == Opened(l) IN list[SessionOf(list, l)].pos

\* rewinddir or seekdir
Start(l) == cookie[l]

\* The total size of the entries after position 'from' up to position 'to'.
Size(d, from, to) ==
    LET sum[n \in from..Len(Entries[d])] ==
            IF n = from THEN 0 ELSE sum[n - 1] + Entries[d][n]
    IN  sum[to]

\* The position of the last entry that fits in the reply.
LastFitting(d, from) ==
    CHOOSE to \in from..Len(Entries[d]) :
        /\ Size(d, from, to) <= ByteCount
        /\ to < Len(Entries[d]) => Size(d, from, to + 1) > ByteCount

\* Mutant: a reply without entries never says that the end is reached.
EndOfStreamWithEntries(d, from) ==
    /\ LastFitting(d, from) = Len(Entries[d])
    /\ LastFitting(d, from) > from /\ Size(d, from, Len(Entries[d])) < ByteCount

\* The loop went on after the last entry: 'end_of_stream'.
EndOfStream(d, from) ==
    /\ LastFitting(d, from) = Len(Entries[d])
    /\ LastFitting(d, from) = from \/ Size(d, from, Len(Entries[d])) < ByteCount

\* The position of the stream after the loop: an entry that did not fit has
\* been read all the same.
Consumed(d, from) ==
    LET last == LastFitting(d, from)
    IN  IF last < Len(Entries[d]) /\ Size(d, from, last) < ByteCount THEN last + 1 ELSE last

\* What a call that starts at a position finds, and where it leaves the stream.
Scan == [d \in DOMAIN Entries |-> [from \in 0..Len(Entries[d]) |->
            [last |-> LastFitting(d, from), eof |-> EndOfStream(d, from), pos |-> Consumed(d, from)]]]

RemoveAt(list, k) == [j \in 1..(Len(list) - 1) |-> IF j < k THEN list[j] ELSE list[j + 1]]

\* The list after the call: the session is touched, or closed at its end.
Closed(list, l, pos, eof) ==
    IF eof THEN RemoveAt(list, SessionOf(list, l))
    ELSE [list EXCEPT ![SessionOf(list, l)].pos = pos, ![SessionOf(list, l)].age = 0]

-----------------------------------------------------------------------------
BeginListing(l) ==
    /\ state[l] \in {"idle", "done", "failed"}
    /\ state' = [state EXCEPT ![l] = "reading"]
    /\ cookie' = [cookie EXCEPT ![l] = 0]
    /\ names' = [names EXCEPT ![l] = <<>>]
    /\ UNCHANGED session_list

\* One READDIR call and what the client does with the reply.
Read(l) ==
    LET scan == Scan[Directory[l]][Start(l)]
    IN  /\ state[l] = "reading"
        /\ session_list' = Closed(Opened(l), l, scan.pos, scan.eof)
        /\ names' = [names EXCEPT ![l] = @ \o [k \in 1..(scan.last - Start(l)) |-> Start(l) + k]]
        /\ cookie' = [cookie EXCEPT ![l] = IF scan.last > Start(l) THEN scan.last ELSE @]
        /\ state' = [state EXCEPT ![l] = IF scan.eof THEN "done" ELSE "reading"]

\* opendir fails (no session), or readdir or telldir does (the session stays,
\* and is not touched).
ReadFails(l) ==
    /\ state[l] = "reading"
    /\ session_list' \in {session_list, Opened(l)}
    /\ state' = [state EXCEPT ![l] = "failed"]
    /\ UNCHANGED <<cookie, names>>

Tick ==
    /\ \E k \in DOMAIN session_list : session_list[k].age <= Timeout
    /\ session_list' = [k \in DOMAIN session_list |->
                        [session_list[k] EXCEPT !.age = IF @ <= Timeout THEN @ + 1 ELSE @]]
    /\ UNCHANGED <<state, cookie, names>>

\* Mutant: the arguments of difftime are swapped.
ExpiredSwapped(s) == 0 - s.age > Timeout

Expired(s) == s.age > Timeout

\* readdir_periodic_cleanup_thread: the sessions that have not expired stay, in their order
CleanUp ==
    LET kept == {k \in DOMAIN session_list : ~Expired(session_list[k])}
    IN  /\ kept # DOMAIN session_list
        /\ \E n \in 0..Len(session_list) : \E f \in [1..n -> kept] :
              /\ kept = {f[j] : j \in 1..n}
              /\ \A i, j \in 1..n : i < j => f[i] < f[j]
              /\ session_list' = [j \in 1..n |-> session_list[f[j]]]
        /\ UNCHANGED <<state, cookie, names>>

ListingNext ==
    \/ \E l \in Listing : BeginListing(l) \/ Read(l) \/ ReadFails(l)
    \/ Tick \/ CleanUp

ListingSpec == ListingInit /\ [][ListingNext]_listing_vars

\* A listing that began goes on, time passes, the clean-up thread wakes up.
ListingFairness == (\A l \in Listing : WF_listing_vars(Read(l))) /\ WF_listing_vars(Tick) /\ WF_listing_vars(CleanUp)

ListingFairSpec == ListingSpec /\ ListingFairness

-----------------------------------------------------------------------------
\* No two sessions are for the same client and directory, so the session
\* find_readdir_session finds, the one get_readdir_session returns and the one
\* remove_readdir_session frees are the same.
OneSession ==
    \A j, k \in DOMAIN session_list : Matches(session_list[j], session_list[k].client) => j = k

\* Whatever the other listings, some of them on the same stream, and the
\* clean-up thread do between its calls, a listing has exactly the entries up
\* to its cookie, in order, each once; when it is done it has them all.
ListingExact ==
    \A l \in Listing :
        /\ names[l] = [k \in 1..cookie[l] |-> k]
        /\ state[l] = "done" => cookie[l] = Len(Entries[Directory[l]])

\* When clients stop reading, the streams they left open are closed.
StreamsClosed == session_list # <<>> ~> session_list = <<>> \/ \E l \in Listing : state[l] = "reading"

\* The entry after the cookie is larger than a reply may be.
TooLong(l) == cookie[l] < Len(Entries[Directory[l]]) /\ Entries[Directory[l]][cookie[l] + 1] > ByteCount

\* handle_ls "prints out all directory entries": a listing comes to an end, unless it
\* comes to an entry that does not fit in a reply by itself.  read_from_directory then
\* answers with no entry, no error and no end of stream, and the client asks for the same
\* cookie for ever.
ListingEnds == \A l \in Listing : state[l] = "reading" ~> state[l] \in {"done", "failed"} \/ TooLong(l)
=============================================================================
