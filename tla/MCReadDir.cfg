CONSTANTS
    l1 = l1
    l2 = l2
    l3 = l3
    alice = alice
    bob = bob
    d1 = d1
    d2 = d2
    Listing = {l1, l2, l3}
    User <- MCUser
    Gid <- MCGid
    Directory <- MCDir
    Entries <- MCEntries
    ByteCount = 2
    Timeout = 1
SPECIFICATION ListingFairSpec
INVARIANTS OneSession ListingExact
PROPERTIES StreamsClosed ListingEnds
