--------------------------- MODULE MCIngestBatch ---------------------------
EXTENDS IngestBatchRefinement, TLC

CONSTANTS u1, u2, k1, k2, s1, s2, a, b, c

MCOwner == s1 :> u1 @@ s2 :> u2

Smp(id, seq, off) == [id |-> id, seq |-> seq, off |-> off]

Cmd(u, k, s, batch) == [user |-> u, key |-> k, session |-> s, batch |-> batch]

First    == Cmd(u1, k1, s1, <<Smp(a, 0, 1), Smp(b, 1, 2)>>)
Reused   == Cmd(u1, k1, s1, <<Smp(c, 0, 1)>>)       \* First's key, another payload
Rival    == Cmd(u1, k2, s1, <<Smp(c, 0, 1)>>)       \* First's place, another key
Next2    == Cmd(u1, k2, s1, <<Smp(c, 2, 3)>>)       \* continues First
Crossing == Cmd(u2, k1, s2, <<Smp(b, 0, 1), Smp(a, 1, 2)>>) \* First's ids, reversed
Foreign  == Cmd(u2, k2, s1, <<Smp(c, 0, 1)>>)       \* another user's session
Unordered == Cmd(u1, k2, s1, <<Smp(a, 0, 2), Smp(b, 1, 1)>>)
Huge     == Cmd(u1, k2, s1, <<Smp(c, 0, 4)>>)       \* past MaxOffset

MixedCommands == {First, Reused, Rival, Next2, Crossing, Foreign, Unordered, Huge}

CrossCommands == {First, Crossing, Next2}

RequestSymmetry == Permutations(Requests)
=============================================================================
