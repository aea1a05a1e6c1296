---------------------------- MODULE MCBodyLimit ----------------------------
EXTENDS BodyLimit

CONSTANTS MaxChunks, MaxChunk

\* ends[i]: how many bytes the first i chunks carry together
BodyWith(ends, cut) ==
    [i \in DOMAIN ends |->
        [type |-> "http.request", from |-> IF i = 1 THEN 0 ELSE ends[i - 1], to |-> ends[i],
         more |-> i < Len(ends) \/ cut]]

Ends(n) ==
    {ends \in [1 .. n -> 0 .. n * MaxChunk] :
        \A i \in 1 .. n :
            LET before == IF i = 1 THEN 0 ELSE ends[i - 1]
            IN  ends[i] - before \in 0 .. MaxChunk}

\* every body of at most MaxChunks chunks, ended properly or cut off
AllBodies ==
    UNION {{BodyWith(ends, cut) : ends \in Ends(n), cut \in BOOLEAN} : n \in 0 .. MaxChunks}

AllLengths == -1 .. Limit + 1
=============================================================================
