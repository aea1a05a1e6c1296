-------------------------- MODULE MCStartSession ---------------------------
EXTENDS StartSession

CONSTANTS u1, u2, k1, k2, p1

Cmd(u, k, interval) == [user |-> u, key |-> k, pair |-> p1, interval |-> interval]

MCKinds == <<
    Cmd(u1, k1, 2000),
    Cmd(u1, k1, 5000),   \* the first key with another payload
    Cmd(u1, k2, 2000),   \* same user, another key: same profile row
    Cmd(u2, k1, 2000),   \* another user with the same key
    Cmd(u2, k2, 1999)>>  \* refused by validation

MCCommands == {MCKinds[i] : i \in DOMAIN MCKinds}

KindIndex(c) == CHOOSE i \in DOMAIN MCKinds : MCKinds[i] = c

(* Requests are numbers and interchangeable: of the initial states that      *)
(* differ in their order only, the one with ordered commands is enough.      *)
MCInit ==
    /\ Init
    /\ \A r, q \in Requests : r < q => KindIndex(cmd[r]) <= KindIndex(cmd[q])

MCSpec == MCInit /\ [][Next]_vars /\ \A r \in Requests : WF_vars(Step(r))
=============================================================================
