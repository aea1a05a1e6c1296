--------------------------- MODULE MCHttpRequests ---------------------------
EXTENDS HttpRequests

CONSTANTS k1, k2, u1

Good(kid, exp) ==
    [header |-> TRUE, payload |-> TRUE, kid |-> kid, signer |-> kid,
     claims |-> TRUE, exp |-> exp, sub |-> u1]

Request(body, token, xid) ==
    [path |-> "protected", body |-> body, token |-> token, xid |-> xid]

\* two keys, an expiry during the look-up, and one request for each refusal
MCKinds == {
    Request("good", Good(k1, 1), NoId),
    Request("good", Good(k2, 9), ClientId("a")),
    Request("invalid", [Good(k1, 9) EXCEPT !.signer = k2], NoId),
    Request("good", [Good(k1, 9) EXCEPT !.payload = FALSE], ClientId("a")),
    Request("large", NoToken, NoId),
    Request("unparsable", NoToken, ClientId("a")),
    Request("good", [Good(k2, 9) EXCEPT !.header = FALSE, !.claims = FALSE], NoId),
    [Request("good", NoToken, ClientId("a")) EXCEPT !.path = "public"]}
=============================================================================
