---------------------------- MODULE HttpRequests ----------------------------
(***************************************************************************)
(* Concurrent HTTP requests, each in a task of its own, from the outermost *)
(* middleware to the access log line: the request id bound to a context    *)
(* variable (asgi_request_id.py), the body limit, FastAPI's order of body, *)
(* authentication and validation, the two verifiers with the signing keys  *)
(* they share, the handler, and errors.py.                                 *)
(***************************************************************************)
EXTENDS SigningKeys

CONSTANTS
    Users,
    Kinds       \* what a request may be

NoUser == "no user"

(* A bearer token: whether its header passes the checks of JwksVerifier,     *)
(* whether its payload is JSON, the kid it names and the key that really     *)
(* signed it, whether issuer and audience are the configured ones, when it   *)
(* expires and its sub, NoUser when that is no UUID.                         *)
Token ==
    [header : BOOLEAN, payload : BOOLEAN, kid : Kids, signer : Kids,
     claims : BOOLEAN, exp : Nat, sub : Users \cup {NoUser}]

NoToken == [header |-> FALSE]   \* no Authorization header, or not a bearer token

(* Request ids: one that the client sent and that is safe, a fresh uuid, or  *)
(* none.                                                                     *)
NoId == <<>>
ClientId(x) == <<"client", x>>
FreshId(r) == <<"uuid", r>>

(* A request: its path, its body (over the limit, not JSON, not what the     *)
(* command accepts, or good), its token and its X-Request-ID, NoId when      *)
(* there is none or it is unsafe.                                            *)
Kind ==
    [path : {"public", "protected"}, body : {"large", "unparsable", "invalid", "good"},
     token : Token \cup {NoToken}, xid : {NoId} \cup {ClientId(x) : x \in {"a", "b"}}]

ASSUME KindsAssumption == Kinds \subseteq Kind

VARIABLES
    mode,       \* jwt_verification_mode
    pc,         \* pc[r]: what the task of request r does next
    kind,       \* kind[r]: what request r is
    context,    \* context[r]: request_id_var in the task of r
    id,         \* id[r]: request_id of the middleware's call for r
    identity,   \* identity[r]: the verified sub of r, NoUser before
    response,   \* response[r]: status, x-request-id and request_id of the envelope
    lines       \* lines[r]: the log lines written by the task of r

taskVars == <<pc, kind, context, id, identity, response, lines>>
vars == <<keyVars, mode, taskVars>>

NoKind == [path |-> "none"]
NoResponse == [status |-> 500, header |-> NoId, body |-> NoId]

Init ==
    /\ KeysInit
    /\ mode \in {"jwks", "auth_server"}
    /\ pc = [r \in Requests |-> "new"]
    /\ kind = [r \in Requests |-> NoKind]
    /\ context = [r \in Requests |-> NoId]
    /\ id = [r \in Requests |-> NoId]
    /\ identity = [r \in Requests |-> NoUser]
    /\ response = [r \in Requests |-> NoResponse]
    /\ lines = [r \in Requests |-> <<>>]

-----------------------------------------------------------------------------
Goto(r, next) == pc' = [pc EXCEPT ![r] = next]

\* send_wrapper: the header is the id of this call
Send(r, status, body) ==
    response' = [response EXCEPT ![r] = [status |-> status, header |-> id[r], body |-> body]]

\* JsonFormatter: the id is the one of the context
Line(r, logger, status) == [logger |-> logger, id |-> context[r], status |-> status]
Log(r, line) == lines' = [lines EXCEPT ![r] = Append(@, line)]

\* an error response, whose envelope has the id of the context; then the access line
Fail(r, status) ==
    /\ Send(r, status, context[r])
    /\ Goto(r, "logging")
    /\ UNCHANGED <<kind, context, id, identity, lines>>

(* _handle_unexpected, called by Starlette's outermost layer, which raises   *)
(* the exception again.                                                      *)
FailUnexpectedly(r) ==
    /\ Log(r, Line(r, "error", 500))
    /\ Send(r, 500, context[r])
    /\ Goto(r, "raising")
    /\ UNCHANGED <<kind, context, id, identity>>

-----------------------------------------------------------------------------
(* RequestIdMiddleware and RequestBodyLimitMiddleware *)

NormalizedId(r, xid) == IF xid # NoId THEN xid ELSE FreshId(r)

\* Mutant of Arrive: the request id in one variable of the module.
ArriveWithoutContext(r) ==
    /\ pc[r] = "new"
    /\ \E k \in Kinds :
          /\ kind' = [kind EXCEPT ![r] = k]
          /\ id' = [id EXCEPT ![r] = NormalizedId(r, k.xid)]
          /\ context' = [q \in Requests |-> NormalizedId(r, k.xid)]
    /\ Goto(r, "limit")
    /\ UNCHANGED <<keyVars, identity, response, lines>>

Arrive(r) ==
    /\ pc[r] = "new"
    /\ \E k \in Kinds :
          /\ kind' = [kind EXCEPT ![r] = k]
          /\ id' = [id EXCEPT ![r] = NormalizedId(r, k.xid)]
          /\ context' = [context EXCEPT ![r] = NormalizedId(r, k.xid)]
    /\ Goto(r, "limit")
    /\ UNCHANGED <<keyVars, identity, response, lines>>

\* _reject, or on to the application with the body read
LimitBody(r) ==
    /\ pc[r] = "limit"
    /\ IF kind[r].body = "large" THEN Fail(r, 413)
       ELSE /\ Goto(r, IF kind[r].path = "public" THEN "handler" ELSE "parse")
            /\ UNCHANGED <<kind, context, id, identity, response, lines>>
    /\ UNCHANGED keyVars

(* FastAPI parses the body before it resolves dependencies; require_identity *)
(* and the header checks of JwksVerifier run up to the first await.          *)
Authenticate(r) ==
    LET token == kind[r].token IN
    /\ pc[r] = "parse"
    /\ IF kind[r].body = "unparsable" THEN Fail(r, 422) /\ UNCHANGED keyVars
       ELSE IF token = NoToken \/ (mode = "jwks" /\ ~ token.header)
            THEN Fail(r, 401) /\ UNCHANGED keyVars
       ELSE /\ IF mode # "jwks"
               THEN Goto(r, "asking") /\ UNCHANGED keyVars
               ELSE IF token.payload
                    THEN Goto(r, "awaiting") /\ StartLookUp(r, token.kid)
                    ELSE Goto(r, "unreadable") /\ UNCHANGED keyVars
            /\ UNCHANGED <<kind, context, id, identity, response, lines>>

\* get_signing_key_from_jwt raises a DecodeError, which nothing turns into a 401
FailUnreadable(r) ==
    /\ pc[r] = "unreadable"
    /\ FailUnexpectedly(r)
    /\ UNCHANGED keyVars

\* _decode and _identity_from_claims, with the resolved key
Genuine(token, key) ==
    /\ token.signer = key /\ token.claims /\ now < token.exp
    /\ token.sub # NoUser

Identify(r, sub) ==
    /\ identity' = [identity EXCEPT ![r] = sub]
    /\ Goto(r, "handler")
    /\ UNCHANGED <<kind, context, id, response, lines>>

\* Mutant of Verify: the key that was resolved last is used, whoever asked for it.
VerifyWithLastKey(r) ==
    /\ pc[r] = "awaiting"
    /\ EndLookUp(r)
    /\ CASE thread[r] = "found" ->
               IF Genuine(kind[r].token, Head(lru)) THEN Identify(r, kind[r].token.sub)
               ELSE Fail(r, 401)
         [] thread[r] = "missing" -> Fail(r, 401)
         [] thread[r] = "error" -> FailUnexpectedly(r)

\* JwksVerifier.verify after the await
Verify(r) ==
    /\ pc[r] = "awaiting"
    /\ EndLookUp(r)
    /\ CASE thread[r] = "found" ->
               IF Genuine(kind[r].token, wanted[r]) THEN Identify(r, kind[r].token.sub)
               ELSE Fail(r, 401)
         [] thread[r] = "missing" -> Fail(r, 401)
         [] thread[r] = "error" -> FailUnexpectedly(r)

(* AuthServerVerifier.verify: Supabase Auth knows which of its tokens are    *)
(* good; anything but a user is a 401, JSON that is no object an exception.  *)
AskAuthServer(r) ==
    LET token == kind[r].token IN
    /\ pc[r] = "asking"
    /\ \/ /\ token.header /\ token.payload /\ Genuine(token, token.kid)
          /\ Identify(r, token.sub)
       \/ Fail(r, 401)
       \/ FailUnexpectedly(r)
    /\ UNCHANGED keyVars

(* Validation of the rest, then the command or the health check: what it     *)
(* answers is the subject of the other modules.                              *)
Handle(r) ==
    /\ pc[r] = "handler"
    /\ IF kind[r].body = "invalid" THEN Fail(r, 422)
       ELSE \/ /\ Send(r, 200, NoId)
               /\ Goto(r, "logging")
               /\ UNCHANGED <<kind, context, id, identity, lines>>
            \/ Fail(r, 409)
            \/ FailUnexpectedly(r)
    /\ UNCHANGED keyVars

\* Mutant of Finish: the access line is not written in a finally clause.
FinishUnlessRaised(r) ==
    /\ pc[r] \in {"logging", "raising"}
    /\ IF pc[r] = "logging" THEN Log(r, Line(r, "access", response[r].status)) ELSE UNCHANGED lines
    /\ context' = [context EXCEPT ![r] = NoId]
    /\ Goto(r, IF pc[r] = "raising" THEN "raised" ELSE "done")
    /\ UNCHANGED <<keyVars, kind, id, identity, response>>

\* the middleware's finally clause; an exception goes on to the server
Finish(r) ==
    /\ pc[r] \in {"logging", "raising"}
    /\ Log(r, Line(r, "access", response[r].status))
    /\ context' = [context EXCEPT ![r] = NoId]
    /\ Goto(r, IF pc[r] = "raising" THEN "raised" ELSE "done")
    /\ UNCHANGED <<keyVars, kind, id, identity, response>>

\* uvicorn logs the exception, outside the request's context
LogRaised(r) ==
    /\ pc[r] = "raised"
    /\ Log(r, Line(r, "uvicorn.error", 500))
    /\ Goto(r, "done")
    /\ UNCHANGED <<keyVars, kind, context, id, identity, response>>

-----------------------------------------------------------------------------
Thread(r) ==
    /\ LookUp(r) \/ Fetch(r) \/ FailFetch(r) \/ Store(r)
    /\ UNCHANGED <<mode, taskVars>>

Task(r) ==
    \/ LimitBody(r) \/ Authenticate(r) \/ FailUnreadable(r) \/ Verify(r)
    \/ AskAuthServer(r) \/ Handle(r) \/ Finish(r) \/ LogRaised(r)

Serve(r) == (Task(r) /\ UNCHANGED mode) \/ Thread(r)

Environment == (Tick \/ Publish \/ Withdraw) /\ UNCHANGED <<mode, taskVars>>

Next ==
    \/ \E r \in Requests : (Arrive(r) /\ UNCHANGED mode) \/ Serve(r)
    \/ Environment

Spec == Init /\ [][Next]_vars

(* The event loop runs every task that can go on, a fetch ends by            *)
(* jwks_http_timeout, a call of the auth server by the client's timeout.     *)
FairSpec == Spec /\ WF_vars(\E r \in Requests : Serve(r))

-----------------------------------------------------------------------------
(* Properties *)

Ids == {NoId} \cup {ClientId(x) : x \in {"a", "b"}} \cup {FreshId(r) : r \in Requests}

TypeOK ==
    /\ KeysTypeOK
    /\ mode \in {"jwks", "auth_server"}
    /\ pc \in [Requests -> {"new", "limit", "parse", "unreadable", "awaiting", "asking",
                            "handler", "logging", "raising", "raised", "done"}]
    /\ kind \in [Requests -> Kinds \cup {NoKind}]
    /\ context \in [Requests -> Ids] /\ id \in [Requests -> Ids]
    /\ identity \in [Requests -> Users \cup {NoUser}]
    /\ \A r \in Requests :
          /\ response[r].status \in {200, 401, 409, 413, 422, 500}
          /\ response[r].header \in Ids /\ response[r].body \in Ids
          /\ Len(lines[r]) <= 3
    /\ \A r \in Requests : thread[r] # "none" <=> pc[r] = "awaiting"

Answered(r) == response[r] # NoResponse

(* One id runs through a request, although the log formatter and errors.py  *)
(* take it from ambient context while other requests interleave: the        *)
(* header, the envelope of an error and every line that the application     *)
(* logs carry it, and two requests share it only if their clients sent it.  *)
OneIdPerRequest ==
    \A r \in Requests : pc[r] # "new" =>
        LET mine == NormalizedId(r, kind[r].xid) IN
        /\ Answered(r) =>
              /\ response[r].header = mine
              /\ response[r].body = IF response[r].status = 200 THEN NoId ELSE mine
        /\ \A i \in DOMAIN lines[r] :
              lines[r][i].id = IF lines[r][i].logger = "uvicorn.error" THEN NoId ELSE mine

AccessLines(r) == {i \in DOMAIN lines[r] : lines[r][i].logger = "access"}

(* Each request writes exactly one access line, with the status its client  *)
(* was sent, also when the handler raises and the exception goes on to the  *)
(* server ("emits one structured access log line per request",              *)
(* asgi_request_id.py:6).                                                   *)
LoggedOnce ==
    \A r \in Requests :
        IF pc[r] \in {"raised", "done"}
        THEN \E i \in AccessLines(r) :
                AccessLines(r) = {i} /\ lines[r][i].status = response[r].status
        ELSE AccessLines(r) = {}

(* A request gets an identity only from its own token, signed by the very   *)
(* key it names, for this issuer and audience, and not expired when the     *)
(* key, which may take a fetch and its timeout to come, is there.           *)
OwnersAreVerified ==
    [][\A r \in Requests : identity'[r] # identity[r] =>
          LET token == kind[r].token IN
          /\ identity'[r] = token.sub
          /\ token.signer = token.kid /\ token.claims /\ now < token.exp]_vars

(* Every request is answered and logged, whatever becomes of the key set    *)
(* endpoint, the auth server and the other requests.                        *)
RequestsFinish == \A r \in Requests : pc[r] # "new" ~> pc[r] = "done"
=============================================================================
