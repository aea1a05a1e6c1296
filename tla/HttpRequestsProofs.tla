------------------------- MODULE HttpRequestsProofs -------------------------
(***************************************************************************)
(* Theorems of HttpRequests, for any number of concurrent requests of any  *)
(* kind, any users and keys, any cache lifespan and size.                  *)
(***************************************************************************)
EXTENDS HttpRequests, SequenceTheorems, TLAPS

\* where a request is before its response has been sent
Working == {"limit", "parse", "unreadable", "awaiting", "asking", "handler"}
Sent == {"logging", "raising", "raised", "done"}

Domains ==
    /\ pc \in [Requests -> {"new"} \cup Working \cup Sent]
    /\ DOMAIN kind = Requests /\ DOMAIN context = Requests /\ DOMAIN id = Requests
    /\ DOMAIN identity = Requests /\ DOMAIN response = Requests /\ DOMAIN lines = Requests

\* The id of request r, and the lines it may log.
Mine(r) == NormalizedId(r, kind[r].xid)
ErrorLine(r) == [logger |-> "error", id |-> Mine(r), status |-> 500]
AccessLine(r) == [logger |-> "access", id |-> Mine(r), status |-> response[r].status]
ServerLine == [logger |-> "uvicorn.error", id |-> NoId, status |-> 500]

\* The context variable is bound from the middleware's first step to its last.
Bound(r) ==
    /\ pc[r] # "new" => id[r] = Mine(r)
    /\ pc[r] \in Working \cup {"logging", "raising"} => context[r] = Mine(r)
    /\ pc[r] \in {"raised", "done"} => context[r] = NoId

Responded(r) ==
    /\ pc[r] \in {"new"} \cup Working => response[r] = NoResponse
    /\ pc[r] \in Sent =>
          /\ response[r].header = Mine(r)
          /\ response[r].body = IF response[r].status = 200 THEN NoId ELSE Mine(r)

Logged(r) ==
    /\ pc[r] \in {"new", "logging"} \cup Working => lines[r] = <<>>
    /\ pc[r] = "raising" => lines[r] = <<ErrorLine(r)>>
    /\ pc[r] = "raised" => lines[r] = <<ErrorLine(r), AccessLine(r)>>
    /\ pc[r] = "done" => \/ lines[r] = <<AccessLine(r)>>
                         \/ lines[r] = <<ErrorLine(r), AccessLine(r), ServerLine>>

RequestInv(r) == Bound(r) /\ Responded(r) /\ Logged(r)

TasksInv == Domains /\ \A r \in Requests : RequestInv(r)

\* A look-up belongs to a request that awaits the key its token names.
LookUpsInv ==
    /\ DOMAIN thread = Requests /\ DOMAIN wanted = Requests /\ DOMAIN fetched = Requests
    /\ steady \subseteq Requests
    /\ \A r \in Requests : pc[r] = "awaiting" => wanted[r] = kind[r].token.kid

\* A look-up whose key has been published all along has the key in its hands.
SteadyInv ==
    \A r \in steady :
        /\ wanted[r] \in published
        /\ thread[r] \in {"store", "restore"} => wanted[r] \in fetched[r]
        /\ thread[r] \notin {"missing", "error"}

Inv == TasksInv /\ LookUpsInv /\ SteadyInv

-----------------------------------------------------------------------------
(* Logging *)

LEMMA FirstLine ==
    ASSUME NEW a
    PROVE  Append(<<>>, a) = <<a>>
<1>. DEFINE s == Append(<<>>, a)
<1>1. s \in Seq({a}) /\ <<a>> \in Seq({a}) /\ Len(s) = 1 /\ Len(<<a>>) = 1 /\ s[1] = a
  OBVIOUS
<1>2. \A i \in 1 .. Len(s) : s[i] = <<a>>[i]
  BY <1>1
<1>. QED
  BY <1>1, <1>2, SeqEqual

LEMMA SecondLine ==
    ASSUME NEW a, NEW b
    PROVE  Append(<<a>>, b) = <<a, b>>
<1>. DEFINE s == Append(<<a>>, b)
            t == <<a, b>>
<1>1. s \in Seq({a, b}) /\ t \in Seq({a, b}) /\ Len(s) = 2 /\ Len(t) = 2
  OBVIOUS
<1>2. s[1] = t[1] /\ s[2] = t[2]
  OBVIOUS
<1>3. \A i \in 1 .. Len(s) : s[i] = t[i]
  BY <1>1, <1>2
<1>. QED
  BY <1>1, <1>3, SeqEqual

LEMMA ThirdLine ==
    ASSUME NEW a, NEW b, NEW c
    PROVE  Append(<<a, b>>, c) = <<a, b, c>>
<1>. DEFINE s == Append(<<a, b>>, c)
            t == <<a, b, c>>
<1>1. s \in Seq({a, b, c}) /\ t \in Seq({a, b, c}) /\ Len(s) = 3 /\ Len(t) = 3
  OBVIOUS
<1>2. s[1] = t[1] /\ s[2] = t[2] /\ s[3] = t[3]
  OBVIOUS
<1>3. \A i \in 1 .. Len(s) : s[i] = t[i]
  BY <1>1, <1>2
<1>. QED
  BY <1>1, <1>3, SeqEqual

-----------------------------------------------------------------------------
(* What a step of a task between arrival and response comes to *)

\* on to the next part of the request, with an identity or without
Proceed(r) ==
    /\ \E next \in Working : Goto(r, next)
    /\ DOMAIN identity' = DOMAIN identity
    /\ UNCHANGED <<kind, context, id, response, lines>>

Succeed(r) ==
    /\ Send(r, 200, NoId)
    /\ Goto(r, "logging")
    /\ UNCHANGED <<kind, context, id, identity, lines>>

Refuse(r) == \E status \in {401, 409, 413, 422} : Fail(r, status)

Outcome(r) ==
    pc[r] \in Working /\ (Proceed(r) \/ Succeed(r) \/ Refuse(r) \/ FailUnexpectedly(r))

Handling(r) ==
    \/ LimitBody(r) \/ Authenticate(r) \/ FailUnreadable(r) \/ Verify(r)
    \/ AskAuthServer(r) \/ Handle(r)

LEMMA Outcomes ==
    ASSUME Domains, NEW r \in Requests, Handling(r)
    PROVE  Outcome(r)
<1>. USE DEF Working
<1>2. ASSUME NEW next \in Working, Goto(r, next), UNCHANGED <<kind, context, id, identity, response, lines>>
      PROVE  Proceed(r)
  BY <1>2 DEF Proceed
<1>3. ASSUME NEW sub, Identify(r, sub)
      PROVE  Proceed(r)
  BY <1>3 DEF Proceed, Identify
<1>4. CASE LimitBody(r)
  BY <1>2, <1>4 DEF LimitBody, Outcome, Refuse
<1>5. CASE Authenticate(r)
  <2>1. \/ Fail(r, 422) \/ Fail(r, 401)
        \/ /\ Goto(r, "asking") \/ Goto(r, "awaiting") \/ Goto(r, "unreadable")
           /\ UNCHANGED <<kind, context, id, identity, response, lines>>
    BY <1>5 DEF Authenticate
  <2>. QED
    BY <1>2, <1>5, <2>1 DEF Authenticate, Outcome, Refuse
<1>6. CASE FailUnreadable(r)
  BY <1>6 DEF FailUnreadable, Outcome
<1>7. CASE Verify(r)
  <2>1. thread[r] \in {"found", "missing", "error"} /\ pc[r] = "awaiting"
    BY <1>7 DEF Verify, EndLookUp
  <2>2. \/ Identify(r, kind[r].token.sub) \/ Fail(r, 401) \/ FailUnexpectedly(r)
    BY <1>7, <2>1 DEF Verify
  <2>. QED
    BY <1>3, <2>1, <2>2 DEF Outcome, Refuse
<1>8. CASE AskAuthServer(r)
  BY <1>3, <1>8 DEF AskAuthServer, Outcome, Refuse
<1>9. CASE Handle(r)
  BY <1>9 DEF Handle, Outcome, Refuse, Succeed
<1>. QED
  BY <1>4, <1>5, <1>6, <1>7, <1>8, <1>9 DEF Handling

LEMMA OutcomeInv ==
    ASSUME TasksInv, NEW r \in Requests, Outcome(r)
    PROVE  TasksInv'
<1>1. UNCHANGED <<kind, context, id>> /\ pc[r] \in Working
  BY DEF Outcome, Proceed, Succeed, Refuse, Fail, FailUnexpectedly
<1>2. Domains'
  BY DEF Outcome, Proceed, Succeed, Refuse, Fail, FailUnexpectedly, Goto, Send, Log,
         TasksInv, Domains, Working, Sent
<1>3. ASSUME NEW q \in Requests \ {r}
      PROVE  RequestInv(q)'
  <2>1. pc'[q] = pc[q] /\ response'[q] = response[q] /\ lines'[q] = lines[q]
    BY DEF Outcome, Proceed, Succeed, Refuse, Fail, FailUnexpectedly, Goto, Send, Log, TasksInv, Domains
  <2>. QED
    BY <1>1, <2>1 DEF TasksInv, RequestInv, Bound, Responded, Logged, Mine, ErrorLine, AccessLine
<1>4. RequestInv(r)
  BY DEF TasksInv
<1>5. Mine(r)' = Mine(r) /\ id[r] = Mine(r) /\ context[r] = Mine(r) /\ lines[r] = <<>> /\ response[r] = NoResponse
  BY <1>1, <1>4 DEF RequestInv, Bound, Responded, Logged, Mine, Working
<1>6. CASE Proceed(r)
  <2>1. pc'[r] \in Working /\ response' = response /\ lines' = lines
    BY <1>6 DEF Proceed, Goto, TasksInv, Domains
  <2>. QED
    BY <1>1, <1>2, <1>3, <1>5, <2>1 DEF TasksInv, RequestInv, Bound, Responded, Logged, Working, Sent
<1>7. CASE Succeed(r)
  <2>1. pc'[r] = "logging" /\ lines' = lines
        /\ response'[r] = [status |-> 200, header |-> id[r], body |-> NoId]
    BY <1>7 DEF Succeed, Goto, Send, TasksInv, Domains
  <2>. QED
    BY <1>1, <1>2, <1>3, <1>5, <2>1 DEF TasksInv, RequestInv, Bound, Responded, Logged, Working, Sent
<1>8. CASE Refuse(r)
  <2>1. PICK status \in {401, 409, 413, 422} : Fail(r, status)
    BY <1>8 DEF Refuse
  <2>2. pc'[r] = "logging" /\ lines' = lines
        /\ response'[r] = [status |-> status, header |-> id[r], body |-> context[r]]
    BY <2>1 DEF Fail, Goto, Send, TasksInv, Domains
  <2>. QED
    BY <1>1, <1>2, <1>3, <1>5, <2>2 DEF TasksInv, RequestInv, Bound, Responded, Logged, Working, Sent
<1>9. CASE FailUnexpectedly(r)
  <2>1. pc'[r] = "raising" /\ response'[r] = [status |-> 500, header |-> id[r], body |-> context[r]]
        /\ lines'[r] = Append(<<>>, Line(r, "error", 500))
    BY <1>5, <1>9 DEF FailUnexpectedly, Goto, Send, Log, TasksInv, Domains
  <2>2. lines'[r] = <<ErrorLine(r)'>>
    BY <1>5, <2>1, FirstLine DEF Line, ErrorLine
  <2>. QED
    BY <1>1, <1>2, <1>3, <1>5, <2>1, <2>2 DEF TasksInv, RequestInv, Bound, Responded, Logged, Working, Sent
<1>. QED
  BY <1>6, <1>7, <1>8, <1>9 DEF Outcome

LEMMA ArriveInv ==
    ASSUME TasksInv, NEW r \in Requests, Arrive(r)
    PROVE  TasksInv'
<1>1. PICK k \in Kinds :
        /\ kind' = [kind EXCEPT ![r] = k]
        /\ id' = [id EXCEPT ![r] = NormalizedId(r, k.xid)]
        /\ context' = [context EXCEPT ![r] = NormalizedId(r, k.xid)]
  BY DEF Arrive
<1>2. pc[r] = "new" /\ pc' = [pc EXCEPT ![r] = "limit"] /\ UNCHANGED <<identity, response, lines>>
  BY DEF Arrive, Goto
<1>3. Domains'
  BY <1>1, <1>2 DEF TasksInv, Domains, Working
<1>4. ASSUME NEW q \in Requests \ {r}
      PROVE  RequestInv(q)'
  <2>1. pc'[q] = pc[q] /\ kind'[q] = kind[q] /\ id'[q] = id[q] /\ context'[q] = context[q]
    BY <1>1, <1>2 DEF TasksInv, Domains
  <2>. QED
    BY <1>2, <2>1 DEF TasksInv, RequestInv, Bound, Responded, Logged, Mine, ErrorLine, AccessLine
<1>5. RequestInv(r)'
  <2>1. pc'[r] = "limit" /\ kind'[r] = k /\ id'[r] = Mine(r)' /\ context'[r] = Mine(r)'
    BY <1>1, <1>2 DEF TasksInv, Domains, Mine
  <2>2. response'[r] = NoResponse /\ lines'[r] = <<>>
    BY <1>2 DEF TasksInv, RequestInv, Responded, Logged
  <2>. QED
    BY <2>1, <2>2 DEF RequestInv, Bound, Responded, Logged, Working, Sent
<1>. QED
  BY <1>3, <1>4, <1>5 DEF TasksInv

LEMMA FinishInv ==
    ASSUME TasksInv, NEW r \in Requests, Finish(r) \/ LogRaised(r)
    PROVE  TasksInv'
<1>. DEFINE line == IF pc[r] = "raised" THEN Line(r, "uvicorn.error", 500)
                                        ELSE Line(r, "access", response[r].status)
            next == IF pc[r] = "raising" THEN "raised" ELSE "done"
<1>1. /\ UNCHANGED <<kind, id, identity, response>>
      /\ pc[r] \in {"logging", "raising", "raised"} /\ pc' = [pc EXCEPT ![r] = next]
      /\ context' = IF pc[r] = "raised" THEN context ELSE [context EXCEPT ![r] = NoId]
      /\ lines' = [lines EXCEPT ![r] = Append(lines[r], line)]
  BY DEF Finish, LogRaised, Goto, Log
<1>2. Domains'
  BY <1>1 DEF TasksInv, Domains, Sent
<1>3. ASSUME NEW q \in Requests \ {r}
      PROVE  RequestInv(q)'
  <2>1. pc'[q] = pc[q] /\ context'[q] = context[q] /\ lines'[q] = lines[q]
    BY <1>1 DEF TasksInv, Domains
  <2>. QED
    BY <1>1, <2>1 DEF TasksInv, RequestInv, Bound, Responded, Logged, Mine, ErrorLine, AccessLine
<1>4. RequestInv(r) /\ Mine(r)' = Mine(r) /\ ErrorLine(r)' = ErrorLine(r) /\ AccessLine(r)' = AccessLine(r)
  BY <1>1 DEF TasksInv, Mine, ErrorLine, AccessLine
<1>5. pc'[r] = next /\ lines'[r] = Append(lines[r], line) /\ (context'[r] = NoId)
  BY <1>1, <1>4 DEF TasksInv, Domains, RequestInv, Bound
<1>6. CASE pc[r] = "logging"
  <2>1. line = AccessLine(r) /\ lines[r] = <<>>
    BY <1>4, <1>6 DEF RequestInv, Bound, Logged, Line, AccessLine
  <2>2. lines'[r] = <<AccessLine(r)'>>
    BY <1>4, <1>5, <2>1, FirstLine
  <2>. QED
    BY <1>1, <1>2, <1>3, <1>4, <1>5, <1>6, <2>2 DEF TasksInv, RequestInv, Bound, Responded, Logged, Working, Sent
<1>7. CASE pc[r] = "raising"
  <2>1. line = AccessLine(r) /\ lines[r] = <<ErrorLine(r)>>
    BY <1>4, <1>7 DEF RequestInv, Bound, Logged, Line, AccessLine
  <2>2. lines'[r] = <<ErrorLine(r)', AccessLine(r)'>>
    BY <1>4, <1>5, <2>1, SecondLine
  <2>. QED
    BY <1>1, <1>2, <1>3, <1>4, <1>5, <1>7, <2>2 DEF TasksInv, RequestInv, Bound, Responded, Logged, Working, Sent
<1>8. CASE pc[r] = "raised"
  <2>1. line = ServerLine /\ lines[r] = <<ErrorLine(r), AccessLine(r)>>
    BY <1>4, <1>8 DEF RequestInv, Bound, Logged, Line, ServerLine
  <2>2. lines'[r] = <<ErrorLine(r)', AccessLine(r)', ServerLine>>
    BY <1>4, <1>5, <2>1, ThirdLine
  <2>. QED
    BY <1>1, <1>2, <1>3, <1>4, <1>5, <1>8, <2>2 DEF TasksInv, RequestInv, Bound, Responded, Logged, Working, Sent
<1>. QED
  BY <1>1, <1>6, <1>7, <1>8

LEMMA TasksNext ==
    ASSUME TasksInv, [Next]_vars
    PROVE  TasksInv'
<1>1. CASE UNCHANGED taskVars
  BY <1>1 DEF taskVars, TasksInv, Domains, RequestInv, Bound, Responded, Logged, Mine, ErrorLine, AccessLine
<1>2. ASSUME NEW r \in Requests, Task(r)
      PROVE  TasksInv'
  BY <1>2, Outcomes, OutcomeInv, FinishInv DEF Task, Handling, TasksInv
<1>. QED
  BY <1>1, <1>2, ArriveInv DEF Next, Serve, Thread, Environment, vars

-----------------------------------------------------------------------------
(* Looking keys up *)

\* What a step does to the look-ups of the worker threads.
KeysStep ==
    \/ UNCHANGED keyVars
    \/ \E r \in Requests :
          \/ StartLookUp(r, kind[r].token.kid) \/ EndLookUp(r)
          \/ LookUp(r) \/ Fetch(r) \/ FailFetch(r) \/ Store(r)
    \/ Tick \/ Publish \/ Withdraw

LEMMA KeysSteps ==
    ASSUME [Next]_vars
    PROVE  KeysStep
<1>1. ASSUME NEW r \in Requests, Task(r)
      PROVE  KeysStep
  BY <1>1 DEF Task, LimitBody, Authenticate, FailUnreadable, Verify, AskAuthServer, Handle, Finish,
              LogRaised, KeysStep
<1>2. ASSUME NEW r \in Requests, Arrive(r)
      PROVE  KeysStep
  BY <1>2 DEF Arrive, KeysStep
<1>. QED
  BY <1>1, <1>2 DEF Next, Serve, Thread, Environment, KeysStep, vars

LEMMA SteadyNext ==
    ASSUME LookUpsInv, SteadyInv, KeysStep
    PROVE  /\ SteadyInv'
           /\ DOMAIN thread' = Requests /\ DOMAIN wanted' = Requests /\ DOMAIN fetched' = Requests
           /\ steady' \subseteq Requests
<1>. USE DEF LookUpsInv, SteadyInv, Goes
<1>1. CASE UNCHANGED keyVars
  BY <1>1 DEF keyVars
<1>2. ASSUME NEW r \in Requests, NEW kid, StartLookUp(r, kid)
      PROVE  /\ SteadyInv'
             /\ DOMAIN thread' = Requests /\ DOMAIN wanted' = Requests /\ DOMAIN fetched' = Requests
             /\ steady' \subseteq Requests
  BY <1>2 DEF StartLookUp
<1>3. ASSUME NEW r \in Requests, EndLookUp(r)
      PROVE  /\ SteadyInv'
             /\ DOMAIN thread' = Requests /\ DOMAIN wanted' = Requests /\ DOMAIN fetched' = Requests
             /\ steady' \subseteq Requests
  BY <1>3 DEF EndLookUp
<1>4. ASSUME NEW r \in Requests, LookUp(r)
      PROVE  /\ SteadyInv'
             /\ DOMAIN thread' = Requests /\ DOMAIN wanted' = Requests /\ DOMAIN fetched' = Requests
             /\ steady' \subseteq Requests
  <2>1. /\ thread' = [thread EXCEPT ![r] = "found"] \/ thread' = [thread EXCEPT ![r] = "refetch"]
              \/ thread' = [thread EXCEPT ![r] = "fetch"]
        /\ UNCHANGED <<published, wanted, fetched, steady>>
    BY <1>4 DEF LookUp
  <2>. QED
    BY <2>1
<1>5. ASSUME NEW r \in Requests, Fetch(r)
      PROVE  /\ SteadyInv'
             /\ DOMAIN thread' = Requests /\ DOMAIN wanted' = Requests /\ DOMAIN fetched' = Requests
             /\ steady' \subseteq Requests
  BY <1>5 DEF Fetch
<1>6. ASSUME NEW r \in Requests, FailFetch(r)
      PROVE  /\ SteadyInv'
             /\ DOMAIN thread' = Requests /\ DOMAIN wanted' = Requests /\ DOMAIN fetched' = Requests
             /\ steady' \subseteq Requests
  BY <1>6 DEF FailFetch
<1>7. ASSUME NEW r \in Requests, Store(r)
      PROVE  /\ SteadyInv'
             /\ DOMAIN thread' = Requests /\ DOMAIN wanted' = Requests /\ DOMAIN fetched' = Requests
             /\ steady' \subseteq Requests
  <2>1. /\ thread[r] \in {"store", "restore"}
        /\ fetched' = [fetched EXCEPT ![r] = {}]
        /\ UNCHANGED <<published, wanted, steady>>
    BY <1>7 DEF Store
  <2>2. IF wanted[r] \in fetched[r] THEN thread' = [thread EXCEPT ![r] = "found"]
        ELSE \E state : thread' = [thread EXCEPT ![r] = state]
    BY <1>7 DEF Store
  <2>3. r \in steady => thread' = [thread EXCEPT ![r] = "found"]
    BY <2>1, <2>2
  <2>. QED
    BY <2>1, <2>2, <2>3
<1>8. CASE Tick \/ Publish
  BY <1>8 DEF Tick, Publish
<1>9. CASE Withdraw
  BY <1>9 DEF Withdraw
<1>. QED
  BY <1>1, <1>2, <1>3, <1>4, <1>5, <1>6, <1>7, <1>8, <1>9 DEF KeysStep

\* The kid that is looked for changes only with the request's own task.
LEMMA WantedNext ==
    ASSUME TasksInv, LookUpsInv, [Next]_vars
    PROVE  \A q \in Requests : pc'[q] = "awaiting" => wanted'[q] = kind'[q].token.kid
<1>. USE DEF TasksInv, Domains, LookUpsInv
<1>1. CASE UNCHANGED <<pc, kind, wanted>>
  BY <1>1
<1>2. ASSUME NEW r \in Requests, Arrive(r)
      PROVE  \A q \in Requests : pc'[q] = "awaiting" => wanted'[q] = kind'[q].token.kid
  <2>1. pc' = [pc EXCEPT ![r] = "limit"] /\ wanted' = wanted
        /\ \A q \in Requests \ {r} : kind'[q] = kind[q]
    BY <1>2 DEF Arrive, Goto, keyVars
  <2>. QED
    BY <2>1
<1>3. ASSUME NEW r \in Requests, Authenticate(r)
      PROVE  \A q \in Requests : pc'[q] = "awaiting" => wanted'[q] = kind'[q].token.kid
  <2>1. kind' = kind /\ \E next : pc' = [pc EXCEPT ![r] = next]
    BY <1>3 DEF Authenticate, Fail, Goto
  <2>2. \/ pc' = [pc EXCEPT ![r] = "awaiting"] /\ wanted' = [wanted EXCEPT ![r] = kind[r].token.kid]
        \/ pc'[r] # "awaiting" /\ wanted' = wanted
    BY <1>3 DEF Authenticate, Fail, Goto, StartLookUp, keyVars
  <2>. QED
    BY <2>1, <2>2
<1>4. ASSUME NEW r \in Requests, Verify(r)
      PROVE  \A q \in Requests : pc'[q] = "awaiting" => wanted'[q] = kind'[q].token.kid
  <2>1. wanted' = [wanted EXCEPT ![r] = NoKid] /\ thread[r] \in {"found", "missing", "error"}
    BY <1>4 DEF Verify, EndLookUp
  <2>2. Identify(r, kind[r].token.sub) \/ Fail(r, 401) \/ FailUnexpectedly(r)
    BY <1>4, <2>1 DEF Verify
  <2>3. kind' = kind /\ \E next \in {"handler", "logging", "raising"} : pc' = [pc EXCEPT ![r] = next]
    BY <2>2 DEF Identify, Fail, FailUnexpectedly, Goto
  <2>. QED
    BY <2>1, <2>3
<1>5. ASSUME NEW r \in Requests,
             LimitBody(r) \/ FailUnreadable(r) \/ AskAuthServer(r) \/ Handle(r) \/ Finish(r) \/ LogRaised(r)
      PROVE  \A q \in Requests : pc'[q] = "awaiting" => wanted'[q] = kind'[q].token.kid
  <2>1. kind' = kind /\ wanted' = wanted
        /\ \E next \in {"handler", "parse", "logging", "raising", "raised", "done"} :
              pc' = [pc EXCEPT ![r] = next]
    BY <1>5 DEF LimitBody, FailUnreadable, AskAuthServer, Handle, Finish, LogRaised, Identify, Fail,
                FailUnexpectedly, Goto, keyVars
  <2>. QED
    BY <2>1
<1>6. ASSUME NEW r \in Requests, Thread(r)
      PROVE  UNCHANGED <<pc, kind, wanted>>
  BY <1>6 DEF Thread, LookUp, Fetch, FailFetch, Store, taskVars
<1>7. Environment => UNCHANGED <<pc, kind, wanted>>
  BY DEF Environment, Tick, Publish, Withdraw, taskVars
<1>. QED
  BY <1>1, <1>2, <1>3, <1>4, <1>5, <1>6, <1>7 DEF Next, Serve, Task, vars, keyVars, taskVars

LEMMA InitInv == Init => Inv
  BY DEF Init, KeysInit, Inv, TasksInv, Domains, RequestInv, Bound, Responded, Logged, LookUpsInv,
         SteadyInv, Working, Sent

LEMMA NextInv ==
    ASSUME Inv, [Next]_vars
    PROVE  Inv'
<1>1. TasksInv'
  BY TasksNext DEF Inv
<1>2. SteadyInv' /\ LookUpsInv'
  BY KeysSteps, SteadyNext, WantedNext DEF Inv, LookUpsInv
<1>. QED
  BY <1>1, <1>2 DEF Inv

THEOREM Invariance == Spec => []Inv
<1>. QED
  BY InitInv, NextInv, PTL DEF Spec

-----------------------------------------------------------------------------
(* A key that stays published is found, however many threads fetch, cache    *)
(* and expire key sets around the look-up.                                   *)
THEOREM PublishedKeysFound == Spec => []CurrentKeysFound
<1>1. Inv => CurrentKeysFound
  BY DEF Inv, SteadyInv, CurrentKeysFound
<1>. QED
  BY <1>1, Invariance, PTL

(* For any number of interleaved requests, each is answered and logged under *)
(* its own id.                                                               *)
THEOREM RequestsKeepTheirIds == Spec => []OneIdPerRequest
<1>1. ASSUME Inv, NEW r \in Requests, pc[r] # "new"
      PROVE  /\ Answered(r) =>
                  /\ response[r].header = Mine(r)
                  /\ response[r].body = IF response[r].status = 200 THEN NoId ELSE Mine(r)
             /\ \A i \in DOMAIN lines[r] :
                  lines[r][i].id = IF lines[r][i].logger = "uvicorn.error" THEN NoId ELSE Mine(r)
  <2>1. RequestInv(r) /\ pc[r] \in Working \cup Sent
    BY <1>1 DEF Inv, TasksInv, Domains
  <2>2. Answered(r) =>
          /\ response[r].header = Mine(r)
          /\ response[r].body = IF response[r].status = 200 THEN NoId ELSE Mine(r)
    BY <2>1 DEF RequestInv, Responded, Answered
  <2>3. \/ lines[r] = <<>> \/ lines[r] = <<ErrorLine(r)>> \/ lines[r] = <<ErrorLine(r), AccessLine(r)>>
        \/ lines[r] = <<AccessLine(r)>> \/ lines[r] = <<ErrorLine(r), AccessLine(r), ServerLine>>
    BY <2>1 DEF RequestInv, Logged, Working, Sent
  <2>4. \A i \in DOMAIN lines[r] : lines[r][i] \in {ErrorLine(r), AccessLine(r), ServerLine}
    BY <2>3
  <2>. QED
    BY <2>2, <2>4 DEF ErrorLine, AccessLine, ServerLine
<1>2. Inv => OneIdPerRequest
  BY <1>1 DEF OneIdPerRequest, Mine
<1>. QED
  BY <1>2, Invariance, PTL

(* Exactly one access line per request, on every path.                       *)
THEOREM RequestsLoggedOnce == Spec => []LoggedOnce
<1>1. ASSUME Inv, NEW r \in Requests
      PROVE  IF pc[r] \in {"raised", "done"}
             THEN \E i \in AccessLines(r) :
                     AccessLines(r) = {i} /\ lines[r][i].status = response[r].status
             ELSE AccessLines(r) = {}
  <2>1. RequestInv(r) /\ pc[r] \in {"new"} \cup Working \cup Sent
    BY <1>1 DEF Inv, TasksInv, Domains
  <2>2. CASE pc[r] \notin {"raised", "done"}
    <3>1. lines[r] = <<>> \/ lines[r] = <<ErrorLine(r)>>
      BY <2>1, <2>2 DEF RequestInv, Logged, Sent
    <3>. QED
      BY <2>2, <3>1 DEF AccessLines, ErrorLine
  <2>3. CASE lines[r] = <<AccessLine(r)>>
    <3>1. AccessLines(r) = {1} /\ lines[r][1].status = response[r].status
      BY <2>3 DEF AccessLines, AccessLine
    <3>. QED
      BY <2>2, <3>1
  <2>4. CASE lines[r] = <<ErrorLine(r), AccessLine(r)>>
    <3>1. AccessLines(r) = {2} /\ lines[r][2].status = response[r].status
      BY <2>4 DEF AccessLines, AccessLine, ErrorLine
    <3>. QED
      BY <2>2, <3>1
  <2>5. CASE lines[r] = <<ErrorLine(r), AccessLine(r), ServerLine>>
    <3>1. AccessLines(r) = {2} /\ lines[r][2].status = response[r].status
      BY <2>5 DEF AccessLines, AccessLine, ErrorLine, ServerLine
    <3>. QED
      BY <2>2, <3>1
  <2>. QED
    BY <2>1, <2>2, <2>3, <2>4, <2>5 DEF RequestInv, Logged
<1>2. Inv => LoggedOnce
  BY <1>1 DEF LoggedOnce
<1>. QED
  BY <1>2, Invariance, PTL

(* Nobody is taken for somebody else, whichever keys are cached and whoever  *)
(* asked for them.                                                           *)
THEOREM IdentitiesAreVerified == Spec => OwnersAreVerified
<1>1. ASSUME Inv, [Next]_vars, NEW r \in Requests, identity'[r] # identity[r]
      PROVE  LET token == kind[r].token IN
             /\ identity'[r] = token.sub
             /\ token.signer = token.kid /\ token.claims /\ now < token.exp
  <2>1. PICK q \in Requests : Verify(q) \/ AskAuthServer(q)
    BY <1>1 DEF Next, Serve, Task, Thread, Environment, Arrive, LimitBody, Authenticate, FailUnreadable,
                Handle, Finish, LogRaised, Fail, FailUnexpectedly, vars, taskVars
  <2>2. PICK key : Genuine(kind[q].token, key) /\ Identify(q, kind[q].token.sub)
                     /\ key = kind[q].token.kid
    <3>1. CASE Verify(q)
      <4>1. thread[q] \in {"found", "missing", "error"} /\ pc[q] = "awaiting"
        BY <3>1 DEF Verify, EndLookUp
      <4>2. \/ Genuine(kind[q].token, wanted[q]) /\ Identify(q, kind[q].token.sub)
            \/ Fail(q, 401) \/ FailUnexpectedly(q)
        BY <3>1, <4>1 DEF Verify
      <4>. QED
        BY <1>1, <4>1, <4>2 DEF Fail, FailUnexpectedly, Inv, LookUpsInv
    <3>2. CASE AskAuthServer(q)
      BY <1>1, <3>2 DEF AskAuthServer, Fail, FailUnexpectedly
    <3>. QED
      BY <2>1, <3>1, <3>2
  <2>3. identity' = [identity EXCEPT ![q] = kind[q].token.sub]
    BY <2>2 DEF Identify
  <2>4. q = r
    BY <1>1, <2>3 DEF Inv, TasksInv, Domains
  <2>. QED
    BY <1>1, <2>2, <2>3, <2>4 DEF Genuine, Inv, TasksInv, Domains
<1>2. Inv /\ [Next]_vars =>
        [\A r \in Requests : identity'[r] # identity[r] =>
            LET token == kind[r].token IN
            /\ identity'[r] = token.sub
            /\ token.signer = token.kid /\ token.claims /\ now < token.exp]_vars
  BY <1>1
<1>. QED
  BY <1>2, Invariance, PTL DEF Spec, OwnersAreVerified
=============================================================================
