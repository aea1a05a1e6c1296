----------------------------- MODULE BodyLimit -----------------------------
(***************************************************************************)
(* RequestBodyLimitMiddleware: one HTTP request is buffered until it ends, *)
(* its client leaves or it is too large, and the buffered ASGI messages    *)
(* are replayed to the application, which then receives from the server    *)
(* again.  Of a chunk the model keeps which bytes of the body it carries;  *)
(* the limit is 64 KiB in the code.                                        *)
(***************************************************************************)
EXTENDS Integers, Sequences

CONSTANTS
    Limit,        \* max_body_bytes
    Bodies,       \* the http.request messages a client may send, as sequences
    Lengths,      \* values of a Content-Length header that int() accepts
    NoLength,     \* no such header, or one that is not a number
    MaxReceives   \* bound on how often the application calls receive()

\* The bytes after the first "from", up to the one numbered "to".
Message == [type : {"http.request", "http.disconnect"}, from : Nat, to : Nat, more : BOOLEAN]

\* The chunks of one body follow each other, and only the last one may end it.
IsBody(body) ==
    /\ body \in Seq(Message)
    /\ \A k \in DOMAIN body :
          /\ body[k].type = "http.request"
          /\ body[k].from = IF k = 1 THEN 0 ELSE body[k - 1].to
          /\ body[k].from <= body[k].to
          /\ k < Len(body) => body[k].more

ASSUME BoundsAssumption ==
    /\ Limit \in Nat /\ MaxReceives \in Nat
    /\ Lengths \subseteq Int /\ NoLength \notin Int
    /\ \A body \in Bodies : IsBody(body)

VARIABLES
    wire,      \* what the server hands out, before it reports a disconnect
    calls,     \* how many times the server's receive() has been called
    length,    \* the request's Content-Length
    phase,     \* "start", "reading", "app" or "rejected"
    messages,  \* the buffer of _read_body
    received,  \* its counter, how much of the body is in the buffer
    index,     \* how many buffered messages have been replayed
    seen       \* the messages the application has received

vars == <<wire, calls, length, phase, messages, received, index, seen>>

Disconnect == [type |-> "http.disconnect", from |-> 0, to |-> 0, more |-> FALSE]

\* what the k-th call of receive() returns
FromServer(k) == IF k <= Len(wire) THEN wire[k] ELSE Disconnect

SizeOf(message) == message.to - message.from

Init ==
    /\ wire \in Bodies
    /\ calls = 0
    /\ length \in Lengths \cup {NoLength}
    /\ phase = "start"
    /\ messages = <<>>
    /\ received = 0
    /\ index = 0
    /\ seen = <<>>

\* Mutant of CheckLength: a body of exactly the limit is refused.
CheckLengthStrictly ==
    /\ phase = "start"
    /\ phase' = IF length # NoLength /\ length >= Limit THEN "rejected" ELSE "reading"
    /\ UNCHANGED <<wire, calls, length, messages, received, index, seen>>

CheckLength ==
    /\ phase = "start"
    /\ phase' = IF length # NoLength /\ length > Limit THEN "rejected" ELSE "reading"
    /\ UNCHANGED <<wire, calls, length, messages, received, index, seen>>

\* Mutant of ReadMessage: each chunk is compared with the limit on its own.
ReadMessageByChunk ==
    LET message == FromServer(calls + 1) IN
    /\ phase = "reading"
    /\ calls' = calls + 1
    /\ messages' = Append(messages, message)
    /\ received' = SizeOf(message)
    /\ \/ message.type # "http.request" /\ phase' = "app"
       \/ message.type = "http.request" /\ received' > Limit /\ phase' = "rejected"
       \/ /\ message.type = "http.request" /\ received' <= Limit
          /\ phase' = IF message.more THEN "reading" ELSE "app"
    /\ UNCHANGED <<wire, length, index, seen>>

\* one turn of the loop of _read_body
ReadMessage ==
    LET message == FromServer(calls + 1) IN
    /\ phase = "reading"
    /\ calls' = calls + 1
    /\ messages' = Append(messages, message)
    /\ received' = received + SizeOf(message)
    /\ \/ message.type # "http.request" /\ phase' = "app"
       \/ message.type = "http.request" /\ received' > Limit /\ phase' = "rejected"
       \/ /\ message.type = "http.request" /\ received' <= Limit
          /\ phase' = IF message.more THEN "reading" ELSE "app"
    /\ UNCHANGED <<wire, length, index, seen>>

\* replay_receive, the buffered part
Replay ==
    /\ phase = "app" /\ Len(seen) < MaxReceives
    /\ index < Len(messages)
    /\ seen' = Append(seen, messages[index + 1])
    /\ index' = index + 1
    /\ UNCHANGED <<wire, calls, length, phase, messages, received>>

\* replay_receive, when the buffer is used up: the server's receive()
PassThrough ==
    /\ phase = "app" /\ Len(seen) < MaxReceives
    /\ index = Len(messages)
    /\ calls' = calls + 1
    /\ seen' = Append(seen, FromServer(calls + 1))
    /\ UNCHANGED <<wire, length, phase, messages, received, index>>

Next == CheckLength \/ ReadMessage \/ Replay \/ PassThrough

Spec == Init /\ [][Next]_vars

-----------------------------------------------------------------------------
(* Properties *)

TypeOK ==
    /\ wire \in Bodies
    /\ calls \in Nat /\ received \in Nat /\ index \in 0 .. Len(messages)
    /\ length \in Lengths \cup {NoLength}
    /\ phase \in {"start", "reading", "app", "rejected"}
    /\ messages \in Seq(Message) /\ seen \in Seq(Message)

(* The application sees the messages of the server in order, each once,     *)
(* across the seam between the buffer and the server, and however often it  *)
(* calls receive() no byte of a body past the limit.                        *)
AppSeesTheRequest ==
    \A k \in DOMAIN seen : seen[k] = FromServer(k) /\ seen[k].to <= Limit

TooLarge == \E k \in DOMAIN wire : wire[k].to > Limit

(* A request is refused with 413 only if its body, or what it declares of   *)
(* its body, is over the limit; a body within the limit that declares no    *)
(* more than the limit reaches the application, whole, unless its client    *)
(* left.                                                                    *)
RejectsOnlyTooLarge ==
    /\ phase = "rejected" => TooLarge \/ (length # NoLength /\ length > Limit)
    /\ phase = "app" /\ ~ TooLarge => Len(wire) <= Len(messages)
=============================================================================
