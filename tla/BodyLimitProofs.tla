-------------------------- MODULE BodyLimitProofs --------------------------
(***************************************************************************)
(* Theorems of BodyLimit for every limit, every set of bodies and any      *)
(* number of calls of receive(): the application sees what the server      *)
(* handed out, and 413 is the answer to what is too large and to nothing   *)
(* else.                                                                   *)
(***************************************************************************)
EXTENDS BodyLimit, TLAPS

\* The buffer is what was received before anything else ...
Buffered ==
    /\ \A k \in 1 .. Len(messages) : messages[k] = FromServer(k)
    /\ calls = Len(messages) + (Len(seen) - index)
    /\ phase # "rejected" => \A k \in 1 .. Len(messages) : messages[k].to <= Limit

\* ... and its counter is where in the body its last chunk ends.
Counted ==
    /\ phase \in {"start", "reading"} =>
          /\ Len(messages) <= Len(wire)
          /\ received = IF messages = <<>> THEN 0 ELSE wire[Len(messages)].to
    /\ phase = "start" => messages = <<>>
    /\ phase = "app" => Len(wire) <= Len(messages)
    /\ phase = "rejected" => TooLarge \/ (length # NoLength /\ length > Limit)

\* The application is past the buffer, or has seen that much of it.
Replayed ==
    /\ phase # "app" => seen = <<>>
    /\ index <= Len(seen)
    /\ index < Len(messages) => Len(seen) = index
    /\ \A k \in 1 .. Len(seen) : seen[k] = FromServer(k) /\ seen[k].to <= Limit

Inv == TypeOK /\ Buffered /\ Counted /\ Replayed

-----------------------------------------------------------------------------
LEMMA BodyFacts ==
    ASSUME TypeOK
    PROVE  /\ wire \in Seq(Message) /\ Len(wire) \in Nat
           /\ \A k \in 1 .. Len(wire) :
                 /\ wire[k] \in Message /\ wire[k].type = "http.request"
                 /\ wire[k].from = IF k = 1 THEN 0 ELSE wire[k - 1].to
                 /\ wire[k].from <= wire[k].to
                 /\ k < Len(wire) => wire[k].more
           /\ Limit \in Nat /\ MaxReceives \in Nat
<1>1. IsBody(wire)
  BY BoundsAssumption DEF TypeOK
<1>2. wire \in Seq(Message) /\ DOMAIN wire = 1 .. Len(wire) /\ Len(wire) \in Nat
  BY <1>1 DEF IsBody
<1>. QED
  BY <1>1, <1>2, BoundsAssumption DEF IsBody

LEMMA ReceivedType ==
    ASSUME TypeOK, NEW k \in Nat \ {0}
    PROVE  /\ FromServer(k) \in Message
           /\ k <= Len(wire) => FromServer(k) = wire[k]
           /\ k > Len(wire) => /\ FromServer(k).type = "http.disconnect"
                               /\ FromServer(k).to = 0 /\ SizeOf(FromServer(k)) = 0
<1>1. Disconnect \in Message
  BY DEF Disconnect, Message
<1>. QED
  BY <1>1, BodyFacts DEF FromServer, Disconnect, SizeOf

LEMMA InitInv == Init => Inv
<1>. SUFFICES ASSUME Init PROVE Inv
  OBVIOUS
<1>1. TypeOK
  BY DEF Init, TypeOK
<1>2. Len(wire) \in Nat
  BY <1>1, BodyFacts
<1>. QED
  BY <1>1, <1>2 DEF Init, Inv, Buffered, Counted, Replayed

LEMMA CheckLengthInv ==
    ASSUME Inv, CheckLength
    PROVE  Inv'
  BY BodyFacts DEF Inv, CheckLength, TypeOK, Buffered, Counted, Replayed, FromServer, TooLarge

LEMMA ReadMessageInv ==
    ASSUME Inv, ReadMessage
    PROVE  Inv'
<1>. DEFINE n == Len(messages)
            message == FromServer(n + 1)
<1>1. /\ phase = "reading" /\ n \in Nat /\ n <= Len(wire) /\ calls = n
      /\ seen = <<>> /\ index = 0 /\ TypeOK
  BY DEF Inv, ReadMessage, TypeOK, Buffered, Counted, Replayed
<1>2. /\ messages' = Append(messages, message) /\ received' = received + SizeOf(message)
      /\ calls' = n + 1
      /\ \/ message.type # "http.request" /\ phase' = "app"
         \/ message.type = "http.request" /\ received' > Limit /\ phase' = "rejected"
         \/ /\ message.type = "http.request" /\ received' <= Limit
            /\ phase' = IF message.more THEN "reading" ELSE "app"
      /\ UNCHANGED <<wire, length, index, seen>>
  BY <1>1 DEF ReadMessage
<1>3. /\ message \in Message /\ message.from \in Nat /\ message.to \in Nat
      /\ n < Len(wire) => message = wire[n + 1]
      /\ n = Len(wire) => /\ message.type = "http.disconnect"
                          /\ message.to = 0 /\ SizeOf(message) = 0
  <2>1. n + 1 \in Nat \ {0}
    BY <1>1
  <2>2. message \in Message /\ message.from \in Nat /\ message.to \in Nat
    BY <1>1, <2>1, ReceivedType DEF Message
  <2>3. n < Len(wire) => n + 1 <= Len(wire)
    BY <1>1, BodyFacts
  <2>4. n = Len(wire) => n + 1 > Len(wire)
    BY <1>1
  <2>. QED
    BY <1>1, <2>1, <2>2, <2>3, <2>4, ReceivedType
<1>. HIDE DEF message
<1>4. n < Len(wire) => /\ message.type = "http.request" /\ received' = message.to
                       /\ message.from <= message.to
                       /\ n + 1 < Len(wire) => message.more
  <2>. SUFFICES ASSUME n < Len(wire)
                PROVE  /\ message.type = "http.request" /\ received' = message.to
                       /\ message.from <= message.to
                       /\ n + 1 < Len(wire) => message.more
    OBVIOUS
  <2>1. n + 1 \in 1 .. Len(wire) /\ (n = 0 <=> messages = <<>>)
    BY <1>1, BodyFacts DEF TypeOK
  <2>2. received = IF n = 0 THEN 0 ELSE wire[n].to
    BY <1>1, <2>1 DEF Inv, Counted
  <2>3. /\ message.type = "http.request" /\ message.from <= message.to
        /\ message.from = IF n + 1 = 1 THEN 0 ELSE wire[(n + 1) - 1].to
        /\ n + 1 < Len(wire) => message.more
    BY <1>1, <1>3, <2>1, BodyFacts
  <2>4. received = message.from
    BY <1>1, <2>2, <2>3
  <2>. QED
    BY <1>2, <1>3, <2>3, <2>4 DEF SizeOf
<1>5. /\ Len(messages') = n + 1 /\ messages' # <<>> /\ messages' \in Seq(Message)
      /\ \A k \in 1 .. n + 1 : messages'[k] = IF k = n + 1 THEN message ELSE messages[k]
  BY <1>1, <1>2, <1>3 DEF TypeOK
<1>6. /\ phase' \in {"app", "rejected", "reading"}
      /\ phase' = "reading" => n < Len(wire) /\ received' <= Limit
      /\ phase' = "app" => message.to <= Limit /\ Len(wire) <= n + 1
      /\ phase' = "rejected" => n < Len(wire) /\ message.to > Limit
      /\ received' \in Nat
  <2>1. CASE n < Len(wire)
    <3>1. /\ received' = message.to /\ received' \in Nat /\ message.type = "http.request"
          /\ ~ (n + 1 < Len(wire)) => Len(wire) <= n + 1
      BY <1>1, <1>3, <1>4, <2>1, BodyFacts
    <3>. QED
      BY <1>2, <1>4, <2>1, <3>1
  <2>2. CASE n = Len(wire)
    <3>1. received' = received /\ received \in Nat /\ message.to <= Limit /\ Len(wire) <= n + 1
      BY <1>1, <1>2, <1>3, <2>2, BodyFacts DEF TypeOK
    <3>2. phase' = "app"
      BY <1>2, <1>3, <2>2
    <3>. QED
      BY <3>1, <3>2
  <2>. QED
    BY <1>1, <2>1, <2>2, BodyFacts
<1>7. TypeOK'
  BY <1>1, <1>2, <1>5, <1>6 DEF TypeOK
<1>8. Buffered'
  <2>1. \A k \in 1 .. n + 1 : messages'[k] = FromServer(k)'
    BY <1>1, <1>2, <1>5 DEF message, Inv, Buffered, FromServer
  <2>2. phase' # "rejected" => message.to <= Limit
    BY <1>1, <1>4, <1>6
  <2>. QED
    BY <1>1, <1>2, <1>5, <2>1, <2>2 DEF Inv, Buffered
<1>9. Counted'
  <2>1. phase' = "reading" => n + 1 <= Len(wire) /\ received' = wire[n + 1].to
    BY <1>1, <1>3, <1>4, <1>6, BodyFacts
  <2>2. phase' = "rejected" => TooLarge'
    <3>1. n < Len(wire) => n + 1 \in DOMAIN wire
      BY <1>1, BodyFacts
    <3>. QED
      BY <1>2, <1>3, <1>6, <3>1 DEF TooLarge
  <2>. QED
    BY <1>2, <1>5, <1>6, <2>1, <2>2 DEF Counted
<1>10. Replayed'
  BY <1>1, <1>2, <1>5 DEF Inv, Replayed, FromServer
<1>. QED
  BY <1>7, <1>8, <1>9, <1>10 DEF Inv

\* What the application gets next is what the server handed out next.
LEMMA SeenInv ==
    ASSUME Inv, NEW message \in Message, phase = "app",
           message = FromServer(Len(seen) + 1), message.to <= Limit,
           seen' = Append(seen, message),
           UNCHANGED <<wire, length, phase, messages, received>>,
           \/ index < Len(messages) /\ index' = index + 1 /\ calls' = calls
           \/ index = Len(messages) /\ index' = index /\ calls' = calls + 1
    PROVE  Inv'
<1>1. /\ Len(seen) \in Nat /\ Len(messages) \in Nat /\ index \in Nat /\ calls \in Nat
      /\ seen' \in Seq(Message) /\ Len(seen') = Len(seen) + 1
      /\ \A k \in 1 .. Len(seen) + 1 :
            seen'[k] = IF k = Len(seen) + 1 THEN message ELSE seen[k]
  BY DEF Inv, TypeOK
<1>2. TypeOK'
  BY <1>1 DEF Inv, TypeOK
<1>3. Buffered' /\ Counted'
  <2>1. calls' = Len(messages) + (Len(seen') - index')
    <3>1. calls = Len(messages) + (Len(seen) - index)
      BY DEF Inv, Buffered
    <3>2. CASE index' = index + 1 /\ calls' = calls
      BY <1>1, <3>1, <3>2
    <3>3. CASE index' = index /\ calls' = calls + 1
      BY <1>1, <3>1, <3>3
    <3>. QED
      BY <3>2, <3>3
  <2>2. \A k : FromServer(k)' = FromServer(k)
    BY DEF FromServer
  <2>3. Buffered'
    BY <2>1, <2>2 DEF Inv, Buffered
  <2>. QED
    BY <2>3 DEF Inv, Counted, TooLarge
<1>4. Replayed'
  <2>1. /\ index' <= Len(seen') /\ (index' < Len(messages') => Len(seen') = index')
    BY <1>1 DEF Inv, Replayed
  <2>2. \A k \in 1 .. Len(seen') : seen'[k] = FromServer(k)' /\ seen'[k].to <= Limit
    BY <1>1 DEF Inv, Replayed, FromServer
  <2>. QED
    BY <2>1, <2>2 DEF Replayed
<1>. QED
  BY <1>2, <1>3, <1>4 DEF Inv

LEMMA ReplayInv ==
    ASSUME Inv, Replay
    PROVE  Inv'
<1>1. /\ phase = "app" /\ index \in Nat /\ Len(messages) \in Nat /\ index < Len(messages)
      /\ Len(seen) = index /\ index + 1 \in 1 .. Len(messages)
  BY DEF Inv, TypeOK, Replayed, Replay
<1>2. /\ messages[index + 1] = FromServer(Len(seen) + 1) /\ messages[index + 1].to <= Limit
      /\ messages[index + 1] \in Message
  BY <1>1 DEF Inv, TypeOK, Buffered
<1>. QED
  BY <1>1, <1>2, SeenInv DEF Replay

LEMMA PassThroughInv ==
    ASSUME Inv, PassThrough
    PROVE  Inv'
<1>1. /\ phase = "app" /\ index = Len(messages) /\ calls = Len(seen)
      /\ Len(seen) \in Nat /\ Len(messages) <= Len(seen) /\ Len(wire) <= Len(messages)
  BY DEF Inv, TypeOK, Buffered, Counted, Replayed, PassThrough
<1>2. /\ FromServer(calls + 1) = FromServer(Len(seen) + 1)
      /\ FromServer(calls + 1) \in Message /\ FromServer(calls + 1).to = 0
  BY <1>1, BodyFacts, ReceivedType DEF Inv
<1>. QED
  BY <1>1, <1>2, SeenInv, BodyFacts DEF PassThrough, Inv

LEMMA NextInv ==
    ASSUME Inv, [Next]_vars
    PROVE  Inv'
<1>1. CASE UNCHANGED vars
  BY <1>1 DEF vars, Inv, TypeOK, Buffered, Counted, Replayed, FromServer, TooLarge
<1>. QED
  BY <1>1, CheckLengthInv, ReadMessageInv, ReplayInv, PassThroughInv DEF Next

THEOREM Invariance == Spec => []Inv
<1>. QED
  BY InitInv, NextInv, PTL DEF Spec

(* The buffer, its counter, the replay index and what is on the wire keep    *)
(* their types, whatever the client sends and the application asks for.      *)
THEOREM TypeCorrect == Spec => []TypeOK
<1>1. Inv => TypeOK
  BY DEF Inv
<1>. QED
  BY <1>1, Invariance, PTL

(* Whatever the client sends, in however many chunks, replay_receive hands   *)
(* the application the server's messages in order, each once, across the     *)
(* seam between the buffer and the server, and no byte past the limit.       *)
THEOREM MessagesAreReplayed == Spec => []AppSeesTheRequest
<1>1. Inv => AppSeesTheRequest
  BY DEF Inv, TypeOK, Replayed, AppSeesTheRequest
<1>. QED
  BY <1>1, Invariance, PTL

(* 413 answers a body over the limit or one declared to be, and no other; a  *)
(* body that gets past _read_body and is within the limit is in the buffer   *)
(* to its last chunk.                                                        *)
THEOREM RefusalsAreJustified == Spec => []RejectsOnlyTooLarge
<1>1. Inv => RejectsOnlyTooLarge
  BY DEF Inv, Counted, RejectsOnlyTooLarge
<1>. QED
  BY <1>1, Invariance, PTL
=============================================================================
