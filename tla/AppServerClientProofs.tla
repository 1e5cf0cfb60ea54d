------------------------ MODULE AppServerClientProofs ------------------------
(***************************************************************************)
(* Proofs about AppServerClient, for any number of requests and lines, any *)
(* ids of the server's own requests, with and without a time-out.          *)
(***************************************************************************)
EXTENDS AppServerClient, TLAPS

(***************************************************************************)
(* The inductive invariant.                                                *)
(***************************************************************************)
(* What may stand on the wire, and in the inbox.                           *)
ClientLines == {Request(id) : id \in Ids} \cup {Initialized} \cup {Reply(a) : a \in Asks}

ServerLines ==
    {Answer(id, content) : id \in Ids, content \in Answers}
      \cup {Ask(a) : a \in Asks}
      \cup {Noise(kind) : kind \in {"notification", "garbage", "overlong"}}

LineTypes == wire \in Seq(ClientLines) /\ inbox \in Seq(ServerLines)

(* No id is used before it is issued, and nothing is sent for it.          *)
Fresh ==
    /\ \A id \in Ids : id > issued => outcome[id] = None
    /\ \A i \in 1..Len(wire) : wire[i].kind = "request" => wire[i].id <= issued

(* How far the handshake has come, in the ids and on the wire.             *)
Progress ==
    /\ handshake = "none" => issued = 0
    /\ handshake \in {"waiting", "confirming", "done"} => issued >= 1
    /\ initialized <=> handshake = "done"
    /\ handshake \in {"none", "waiting"} => \A i \in 1..Len(wire) : wire[i] # Initialized
    /\ handshake \in {"confirming", "done"} => \E i \in 1..Len(wire) : wire[i] = Initialized

(* What has arrived was sent, and a closed client writes no more.          *)
Received ==
    \A i \in 1..Len(inbox) :
        inbox[i].kind = "answer" => <<inbox[i].id, inbox[i].content>> \in answers

Quiet == closed => transport # "open"

(* A request of the server is at one place: unread, being handled, or      *)
(* replied to.                                                             *)
RepliedOn(w, a) == \E i \in 1..Len(w) : w[i] = Reply(a)

OnePlace ==
    /\ \A i \in 1..Len(inbox) :
         inbox[i].kind = "ask" =>
           /\ inbox[i].id \in asked \ handlers
           /\ ~RepliedOn(wire, inbox[i].id)
           /\ \A j \in 1..Len(inbox) : j # i /\ inbox[j].kind = "ask" => inbox[j].id # inbox[i].id
    /\ \A a \in handlers : ~RepliedOn(wire, a)
    /\ \A a \in Asks : RepliedOn(wire, a) => a \in asked

IInv ==
    /\ TypeOK /\ LineTypes /\ Fresh /\ Progress
    /\ Received /\ Quiet /\ OnePlace
    /\ HandshakeFirst /\ OwnAnswer

(***************************************************************************)
(* Sequences and lines.                                                    *)
(***************************************************************************)
LEMMA AppendFacts ==
    ASSUME NEW S, NEW s \in Seq(S), NEW e \in S
    PROVE  /\ Append(s, e) \in Seq(S)
           /\ Len(s) \in Nat
           /\ Len(Append(s, e)) = Len(s) + 1
           /\ \A i \in 1..Len(s) : Append(s, e)[i] = s[i]
           /\ Append(s, e)[Len(s) + 1] = e
OBVIOUS

LEMMA TailFacts ==
    ASSUME NEW S, NEW s \in Seq(S), s # <<>>
    PROVE  /\ Head(s) = s[1] /\ Head(s) \in S
           /\ Tail(s) \in Seq(S)
           /\ Len(s) \in Nat \ {0}
           /\ Len(Tail(s)) = Len(s) - 1
           /\ \A i \in 1..Len(s) - 1 : Tail(s)[i] = s[i + 1]
OBVIOUS

(* The kinds of lines are told apart by their field "kind".                *)
LEMMA ClientKinds ==
    /\ \A id \in Ids : Request(id) \in ClientLines /\ Request(id).kind = "request"
                      /\ Request(id).id = id
    /\ Initialized \in ClientLines /\ Initialized.kind = "initialized"
    /\ \A a \in Asks : Reply(a) \in ClientLines /\ Reply(a).kind = "reply" /\ Reply(a).id = a
BY DEF ClientLines, Request, Initialized, Reply

LEMMA ServerKinds ==
    ASSUME NEW line \in ServerLines
    PROVE  /\ line.kind \in {"answer", "ask", "notification", "garbage", "overlong"}
           /\ line.kind = "answer" => line.id \in Ids /\ line.content \in Answers
           /\ line.kind = "ask" => line.id \in Asks
BY DEF ServerLines, Answer, Ask, Noise

LEMMA SentLines ==
    /\ \A id \in Ids, content \in Answers :
         /\ Answer(id, content) \in ServerLines
         /\ Answer(id, content).kind = "answer"
         /\ Answer(id, content).id = id /\ Answer(id, content).content = content
    /\ \A a \in Asks : Ask(a) \in ServerLines /\ Ask(a).kind = "ask" /\ Ask(a).id = a
    /\ \A kind \in {"notification", "garbage", "overlong"} :
         Noise(kind) \in ServerLines /\ Noise(kind).kind = kind
<1>1. ASSUME NEW id \in Ids, NEW content \in Answers
      PROVE  /\ Answer(id, content) \in ServerLines
             /\ Answer(id, content).kind = "answer"
             /\ Answer(id, content).id = id /\ Answer(id, content).content = content
  <2>1. Answer(id, content) \in ServerLines
    BY DEF ServerLines
  <2> QED
    BY <2>1 DEF Answer
<1>2. ASSUME NEW a \in Asks
      PROVE  Ask(a) \in ServerLines /\ Ask(a).kind = "ask" /\ Ask(a).id = a
  <2>1. Ask(a) \in ServerLines
    BY DEF ServerLines
  <2> QED
    BY <2>1 DEF Ask
<1>3. ASSUME NEW kind \in {"notification", "garbage", "overlong"}
      PROVE  Noise(kind) \in ServerLines /\ Noise(kind).kind = kind
  <2>1. Noise(kind) \in ServerLines
    BY DEF ServerLines
  <2> QED
    BY <2>1 DEF Noise
<1> QED
  BY <1>1, <1>2, <1>3

(***************************************************************************)
(* What steps do to the requests.                                          *)
(***************************************************************************)
(* The line at the head of the inbox, when there is one.                   *)
LEMMA HeadLine ==
    ASSUME LineTypes, NEW kind, Read(kind)
    PROVE  /\ Head(inbox) = inbox[1] /\ Head(inbox) \in ServerLines
           /\ 1 \in 1..Len(inbox) /\ Head(inbox).kind = kind
BY TailFacts DEF LineTypes, Read

(* Settling a pending request tells its caller, and nothing else.          *)
LEMMA SettleKeeps ==
    ASSUME TypeOK, NEW id \in pending, NEW o \in Outcomes, Settle(id, o), UNCHANGED issued
    PROVE  /\ outcome' \in [Ids -> Outcomes \cup {None}]
           /\ pending' = {i \in 1..issued : outcome'[i] = None}
           /\ pending' \subseteq pending
           /\ id \in Ids /\ outcome[id] = None /\ outcome'[id] = o
           /\ \A i \in Ids \ {id} : outcome'[i] = outcome[i]
<1>1. o # None
  BY DEF Outcomes, Answers, None
<1>2. 1..issued \subseteq Ids
  BY ClientAssumption DEF TypeOK, Ids
<1>3. outcome' = [outcome EXCEPT ![id] = o] /\ pending' = pending \ {id}
  BY DEF Settle
<1> QED
  BY <1>1, <1>2, <1>3 DEF TypeOK

(* Closing tells everyone who still waits.                                 *)
LEMMA CloseKeeps ==
    ASSUME TypeOK, Close, UNCHANGED issued
    PROVE  /\ outcome' \in [Ids -> Outcomes \cup {None}]
           /\ pending' = {i \in 1..issued : outcome'[i] = None}
           /\ pending' = {}
           /\ closed' = TRUE
           /\ transport' \in {"open", "closing", "closed"}
           /\ \A i \in Ids : outcome'[i] = outcome[i] \/ (i \in pending /\ outcome'[i] = "closed")
<1>1. "closed" \in Outcomes /\ "closed" # None
  BY DEF Outcomes, None
<1>2. 1..issued \subseteq Ids
  BY ClientAssumption DEF TypeOK, Ids
<1>3. CASE closed
  BY <1>2, <1>3 DEF Close, TypeOK
<1>4. CASE ~closed
  BY <1>1, <1>2, <1>4 DEF Close, Shut, TypeOK
<1> QED
  BY <1>3, <1>4

(* A new request waits, or its caller is told at once.                     *)
LEMMA RegisterKeeps ==
    ASSUME TypeOK, Fresh, NEW fits \in BOOLEAN, Register(fits)
    PROVE  /\ issued + 1 \in Ids /\ issued' = issued + 1 /\ issued' \in 0..MaxRequests
           /\ outcome' \in [Ids -> Outcomes \cup {None}]
           /\ pending' = {i \in 1..issued' : outcome'[i] = None}
           /\ reader' \in {"off", "reading", "stuck", "ended"}
           /\ outcome[issued + 1] = None
           /\ \A i \in Ids \ {issued + 1} : outcome'[i] = outcome[i]
           /\ outcome'[issued + 1] \in {None, "unwritten"}
           /\ \/ wire' = wire
              \/ transport = "open" /\ wire' = Append(wire, Request(issued + 1))
<1>1. issued \in Nat /\ issued + 1 \in Ids /\ issued' = issued + 1 /\ issued' \in 0..MaxRequests
  BY ClientAssumption DEF TypeOK, Ids, Register
<1>2. outcome[issued + 1] = None
  BY <1>1 DEF Fresh
<1>3. "unwritten" \in Outcomes /\ "unwritten" # None
  BY DEF Outcomes, None
<1>4. 1..issued \subseteq Ids /\ 1..issued' = 1..issued \cup {issued + 1}
  BY <1>1, ClientAssumption DEF Ids
<1>5. CASE transport = "open" /\ fits
  BY <1>1, <1>2, <1>4, <1>5 DEF Register, TypeOK
<1>6. CASE ~(transport = "open" /\ fits)
  <2>1. outcome' = [outcome EXCEPT ![issued + 1] = "unwritten"] /\ pending' = pending /\ wire' = wire
    BY <1>6 DEF Register
  <2> QED
    BY <1>1, <1>2, <1>3, <1>4, <2>1 DEF Register, TypeOK
<1> QED
  BY <1>5, <1>6
(***************************************************************************)
(* Types, and what callers are told.                                       *)
(***************************************************************************)
(* A caller is told something only while it waits, about a request that    *)
(* was issued, and an answer only if the server has sent it.               *)
Tells ==
    \A id \in Ids : outcome'[id] # outcome[id] =>
        /\ outcome[id] = None /\ id <= issued'
        /\ outcome'[id] \in Answers => <<id, outcome'[id]>> \in answers

LEMMA SettleTells ==
    ASSUME TypeOK, NEW id \in pending, NEW o \in Outcomes, Settle(id, o), UNCHANGED issued,
           o \in Answers => <<id, o>> \in answers
    PROVE  Tells
<1>1. id <= issued' /\ id \in Ids
  BY SettleKeeps, ClientAssumption DEF TypeOK
<1> QED
  BY <1>1, SettleKeeps DEF Tells

LEMMA CloseTells ==
    ASSUME TypeOK, Close, UNCHANGED issued
    PROVE  Tells
<1>1. "closed" \notin Answers
  BY DEF Answers
<1>2. \A id \in pending : outcome[id] = None /\ id <= issued'
  BY ClientAssumption DEF TypeOK
<1> QED
  BY <1>1, <1>2, CloseKeeps DEF Tells

LEMMA RegisterTells ==
    ASSUME TypeOK, Fresh, NEW fits \in BOOLEAN, Register(fits)
    PROVE  Tells
<1>1. "unwritten" \notin Answers /\ None \notin Answers
  BY DEF Answers, None
<1>2. issued' = issued + 1 /\ issued + 1 \in Nat
  BY RegisterKeeps, ClientAssumption DEF TypeOK
<1> QED
  BY <1>1, <1>2, RegisterKeeps DEF Tells

LEMMA NothingTold ==
    ASSUME UNCHANGED outcome
    PROVE  Tells
BY DEF Tells

LEMMA CallersStep ==
    ASSUME IInv, NEW fits \in BOOLEAN,
           Initialize(fits) \/ Call(fits) \/ Confirm \/ Confirmed \/ HandshakeFails \/ CallerCloses
    PROVE  TypeOK' /\ Tells
<1> USE DEF IInv
<1>1. CASE Initialize(fits)
  <2>1. CASE closed
    BY <1>1, <2>1, NothingTold DEF Initialize, TypeOK, server
  <2>2. CASE ~closed
    BY <1>1, <2>2, RegisterKeeps, RegisterTells DEF Initialize, TypeOK, server
  <2> QED
    BY <2>1, <2>2
<1>2. CASE Call(fits)
  BY <1>2, RegisterKeeps, RegisterTells DEF Call, TypeOK, server
<1>3. CASE Confirm
  <2>1. CASE transport = "open"
    BY <1>3, <2>1, NothingTold DEF Confirm, TypeOK, server
  <2>2. CASE transport # "open"
    BY <1>3, <2>2, CloseKeeps, CloseTells DEF Confirm, TypeOK, server
  <2> QED
    BY <2>1, <2>2
<1>4. CASE Confirmed
  BY <1>4, NothingTold DEF Confirmed, TypeOK, server
<1>5. CASE HandshakeFails
  BY <1>5, CloseKeeps, CloseTells DEF HandshakeFails, TypeOK, server
<1>6. CASE CallerCloses
  BY <1>6, CloseKeeps, CloseTells DEF CallerCloses, TypeOK, server
<1> QED
  BY <1>1, <1>2, <1>3, <1>4, <1>5, <1>6

LEMMA PendingStep ==
    ASSUME IInv, NEW id \in Ids, TimesOut(id) \/ WriteFails(id)
    PROVE  TypeOK' /\ Tells
<1>1. PICK o \in {"timeout", "unwritten"} :
        id \in pending /\ Settle(id, o) /\ UNCHANGED <<closed, handshake, initialized, issued,
          reader, transport, child, handlers, wire, server>>
  BY DEF TimesOut, WriteFails
<1>2. o \in Outcomes /\ o \notin Answers
  BY DEF Outcomes, Answers
<1>3. Tells
  BY <1>1, <1>2, SettleTells DEF IInv
<1>4. ~closed
  BY <1>1 DEF IInv, TypeOK
<1> QED
  BY <1>1, <1>2, <1>3, <1>4, SettleKeeps DEF IInv, TypeOK, server

LEMMA ReadAnswerStep ==
    ASSUME IInv, ReadAnswer
    PROVE  TypeOK' /\ Tells
<1> USE DEF IInv
<1> DEFINE line == Head(inbox)
<1>1. line = inbox[1] /\ 1 \in 1..Len(inbox) /\ line \in ServerLines /\ line.kind = "answer"
  BY HeadLine DEF ReadAnswer
<1>2. line.content \in Answers /\ <<line.id, line.content>> \in answers
  BY <1>1, ServerKinds DEF Received
<1>3. line.content \in Outcomes
  BY <1>2 DEF Outcomes
<1>4. CASE line.id \in pending
  <2>1. Settle(line.id, line.content) /\ UNCHANGED issued
    BY <1>4 DEF ReadAnswer
  <2>2. Tells
    BY <1>2, <1>3, <1>4, <2>1, SettleTells
  <2>3. ~closed
    BY <1>4 DEF TypeOK
  <2> QED
    BY <1>3, <1>4, <2>1, <2>2, <2>3, SettleKeeps DEF ReadAnswer, Loop, Consume, TypeOK
<1>5. CASE line.id \notin pending
  <2>1. Close /\ UNCHANGED issued /\ reader' = "ended"
    BY <1>5 DEF ReadAnswer, Fail
  <2> QED
    BY <2>1, CloseKeeps, CloseTells DEF ReadAnswer, Consume, TypeOK
<1> QED
  BY <1>4, <1>5

LEMMA ReadOtherStep ==
    ASSUME IInv, NEW handled \in BOOLEAN,
           ReadAsk(handled) \/ ReadNoise \/ ReadOverlong \/ OverlongFails \/ ReadEnd
    PROVE  TypeOK' /\ Tells
<1> USE DEF IInv
<1>1. CASE ReadAsk(handled)
  <2>1. Head(inbox).id \in asked
    BY <1>1, HeadLine DEF ReadAsk, OnePlace
  <2> QED
    BY <1>1, <2>1, NothingTold DEF ReadAsk, Loop, Consume, TypeOK
<1>2. CASE ReadNoise
  <2>1. CASE UNCHANGED <<closed, pending, outcome, transport>> /\ Loop
    BY <1>2, <2>1, NothingTold DEF ReadNoise, Loop, Consume, TypeOK
  <2>2. CASE Fail
    BY <1>2, <2>2, CloseKeeps, CloseTells DEF ReadNoise, Fail, Consume, TypeOK
  <2> QED
    BY <1>2, <2>1, <2>2 DEF ReadNoise
<1>3. CASE ReadOverlong
  BY <1>3, NothingTold DEF ReadOverlong, Consume, TypeOK
<1>4. CASE OverlongFails \/ ReadEnd
  BY <1>4, CloseKeeps, CloseTells DEF OverlongFails, ReadEnd, Fail, TypeOK, server
<1> QED
  BY <1>1, <1>2, <1>3, <1>4

LEMMA OtherEndStep ==
    ASSUME IInv, TransportCloses \/ Server \/ Exit \/ \E a \in Asks : HandlerReturns(a)
    PROVE  TypeOK' /\ Tells
<1> USE DEF IInv
<1>1. CASE TransportCloses
  BY <1>1, NothingTold DEF TransportCloses, TypeOK, server
<1>2. CASE Server
  <2>1. sent < MaxLines /\ sent' = sent + 1 /\ asked \subseteq asked' /\ asked' \subseteq Asks
    BY <1>2 DEF Server, Send, TypeOK
  <2> QED
    BY <1>2, <2>1, ClientAssumption, NothingTold DEF Server, TypeOK
<1>3. CASE Exit
  BY <1>3, NothingTold DEF Exit, TypeOK, server
<1>4. CASE \E a \in Asks : HandlerReturns(a)
  BY <1>4, NothingTold DEF HandlerReturns, TypeOK, server
<1> QED
  BY <1>1, <1>2, <1>3, <1>4

LEMMA RequestsStep ==
    ASSUME IInv, [Next]_vars
    PROVE  TypeOK' /\ Tells
<1>1. CASE UNCHANGED vars
  BY <1>1, NothingTold DEF vars, server, IInv, TypeOK
<1>2. CASE Next
  BY <1>2, CallersStep, PendingStep, ReadAnswerStep, ReadOtherStep, OtherEndStep DEF Next, Reading
<1> QED
  BY <1>1, <1>2
(***************************************************************************)
(* The wire: what a step writes, and when.                                 *)
(***************************************************************************)
Same == UNCHANGED <<handshake, initialized, issued>>

WritesRequest(line) ==
    /\ issued + 1 \in Ids /\ issued' = issued + 1
    /\ line = Request(issued + 1)
    /\ \/ handshake = "none" /\ handshake' = "waiting" /\ UNCHANGED initialized
       \/ initialized /\ UNCHANGED <<handshake, initialized>>

WritesInitialized(line) ==
    /\ line = Initialized
    /\ handshake = "waiting" /\ handshake' = "confirming"
    /\ <<Hello, "result">> \in answers
    /\ UNCHANGED <<initialized, issued>>

WritesReply(line) ==
    \E a \in asked : line = Reply(a) /\ ~RepliedOn(wire, a) /\ a \notin handlers' /\ Same

Writes(line) ==
    /\ transport = "open" /\ line \in ClientLines /\ wire' = Append(wire, line)
    /\ WritesRequest(line) \/ WritesInitialized(line) \/ WritesReply(line)

LEMMA CallersWrite ==
    ASSUME IInv, NEW fits \in BOOLEAN, Initialize(fits) \/ Call(fits) \/ Confirm
    PROVE  wire' = wire \/ \E line : Writes(line)
<1> USE DEF IInv
<1>1. CASE Initialize(fits) \/ Call(fits)
  <2>1. CASE closed /\ Initialize(fits)
    BY <2>1 DEF Initialize
  <2>2. CASE Register(fits)
    <3>1. issued + 1 \in Ids /\ issued' = issued + 1 /\ Request(issued + 1) \in ClientLines
      BY <2>2, RegisterKeeps, ClientKinds
    <3>2. \/ handshake = "none" /\ handshake' = "waiting" /\ UNCHANGED initialized
          \/ initialized /\ UNCHANGED <<handshake, initialized>>
      BY <1>1, <2>2 DEF Initialize, Call, Register
    <3> QED
      BY <2>2, <3>1, <3>2, RegisterKeeps DEF Writes, WritesRequest
  <2> QED
    BY <1>1, <2>1, <2>2 DEF Initialize, Call
<1>2. CASE Confirm
  <2>1. CASE transport = "open"
    <3>1. <<Hello, "result">> \in answers
      <4>1. Hello \in Ids /\ "result" \in Answers
        BY ClientAssumption DEF Hello, Ids, Answers
      <4> QED
        BY <1>2, <4>1 DEF Confirm, OwnAnswer
    <3> QED
      BY <1>2, <2>1, <3>1, ClientKinds DEF Confirm, Written, Writes, WritesInitialized
  <2>2. CASE transport # "open"
    BY <1>2, <2>2 DEF Confirm, Written
  <2> QED
    BY <2>1, <2>2
<1> QED
  BY <1>1, <1>2

LEMMA RepliesWrite ==
    ASSUME IInv, NEW handled \in BOOLEAN, NEW a \in Asks, ReadAsk(handled) \/ HandlerReturns(a)
    PROVE  wire' = wire \/ \E line : Writes(line)
<1> USE DEF IInv
<1>1. CASE ReadAsk(handled)
  <2> DEFINE b == Head(inbox).id
  <2>1. b \in asked \ handlers /\ ~RepliedOn(wire, b) /\ b \in Asks
    BY <1>1, HeadLine, ServerKinds DEF ReadAsk, OnePlace
  <2>2. CASE handled \/ transport # "open"
    BY <1>1, <2>2 DEF ReadAsk, Written
  <2>3. CASE ~handled /\ transport = "open"
    <3>1. wire' = Append(wire, Reply(b)) /\ handlers' = handlers /\ Same
      BY <1>1, <2>3 DEF ReadAsk, Written, Same
    <3> QED
      BY <2>1, <2>3, <3>1, ClientKinds DEF Writes, WritesReply
  <2> QED
    BY <2>2, <2>3
<1>2. CASE HandlerReturns(a)
  <2>1. a \in asked /\ ~RepliedOn(wire, a) /\ a \notin handlers' /\ Same
    BY <1>2 DEF HandlerReturns, OnePlace, TypeOK, Same
  <2> QED
    BY <1>2, <2>1, ClientKinds DEF HandlerReturns, Written, Writes, WritesReply
<1> QED
  BY <1>1, <1>2

LEMMA WireStep ==
    ASSUME IInv, [Next]_vars
    PROVE  wire' = wire \/ \E line : Writes(line)
<1>1. CASE \E fits \in BOOLEAN : Initialize(fits) \/ Call(fits)
  BY <1>1, CallersWrite
<1>2. CASE Confirm
  BY <1>2, CallersWrite
<1>3. CASE \E handled \in BOOLEAN : ReadAsk(handled)
  <2>1. PICK handled \in BOOLEAN : ReadAsk(handled)
    BY <1>3
  <2>2. Head(inbox).id \in Asks
    BY <2>1, HeadLine, ServerKinds DEF ReadAsk, IInv
  <2> QED
    BY <2>1, <2>2, RepliesWrite
<1>4. CASE \E a \in Asks : HandlerReturns(a)
  BY <1>4, RepliesWrite
<1>5. CASE \/ Confirmed \/ HandshakeFails \/ CallerCloses
           \/ \E id \in Ids : TimesOut(id) \/ WriteFails(id)
           \/ ReadAnswer \/ ReadNoise \/ ReadOverlong \/ OverlongFails \/ ReadEnd
           \/ TransportCloses \/ Server \/ Exit \/ UNCHANGED vars
  BY <1>5 DEF Confirmed, HandshakeFails, CallerCloses, TimesOut, WriteFails, ReadAnswer, ReadNoise,
              ReadOverlong, OverlongFails, ReadEnd, TransportCloses, Server, Exit, vars
<1> QED
  BY <1>1, <1>2, <1>3, <1>4, <1>5 DEF Next, Reading

(* One line more: which lines the wire then holds.                         *)
LEMMA WrittenLines ==
    ASSUME LineTypes, NEW line, Writes(line)
    PROVE  /\ wire' \in Seq(ClientLines)
           /\ Len(wire) \in Nat /\ Len(wire') = Len(wire) + 1
           /\ 1..Len(wire') = 1..Len(wire) \cup {Len(wire')}
           /\ \A i \in 1..Len(wire) : wire'[i] = wire[i]
           /\ wire'[Len(wire')] = line
BY AppendFacts DEF LineTypes, Writes

(***************************************************************************)
(* The order of the handshake.                                             *)
(***************************************************************************)
(* What is asked for on the wire stays asked for with an id issued.        *)
LEMMA IdsBelow ==
    ASSUME IInv, issued' = issued + 1, NEW i \in 1..Len(wire), wire[i].kind = "request"
    PROVE  wire[i].id <= issued'
<1>1. wire[i] \in ClientLines
  BY DEF IInv, LineTypes
<1>2. wire[i].id \in Ids
  BY <1>1, ClientKinds DEF ClientLines, Request, Initialized, Reply
<1>3. issued \in Nat /\ wire[i].id \in Nat /\ wire[i].id <= issued
  BY <1>2, ClientAssumption DEF IInv, Fresh, TypeOK, Ids
<1> QED
  BY <1>3

(* The handshake goes on even when nothing is written.                     *)
LEMMA SilentProgress ==
    ASSUME IInv, [Next]_vars, wire' = wire
    PROVE  Progress' /\ (\A i \in 1..Len(wire') : wire'[i].kind = "request" => wire'[i].id <= issued')
<1> USE DEF IInv
<1>1. issued \in Nat
  BY ClientAssumption DEF TypeOK
<1>2. CASE \E fits \in BOOLEAN : Initialize(fits)
  BY <1>1, <1>2, IdsBelow DEF Initialize, Register, Progress, Fresh, TypeOK
<1>3. CASE \E fits \in BOOLEAN : Call(fits)
  BY <1>1, <1>3, IdsBelow DEF Call, Register, Progress, Fresh, TypeOK
<1>4. CASE Confirm
  <2>1. CASE transport = "open"
    <3>1. wire' = Append(wire, Initialized) /\ Len(wire') # Len(wire)
      BY <1>4, <2>1, AppendFacts, ClientKinds DEF Confirm, Written, LineTypes
    <3> QED
      BY <3>1
  <2>2. CASE transport # "open"
    BY <1>4, <2>2 DEF Confirm, Progress, Fresh
  <2> QED
    BY <2>1, <2>2
<1>5. CASE Confirmed
  BY <1>5 DEF Confirmed, Progress, Fresh
<1>6. CASE HandshakeFails
  BY <1>6 DEF HandshakeFails, Progress, Fresh
<1>7. CASE Same
  BY <1>7 DEF Same, Progress, Fresh
<1>8. Same \/ Confirmed \/ HandshakeFails \/ Confirm
        \/ \E fits \in BOOLEAN : Initialize(fits) \/ Call(fits)
  BY DEF CallerCloses, TimesOut, WriteFails, HandlerReturns, ReadAnswer, ReadAsk, ReadNoise,
         ReadOverlong, OverlongFails, ReadEnd, TransportCloses, Server, Exit, Next, Reading, vars, Same
<1> QED
  BY <1>2, <1>3, <1>4, <1>5, <1>6, <1>7, <1>8

LEMMA WritingProgress ==
    ASSUME IInv, NEW line, Writes(line)
    PROVE  Progress' /\ (\A i \in 1..Len(wire') : wire'[i].kind = "request" => wire'[i].id <= issued')
<1> USE DEF IInv
<1>1. issued \in Nat
  BY ClientAssumption DEF TypeOK
<1>2. CASE WritesRequest(line)
  <2>1. line.kind = "request" /\ line.id = issued + 1 /\ line # Initialized /\ issued' = issued + 1
    BY <1>2, ClientKinds DEF WritesRequest
  <2>2. \A i \in 1..Len(wire') : wire'[i].kind = "request" => wire'[i].id <= issued'
    BY <1>1, <2>1, IdsBelow, WrittenLines
  <2>3. CASE handshake = "none" /\ handshake' = "waiting" /\ UNCHANGED initialized
    <3>1. ~initialized /\ issued' >= 1 /\ \A i \in 1..Len(wire) : wire[i] # Initialized
      BY <1>1, <2>1, <2>3 DEF Progress
    <3> QED
      BY <2>1, <2>2, <2>3, <3>1, WrittenLines DEF Progress
  <2>4. CASE initialized /\ UNCHANGED <<handshake, initialized>>
    <3>1. handshake = "done" /\ issued' >= 1 /\ \E i \in 1..Len(wire) : wire[i] = Initialized
      BY <1>1, <2>1, <2>4 DEF Progress
    <3> QED
      BY <2>2, <2>4, <3>1, WrittenLines DEF Progress
  <2> QED
    BY <1>2, <2>3, <2>4 DEF WritesRequest
<1>3. CASE WritesInitialized(line)
  <2>1. line = Initialized /\ line.kind # "request"
    BY <1>3, ClientKinds DEF WritesInitialized
  <2> QED
    BY <1>1, <1>3, <2>1, WrittenLines DEF WritesInitialized, Progress, Fresh
<1>4. CASE WritesReply(line)
  <2>1. line.kind = "reply" /\ line # Initialized
    BY <1>4, ClientKinds DEF WritesReply, TypeOK
  <2> QED
    BY <1>1, <1>4, <2>1, WrittenLines DEF WritesReply, Same, Progress, Fresh
<1> QED
  BY <1>2, <1>3, <1>4 DEF Writes

(* Answers the server has sent stay sent.                                  *)
LEMMA AnswersGrow ==
    ASSUME [Next]_vars
    PROVE  answers \subseteq answers'
BY DEF Next, Reading, Initialize, Call, Confirm, Confirmed, HandshakeFails, CallerCloses, TimesOut,
       WriteFails, HandlerReturns, ReadAnswer, ReadAsk, ReadNoise, ReadOverlong, OverlongFails,
       ReadEnd, TransportCloses, Server, Exit, Consume, vars, server

LEMMA HandshakeStep ==
    ASSUME IInv, [Next]_vars
    PROVE  HandshakeFirst'
<1> USE DEF IInv
<1>1. answers \subseteq answers'
  BY AnswersGrow
<1>2. DOMAIN wire = 1..Len(wire) /\ Len(wire) \in Nat
  BY DEF LineTypes
<1>3. CASE wire' = wire
  BY <1>1, <1>3 DEF HandshakeFirst
<1>4. CASE \E line : Writes(line)
  <2>1. PICK line : Writes(line)
    BY <1>4
  <2>2. DOMAIN wire' = 1..Len(wire')
    BY <2>1, WrittenLines
  <2>3. ASSUME NEW i \in 1..Len(wire)
        PROVE  /\ wire'[i] = wire[i] /\ i - 1 \in Nat
               /\ \A j \in 1..i - 1 : j \in 1..Len(wire) /\ wire'[j] = wire[j]
    BY <1>2, <2>1, WrittenLines
  <2>4. \A i \in 1..Len(wire) :
          /\ wire'[i] = Request(Hello) => \A j \in 1..i - 1 : wire'[j].kind \notin {"request", "initialized"}
          /\ wire'[i] = Initialized => /\ <<Hello, "result">> \in answers'
                                       /\ \A j \in 1..i - 1 : wire'[j] # Initialized
          /\ wire'[i].kind = "request" /\ wire'[i] # Request(Hello) =>
               \E j \in 1..i - 1 : wire'[j] = Initialized
    BY <1>1, <1>2, <2>3 DEF HandshakeFirst
  <2> DEFINE n == Len(wire')
  <2>5. n - 1 = Len(wire) /\ wire'[n] = line /\ \A j \in 1..n - 1 : wire'[j] = wire[j]
    BY <1>2, <2>1, WrittenLines
  <2>6. /\ line = Request(Hello) => \A j \in 1..n - 1 : wire'[j].kind \notin {"request", "initialized"}
        /\ line = Initialized => /\ <<Hello, "result">> \in answers'
                                 /\ \A j \in 1..n - 1 : wire'[j] # Initialized
        /\ line.kind = "request" /\ line # Request(Hello) => \E j \in 1..n - 1 : wire'[j] = Initialized
    <3>1. CASE WritesRequest(line)
      <4>1. line = Request(issued + 1) /\ line.kind = "request" /\ line.id = issued + 1 /\ line # Initialized
        BY <3>1, ClientKinds DEF WritesRequest
      <4>2. CASE handshake = "none"
        <5>1. issued = 0 /\ issued + 1 = Hello
          BY <4>2 DEF Progress, Hello
        <5>2. ASSUME NEW j \in 1..Len(wire)
              PROVE  wire[j].kind \notin {"request", "initialized"}
          <6>1. wire[j] \in ClientLines /\ wire[j] # Initialized
            BY <4>2 DEF Progress, LineTypes
          <6>2. wire[j].kind # "request"
            <7>1. wire[j].kind = "request" => wire[j].id <= 0 /\ wire[j].id \in 1..MaxRequests
              BY <5>1, <6>1, ClientKinds DEF Fresh, ClientLines, Request, Reply, Ids
            <7> QED
              BY <7>1, ClientAssumption
          <6> QED
            BY <6>1, <6>2 DEF ClientLines, Request, Reply
        <5> QED
          BY <2>5, <4>1, <5>1, <5>2
      <4>3. CASE initialized
        <5>1. handshake = "done" /\ issued >= 1 /\ \E j \in 1..Len(wire) : wire[j] = Initialized
          BY <4>3 DEF Progress
        <5>2. line # Request(Hello)
          <6>1. Hello \in Ids /\ Request(Hello).id = 1
            BY ClientKinds, ClientAssumption DEF Hello, Ids
          <6>2. issued \in Nat
            BY ClientAssumption DEF TypeOK
          <6> QED
            BY <4>1, <5>1, <6>1, <6>2
        <5> QED
          BY <2>5, <4>1, <5>1, <5>2
      <4> QED
        BY <3>1, <4>2, <4>3 DEF WritesRequest
    <3>2. CASE WritesInitialized(line)
      <4>1. line = Initialized /\ line.kind # "request" /\ line # Request(Hello)
        <5>1. Hello \in Ids
          BY ClientAssumption DEF Hello, Ids
        <5> QED
          BY <3>2, <5>1, ClientKinds DEF WritesInitialized
      <4>2. \A j \in 1..Len(wire) : wire[j] # Initialized
        BY <3>2 DEF WritesInitialized, Progress
      <4> QED
        BY <1>1, <2>5, <3>2, <4>1, <4>2 DEF WritesInitialized
    <3>3. CASE WritesReply(line)
      <4>1. Hello \in Ids
        BY ClientAssumption DEF Hello, Ids
      <4> QED
        BY <3>3, <4>1, ClientKinds DEF WritesReply, TypeOK
    <3> QED
      BY <2>1, <3>1, <3>2, <3>3 DEF Writes
  <2> QED
    BY <2>1, <2>2, <2>4, <2>5, <2>6, WrittenLines DEF HandshakeFirst
<1> QED
  BY <1>3, <1>4, WireStep
(***************************************************************************)
(* What the server sends, and the place of its requests.                   *)
(***************************************************************************)
(* Every step leaves the inbox alone, takes its head, or is the server's.  *)
Takes == inbox # <<>> /\ Consume
ServerIdle == UNCHANGED server

LEMMA InboxStep ==
    ASSUME [Next]_vars
    PROVE  ServerIdle \/ Takes \/ Server
BY DEF Next, Reading, Initialize, Call, Confirm, Confirmed, HandshakeFails, CallerCloses, TimesOut,
       WriteFails, HandlerReturns, ReadAnswer, ReadAsk, ReadNoise, ReadOverlong, OverlongFails,
       ReadEnd, TransportCloses, Exit, Read, vars, ServerIdle, Takes

(* The rest of the inbox, once its head is taken.                          *)
LEMMA Rest ==
    ASSUME LineTypes, Takes
    PROVE  /\ inbox' \in Seq(ServerLines)
           /\ Len(inbox) \in Nat \ {0} /\ Len(inbox') = Len(inbox) - 1
           /\ \A i \in 1..Len(inbox') : i + 1 \in 1..Len(inbox) /\ inbox'[i] = inbox[i + 1]
BY TailFacts DEF LineTypes, Takes, Consume

(* What the server has sent now: an answer, a new request or noise.        *)
Sends(line) ==
    /\ line \in ServerLines /\ inbox' = Append(inbox, line)
    /\ line.kind = "answer" => <<line.id, line.content>> \in answers'
    /\ IF line.kind = "ask" THEN line.id \notin asked /\ asked' = asked \cup {line.id}
       ELSE asked' = asked

LEMMA ServerSends ==
    ASSUME IInv, Server
    PROVE  \E line : Sends(line)
<1>1. CASE \E id \in 1..issued, content \in Answers :
             /\ Send(Answer(id, content)) /\ answers' = answers \cup {<<id, content>>}
             /\ UNCHANGED asked
  <2>1. PICK id \in 1..issued, content \in Answers :
             /\ Send(Answer(id, content)) /\ answers' = answers \cup {<<id, content>>}
             /\ UNCHANGED asked
    BY <1>1
  <2>2. id \in Ids
    BY ClientAssumption DEF IInv, TypeOK, Ids
  <2> QED
    BY <2>1, <2>2, SentLines DEF Send, Sends
<1>2. CASE \E a \in Asks \ asked :
             Send(Ask(a)) /\ asked' = asked \cup {a} /\ UNCHANGED answers
  BY <1>2, SentLines DEF Send, Sends
<1>3. CASE \E kind \in {"notification", "garbage", "overlong"} :
             Send(Noise(kind)) /\ UNCHANGED <<asked, answers>>
  BY <1>3, SentLines DEF Send, Sends
<1> QED
  BY <1>1, <1>2, <1>3 DEF Server

LEMMA SentNow ==
    ASSUME LineTypes, NEW line, Sends(line)
    PROVE  /\ inbox' \in Seq(ServerLines)
           /\ Len(inbox) \in Nat /\ Len(inbox') = Len(inbox) + 1
           /\ 1..Len(inbox') = 1..Len(inbox) \cup {Len(inbox')}
           /\ \A i \in 1..Len(inbox) : inbox'[i] = inbox[i]
           /\ inbox'[Len(inbox')] = line
BY AppendFacts DEF LineTypes, Sends

LEMMA ReceivedStep ==
    ASSUME IInv, [Next]_vars
    PROVE  Received'
<1> USE DEF IInv
<1>1. CASE ServerIdle
  BY <1>1 DEF ServerIdle, server, Received
<1>2. CASE Takes
  BY <1>2, Rest DEF Received, Takes, Consume
<1>3. CASE Server
  <2>1. PICK line : Sends(line)
    BY <1>3, ServerSends
  <2> QED
    BY <2>1, SentNow, AnswersGrow DEF Sends, Received
<1> QED
  BY <1>1, <1>2, <1>3, InboxStep

LEMMA LinesStep ==
    ASSUME IInv, [Next]_vars
    PROVE  LineTypes'
<1> USE DEF IInv
<1>1. wire' \in Seq(ClientLines)
  BY WireStep, WrittenLines DEF LineTypes
<1>2. inbox' \in Seq(ServerLines)
  BY InboxStep, Rest, ServerSends, SentNow DEF LineTypes, ServerIdle, server
<1> QED
  BY <1>1, <1>2 DEF LineTypes

(* A closed client stays closed, and so does its transport.                *)
LEMMA QuietStep ==
    ASSUME IInv, [Next]_vars
    PROVE  Quiet'
<1> USE DEF IInv
<1>1. CASE Close
  BY <1>1 DEF Close, Shut, Quiet
<1>2. CASE UNCHANGED closed /\ (transport' = transport \/ transport' # "open")
  BY <1>2 DEF Quiet
<1>3. Close \/ (UNCHANGED closed /\ (transport' = transport \/ transport' # "open"))
  BY DEF Next, Reading, Initialize, Call, Confirm, Confirmed, HandshakeFails, CallerCloses, TimesOut,
       WriteFails, HandlerReturns, ReadAnswer, ReadAsk, ReadNoise, ReadOverlong, OverlongFails,
       ReadEnd, TransportCloses, Server, Exit, Fail, vars
<1> QED
  BY <1>1, <1>2, <1>3

(* A line more on the wire is one reply more, or none.                     *)
LEMMA RepliedNow ==
    ASSUME LineTypes, NEW line, Writes(line), NEW a
    PROVE  RepliedOn(wire', a) <=> RepliedOn(wire, a) \/ line = Reply(a)
BY WrittenLines DEF RepliedOn

LEMMA NoNewReply ==
    ASSUME IInv, NEW line, Writes(line), ~WritesReply(line), NEW a
    PROVE  RepliedOn(wire', a) <=> RepliedOn(wire, a)
<1>1. line.kind # "reply"
  BY ClientKinds DEF Writes, WritesRequest, WritesInitialized
<1>2. line # Reply(a)
  BY <1>1 DEF Reply
<1> QED
  BY <1>2, RepliedNow DEF IInv

(* Replies to two requests are two lines.                                  *)
LEMMA ReplyId ==
    ASSUME NEW a, NEW b, Reply(a) = Reply(b)
    PROVE  a = b
BY DEF Reply

LEMMA OnePlaceRead ==
    ASSUME IInv, [Next]_vars, NEW handled \in BOOLEAN, ReadAsk(handled)
    PROVE  OnePlace'
<1> USE DEF IInv
<1> DEFINE b == Head(inbox).id
<1>1. /\ inbox[1].kind = "ask" /\ inbox[1].id = b /\ 1 \in 1..Len(inbox)
      /\ b \in asked \ handlers /\ ~RepliedOn(wire, b)
      /\ \A j \in 1..Len(inbox) : j # 1 /\ inbox[j].kind = "ask" => inbox[j].id # b
  BY HeadLine DEF ReadAsk, OnePlace
<1>2. /\ Takes /\ UNCHANGED asked
      /\ \/ handlers' = handlers \cup {b} /\ wire' = wire
         \/ handlers' = handlers /\ wire' \in {wire, Append(wire, Reply(b))}
  BY DEF ReadAsk, Read, Takes, Consume, Written
<1>3. \A a : RepliedOn(wire', a) => RepliedOn(wire, a) \/ (a = b /\ handlers' = handlers)
  <2>1. CASE wire' = wire
    BY <2>1 DEF RepliedOn
  <2>2. CASE handlers' = handlers /\ wire' = Append(wire, Reply(b))
    <3>1. b \in Asks /\ Reply(b) \in ClientLines
      BY <1>1, ClientKinds DEF TypeOK
    <3> QED
      BY <2>2, <3>1, AppendFacts, ReplyId DEF RepliedOn, LineTypes
  <2> QED
    BY <1>2, <2>1, <2>2
<1>4. ASSUME NEW i \in 1..Len(inbox'), inbox'[i].kind = "ask"
      PROVE  /\ inbox'[i].id \in asked' \ handlers'
             /\ ~RepliedOn(wire', inbox'[i].id)
             /\ \A j \in 1..Len(inbox') : j # i /\ inbox'[j].kind = "ask" => inbox'[j].id # inbox'[i].id
  <2>1. inbox'[i] = inbox[i + 1] /\ i + 1 \in 1..Len(inbox) /\ i + 1 # 1
    BY <1>2, Rest
  <2>2. inbox[i + 1].id # b
    BY <1>1, <1>4, <2>1
  <2>3. \A j \in 1..Len(inbox') : j + 1 \in 1..Len(inbox) /\ inbox'[j] = inbox[j + 1] /\ (j # i => j + 1 # i + 1)
    BY <1>2, Rest
  <2>4. inbox[i + 1].id \in asked \ handlers /\ ~RepliedOn(wire, inbox[i + 1].id)
    BY <1>4, <2>1 DEF OnePlace
  <2> QED
    BY <1>2, <1>3, <1>4, <2>1, <2>2, <2>3, <2>4 DEF OnePlace
<1>5. \A a \in handlers' : ~RepliedOn(wire', a)
  BY <1>1, <1>2, <1>3 DEF OnePlace
<1>6. \A a \in Asks : RepliedOn(wire', a) => a \in asked'
  BY <1>1, <1>2, <1>3 DEF OnePlace
<1> QED
  BY <1>4, <1>5, <1>6 DEF OnePlace

LEMMA OnePlaceReturn ==
    ASSUME IInv, NEW a \in Asks, HandlerReturns(a)
    PROVE  OnePlace'
<1> USE DEF IInv
<1>1. /\ a \in handlers /\ handlers' = handlers \ {a} /\ inbox' = inbox /\ asked' = asked
      /\ wire' \in {wire, Append(wire, Reply(a))}
  BY DEF HandlerReturns, Written, server
<1>2. \A b : RepliedOn(wire', b) => RepliedOn(wire, b) \/ b = a
  <2>1. CASE wire' = wire
    BY <2>1 DEF RepliedOn
  <2>2. CASE wire' = Append(wire, Reply(a))
    <3>1. Reply(a) \in ClientLines
      BY ClientKinds
    <3> QED
      BY <2>2, <3>1, AppendFacts, ReplyId DEF RepliedOn, LineTypes
  <2> QED
    BY <1>1, <2>1, <2>2
<1> QED
  BY <1>1, <1>2 DEF OnePlace, TypeOK

LEMMA OnePlaceServer ==
    ASSUME IInv, Server
    PROVE  OnePlace'
<1> USE DEF IInv
<1>1. PICK line : Sends(line)
  BY ServerSends
<1>2. handlers' = handlers /\ \A a : RepliedOn(wire', a) = RepliedOn(wire, a)
  BY DEF Server, RepliedOn
<1>3. asked \subseteq asked' /\ (line.kind = "ask" => line.id \in asked' /\ line.id \in Asks \ asked)
  BY <1>1, ServerKinds DEF Sends
<1>4. \A i \in 1..Len(inbox) :
        /\ inbox'[i] = inbox[i]
        /\ inbox[i].kind = "ask" /\ line.kind = "ask" => inbox[i].id # line.id
  BY <1>1, <1>3, SentNow DEF OnePlace
<1>5. ASSUME NEW i \in 1..Len(inbox'), inbox'[i].kind = "ask"
      PROVE  /\ inbox'[i].id \in asked' \ handlers'
             /\ ~RepliedOn(wire', inbox'[i].id)
             /\ \A j \in 1..Len(inbox') : j # i /\ inbox'[j].kind = "ask" => inbox'[j].id # inbox'[i].id
  <2>1. CASE i \in 1..Len(inbox)
    <3>1. inbox'[i] = inbox[i] /\ inbox[i].kind = "ask"
      BY <1>4, <1>5, <2>1
    <3>2. inbox[i].id \in asked \ handlers /\ ~RepliedOn(wire, inbox[i].id)
      BY <2>1, <3>1 DEF OnePlace
    <3>3. ASSUME NEW j \in 1..Len(inbox'), j # i, inbox'[j].kind = "ask"
          PROVE  inbox'[j].id # inbox[i].id
      <4>1. CASE j \in 1..Len(inbox)
        BY <1>4, <2>1, <3>1, <3>3, <4>1 DEF OnePlace
      <4>2. CASE j = Len(inbox')
        BY <1>1, <1>4, <2>1, <3>1, <3>3, <4>2, SentNow
      <4> QED
        BY <1>1, <4>1, <4>2, SentNow
    <3> QED
      BY <1>2, <1>3, <3>1, <3>2, <3>3
  <2>2. CASE i = Len(inbox')
    <3>1. inbox'[i] = line /\ line.kind = "ask"
      BY <1>1, <1>5, <2>2, SentNow
    <3>2. line.id \notin handlers /\ ~RepliedOn(wire, line.id)
      BY <1>3, <3>1 DEF OnePlace, TypeOK
    <3>3. ASSUME NEW j \in 1..Len(inbox'), j # i, inbox'[j].kind = "ask"
          PROVE  inbox'[j].id # line.id
      <4>1. j \in 1..Len(inbox)
        BY <1>1, <2>2, <3>3, SentNow
      <4> QED
        BY <1>4, <3>1, <3>3, <4>1
    <3> QED
      BY <1>2, <1>3, <3>1, <3>2, <3>3
  <2> QED
    BY <1>1, <2>1, <2>2, SentNow
<1> QED
  BY <1>2, <1>3, <1>5 DEF OnePlace

(* Steps that take no request in hand.                                     *)
LEMMA OnePlaceElse ==
    ASSUME IInv, ServerIdle \/ (Takes /\ Head(inbox).kind # "ask"), UNCHANGED handlers,
           wire' = wire \/ \E line : Writes(line) /\ ~WritesReply(line)
    PROVE  OnePlace'
<1> USE DEF IInv
<1>1. \A a : RepliedOn(wire', a) <=> RepliedOn(wire, a)
  BY NoNewReply DEF RepliedOn
<1>2. asked' = asked
  BY DEF ServerIdle, server, Takes, Consume
<1>3. CASE ServerIdle
  BY <1>1, <1>2, <1>3 DEF ServerIdle, server, OnePlace
<1>4. CASE Takes
  <2>1. \A i \in 1..Len(inbox') : i + 1 \in 1..Len(inbox) /\ inbox'[i] = inbox[i + 1]
    BY <1>4, Rest
  <2>2. \A i, j \in 1..Len(inbox') : i # j => i + 1 # j + 1
    BY <1>4, Rest
  <2> QED
    BY <1>1, <1>2, <2>1, <2>2 DEF OnePlace
<1> QED
  BY <1>3, <1>4

LEMMA OnePlaceStep ==
    ASSUME IInv, [Next]_vars
    PROVE  OnePlace'
<1> USE DEF IInv
<1>1. CASE \E handled \in BOOLEAN : ReadAsk(handled)
  BY <1>1, OnePlaceRead
<1>2. CASE \E a \in Asks : HandlerReturns(a)
  BY <1>2, OnePlaceReturn
<1>3. CASE Server
  BY <1>3, OnePlaceServer
<1>4. CASE ReadAnswer \/ ReadNoise \/ ReadOverlong
  <2>1. Takes /\ Head(inbox).kind # "ask" /\ UNCHANGED <<handlers, wire>>
    BY <1>4 DEF ReadAnswer, ReadNoise, ReadOverlong, Read, Takes
  <2> QED
    BY <2>1, OnePlaceElse
<1>5. CASE \/ \E fits \in BOOLEAN : Initialize(fits) \/ Call(fits)
           \/ Confirm
  <2>1. ServerIdle /\ UNCHANGED handlers
    BY <1>5 DEF Initialize, Call, Confirm, ServerIdle
  <2>2. ASSUME NEW line, Writes(line)
        PROVE  ~WritesReply(line)
    <3>1. \/ wire' = wire \/ wire' = Append(wire, Initialized)
          \/ wire' = Append(wire, Request(issued + 1)) /\ issued + 1 \in Ids
      BY <1>5, RegisterKeeps DEF Initialize, Call, Confirm, Written
    <3>2. line.kind # "reply"
      BY <2>2, <3>1, ClientKinds, AppendFacts, WrittenLines DEF LineTypes
    <3> QED
      BY <3>2, ClientKinds DEF WritesReply, TypeOK
  <2> QED
    BY <2>1, <2>2, WireStep, OnePlaceElse
<1>6. CASE \/ Confirmed \/ HandshakeFails \/ CallerCloses
           \/ \E id \in Ids : TimesOut(id) \/ WriteFails(id)
           \/ OverlongFails \/ ReadEnd \/ TransportCloses \/ Exit \/ UNCHANGED vars
  <2>1. ServerIdle /\ UNCHANGED <<handlers, wire>>
    BY <1>6 DEF Confirmed, HandshakeFails, CallerCloses, TimesOut, WriteFails, OverlongFails, ReadEnd,
                TransportCloses, Exit, vars, ServerIdle
  <2> QED
    BY <2>1, OnePlaceElse
<1> QED
  BY <1>1, <1>2, <1>3, <1>4, <1>5, <1>6 DEF Next, Reading

(***************************************************************************)
(* The theorems.                                                           *)
(***************************************************************************)
LEMMA InvInit ==
    ASSUME Init
    PROVE  IInv
<1>1. TypeOK
  <2>1. 0 \in 0..MaxRequests /\ 0 \in 0..MaxLines /\ 1..0 = {}
    BY ClientAssumption
  <2>2. outcome \in [Ids -> Outcomes \cup {None}]
    BY DEF Init
  <2> QED
    BY <2>1, <2>2 DEF Init, TypeOK
<1>2. None \notin Answers
  BY DEF None, Answers
<1>3. /\ wire = <<>> /\ inbox = <<>> /\ Len(wire) = 0 /\ Len(inbox) = 0
      /\ 1..Len(wire) = {} /\ DOMAIN wire = {} /\ 1..Len(inbox) = {}
  BY DEF Init
<1>4. LineTypes
  BY <1>3 DEF LineTypes
<1>5. Fresh /\ Progress
  BY <1>3, ClientAssumption DEF Init, Fresh, Progress
<1>6. Received /\ Quiet /\ OnePlace
  BY <1>3 DEF Init, Received, Quiet, OnePlace, RepliedOn
<1>7. HandshakeFirst /\ OwnAnswer
  BY <1>2, <1>3 DEF Init, HandshakeFirst, OwnAnswer
<1> QED
  BY <1>1, <1>4, <1>5, <1>6, <1>7 DEF IInv

LEMMA InvStep ==
    ASSUME IInv, [Next]_vars
    PROVE  IInv'
<1>1. TypeOK' /\ Tells
  BY RequestsStep
<1>2. issued \in Nat /\ issued' \in Nat /\ issued <= issued'
  <2>1. issued' = issued \/ issued' = issued + 1
    BY DEF Next, Reading, Initialize, Call, Register, Confirm, Confirmed, HandshakeFails, CallerCloses,
       TimesOut, WriteFails, HandlerReturns, ReadAnswer, ReadAsk, ReadNoise, ReadOverlong,
       OverlongFails, ReadEnd, TransportCloses, Server, Exit, vars
  <2> QED
    BY <2>1, ClientAssumption DEF IInv, TypeOK
<1>3. Progress' /\ (\A i \in 1..Len(wire') : wire'[i].kind = "request" => wire'[i].id <= issued')
  BY WireStep, SilentProgress, WritingProgress
<1>4. Fresh'
  <2>1. ASSUME NEW id \in Ids, id > issued'
        PROVE  outcome'[id] = None
    <3>1. id \in Nat
      BY ClientAssumption DEF Ids
    <3>2. ~(id <= issued') /\ id > issued
      BY <1>2, <2>1, <3>1
    <3> QED
      BY <1>1, <3>2 DEF Tells, IInv, Fresh
  <2> QED
    BY <1>3, <2>1 DEF Fresh
<1>5. OwnAnswer'
  BY <1>1, AnswersGrow DEF Tells, IInv, OwnAnswer
<1> QED
  BY <1>1, <1>3, <1>4, <1>5, LinesStep, ReceivedStep, QuietStep, OnePlaceStep, HandshakeStep DEF IInv

LEMMA Invariance == Spec => []IInv
<1>1. IInv /\ [Next]_vars => IInv'
  BY InvStep
<1> QED
  BY <1>1, InvInit, PTL DEF Spec

(* A caller waits as long as it has not been told, and nobody waits on a   *)
(* closed client.                                                          *)
THEOREM TypeCorrect == Spec => []TypeOK
<1>1. IInv => TypeOK
  BY DEF IInv
<1> QED
  BY <1>1, Invariance, PTL

(* The server sees initialize first, then initialized, and only then any   *)
(* other request, whatever fails or closes in between.                     *)
THEOREM Handshake == Spec => []HandshakeFirst
<1>1. IInv => HandshakeFirst
  BY DEF IInv
<1> QED
  BY <1>1, Invariance, PTL

(* A caller is told an answer only if the server gave it to that request.  *)
THEOREM AnswersBelong == Spec => []OwnAnswer
<1>1. IInv => OwnAnswer
  BY DEF IInv
<1> QED
  BY <1>1, Invariance, PTL

(* A request is settled once: time-out, close, failed write and answer     *)
(* never settle it twice.                                                  *)
THEOREM Settlement == Spec => SettledOnce
<1>1. IInv /\ [Next]_vars => [\A id \in Ids : outcome[id] # None => outcome'[id] = outcome[id]]_vars
  BY RequestsStep DEF Tells
<1> QED
  BY <1>1, Invariance, PTL DEF Spec, SettledOnce

(* Nothing is written by a closed client, and each request of the server   *)
(* is replied to at most once.                                             *)
LEMMA SilentStep ==
    ASSUME IInv, [Next]_vars, wire' # wire
    PROVE  /\ ~closed
           /\ LET line == wire'[Len(wire')]
              IN  line.kind = "reply" => line.id \in asked /\ ~On(line)
<1> USE DEF IInv
<1>1. PICK line : Writes(line)
  BY WireStep
<1>2. wire'[Len(wire')] = line /\ ~closed
  BY <1>1, WrittenLines DEF Writes, Quiet
<1>3. ASSUME line.kind = "reply"
      PROVE  line.id \in asked /\ ~On(line)
  <2>1. WritesReply(line)
    BY <1>1, <1>3, ClientKinds DEF Writes, WritesRequest, WritesInitialized
  <2>2. DOMAIN wire = 1..Len(wire)
    BY DEF LineTypes
  <2> QED
    BY <2>1, <2>2, ClientKinds DEF WritesReply, RepliedOn, On, TypeOK
<1> QED
  BY <1>2, <1>3

THEOREM Silence == Spec => SilentWhenClosed
<1>1. IInv /\ [Next]_vars =>
        [wire' # wire =>
           /\ ~closed
           /\ LET line == wire'[Len(wire')]
              IN  line.kind = "reply" => line.id \in asked /\ ~On(line)]_vars
  BY SilentStep
<1> QED
  BY <1>1, Invariance, PTL DEF Spec, SilentWhenClosed
=============================================================================
