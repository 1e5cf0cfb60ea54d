--------------------------- MODULE AppServerClient ---------------------------
(***************************************************************************)
(* The JSON-RPC client of packages/codex/src/client.ts, over the transport  *)
(* of transport.ts, and the App Server at the other end of the pipes.       *)
(*                                                                         *)
(* A step is what runs between two awaits.  The server may answer in any    *)
(* order, late, twice or not at all, send what is no message, and exit.     *)
(***************************************************************************)
EXTENDS Naturals, Sequences

CONSTANTS
    MaxRequests,  \* bound: requests of the client, the handshake included
    MaxLines,     \* bound: lines of the server
    Asks,         \* ids of the server's own requests
    Timed         \* is there a requestTimeoutMs?

ASSUME ClientAssumption ==
    /\ MaxRequests \in Nat \ {0}
    /\ MaxLines \in Nat
    /\ Timed \in BOOLEAN

VARIABLES
    closed,       \* AppServerClient.closed
    handshake,    \* how far initialize() has come
    initialized,
    issued,       \* nextRequestId - 1
    pending,      \* ids of the map of pending requests
    outcome,      \* id -> what its caller was told
    reader,       \* the read loop
    transport,    \* BunStdioTransport.closed and closeEffect
    child,        \* the process of the App Server
    handlers,     \* server requests whose handler is running
    wire,         \* history: the lines written to the server
    inbox,        \* the lines from the server not read yet
    sent,         \* lines sent by the server so far (bounded by MaxLines)
    asked,        \* requests the server has made
    answers       \* history: the answers the server has sent

server == <<inbox, sent, asked, answers>>
vars == <<closed, handshake, initialized, issued, pending, outcome, reader, transport, child,
          handlers, wire, server>>

Ids == 1..MaxRequests
Hello == 1        \* the id of the initialize request: nothing goes before it
None == "none"

Answers == {"result", "error", "malformed"}
Outcomes == Answers \cup {"timeout", "unwritten", "closed"}

Answer(id, content) == [kind |-> "answer", id |-> id, content |-> content]
Ask(a) == [kind |-> "ask", id |-> a]
Noise(kind) == [kind |-> kind]

Request(id) == [kind |-> "request", id |-> id]
Initialized == [kind |-> "initialized"]
Reply(a) == [kind |-> "reply", id |-> a]

Init ==
    /\ closed = FALSE
    /\ handshake = "none"
    /\ initialized = FALSE
    /\ issued = 0
    /\ pending = {}
    /\ outcome = [id \in Ids |-> None]
    /\ reader = "off"
    /\ transport = "open"
    /\ child = "running"
    /\ handlers = {}
    /\ wire = <<>>
    /\ inbox = <<>> /\ sent = 0 /\ asked = {} /\ answers = {}

(***************************************************************************)
(* Parts of steps.                                                         *)
(***************************************************************************)
(* transport.writeLine: the line is handed over at once, or refused.  A     *)
(* caller who ignores the refusal only says what is on the wire then.       *)
Written(line) == IF transport = "open" THEN Append(wire, line) ELSE wire

(* closeWithErrorEffect: only the first call does anything. *)
Shut ==
    /\ closed' = TRUE
    /\ pending' = {}
    /\ outcome' = [id \in Ids |-> IF id \in pending THEN "closed" ELSE outcome[id]]
    /\ transport' = IF transport = "open" THEN "closing" ELSE transport

Close == IF closed THEN UNCHANGED <<closed, pending, outcome, transport>> ELSE Shut

(* Mutant: the entry of a request that timed out stays in the map. *)
SettleKeeping(id, o) ==
    /\ outcome' = [outcome EXCEPT ![id] = o]
    /\ pending' = IF o = "timeout" THEN pending ELSE pending \ {id}

Settle(id, o) ==
    /\ outcome' = [outcome EXCEPT ![id] = o]
    /\ pending' = pending \ {id}

(* requestEffect: the reader is started, an id taken, the line written. *)
Register(fits) ==
    /\ issued < MaxRequests
    /\ issued' = issued + 1
    /\ reader' = IF reader = "off" THEN "reading" ELSE reader
    /\ IF transport = "open" /\ fits
         THEN /\ pending' = pending \cup {issued + 1}
              /\ wire' = Append(wire, Request(issued + 1))
              /\ UNCHANGED outcome
         ELSE /\ outcome' = [outcome EXCEPT ![issued + 1] = "unwritten"]
              /\ UNCHANGED <<pending, wire>>

(***************************************************************************)
(* The callers: the handshake is made once, anything else after it.         *)
(***************************************************************************)
Initialize(fits) ==
    /\ handshake = "none"
    /\ IF closed
         THEN handshake' = "failed" /\ UNCHANGED <<issued, reader, pending, wire, outcome>>
         ELSE handshake' = "waiting" /\ Register(fits)
    /\ UNCHANGED <<closed, initialized, transport, child, handlers, server>>

(* Mutant: a request may go as soon as the server has answered. *)
CallEarly(fits) ==
    /\ ~closed
    /\ outcome[Hello] = "result"
    /\ Register(fits)
    /\ UNCHANGED <<closed, handshake, initialized, transport, child, handlers, server>>

Call(fits) ==
    /\ ~closed
    /\ initialized
    /\ Register(fits)
    /\ UNCHANGED <<closed, handshake, initialized, transport, child, handlers, server>>

(* The initialize request was answered: the notification is written ... *)
Confirm ==
    /\ handshake = "waiting"
    /\ outcome[Hello] = "result"
    /\ wire' = Written(Initialized)
    /\ IF transport = "open"
         THEN handshake' = "confirming" /\ UNCHANGED <<closed, pending, outcome, transport>>
         ELSE handshake' = "failed" /\ Close
    /\ UNCHANGED <<initialized, issued, reader, child, handlers, server>>

(* ... and flushed, whatever has become of the client meanwhile. *)
Confirmed ==
    /\ handshake = "confirming"
    /\ handshake' = "done"
    /\ initialized' = TRUE
    /\ UNCHANGED <<closed, issued, pending, outcome, reader, transport, child, handlers, wire, server>>

Broken == child = "exited" \/ transport # "open"

HandshakeFails ==
    /\ \/ handshake = "waiting" /\ outcome[Hello] \notin {None, "result"}
       \/ handshake = "confirming" /\ Broken
    /\ handshake' = "failed"
    /\ Close
    /\ UNCHANGED <<initialized, issued, reader, child, handlers, wire, server>>

(* close(), also by the signal. *)
CallerCloses ==
    /\ ~closed
    /\ Close
    /\ UNCHANGED <<handshake, initialized, issued, reader, child, handlers, wire, server>>

(***************************************************************************)
(* A pending request: its time-out, the failure of its write.              *)
(***************************************************************************)
TimesOut(id) ==
    /\ Timed
    /\ id \in pending
    /\ Settle(id, "timeout")
    /\ UNCHANGED <<closed, handshake, initialized, issued, reader, transport, child, handlers, wire,
                   server>>

WriteFails(id) ==
    /\ id \in pending
    /\ Broken
    /\ Settle(id, "unwritten")
    /\ UNCHANGED <<closed, handshake, initialized, issued, reader, transport, child, handlers, wire,
                   server>>

(***************************************************************************)
(* The read loop.  The read under way when the client is closed still       *)
(* delivers its line.                                                      *)
(***************************************************************************)
Read(line) == reader = "reading" /\ inbox # <<>> /\ Head(inbox).kind = line

Consume == inbox' = Tail(inbox) /\ UNCHANGED <<sent, asked, answers>>

Loop == reader' = IF closed THEN "ended" ELSE "reading"

Fail == reader' = "ended" /\ Close

(* Mutant: an answer is for whoever has waited longest. *)
ReadAnswerInOrder ==
    /\ Read("answer")
    /\ IF pending # {}
         THEN /\ Settle(CHOOSE id \in pending : \A other \in pending : id <= other,
                        Head(inbox).content)
              /\ Loop
              /\ UNCHANGED <<closed, transport>>
         ELSE Fail
    /\ Consume
    /\ UNCHANGED <<handshake, initialized, issued, child, handlers, wire>>

(* handleResponse: an answer nobody waits for ends the connection. *)
ReadAnswer ==
    /\ Read("answer")
    /\ IF Head(inbox).id \in pending
         THEN /\ Settle(Head(inbox).id, Head(inbox).content)
              /\ Loop
              /\ UNCHANGED <<closed, transport>>
         ELSE Fail
    /\ Consume
    /\ UNCHANGED <<handshake, initialized, issued, child, handlers, wire>>

(* handleServerRequest: the first handler is called, if there is one. *)
ReadAsk(handled) ==
    LET a == Head(inbox).id IN
    /\ Read("ask")
    /\ IF handled
         THEN handlers' = handlers \cup {a} /\ UNCHANGED wire
         ELSE wire' = Written(Reply(a)) /\ UNCHANGED handlers
    /\ Loop
    /\ Consume
    /\ UNCHANGED <<closed, handshake, initialized, issued, pending, outcome, transport, child>>

(* Mutant: the client's own state is not asked before a handler's reply. *)
HandlerReturnsAnyway(a) ==
    /\ a \in handlers
    /\ handlers' = handlers \ {a}
    /\ wire' = Append(wire, Reply(a))
    /\ UNCHANGED <<closed, handshake, initialized, issued, pending, outcome, reader, transport, child,
                   server>>

HandlerReturns(a) ==
    /\ a \in handlers
    /\ handlers' = handlers \ {a}
    /\ wire' = Written(Reply(a))
    /\ UNCHANGED <<closed, handshake, initialized, issued, pending, outcome, reader, transport, child,
                   server>>

(* A notification changes nothing here; what is no message is fatal. *)
ReadNoise ==
    /\ \/ Read("notification") /\ Loop /\ UNCHANGED <<closed, pending, outcome, transport>>
       \/ Read("garbage") /\ Fail
    /\ Consume
    /\ UNCHANGED <<handshake, initialized, issued, child, handlers, wire>>

(* An overlong line: the transport closes itself first, and its reader is   *)
(* not told before that is done.                                           *)
ReadOverlong ==
    /\ Read("overlong")
    /\ reader' = "stuck"
    /\ transport' = IF transport = "open" THEN "closing" ELSE transport
    /\ Consume
    /\ UNCHANGED <<closed, handshake, initialized, issued, pending, outcome, child, handlers, wire>>

OverlongFails ==
    /\ reader = "stuck"
    /\ transport = "closed"
    /\ Fail
    /\ UNCHANGED <<handshake, initialized, issued, child, handlers, wire, server>>

(* Mutant: the end of the stream just ends the loop. *)
ReadEndQuietly ==
    /\ reader = "reading" /\ inbox = <<>> /\ child = "exited"
    /\ reader' = "ended"
    /\ UNCHANGED <<closed, pending, outcome, transport>>
    /\ UNCHANGED <<handshake, initialized, issued, child, handlers, wire, server>>

ReadEnd ==
    /\ reader = "reading" /\ inbox = <<>> /\ child = "exited"
    /\ Fail
    /\ UNCHANGED <<handshake, initialized, issued, child, handlers, wire, server>>

(* closeTransportEffect waits for the end of stderr, without a limit. *)
TransportCloses ==
    /\ transport = "closing"
    /\ child = "exited"
    /\ transport' = "closed"
    /\ UNCHANGED <<closed, handshake, initialized, issued, pending, outcome, reader, child, handlers,
                   wire, server>>

(***************************************************************************)
(* The App Server.                                                         *)
(***************************************************************************)
On(line) == \E i \in DOMAIN wire : wire[i] = line

Send(line) ==
    /\ child = "running"
    /\ sent < MaxLines
    /\ inbox' = Append(inbox, line)
    /\ sent' = sent + 1

Server ==
    /\ \/ \E id \in 1..issued, content \in Answers :
            /\ On(Request(id))
            /\ Send(Answer(id, content))
            /\ answers' = answers \cup {<<id, content>>}
            /\ UNCHANGED asked
       \/ \E a \in Asks \ asked :
            /\ Send(Ask(a))
            /\ asked' = asked \cup {a}
            /\ UNCHANGED answers
       \/ \E kind \in {"notification", "garbage", "overlong"} :
            Send(Noise(kind)) /\ UNCHANGED <<asked, answers>>
    /\ UNCHANGED <<closed, handshake, initialized, issued, pending, outcome, reader, transport, child,
                   handlers, wire>>

(* It exits by itself, or because it was told to: it need not obey. *)
Exit ==
    /\ child = "running"
    /\ child' = "exited"
    /\ UNCHANGED <<closed, handshake, initialized, issued, pending, outcome, reader, transport,
                   handlers, wire, server>>

Reading ==
    \/ ReadAnswer
    \/ \E handled \in BOOLEAN : ReadAsk(handled)
    \/ ReadNoise \/ ReadOverlong \/ OverlongFails \/ ReadEnd

Next ==
    \/ \E fits \in BOOLEAN : Initialize(fits) \/ Call(fits)
    \/ Confirm \/ Confirmed \/ HandshakeFails \/ CallerCloses
    \/ \E id \in Ids : TimesOut(id) \/ WriteFails(id)
    \/ \E a \in Asks : HandlerReturns(a)
    \/ Reading \/ TransportCloses
    \/ Server \/ Exit

Spec == Init /\ [][Next]_vars

(* What the runtime sees to: lines that are there are read, promises that   *)
(* are resolved are continued.  Nothing is assumed of the server.           *)
FairSpec ==
    Spec /\ WF_vars(Reading) /\ WF_vars(TransportCloses) /\ WF_vars(Confirm \/ HandshakeFails)

(***************************************************************************)
(* Properties.                                                             *)
(***************************************************************************)

(* The variables have their types; a request waits as long as its caller    *)
(* has not been told, and none waits on a closed client.                    *)
TypeOK ==
    /\ closed \in BOOLEAN /\ initialized \in BOOLEAN
    /\ handshake \in {"none", "waiting", "confirming", "done", "failed"}
    /\ issued \in 0..MaxRequests
    /\ outcome \in [Ids -> Outcomes \cup {None}]
    /\ pending = {id \in 1..issued : outcome[id] = None}
    /\ closed => pending = {}
    /\ reader \in {"off", "reading", "stuck", "ended"}
    /\ transport \in {"open", "closing", "closed"}
    /\ child \in {"running", "exited"}
    /\ handlers \subseteq asked /\ asked \subseteq Asks
    /\ sent \in 0..MaxLines

(* The server sees initialize first, once, then initialized, and only then  *)
(* any other request; and initialized only after it has answered.           *)
HandshakeFirst ==
    \A i \in DOMAIN wire :
        /\ wire[i] = Request(Hello) => \A j \in 1..i - 1 : wire[j].kind \notin {"request", "initialized"}
        /\ wire[i] = Initialized => /\ <<Hello, "result">> \in answers
                                    /\ \A j \in 1..i - 1 : wire[j] # Initialized
        /\ wire[i].kind = "request" /\ wire[i] # Request(Hello) =>
             \E j \in 1..i - 1 : wire[j] = Initialized

(* A caller is told an answer only if the server gave it to that request,   *)
(* however late, often or out of order answers come.                        *)
OwnAnswer ==
    \A id \in Ids : outcome[id] \in Answers => <<id, outcome[id]>> \in answers

(* A caller is told one thing: a time-out, a close, a failed write and an   *)
(* answer that come together do not settle a request twice.                 *)
SettledOnce ==
    [][\A id \in Ids : outcome[id] # None => outcome'[id] = outcome[id]]_vars

(* Nothing is written to the server once the client is closed, also by      *)
(* handlers and a handshake that were under way; and each of the server's   *)
(* requests is replied to at most once.                                     *)
SilentWhenClosed ==
    [][wire' # wire =>
         /\ ~closed
         /\ LET line == wire'[Len(wire')]
            IN  line.kind = "reply" => line.id \in asked /\ ~On(line)]_vars

(* When the server is gone, no request is left waiting, time-out or not.    *)
SettledAfterExit ==
    \A id \in Ids : (id \in pending /\ child = "exited") ~> id \notin pending
=============================================================================
