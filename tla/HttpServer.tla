----------------------------- MODULE HttpServer -----------------------------
(* The server loop of dino_http.c: one thread accepts a connection, reads    *)
(* one request from it, dispatches it through the route table, sends the     *)
(* answer, closes, and goes back to accept; the signal handlers of dino.c    *)
(* run on that same thread.  Clients connect, send, half-close and hang up   *)
(* as they please.                                                           *)
(*                                                                           *)
(* A connection carries tokens: a whole line, or one byte of a body.  The    *)
(* end of the stream ends a line too (read_line), so a line cut short by it  *)
(* is just another line.  The parameter map is left to module StrMap and the *)
(* memory behind a request to module RequestMemory.                          *)
EXTENDS RouteMatch, SequencesExt

CONSTANTS
    Client,     \* the peers
    NoClient,   \* no connection is being served
    Script,     \* the streams a client may want to send (sequences of tokens)
    Site,       \* dino_site->list, a sequence of routes
    Backlog,    \* bound: connections waiting in accept's queue (5 in the code)
    Signals     \* the signals that shut down (6 in the code); a handler masks its own only

ASSUME NoClientAssumption == NoClient \notin Client
ASSUME BacklogAssumption == Backlog \in Nat \ {0}
ASSUME SignalsAssumption == Signals \in Nat
\* A token has a kind; a length is what atol leaves in content_size (a size_t).
ASSUME ScriptAssumption ==
    \A s \in Script :
        /\ s \in Seq(Range(s))
        /\ \A i \in DOMAIN s : s[i].kind # "end" /\ (s[i].kind = "length" => s[i].n \in Nat)

VARIABLES
    pc,         \* where the server thread is
    keep,       \* g_dino_keep_running
    gsock,      \* g_server_socket: "stdin" is 0, "none" is -1
    listening,  \* the kernel accepts connections on the port
    sig,        \* "none", "handler" while dino_signal_shutdown runs, "exited"
    handlers,   \* its calls, each interrupted by the next: where, and the socket it saved
    backlog,    \* connections the kernel has completed, not accepted yet
    current,    \* the client of the request being processed
    request,    \* dhandle.http.request
    out,        \* the chunks of the answer still to be sent
    full,       \* the client does not take in what it is sent: the next send would block
    conn,       \* per client: how its connection stands
    script,     \* per client: the stream it wants to send
    sent,       \* per client: how many tokens it has sent
    wire,       \* per client: tokens sent and not read by the server
    fin,        \* per client: no further token will come
    gone,       \* per client: it hung up and receives nothing more
    got         \* per client: the chunks it has received

server  == <<pc, keep, gsock, listening, sig, handlers>>
serving == <<backlog, current, request, out, full>>
clients == <<conn, script, sent, wire, fin, gone, got>>
vars    == <<server, serving, clients>>

-----------------------------------------------------------------------------
(* The answers.  Every chunk is one call of send and tells what it is about. *)
NoRequest == [method |-> "none", url |-> <<>>, length |-> 0, body |-> <<>>]

AnswerParts == <<"status", "header", "blank", "payload">>

invoke_method(route, req) ==
    [i \in 1..Len(AnswerParts) |->
        [part |-> AnswerParts[i], route |-> route, url |-> req.url, body |-> req.body]]

BadParts == <<"status 400", "content-type", "blank", "text 1", "text 2">>

bad_request == [i \in 1..Len(BadParts) |-> [part |-> BadParts[i]]]

Init ==
    /\ pc = "boot" /\ keep = TRUE /\ gsock = "stdin" /\ listening = FALSE
    /\ sig = "none" /\ handlers = <<>>
    /\ backlog = <<>> /\ current = NoClient /\ request = NoRequest /\ out = <<>> /\ full = FALSE
    /\ conn = [c \in Client |-> "off"]
    /\ script \in [Client -> Script]
    /\ sent = [c \in Client |-> 0]
    /\ wire = [c \in Client |-> <<>>]
    /\ fin = [c \in Client |-> FALSE]
    /\ gone = [c \in Client |-> FALSE]
    /\ got = [c \in Client |-> <<>>]

-----------------------------------------------------------------------------
(* The clients and the network. *)

Connect(c) ==
    /\ listening
    /\ conn[c] = "off"
    /\ Len(backlog) < Backlog
    /\ conn' = [conn EXCEPT ![c] = "queued"]
    /\ backlog' = Append(backlog, c)
    /\ UNCHANGED <<server, current, request, out, full, script, sent, wire, fin, gone, got>>

(* A reset may make the client lose what it has not yet taken in. *)
LosesTail(c) ==
    \E n \in 0..Len(got[c]) : got' = [got EXCEPT ![c] = SubSeq(@, 1, n)]

(* What reaches a socket the server has closed is answered with a reset. *)
Send(c) ==
    /\ sig # "exited"
    /\ conn[c] \in {"queued", "open", "closed"}
    /\ ~ fin[c]
    /\ sent[c] < Len(script[c])
    /\ sent' = [sent EXCEPT ![c] = @ + 1]
    /\ IF conn[c] = "closed"
       THEN conn' = [conn EXCEPT ![c] = "reset"] /\ LosesTail(c) /\ UNCHANGED wire
       ELSE wire' = [wire EXCEPT ![c] = Append(@, script[c][sent[c] + 1])] /\ UNCHANGED <<conn, got>>
    /\ UNCHANGED <<server, serving, script, fin, gone>>

HalfClose(c) ==
    /\ conn[c] \in {"queued", "open"}
    /\ ~ fin[c]
    /\ fin' = [fin EXCEPT ![c] = TRUE]
    /\ UNCHANGED <<server, serving, conn, script, sent, wire, gone, got>>

(* The client closes its socket; an abortive close discards unread data too. *)
HangUp(c) ==
    /\ conn[c] \in {"queued", "open"}
    /\ ~ gone[c]
    /\ gone' = [gone EXCEPT ![c] = TRUE]
    /\ fin' = [fin EXCEPT ![c] = TRUE]
    /\ \/ UNCHANGED wire
       \/ wire' = [wire EXCEPT ![c] = <<>>]
    /\ UNCHANGED <<server, serving, conn, script, sent, got>>

(* The client reads what it was sent, and there is room again. *)
TakeIn(c) ==
    /\ current = c
    /\ full
    /\ full' = FALSE
    /\ UNCHANGED <<server, backlog, current, request, out, clients>>

-----------------------------------------------------------------------------
(* The server thread.  While a signal handler runs it makes no step. *)
At(label) == pc = label /\ sig = "none"

startup_connection ==
    /\ At("boot")
    /\ \/ pc' = "assign" /\ listening' = TRUE /\ UNCHANGED gsock
       \/ pc' = "returned" /\ gsock' = "none" /\ UNCHANGED listening
    /\ UNCHANGED <<keep, sig, handlers, serving, clients>>

(* startup_connection has returned; its result is stored. *)
AssignServerSocket ==
    /\ At("assign")
    /\ gsock' = "listener"
    /\ pc' = "accept"
    /\ UNCHANGED <<keep, listening, sig, handlers, serving, clients>>

WrongKeepsOldRequest == request

init_request == NoRequest

(* The top of the loop of dino_http_start, and accept. *)
accept ==
    /\ At("accept")
    /\ IF keep
       THEN /\ backlog # <<>>
            /\ current' = Head(backlog)
            /\ backlog' = Tail(backlog)
            /\ conn' = [conn EXCEPT ![Head(backlog)] = "open"]
            /\ request' = init_request
            /\ pc' = "line"
            /\ UNCHANGED <<gsock, listening>>
       ELSE /\ pc' = "returned"
            /\ listening' = FALSE
            /\ UNCHANGED <<gsock, backlog, current, conn, request>>
    /\ UNCHANGED <<keep, sig, handlers, out, full, script, sent, wire, fin, gone, got>>

(* accept fails for a connection its client has dropped: dino_process_request *)
(* logs it, clears the cache and closes socket -1.                            *)
AcceptFails ==
    /\ At("accept")
    /\ keep
    /\ backlog # <<>>
    /\ gone[Head(backlog)]
    /\ backlog' = Tail(backlog)
    /\ conn' = [conn EXCEPT ![Head(backlog)] = "reset"]
    /\ UNCHANGED <<server, current, request, out, full, script, sent, wire, fin, gone, got>>

WrongIgnoresEndOfStream(c) == wire[c] # <<>>

(* recv returns at once: a token is there, or the stream has ended.  A       *)
(* reader for which this stays false is blocked in recv.                     *)
Readable(c) == wire[c] # <<>> \/ fin[c]

AtEnd(c) == wire[c] = <<>>

NextKind(c) == IF AtEnd(c) THEN "end" ELSE Head(wire[c]).kind

Consume(c) == wire' = IF AtEnd(c) THEN wire ELSE [wire EXCEPT ![c] = Tail(@)]

(* An empty line, or one that does not start with a known method, is a bad   *)
(* request; nothing more of it is read.                                      *)
parse_method_url ==
    /\ At("line")
    /\ Readable(current)
    /\ Consume(current)
    /\ IF NextKind(current) = "request"
       THEN /\ request' = [request EXCEPT !.method = Head(wire[current]).method,
                                          !.url = Head(wire[current]).url]
            /\ pc' = "headers"
            /\ UNCHANGED out
       ELSE /\ out' = bad_request
            /\ pc' = "respond"
            /\ UNCHANGED request
    /\ UNCHANGED <<keep, gsock, listening, sig, handlers, backlog, current, full, conn, script, sent,
                   fin, gone, got>>

(* One turn of the loop of parse_headers: the last Content-Length counts, and *)
(* the end of the stream ends the headers as the blank line does.             *)
parse_headers ==
    /\ At("headers")
    /\ Readable(current)
    /\ Consume(current)
    /\ request' = IF NextKind(current) = "length"
                  THEN [request EXCEPT !.length = Head(wire[current]).n]
                  ELSE request
    /\ pc' = IF NextKind(current) \notin {"blank", "end"} THEN "headers"
             ELSE IF request.length = 0 THEN "route" ELSE "body"
    /\ UNCHANGED <<keep, gsock, listening, sig, handlers, backlog, current, out, full, conn, script,
                   sent, fin, gone, got>>

WrongReadsOneByteTooMany(req) == Len(req.body) > req.length

WrongReadsOneByteTooFew(req) == Len(req.body) + 1 >= req.length

BodyComplete(req) == Len(req.body) = req.length

(* One turn of the loop of read_data that gets a byte.  A turn that gets      *)
(* none (the stream has ended) changes nothing and is taken again, forever.   *)
read_data ==
    /\ At("body")
    /\ ~ AtEnd(current)
    /\ Consume(current)
    /\ request' = [request EXCEPT !.body = Append(@, Head(wire[current]))]
    /\ pc' = IF BodyComplete(request') THEN "route" ELSE "body"
    /\ UNCHANGED <<keep, gsock, listening, sig, handlers, backlog, current, out, full, conn, script,
                   sent, fin, gone, got>>

(* accept_request: without a route nothing is sent. *)
accept_request ==
    /\ At("route")
    /\ LET route == list_method_find(Site, request.method, stack_ptr_parse(request.url))
       IN  out' = IF route = 0 THEN <<>> ELSE invoke_method(route, request)
    /\ pc' = "respond"
    /\ UNCHANGED <<keep, gsock, listening, sig, handlers, backlog, current, request, full, clients>>

WrongDiesOfSIGPIPE == "exited"

(* send to a client that has hung up fails; dino_signal_SIGPIPE only logs. *)
dino_signal_SIGPIPE == sig

SendFails(c) == gone[c]

(* send has no timeout: as long as the client leaves the buffers between them *)
(* full, it blocks the thread.  A client that has gone makes it fail at once. *)
Sendable == full => SendFails(current)

send ==
    /\ At("respond")
    /\ out # <<>>
    /\ Sendable
    /\ out' = Tail(out)
    /\ IF SendFails(current)
       THEN sig' = dino_signal_SIGPIPE /\ full' = FALSE /\ UNCHANGED got
       ELSE /\ got' = [got EXCEPT ![current] = Append(@, Head(out))]
            /\ full' \in {FALSE, out' # <<>>}
            /\ UNCHANGED sig
    /\ UNCHANGED <<pc, keep, gsock, listening, handlers, backlog, current, request, conn, script,
                   sent, wire, fin, gone>>

WrongStopsBeforeLastChunk == Len(out) <= 1

AnswerSent == out = <<>>

WrongForgetsToClose(c) == conn[c]

(* Closing a socket that holds unread data resets the connection. *)
CloseSocket(c) == IF wire[c] = <<>> THEN "closed" ELSE "reset"

(* The end of dino_process_request. *)
CloseClient ==
    /\ At("respond")
    /\ AnswerSent
    /\ out' = <<>>
    /\ conn' = [conn EXCEPT ![current] = CloseSocket(current)]
    /\ IF wire[current] = <<>> THEN UNCHANGED got ELSE LosesTail(current)
    /\ wire' = [wire EXCEPT ![current] = <<>>]
    /\ current' = NoClient
    /\ pc' = "accept"
    /\ full' = FALSE
    /\ UNCHANGED <<keep, gsock, listening, sig, handlers, backlog, request, script, sent, fin, gone>>

-----------------------------------------------------------------------------
(* dino_signal_shutdown, on the server thread, wherever that is.  It never    *)
(* returns: a signal of another kind that comes while it runs starts it anew, *)
(* and what it interrupts stays as it is until the process ends.              *)

WrongSavesAfterClearing == "none"

(* The local variable of dino_http_stop. *)
SavedSocket == gsock

(* The log message, g_dino_keep_running, and the socket saved: what comes     *)
(* between them leaves the first two to the handler that interrupts.          *)
dino_signal_shutdown ==
    /\ sig # "exited"
    /\ pc # "returned"
    /\ Len(handlers) < Signals
    /\ sig' = "handler"
    /\ keep' = FALSE
    /\ handlers' = Append(handlers, [at |-> "clear", socket |-> SavedSocket])
    /\ UNCHANGED <<pc, gsock, listening, serving, clients>>

(* The handler that runs is the last one called. *)
Running == handlers[Len(handlers)]

HandlerAt(place) == sig = "handler" /\ Running.at = place

HandlerGoesTo(place) == handlers' = [handlers EXCEPT ![Len(handlers)].at = place]

(* g_server_socket = -1. *)
ClearServerSocket ==
    /\ HandlerAt("clear")
    /\ HandlerGoesTo("close")
    /\ gsock' = "none"
    /\ UNCHANGED <<pc, keep, listening, sig, serving, clients>>

(* What close does to the port. *)
StillListening(socket) == IF socket = "listener" THEN FALSE ELSE listening

CloseServerSocket ==
    /\ HandlerAt("close")
    /\ HandlerGoesTo("sleep")
    /\ listening' = StillListening(Running.socket)
    /\ UNCHANGED <<pc, keep, gsock, sig, serving, clients>>

(* After sleep(2), exit: the kernel closes every socket of the process. *)
Exit ==
    /\ HandlerAt("sleep")
    /\ sig' = "exited"
    /\ listening' = FALSE
    /\ conn' = [c \in Client |-> IF conn[c] \in {"queued", "open"} THEN "cut" ELSE conn[c]]
    /\ UNCHANGED <<pc, keep, gsock, handlers, serving, script, sent, wire, fin, gone, got>>

HandlerStep == ClearServerSocket \/ CloseServerSocket \/ Exit

ServerStep ==
    \/ startup_connection \/ AssignServerSocket
    \/ accept \/ AcceptFails
    \/ parse_method_url \/ parse_headers \/ read_data
    \/ accept_request \/ send \/ CloseClient
    \/ HandlerStep

ClientStep == \E c \in Client : Connect(c) \/ Send(c) \/ HalfClose(c) \/ HangUp(c) \/ TakeIn(c)

Next == ServerStep \/ ClientStep \/ dino_signal_shutdown

(* The scheduler runs the server thread and sleep(2) ends; nothing is assumed *)
(* of the clients or of signals.                                              *)
Spec == Init /\ [][Next]_vars /\ WF_vars(ServerStep)

-----------------------------------------------------------------------------
(* What a client may expect, as a function of the stream alone. *)

Sent(c) == SubSeq(script[c], 1, sent[c])

(* The place of the first token of one of these kinds; past the end if none. *)
FirstOf(stream, kinds) ==
    Min({i \in DOMAIN stream : stream[i].kind \in kinds} \cup {Len(stream) + 1})

HeadersEnd(stream) == FirstOf(stream, {"blank"})

AnnouncedLength(stream) ==
    LET lengths == {i \in DOMAIN stream : i < HeadersEnd(stream) /\ stream[i].kind = "length"}
    IN  IF lengths = {} THEN 0 ELSE stream[Max(lengths)].n

IsRequest(stream) == stream # <<>> /\ stream[1].kind = "request"

(* The tokens of the stream that belong to the request. *)
RequestEnd(stream) ==
    IF IsRequest(stream) THEN HeadersEnd(stream) + AnnouncedLength(stream) ELSE 1

NoAnswerEver == <<[part |-> "none, ever"]>>

ExpectedAnswer(stream) ==
    LET body  == SubSeq(stream, HeadersEnd(stream) + 1, RequestEnd(stream))
        route == list_method_find(Site, stream[1].method, stack_ptr_parse(stream[1].url))
    IN  CASE ~ IsRequest(stream) -> bad_request
          [] IsRequest(stream) /\ AnnouncedLength(stream) > 0 /\ RequestEnd(stream) > Len(stream)
               -> NoAnswerEver
          [] OTHER -> IF route = 0 THEN <<>>
                      ELSE invoke_method(route, [url |-> stream[1].url, body |-> body])

(* The type invariant, with what ties the variables to each other: the queue *)
(* is the queued clients, the current client is the open one, a body is never *)
(* longer than announced.                                                     *)
TypeOK ==
    /\ pc \in {"boot", "assign", "accept", "line", "headers", "body", "route", "respond", "returned"}
    /\ gsock \in {"stdin", "listener", "none"}
    /\ sig \in {"none", "handler", "exited"}
    /\ \A c \in Client :
         /\ conn[c] \in {"off", "queued", "open", "closed", "reset", "cut"}
         /\ sent[c] \in 0..Len(script[c])
         /\ conn[c] = "queued" => \E i \in DOMAIN backlog : backlog[i] = c
         /\ conn[c] = "open" => current = c
    /\ IsInjective(backlog)
    /\ Len(request.body) <= request.length
    /\ full => pc = "respond" /\ out # <<>>
    /\ Len(handlers) <= Signals
    /\ pc \in {"line", "headers", "body", "route", "respond"} <=> current # NoClient

(* Whatever a client has received is the beginning of the answer to its own  *)
(* request, computed from what it has sent itself: nothing of an earlier     *)
(* connection (url, length, body) is seen in a later one, although one        *)
(* dhandle on the stack serves them all.                                      *)
AnswerIsForOwnRequest ==
    \A c \in Client : got[c] # <<>> => IsPrefix(got[c], ExpectedAnswer(Sent(c)))

(* A connection the server closed in order carries its whole answer, unless  *)
(* the client hung up: no chunk is skipped, an incomplete body is never       *)
(* handed to a handler (ASSERT of read_request), and silence means no route.  *)
ClosedMeansAnswered ==
    \A c \in Client :
        conn[c] = "closed" /\ ~ gone[c] => got[c] = ExpectedAnswer(Sent(c))

(* A client that sends no more than its request, as its own Content-Length    *)
(* bounds it, and stays, never has its connection reset: only tokens the      *)
(* server leaves unread do that (a body without a length, or what follows a   *)
(* bad request line).                                                         *)
ResetOnlyIfOverlong ==
    \A c \in Client :
        conn[c] = "reset" => gone[c] \/ sent[c] > RequestEnd(Sent(c))

(* Once the shutdown handler sleeps, no connection can be made, but for two   *)
(* windows: a signal that comes after listen and before g_server_socket is    *)
(* assigned (then close(0) is called), and one that comes while another       *)
(* handler has taken the socket out of g_server_socket and not closed it yet   *)
(* (then close(-1) is called).  Only then does the port stay open until the    *)
(* process ends.                                                               *)
ListenerClosedOnShutdown ==
    HandlerAt("sleep") /\ listening =>
        \/ pc = "assign"
        \/ \E i \in 1..(Len(handlers) - 1) :
              handlers[i] = [at |-> "close", socket |-> "listener"]

(* The process ends by the shutdown handler alone, hang-ups and SIGPIPE       *)
(* included; dino_start returns only when startup failed, so the end of       *)
(* dino_http_start after its loop (close, memory_cache_free) never runs in a  *)
(* server that started.                                                       *)
EndsOnlyByShutdown ==
    /\ sig = "exited" => ~ keep
    /\ pc = "returned" => gsock = "none" /\ \A c \in Client : conn[c] = "off"

(* What the clients see is a service in turn (module SerialService): the      *)
(* accept queue, the one connection the thread holds, and the answers, through *)
(* every hang-up, reset and signal.                                            *)
Service ==
    INSTANCE SerialService WITH queue <- backlog, serving <- current, phase <- conn,
                                answer <- got, stopped <- (sig = "exited")

ServesInTurn == Service!ServiceSpec

Hung ==
    \/ pc \in {"line", "headers"} /\ wire[current] = <<>> /\ ~ fin[current]
    \/ pc = "body" /\ wire[current] = <<>>
    \/ pc = "respond" /\ full /\ ~ gone[current]

(* Every connection is finished in the end, unless the process is told to    *)
(* stop, or the one thread hangs for ever on one client: blocked in recv for  *)
(* a peer that stays silent, or in send for one that stays and does not read  *)
(* its answer, or spinning in read_data for one that closed before the whole  *)
(* body.  A peer that closed anywhere else never holds it.                    *)
QueuedIsServed ==
    \A c \in Client :
        conn[c] = "queued" ~> conn[c] \in {"closed", "reset"} \/ sig # "none" \/ []Hung
=============================================================================
