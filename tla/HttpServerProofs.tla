-------------------------- MODULE HttpServerProofs --------------------------
(* For every set of clients, whatever they send, every site and every length *)
(* of the accept queue: how the server starts, is told to stop, and ends; that  *)
(* its loop implements the service in turn of module SerialService; and that    *)
(* every answer is for its own request.                                        *)
EXTENDS HttpServer, SequenceTheorems, TLAPS

(* The calls of the shutdown handler, one interrupting the other: the last     *)
(* one took what g_server_socket held, and cleared it.                         *)
HandlerCalls == Seq([at : {"clear", "close", "sleep"}, socket : {"stdin", "listener", "none"}])

(* A handler that took the listening socket has not closed it yet. *)
HoldsListener(calls) ==
    \E i \in 1..Len(calls) : calls[i] = [at |-> "close", socket |-> "listener"]

HandlersInv ==
    /\ handlers \in HandlerCalls
    /\ Len(handlers) <= Signals
    /\ sig = "none" <=> handlers = <<>>
    /\ HandlerAt("clear") => Running.socket = gsock
    /\ HandlerAt("close") \/ HandlerAt("sleep") => gsock = "none"

(* The port is known to the shutdown handler (g_server_socket) as soon as it  *)
(* is open, but for the one assignment after startup_connection; from then on  *)
(* the variable has it, or a call of the handler that took it from there.       *)
PortInv ==
    /\ HandlersInv
    /\ gsock \in {"stdin", "listener", "none"}
    /\ pc \in {"boot", "assign", "accept", "line", "headers", "body", "route", "respond",
               "returned"}
    /\ sig \in {"none", "handler", "exited"}
    /\ listening => pc \notin {"boot", "returned"}
    /\ sig = "none" /\ listening => pc = "assign" \/ gsock = "listener"
    /\ sig = "handler" /\ listening =>
         pc = "assign" \/ gsock = "listener" \/ HoldsListener(handlers)
    /\ sig = "exited" => ~ listening

(* The flag falls with the handler alone, and a server that returns never had *)
(* a client.                                                                  *)
EndInv ==
    /\ keep \in BOOLEAN
    /\ keep <=> sig = "none"
    /\ conn \in [Client -> {"off", "queued", "open", "closed", "reset", "cut"}]
    /\ pc \in {"boot", "returned"} => \A c \in Client : conn[c] = "off"
    /\ pc = "returned" => gsock = "none"

ShutdownInv == PortInv /\ EndInv

LEMMA ShutdownInvInit == Init => ShutdownInv
<1>1. <<>> \in HandlerCalls /\ Len(<<>>) = 0
  BY DEF HandlerCalls
<1> QED
  BY <1>1, SignalsAssumption
     DEF Init, ShutdownInv, PortInv, HandlersInv, EndInv, HandlerAt

(* Another call of the handler. *)
LEMMA CallAdded ==
  ASSUME NEW calls \in HandlerCalls, NEW socket \in {"stdin", "listener", "none"}
  PROVE  LET more == Append(calls, [at |-> "clear", socket |-> socket])
         IN  /\ more \in HandlerCalls /\ more # <<>>
             /\ Len(more) = Len(calls) + 1
             /\ more[Len(more)] = [at |-> "clear", socket |-> socket]
             /\ HoldsListener(calls) => HoldsListener(more)
  BY DEF HandlerCalls, HoldsListener

(* The last call goes on to its next place. *)
LEMMA CallGoesOn ==
  ASSUME NEW calls \in HandlerCalls, calls # <<>>,
         NEW place \in {"clear", "close", "sleep"}
  PROVE  LET more == [calls EXCEPT ![Len(calls)].at = place]
         IN  /\ more \in HandlerCalls /\ more # <<>>
             /\ Len(more) = Len(calls)
             /\ more[Len(more)] = [at |-> place, socket |-> calls[Len(calls)].socket]
             /\ \A i \in 1..(Len(calls) - 1) : more[i] = calls[i]
<1> DEFINE K == [at : {"clear", "close", "sleep"}, socket : {"stdin", "listener", "none"}]
           last == [at |-> place, socket |-> calls[Len(calls)].socket]
<1>1. calls \in Seq(K) /\ Len(calls) \in 1..Len(calls) /\ Len(calls) \in Nat
  BY DEF HandlerCalls
<1>2. calls[Len(calls)] \in K
  <2> HIDE DEF K
  <2> QED
    BY <1>1, ElementOfSeq
<1>3. [calls[Len(calls)] EXCEPT !.at = place] = last /\ last \in K
  BY <1>2
<1>4. [calls EXCEPT ![Len(calls)].at = place] = [calls EXCEPT ![Len(calls)] = last]
  BY <1>3
<1> HIDE DEF K, last
<1>5. /\ [calls EXCEPT ![Len(calls)] = last] \in Seq(K)
      /\ Len([calls EXCEPT ![Len(calls)] = last]) = Len(calls)
      /\ [calls EXCEPT ![Len(calls)] = last][Len(calls)] = last
      /\ \A i \in 1..(Len(calls) - 1) : [calls EXCEPT ![Len(calls)] = last][i] = calls[i]
  BY <1>1, <1>3
<1> QED
  BY <1>1, <1>4, <1>5 DEF HandlerCalls, K, last

(* What the clients do: only Connect and Send change conn, and neither can     *)
(* while every client is off and the port is closed.                          *)
LEMMA ClientStepKeeps ==
  ASSUME ShutdownInv, NEW c \in Client,
         Connect(c) \/ Send(c) \/ HalfClose(c) \/ HangUp(c) \/ TakeIn(c)
  PROVE  ShutdownInv'
<1>1. UNCHANGED server
  BY DEF Connect, Send, HalfClose, HangUp, TakeIn
<1>2. conn' \in [Client -> {"off", "queued", "open", "closed", "reset", "cut"}]
  BY DEF Connect, Send, HalfClose, HangUp, TakeIn, clients, ShutdownInv, EndInv
<1>3. ASSUME pc \in {"boot", "returned"} PROVE conn' = conn
  BY <1>3 DEF Connect, Send, HalfClose, HangUp, TakeIn, clients, ShutdownInv, PortInv, EndInv
<1> QED
  BY <1>1, <1>2, <1>3
     DEF server, ShutdownInv, PortInv, HandlersInv, HandlerAt, Running, HoldsListener, EndInv

(* The steps between accept and CloseClient leave the port and the flag alone. *)
LEMMA ServingStepKeeps ==
  ASSUME ShutdownInv,
         \/ AcceptFails \/ parse_method_url \/ parse_headers \/ read_data
         \/ accept_request \/ send \/ CloseClient
  PROVE  ShutdownInv'
<1>1. /\ sig = "none" /\ pc \notin {"boot", "returned", "assign"}
      /\ pc' \in {"accept", "line", "headers", "body", "route", "respond"}
  BY DEF AcceptFails, parse_method_url, parse_headers, read_data, accept_request, send,
         CloseClient, At, server
<1>2. UNCHANGED <<keep, gsock, listening, handlers>> /\ sig' = "none"
  BY <1>1 DEF AcceptFails, parse_method_url, parse_headers, read_data, accept_request, send,
         CloseClient, server, dino_signal_SIGPIPE
<1>3. conn' \in [Client -> {"off", "queued", "open", "closed", "reset", "cut"}]
  BY DEF AcceptFails, parse_method_url, parse_headers, read_data, accept_request, send,
         CloseClient, CloseSocket, clients, ShutdownInv, EndInv
<1> QED
  BY <1>1, <1>2, <1>3 DEF ShutdownInv, PortInv, HandlersInv, HandlerAt, EndInv

(* The handler's own steps. *)
LEMMA HandlerStepKeeps ==
  ASSUME ShutdownInv, ClearServerSocket \/ CloseServerSocket
  PROVE  ShutdownInv'
<1> DEFINE n == Len(handlers)
<1>1. /\ handlers \in HandlerCalls /\ handlers # <<>> /\ sig = "handler" /\ n <= Signals
      /\ UNCHANGED <<pc, keep, sig, conn>>
  BY DEF ClearServerSocket, CloseServerSocket, HandlerAt, clients, ShutdownInv, PortInv, HandlersInv
<1>2. n \in 1..n /\ n \in Nat
  BY <1>1 DEF HandlerCalls
<1>3. CASE ClearServerSocket
  <2>1. /\ handlers' = [handlers EXCEPT ![n].at = "close"] /\ handlers[n].at = "clear"
        /\ gsock' = "none" /\ handlers[n].socket = gsock /\ UNCHANGED listening
    BY <1>3 DEF ClearServerSocket, HandlerAt, HandlerGoesTo, Running, ShutdownInv, PortInv,
       HandlersInv
  <2>2. /\ handlers' \in HandlerCalls /\ handlers' # <<>> /\ Len(handlers') = n
        /\ handlers'[n] = [at |-> "close", socket |-> gsock]
        /\ \A i \in 1..(n - 1) : handlers'[i] = handlers[i]
    BY <1>1, <2>1, CallGoesOn
  <2>3. gsock = "listener" \/ HoldsListener(handlers) => HoldsListener(handlers')
    <3>1. CASE gsock = "listener"
      BY <1>2, <2>2, <3>1 DEF HoldsListener
    <3>2. ASSUME NEW i \in 1..n, handlers[i] = [at |-> "close", socket |-> "listener"]
          PROVE  HoldsListener(handlers')
      <4>1. i # n
        BY <2>1, <3>2
      <4>2. i \in 1..(n - 1) /\ i \in 1..n
        BY <1>2, <4>1
      <4> QED
        BY <2>2, <3>2, <4>2 DEF HoldsListener
    <3> QED
      BY <3>1, <3>2 DEF HoldsListener
  <2>4. HandlersInv'
    BY <1>1, <2>1, <2>2 DEF HandlersInv, HandlerAt, Running, ShutdownInv, PortInv
  <2>5. PortInv'
    BY <1>1, <2>1, <2>3, <2>4 DEF ShutdownInv, PortInv
  <2> QED
    BY <1>1, <2>1, <2>5 DEF ShutdownInv, EndInv
<1>4. CASE CloseServerSocket
  <2>1. /\ handlers' = [handlers EXCEPT ![n].at = "sleep"] /\ handlers[n].at = "close"
        /\ gsock' = gsock /\ gsock = "none"
        /\ listening' = StillListening(handlers[n].socket)
    BY <1>4 DEF CloseServerSocket, HandlerAt, HandlerGoesTo, Running, ShutdownInv, PortInv,
       HandlersInv
  <2>2. /\ handlers' \in HandlerCalls /\ handlers' # <<>> /\ Len(handlers') = n
        /\ handlers'[n] = [at |-> "sleep", socket |-> handlers[n].socket]
        /\ \A i \in 1..(n - 1) : handlers'[i] = handlers[i]
    BY <1>1, <2>1, CallGoesOn
  <2>3. listening' => listening /\ handlers[n].socket # "listener"
    BY <2>1 DEF StillListening
  <2>4. listening' /\ HoldsListener(handlers) => HoldsListener(handlers')
    <3> SUFFICES ASSUME listening', NEW i \in 1..n,
                        handlers[i] = [at |-> "close", socket |-> "listener"]
                 PROVE  HoldsListener(handlers')
      BY DEF HoldsListener
    <3>1. i # n
      BY <2>3
    <3>2. i \in 1..(n - 1) /\ i \in 1..n
      BY <1>2, <3>1
    <3> QED
      BY <2>2, <3>2 DEF HoldsListener
  <2>5. HandlersInv'
    BY <1>1, <2>1, <2>2 DEF HandlersInv, HandlerAt, Running, ShutdownInv, PortInv
  <2>6. PortInv'
    BY <1>1, <2>1, <2>3, <2>4, <2>5 DEF ShutdownInv, PortInv
  <2> QED
    BY <1>1, <2>1, <2>6 DEF ShutdownInv, EndInv
<1> QED
  BY <1>3, <1>4

(* The handler is called, by the server loop or in the middle of a handler. *)
LEMMA SignalKeeps ==
  ASSUME ShutdownInv, dino_signal_shutdown
  PROVE  ShutdownInv'
<1>1. /\ handlers \in HandlerCalls /\ gsock \in {"stdin", "listener", "none"}
      /\ handlers' = Append(handlers, [at |-> "clear", socket |-> gsock])
      /\ Len(handlers) < Signals /\ Len(handlers) \in Nat /\ sig' = "handler" /\ keep' = FALSE
      /\ UNCHANGED <<pc, gsock, listening, conn>>
  BY DEF dino_signal_shutdown, SavedSocket, clients, ShutdownInv, PortInv, HandlersInv, HandlerCalls
<1>2. /\ handlers' \in HandlerCalls /\ handlers' # <<>>
      /\ Len(handlers') = Len(handlers) + 1
      /\ handlers'[Len(handlers')] = [at |-> "clear", socket |-> gsock]
      /\ HoldsListener(handlers) => HoldsListener(handlers')
  BY <1>1, CallAdded
<1>3. HandlersInv'
  BY <1>1, <1>2, SignalsAssumption DEF HandlersInv, HandlerAt, Running
<1>4. PortInv'
  BY <1>1, <1>2, <1>3 DEF dino_signal_shutdown, ShutdownInv, PortInv
<1> QED
  BY <1>1, <1>4 DEF dino_signal_shutdown, ShutdownInv, EndInv

LEMMA ShutdownInvStep == ShutdownInv /\ [Next]_vars => ShutdownInv'
<1> SUFFICES ASSUME ShutdownInv, [Next]_vars PROVE ShutdownInv'
  OBVIOUS
<1>1. CASE startup_connection
  BY <1>1 DEF startup_connection, At, clients, ShutdownInv, PortInv, HandlersInv, HandlerAt, EndInv
<1>2. CASE AssignServerSocket
  BY <1>2 DEF AssignServerSocket, At, clients, ShutdownInv, PortInv, HandlersInv, HandlerAt, EndInv
<1>3. CASE accept
  <2>1. keep /\ pc = "accept" /\ sig = "none"
    BY <1>3 DEF accept, At, ShutdownInv, EndInv
  <2>2. conn' \in [Client -> {"off", "queued", "open", "closed", "reset", "cut"}]
    BY <1>3, <2>1 DEF accept, ShutdownInv, EndInv
  <2> QED
    BY <1>3, <2>1, <2>2 DEF accept, ShutdownInv, PortInv, HandlersInv, HandlerAt, EndInv
<1>4. CASE \/ AcceptFails \/ parse_method_url \/ parse_headers \/ read_data
           \/ accept_request \/ send \/ CloseClient
  BY <1>4, ServingStepKeeps
<1>5. CASE dino_signal_shutdown
  BY <1>5, SignalKeeps
<1>6. CASE HandlerStep
  <2>1. CASE Exit
    BY <2>1 DEF Exit, HandlerAt, ShutdownInv, PortInv, HandlersInv, EndInv
  <2> QED
    BY <1>6, <2>1, HandlerStepKeeps DEF HandlerStep
<1>7. CASE ClientStep
  BY <1>7, ClientStepKeeps DEF ClientStep
<1>8. CASE UNCHANGED vars
  BY <1>8 DEF vars, server, clients, ShutdownInv, PortInv, HandlersInv, HandlerAt, Running,
     HoldsListener, EndInv
<1> QED
  BY <1>1, <1>2, <1>3, <1>4, <1>5, <1>6, <1>7, <1>8 DEF Next, ServerStep

(* ShutdownInv is an invariant of the specification. *)
THEOREM ShutdownInvHolds == Spec => []ShutdownInv
  BY ShutdownInvInit, ShutdownInvStep, PTL DEF Spec

(* Once dino_signal_shutdown sleeps no connection can be made, but for a       *)
(* signal between listen and the assignment of g_server_socket, and for one     *)
(* that interrupts dino_http_stop between lines 705 and 707 (the second call     *)
(* finds -1): however many signals come, and wherever.                          *)
THEOREM ListenerCloses == Spec => []ListenerClosedOnShutdown
<1>1. ASSUME ShutdownInv, HandlerAt("sleep"), listening, pc # "assign"
      PROVE  \E i \in 1..(Len(handlers) - 1) :
                handlers[i] = [at |-> "close", socket |-> "listener"]
  <2>1. /\ handlers[Len(handlers)].at = "sleep" /\ gsock = "none" /\ HoldsListener(handlers)
        /\ Len(handlers) \in Nat
    BY <1>1 DEF ShutdownInv, PortInv, HandlersInv, HandlerAt, Running, HandlerCalls
  <2>2. PICK i \in 1..Len(handlers) : handlers[i] = [at |-> "close", socket |-> "listener"]
    BY <2>1 DEF HoldsListener
  <2>3. i # Len(handlers)
    BY <2>1, <2>2
  <2> QED
    BY <2>1, <2>2, <2>3
<1>2. ShutdownInv => ListenerClosedOnShutdown
  BY <1>1 DEF ListenerClosedOnShutdown
<1> QED
  BY <1>2, ShutdownInvHolds, PTL

(* The process ends by the shutdown handler alone, and dino_http_start        *)
(* returns only when startup failed.                                          *)
THEOREM OnlyShutdownEnds == Spec => []EndsOnlyByShutdown
<1>1. ShutdownInv => EndsOnlyByShutdown
  BY DEF ShutdownInv, EndInv, EndsOnlyByShutdown
<1> QED
  BY <1>1, ShutdownInvHolds, PTL

-----------------------------------------------------------------------------
(* The service in turn. *)

IsSeq(s) == \E S : s \in Seq(S)

(* Every answer is a sequence, the queue one of clients, and a client is held *)
(* exactly where a request is read or answered.                                *)
TurnInv ==
    /\ backlog \in Seq(Client)
    /\ DOMAIN got = Client /\ got = [c \in Client |-> got[c]]
    /\ \A c \in Client : IsSeq(got[c])
    /\ pc \in {"line", "headers", "body", "route", "respond"} => current \in Client
    /\ pc \notin {"line", "headers", "body", "route", "respond"} => current = NoClient
    /\ full => pc = "respond" /\ out # <<>>

(* An appended chunk is the whole difference (send). *)
LEMMA AppendOnly ==
  ASSUME NEW s, IsSeq(s), NEW e
  PROVE  IsSeq(Append(s, e)) /\ Front(Append(s, e)) = s
<1> PICK S : s \in Seq(S)
  BY DEF IsSeq
<1> DEFINE R == S \cup {e}
           t == Append(s, e)
<1>1. s \in Seq(R) /\ e \in R
  BY SeqMonotonic
<1>2. t \in Seq(R) /\ Len(t) = Len(s) + 1 /\ \A i \in 1..Len(s) : t[i] = s[i]
  BY <1>1, AppendProperties
<1>3. Len(s) \in Nat
  BY <1>1
<1> HIDE DEF t, R
<1>4. \A i \in 1..(Len(t) - 1) : t[i] \in R
  BY <1>2, <1>3, ElementOfSeq
<1>5. Front(t) \in Seq(R) /\ Len(Front(t)) = Len(s) /\ \A i \in 1..Len(s) : Front(t)[i] = t[i]
  BY <1>2, <1>3, <1>4, SubSeqProperties DEF Front
<1>6. Front(t) = s
  BY <1>1, <1>2, <1>3, <1>5, SeqEqual
<1> QED
  BY <1>2, <1>6 DEF IsSeq, t

(* What is left of an answer cut at its end is the beginning of it (LosesTail). *)
LEMMA CutKeepsPrefix ==
  ASSUME NEW s, IsSeq(s), NEW n \in 0..Len(s)
  PROVE  IsSeq(SubSeq(s, 1, n)) /\ IsPrefix(SubSeq(s, 1, n), s)
<1> PICK S : s \in Seq(S)
  BY DEF IsSeq
<1> DEFINE t == SubSeq(s, 1, n)
<1>1. Len(s) \in Nat /\ n \in Nat /\ n <= Len(s)
  OBVIOUS
<1>2. t \in Seq(S) /\ Len(t) = n /\ \A i \in 1..n : t[i] = s[i]
  BY <1>1, SubSeqProperties, ElementOfSeq
<1>3. SubSeq(t, 1, n) = t
  BY <1>2, SubSeqFull
<1> HIDE DEF t
<1> QED
  BY <1>1, <1>2, <1>3 DEF IsSeq, IsPrefix, t

LEMMA TurnInvInit == Init => TurnInv
<1> SUFFICES ASSUME Init PROVE TurnInv
  OBVIOUS
<1>1. IsSeq(<<>>) /\ <<>> \in Seq(Client)
  BY DEF IsSeq
<1> QED
  BY <1>1 DEF Init, TurnInv

(* The effect of LosesTail on the answers. *)
LEMMA LosesTailCuts ==
  ASSUME TurnInv, NEW c \in Client, LosesTail(c)
  PROVE  /\ DOMAIN got' = Client /\ got' = [d \in Client |-> got'[d]]
         /\ \A d \in Client : IsSeq(got'[d])
         /\ Service!CutBack(c)
<1>1. PICK n \in 0..Len(got[c]) : got' = [got EXCEPT ![c] = SubSeq(@, 1, n)]
  BY DEF LosesTail
<1>2. got'[c] = SubSeq(got[c], 1, n) /\ \A d \in Client \ {c} : got'[d] = got[d]
  BY <1>1 DEF TurnInv
<1>3. IsSeq(got'[c]) /\ IsPrefix(got'[c], got[c])
  BY <1>2, CutKeepsPrefix DEF TurnInv
<1>4. DOMAIN got' = Client /\ got' = [d \in Client |-> got'[d]]
  BY <1>1 DEF TurnInv
<1> QED
  BY <1>2, <1>3, <1>4 DEF TurnInv, Service!CutBack, Service!OnlyAnswerOf, IsPrefix, Service!IsPrefix

-----------------------------------------------------------------------------
(* Each step keeps TurnInv and is a step of the service, or none of its.  The *)
(* client steps: *)
LEMMA ClientStepServes ==
  ASSUME TurnInv, ShutdownInv, NEW c \in Client,
         Connect(c) \/ Send(c) \/ HalfClose(c) \/ HangUp(c) \/ TakeIn(c)
  PROVE  TurnInv' /\ [Service!ServiceNext]_Service!servicevars
<1>1. CASE Connect(c)
  <2>1. Append(backlog, c) \in Seq(Client)
    BY DEF TurnInv
  <2>2. Service!Arrive(c)
    BY <1>1 DEF Connect, Service!Arrive, server, ShutdownInv, PortInv
  <2> QED
    BY <1>1, <2>1, <2>2 DEF Connect, TurnInv, server, Service!ServiceNext
<1>2. CASE Send(c)
  <2>1. CASE conn[c] = "closed"
    <3>1. LosesTail(c)
      BY <1>2, <2>1 DEF Send
    <3>2. Service!ResetAfter(c)
      BY <1>2, <2>1, <3>1, LosesTailCuts DEF Send, Service!ResetAfter, server, serving
    <3> QED
      BY <1>2, <3>1, <3>2, LosesTailCuts DEF Send, TurnInv, server, serving, Service!ServiceNext
  <2>2. CASE conn[c] # "closed"
    BY <1>2, <2>2 DEF Send, TurnInv, server, serving, Service!servicevars
  <2> QED
    BY <2>1, <2>2
<1>3. CASE HalfClose(c) \/ HangUp(c)
  BY <1>3 DEF HalfClose, HangUp, TurnInv, server, serving, Service!servicevars
<1>4. CASE TakeIn(c)
  BY <1>4 DEF TakeIn, TurnInv, server, clients, Service!servicevars
<1> QED
  BY <1>1, <1>2, <1>3, <1>4

(* accept and its failure: the first of the queue has its turn. *)
LEMMA AcceptServes ==
  ASSUME TurnInv, ShutdownInv, accept \/ AcceptFails
  PROVE  TurnInv' /\ [Service!ServiceNext]_Service!servicevars
<1>1. At("accept") /\ keep /\ backlog # <<>> /\ sig = "none" /\ pc = "accept"
  BY DEF accept, AcceptFails, At, ShutdownInv, EndInv
<1>2. Head(backlog) \in Client /\ Tail(backlog) \in Seq(Client)
  BY <1>1, HeadTailProperties DEF TurnInv
<1>3. current = NoClient
  BY <1>1 DEF TurnInv
<1>4. CASE accept
  <2>1. Service!Take(Head(backlog))
    BY <1>1, <1>3, <1>4 DEF accept, Service!Take, Service!TurnOf
  <2> QED
    BY <1>1, <1>2, <1>4, <2>1 DEF accept, TurnInv, Service!ServiceNext
<1>5. CASE AcceptFails
  <2>1. Service!Drop(Head(backlog))
    BY <1>1, <1>3, <1>5 DEF AcceptFails, Service!Drop, Service!TurnOf, server
  <2> QED
    BY <1>1, <1>2, <1>5, <2>1 DEF AcceptFails, TurnInv, server, Service!ServiceNext
<1> QED
  BY <1>4, <1>5

(* A chunk that is sent, or lost because the client hung up. *)
LEMMA SendServes ==
  ASSUME TurnInv, ShutdownInv, send
  PROVE  TurnInv' /\ [Service!ServiceNext]_Service!servicevars
<1>1. pc = "respond" /\ sig = "none" /\ current \in Client
  BY DEF send, At, TurnInv
<1>2. CASE SendFails(current)
  BY <1>1, <1>2 DEF send, dino_signal_SIGPIPE, TurnInv, Service!servicevars
<1>3. CASE ~ SendFails(current)
  <2>1. got' = [got EXCEPT ![current] = Append(@, Head(out))]
    BY <1>3 DEF send
  <2>2. /\ got'[current] = Append(got[current], Head(out))
        /\ \A d \in Client \ {current} : got'[d] = got[d]
        /\ DOMAIN got' = Client /\ got' = [d \in Client |-> got'[d]]
    BY <1>1, <2>1 DEF TurnInv
  <2>3. IsSeq(got'[current]) /\ Front(got'[current]) = got[current]
    BY <1>1, <2>2, AppendOnly DEF TurnInv
  <2>4. Service!SendTo(current)
    BY <1>1, <1>3, <2>2, <2>3 DEF send, Service!SendTo, Service!OnlyAnswerOf, Front, Service!Front
  <2> QED
    BY <1>1, <1>3, <2>2, <2>3, <2>4 DEF send, TurnInv, Service!ServiceNext
<1> QED
  BY <1>2, <1>3

(* The end of a request. *)
LEMMA CloseServes ==
  ASSUME TurnInv, ShutdownInv, CloseClient
  PROVE  TurnInv' /\ [Service!ServiceNext]_Service!servicevars
<1>1. pc = "respond" /\ sig = "none" /\ current \in Client
  BY DEF CloseClient, At, TurnInv
<1>2. Service!Finish(current)
  <2>1. CASE wire[current] = <<>>
    BY <1>1, <2>1 DEF CloseClient, CloseSocket, Service!Finish
  <2>2. CASE wire[current] # <<>>
    BY <1>1, <2>2, LosesTailCuts DEF CloseClient, CloseSocket, Service!Finish
  <2> QED
    BY <2>1, <2>2
<1>3. TurnInv'
  <2>1. CASE wire[current] = <<>>
    BY <1>1, <2>1 DEF CloseClient, TurnInv
  <2>2. CASE wire[current] # <<>>
    BY <1>1, <2>2, LosesTailCuts DEF CloseClient, TurnInv
  <2> QED
    BY <2>1, <2>2
<1> QED
  BY <1>1, <1>2, <1>3 DEF Service!ServiceNext

(* What the service does not see: the start, reading, dispatch, the handler. *)
LEMMA OtherStepServes ==
  ASSUME TurnInv, ShutdownInv,
         \/ startup_connection \/ AssignServerSocket \/ parse_method_url \/ parse_headers
         \/ read_data \/ accept_request \/ dino_signal_shutdown
         \/ ClearServerSocket \/ CloseServerSocket
  PROVE  TurnInv' /\ UNCHANGED Service!servicevars
<1>1. CASE startup_connection \/ AssignServerSocket
  BY <1>1 DEF startup_connection, AssignServerSocket, At, serving, clients, TurnInv,
     Service!servicevars
<1>2. CASE parse_method_url \/ parse_headers \/ read_data
  BY <1>2 DEF parse_method_url, parse_headers, read_data, At, TurnInv, Service!servicevars
<1>3. CASE accept_request
  BY <1>3 DEF accept_request, At, clients, TurnInv, Service!servicevars
<1>4. CASE dino_signal_shutdown
  BY <1>4 DEF dino_signal_shutdown, serving, clients, ShutdownInv, PortInv, HandlersInv,
     HandlerAt, TurnInv, Service!servicevars
<1>5. CASE ClearServerSocket \/ CloseServerSocket
  BY <1>5 DEF ClearServerSocket, CloseServerSocket, HandlerAt, serving, clients, TurnInv,
     Service!servicevars
<1> QED
  BY <1>1, <1>2, <1>3, <1>4, <1>5

LEMMA ExitServes ==
  ASSUME TurnInv, Exit
  PROVE  TurnInv' /\ [Service!ServiceNext]_Service!servicevars
<1>1. Service!Stop
  BY DEF Exit, HandlerAt, serving, Service!Stop
<1> QED
  BY <1>1 DEF Exit, serving, TurnInv, Service!ServiceNext

(* Any step: the step simulation. *)
LEMMA StepServes ==
  TurnInv /\ ShutdownInv /\ [Next]_vars => TurnInv' /\ [Service!ServiceNext]_Service!servicevars
<1> SUFFICES ASSUME TurnInv, ShutdownInv, [Next]_vars
             PROVE  TurnInv' /\ [Service!ServiceNext]_Service!servicevars
  OBVIOUS
<1>1. CASE UNCHANGED vars
  BY <1>1 DEF vars, server, serving, clients, TurnInv, Service!servicevars
<1>2. CASE Next
  BY <1>2, ClientStepServes, AcceptServes, SendServes, CloseServes, OtherStepServes, ExitServes
     DEF Next, ServerStep, HandlerStep, ClientStep
<1> QED
  BY <1>1, <1>2

(* The server loop implements the service in turn: clients are served one    *)
(* after another in the order of the accept queue, and only the one whose       *)
(* connection the thread holds is sent anything.                               *)
THEOREM ImplementsService == Spec => ServesInTurn
<1>1. Init => Service!ServiceInit
  BY DEF Init, Service!ServiceInit
<1> QED
  BY <1>1, TurnInvInit, StepServes, ShutdownInvHolds, PTL DEF Spec, ServesInTurn, Service!ServiceSpec

-----------------------------------------------------------------------------
(* The answers: for every set of clients, whatever they send, and every site,  *)
(* the answer a client gets is the one to its own request.  First the streams   *)
(* of tokens alone, then what the server thread has made of those it has read.  *)


Tokens == UNION {Range(s) : s \in Script}

(* The blank line that ends the headers. *)
BlankAt(stream, h) ==
    /\ h \in 1..Len(stream) /\ stream[h].kind = "blank"
    /\ \A i \in 1..(h - 1) : stream[i].kind # "blank"

(* The last of the lengths before position h is n; 0 if there is none. *)
Announces(stream, h, n) ==
    \/ n = 0 /\ \A i \in 1..(h - 1) : stream[i].kind # "length"
    \/ \E m \in 1..(h - 1) :
          /\ stream[m].kind = "length" /\ stream[m].n = n
          /\ \A i \in (m + 1)..(h - 1) : stream[i].kind # "length"

(* The headers end at position h and announce n bytes. *)
Headed(stream, h, n) == BlankAt(stream, h) /\ n \in Nat /\ Announces(stream, h, n)

NoBlank(stream) == \A i \in 1..Len(stream) : stream[i].kind # "blank"

(* A stream of which another is the beginning. *)
Extends(longer, stream) ==
    /\ Len(stream) <= Len(longer)
    /\ \A i \in 1..Len(stream) : longer[i] = stream[i]

LEMMA TokenFacts ==
  /\ Script \subseteq Seq(Tokens)
  /\ \A t \in Tokens : t.kind # "end" /\ (t.kind = "length" => t.n \in Nat)
<1>1. ASSUME NEW s \in Script PROVE s \in Seq(Tokens)
  <2>1. s \in Seq(Range(s)) /\ Range(s) \subseteq Tokens
    BY ScriptAssumption DEF Tokens
  <2> QED
    BY <2>1, SeqMonotonic
<1>2. ASSUME NEW t \in Tokens PROVE t.kind # "end" /\ (t.kind = "length" => t.n \in Nat)
  <2>1. PICK s \in Script : t \in Range(s)
    BY DEF Tokens
  <2>2. PICK i \in DOMAIN s : t = s[i]
    BY <2>1 DEF Range
  <2> QED
    BY <2>2, ScriptAssumption
<1> QED
  BY <1>1, <1>2

(* The smallest number of a set is the one no other is below. *)
LEMMA MinIs ==
  ASSUME NEW S \in SUBSET Int, NEW x \in S, \A y \in S : x <= y
  PROVE  Min(S) = x
<1>1. \A z \in S : (\A y \in S : z <= y) => z = x
  OBVIOUS
<1> QED
  BY <1>1 DEF Min

LEMMA MaxIs ==
  ASSUME NEW S \in SUBSET Int, NEW x \in S, \A y \in S : x >= y
  PROVE  Max(S) = x
<1>1. \A z \in S : (\A y \in S : z >= y) => z = x
  OBVIOUS
<1> QED
  BY <1>1 DEF Max

LEMMA HeadersEndIs ==
  ASSUME NEW s \in Seq(Tokens)
  PROVE  /\ \A h : BlankAt(s, h) => HeadersEnd(s) = h
         /\ NoBlank(s) => HeadersEnd(s) = Len(s) + 1
<1> DEFINE B == {i \in DOMAIN s : s[i].kind \in {"blank"}} \cup {Len(s) + 1}
<1>1. DOMAIN s = 1..Len(s) /\ Len(s) \in Nat
  OBVIOUS
<1>2. B \in SUBSET Int
  BY <1>1
<1>3. \A i : i \in B <=> (i \in 1..Len(s) /\ s[i].kind = "blank") \/ i = Len(s) + 1
  BY <1>1
<1>4. HeadersEnd(s) = Min(B)
  BY DEF HeadersEnd, FirstOf
<1> HIDE DEF B
<1>5. ASSUME NEW h, BlankAt(s, h) PROVE Min(B) = h
  <2>1. h \in B /\ \A y \in B : h <= y
    BY <1>1, <1>2, <1>3, <1>5 DEF BlankAt
  <2> QED
    BY <1>2, <2>1, MinIs
<1>6. ASSUME NoBlank(s) PROVE Min(B) = Len(s) + 1
  <2>1. Len(s) + 1 \in B /\ \A y \in B : Len(s) + 1 <= y
    BY <1>1, <1>2, <1>3, <1>6 DEF NoBlank
  <2> QED
    BY <1>2, <2>1, MinIs
<1> QED
  BY <1>4, <1>5, <1>6

LEMMA AnnouncedIs ==
  ASSUME NEW s \in Seq(Tokens), NEW h \in 1..(Len(s) + 1), HeadersEnd(s) = h,
         NEW n, Announces(s, h, n)
  PROVE  AnnouncedLength(s) = n
<1> DEFINE L == {i \in DOMAIN s : i < HeadersEnd(s) /\ s[i].kind = "length"}
<1>1. DOMAIN s = 1..Len(s) /\ Len(s) \in Nat
  OBVIOUS
<1>2. \A i : i \in L <=> i \in 1..(h - 1) /\ s[i].kind = "length"
  BY <1>1
<1>3. L \in SUBSET Int
  BY <1>1
<1>4. AnnouncedLength(s) = IF L = {} THEN 0 ELSE s[Max(L)].n
  BY DEF AnnouncedLength
<1> HIDE DEF L
<1>5. CASE n = 0 /\ \A i \in 1..(h - 1) : s[i].kind # "length"
  <2>1. L = {}
    BY <1>2, <1>5
  <2> QED
    BY <1>4, <1>5, <2>1
<1>6. ASSUME NEW m \in 1..(h - 1), s[m].kind = "length", s[m].n = n,
             \A i \in (m + 1)..(h - 1) : s[i].kind # "length"
      PROVE  AnnouncedLength(s) = n
  <2>1. m \in L /\ \A y \in L : m >= y
    BY <1>2, <1>6
  <2>2. Max(L) = m
    BY <1>3, <2>1, MaxIs
  <2> QED
    BY <1>4, <1>6, <2>1, <2>2
<1> QED
  BY <1>5, <1>6 DEF Announces

(* What complete headers say is read off them alone. *)
LEMMA HeadedIs ==
  ASSUME NEW s \in Seq(Tokens), NEW h, NEW n, Headed(s, h, n)
  PROVE  HeadersEnd(s) = h /\ AnnouncedLength(s) = n
<1>1. h \in 1..(Len(s) + 1) /\ HeadersEnd(s) = h
  BY HeadersEndIs DEF Headed, BlankAt
<1> QED
  BY <1>1, AnnouncedIs DEF Headed

LEMMA OpenHeadedIs ==
  ASSUME NEW s \in Seq(Tokens), NEW n, NoBlank(s), Announces(s, Len(s) + 1, n)
  PROVE  HeadersEnd(s) = Len(s) + 1 /\ AnnouncedLength(s) = n
<1>1. Len(s) + 1 \in 1..(Len(s) + 1) /\ HeadersEnd(s) = Len(s) + 1
  BY HeadersEndIs
<1> QED
  BY <1>1, AnnouncedIs

(* More tokens do not change complete headers. *)
LEMMA HeadedKept ==
  ASSUME NEW s \in Seq(Tokens), NEW u \in Seq(Tokens), Extends(u, s), NEW h, NEW n, Headed(s, h, n)
  PROVE  Headed(u, h, n)
<1>1. /\ h \in 1..Len(s) /\ h \in 1..Len(u) /\ Len(s) \in Nat /\ Len(u) \in Nat
      /\ \A i \in 1..h : u[i] = s[i]
  BY DEF Extends, Headed, BlankAt
<1>2. BlankAt(u, h)
  BY <1>1 DEF Headed, BlankAt
<1>3. CASE n = 0 /\ \A i \in 1..(h - 1) : s[i].kind # "length"
  <2>1. \A i \in 1..(h - 1) : u[i].kind # "length"
    BY <1>1, <1>3
  <2> QED
    BY <1>2, <1>3, <2>1 DEF Headed, Announces
<1>4. ASSUME NEW m \in 1..(h - 1), s[m].kind = "length", s[m].n = n,
             \A i \in (m + 1)..(h - 1) : s[i].kind # "length"
      PROVE  Headed(u, h, n)
  <2>1. u[m] = s[m] /\ \A i \in (m + 1)..(h - 1) : u[i] = s[i]
    BY <1>1
  <2>2. Announces(u, h, n)
    BY <1>4, <2>1 DEF Announces
  <2> QED
    BY <1>2, <2>2 DEF Headed
<1> QED
  BY <1>3, <1>4 DEF Headed, Announces

(* One turn of the loop of parse_headers, on the stream. *)
LEMMA NextHeader ==
  ASSUME NEW s \in Seq(Tokens), NEW t \in Tokens, NEW n \in Nat, NoBlank(s),
         Announces(s, Len(s) + 1, n)
  PROVE  LET u == Append(s, t)
         IN  /\ t.kind = "blank" => Headed(u, Len(s) + 1, n)
             /\ t.kind # "blank" => NoBlank(u)
             /\ t.kind = "length" => t.n \in Nat /\ Announces(u, Len(u) + 1, t.n)
             /\ t.kind # "length" => Announces(u, Len(u) + 1, n)
<1> DEFINE u == Append(s, t)
<1>1. /\ Len(s) \in Nat /\ Len(u) = Len(s) + 1
      /\ \A i \in 1..Len(s) : u[i] = s[i]
      /\ u[Len(s) + 1] = t
  OBVIOUS
<1> HIDE DEF u
<1>2. t.kind = "blank" => BlankAt(u, Len(s) + 1)
  BY <1>1 DEF BlankAt, NoBlank
<1>3. Announces(u, Len(s) + 1, n)
  BY <1>1 DEF Announces
<1>4. t.kind # "blank" => NoBlank(u)
  BY <1>1 DEF NoBlank
<1>5. t.kind = "length" => Announces(u, Len(u) + 1, t.n)
  BY <1>1 DEF Announces
<1>6. t.kind # "length" => Announces(u, Len(u) + 1, n)
  BY <1>1 DEF Announces
<1> QED
  BY <1>2, <1>3, <1>4, <1>5, <1>6, TokenFacts DEF Headed, u

-----------------------------------------------------------------------------
(* When the answer to a stream is settled whatever else is sent. *)

Determined(s) ==
    /\ s # <<>>
    /\ IsRequest(s) => \E h \in 1..Len(s), n \in Nat : Headed(s, h, n) /\ h + n <= Len(s)

(* What accept_request sends for a request with these three parts. *)
AnswerTo(method, url, body) ==
    LET route == list_method_find(Site, method, stack_ptr_parse(url))
    IN  IF route = 0 THEN <<>> ELSE invoke_method(route, [url |-> url, body |-> body])

LEMMA ExpectedIs ==
  ASSUME NEW s
  PROVE  ExpectedAnswer(s) =
           IF ~ IsRequest(s) THEN bad_request
           ELSE IF AnnouncedLength(s) > 0 /\ RequestEnd(s) > Len(s) THEN NoAnswerEver
           ELSE AnswerTo(s[1].method, s[1].url, SubSeq(s, HeadersEnd(s) + 1, RequestEnd(s)))
<1>1. CASE ~ IsRequest(s)
  BY <1>1 DEF ExpectedAnswer
<1>2. CASE IsRequest(s) /\ AnnouncedLength(s) > 0 /\ RequestEnd(s) > Len(s)
  BY <1>2 DEF ExpectedAnswer
<1>3. CASE IsRequest(s) /\ ~ (AnnouncedLength(s) > 0 /\ RequestEnd(s) > Len(s))
  BY <1>3 DEF ExpectedAnswer, AnswerTo
<1> QED
  BY <1>1, <1>2, <1>3

LEMMA DeterminedKept ==
  ASSUME NEW s \in Seq(Tokens), NEW u \in Seq(Tokens), Extends(u, s), Determined(s)
  PROVE  /\ Determined(u)
         /\ ExpectedAnswer(u) = ExpectedAnswer(s)
         /\ RequestEnd(u) = RequestEnd(s) /\ RequestEnd(s) \in 1..Len(s)
<1>1. s # <<>> /\ u # <<>> /\ Len(s) >= 1 /\ Len(u) >= 1 /\ Len(s) <= Len(u)
      /\ Len(s) \in Nat /\ Len(u) \in Nat /\ u[1] = s[1]
      /\ DOMAIN s = 1..Len(s)
  BY DEF Extends, Determined
<1>2. IsRequest(u) <=> IsRequest(s)
  BY <1>1 DEF IsRequest
<1>3. CASE ~ IsRequest(s)
  BY <1>1, <1>2, <1>3 DEF Determined, ExpectedAnswer, RequestEnd
<1>4. CASE IsRequest(s)
  <2>1. PICK h \in 1..Len(s), n \in Nat : Headed(s, h, n) /\ h + n <= Len(s)
    BY <1>4 DEF Determined
  <2>2. Headed(u, h, n)
    BY <2>1, HeadedKept
  <2>3. /\ HeadersEnd(s) = h /\ AnnouncedLength(s) = n
        /\ HeadersEnd(u) = h /\ AnnouncedLength(u) = n
    BY <2>1, <2>2, HeadedIs
  <2>4. RequestEnd(s) = h + n /\ RequestEnd(u) = h + n
    BY <1>2, <1>4, <2>3 DEF RequestEnd
  <2>5. SubSeq(u, h + 1, h + n) = SubSeq(s, h + 1, h + n)
    BY <1>1, <2>1 DEF Extends
  <2>6. ExpectedAnswer(u) = ExpectedAnswer(s)
    <3>1. ~ (RequestEnd(s) > Len(s)) /\ ~ (RequestEnd(u) > Len(u))
      BY <1>1, <2>1, <2>4
    <3>2. ExpectedAnswer(s) = AnswerTo(s[1].method, s[1].url, SubSeq(s, HeadersEnd(s) + 1, RequestEnd(s)))
      BY <1>4, <3>1, ExpectedIs
    <3>3. ExpectedAnswer(u) = AnswerTo(u[1].method, u[1].url, SubSeq(u, HeadersEnd(u) + 1, RequestEnd(u)))
      BY <1>2, <1>4, <3>1, ExpectedIs
    <3> QED
      BY <1>1, <2>3, <2>4, <2>5, <3>2, <3>3
  <2>7. Determined(u)
    BY <1>1, <2>1, <2>2 DEF Determined
  <2> QED
    BY <2>1, <2>4, <2>6, <2>7
<1> QED
  BY <1>3, <1>4

-----------------------------------------------------------------------------
(* Sequences of which only their elements matter: chunks of an answer. *)

Begins(s, t) == Len(s) <= Len(t) /\ \A i \in 1..Len(s) : s[i] = t[i]

LEMMA SeqFacts ==
  ASSUME NEW s, IsSeq(s)
  PROVE  /\ Len(s) \in Nat
         /\ Len(s) = 0 <=> s = <<>>
         /\ s # <<>> => /\ Head(s) = s[1] /\ IsSeq(Tail(s)) /\ Len(Tail(s)) = Len(s) - 1
                       /\ \A i \in 1..(Len(s) - 1) : Tail(s)[i] = s[i + 1]
<1> PICK S : s \in Seq(S)
  BY DEF IsSeq
<1>1. Len(s) \in Nat /\ (Len(s) = 0 <=> s = <<>>)
  BY EmptySeq
<1>2. ASSUME s # <<>>
      PROVE  /\ Head(s) = s[1] /\ Tail(s) \in Seq(S) /\ Len(Tail(s)) = Len(s) - 1
             /\ \A i \in 1..(Len(s) - 1) : Tail(s)[i] = s[i + 1]
  BY <1>2
<1> QED
  BY <1>1, <1>2 DEF IsSeq

LEMMA AppendFacts ==
  ASSUME NEW s, IsSeq(s), NEW e
  PROVE  /\ IsSeq(Append(s, e)) /\ Len(Append(s, e)) = Len(s) + 1
         /\ Append(s, e)[Len(s) + 1] = e /\ \A i \in 1..Len(s) : Append(s, e)[i] = s[i]
<1> PICK S : s \in Seq(S)
  BY DEF IsSeq
<1>1. s \in Seq(S \cup {e}) /\ e \in S \cup {e}
  BY SeqMonotonic
<1>2. /\ Append(s, e) \in Seq(S \cup {e}) /\ Len(Append(s, e)) = Len(s) + 1
      /\ Append(s, e)[Len(s) + 1] = e /\ \A i \in 1..Len(s) : Append(s, e)[i] = s[i]
  BY <1>1, AppendProperties
<1> QED
  BY <1>2 DEF IsSeq

LEMMA SameSeq ==
  ASSUME NEW s, IsSeq(s), NEW t, IsSeq(t), Len(s) = Len(t), Begins(s, t)
  PROVE  s = t
<1> PICK S : s \in Seq(S)
  BY DEF IsSeq
<1> PICK T : t \in Seq(T)
  BY DEF IsSeq
<1>1. s \in Seq(S \cup T) /\ t \in Seq(S \cup T)
  BY SeqMonotonic
<1> QED
  BY <1>1, SeqEqual DEF Begins

LEMMA BeginsIsPrefix ==
  ASSUME NEW s, IsSeq(s), NEW t, IsSeq(t), Begins(s, t)
  PROVE  IsPrefix(s, t)
<1> PICK S : s \in Seq(S)
  BY DEF IsSeq
<1> PICK T : t \in Seq(T)
  BY DEF IsSeq
<1>1. Len(s) \in Nat /\ Len(t) \in Nat /\ Len(s) <= Len(t)
  BY DEF Begins
<1> DEFINE u == SubSeq(t, 1, Len(s))
<1>2. u \in Seq(T) /\ Len(u) = Len(s) /\ \A i \in 1..Len(s) : u[i] = t[i]
  BY <1>1, SubSeqProperties, ElementOfSeq
<1>3. SubSeq(s, 1, Len(s)) = s
  BY SubSeqFull
<1> HIDE DEF u
<1>4. s = u
  BY <1>1, <1>2, SameSeq DEF IsSeq, Begins
<1> QED
  BY <1>1, <1>3, <1>4 DEF IsPrefix, u

(* What is left of an answer that began right still begins right (LosesTail). *)
LEMMA CutBegins ==
  ASSUME NEW s, IsSeq(s), NEW t, Begins(s, t), IsSeq(t), NEW n \in 0..Len(s)
  PROVE  IsSeq(SubSeq(s, 1, n)) /\ Begins(SubSeq(s, 1, n), t)
<1> PICK S : s \in Seq(S)
  BY DEF IsSeq
<1> DEFINE u == SubSeq(s, 1, n)
<1>1. Len(s) \in Nat /\ n \in Nat /\ n <= Len(s) /\ Len(t) \in Nat
  BY SeqFacts
<1>2. u \in Seq(S) /\ Len(u) = n /\ \A i \in 1..n : u[i] = s[i]
  BY <1>1, SubSeqProperties, ElementOfSeq
<1> HIDE DEF u
<1>3. IsSeq(u)
  BY <1>2 DEF IsSeq
<1>4. Begins(u, t)
  BY <1>1, <1>2 DEF Begins
<1> QED
  BY <1>3, <1>4 DEF u

LEMMA AnswerIsSeq ==
  /\ \A route, req : IsSeq(invoke_method(route, req))
  /\ IsSeq(bad_request) /\ IsSeq(<<>>) /\ IsSeq(NoAnswerEver)
<1>1. ASSUME NEW route, NEW req PROVE IsSeq(invoke_method(route, req))
  <2> DEFINE F(i) == [part |-> AnswerParts[i], route |-> route, url |-> req.url, body |-> req.body]
  <2>1. invoke_method(route, req) = [i \in 1..4 |-> F(i)]
    BY DEF invoke_method, AnswerParts
  <2> HIDE DEF F
  <2>2. [i \in 1..4 |-> F(i)] \in Seq({F(i) : i \in 1..4})
    OBVIOUS
  <2> QED
    BY <2>1, <2>2 DEF IsSeq
<1>2. IsSeq(bad_request)
  <2> DEFINE F(i) == [part |-> BadParts[i]]
  <2>1. bad_request = [i \in 1..5 |-> F(i)]
    BY DEF bad_request, BadParts
  <2> HIDE DEF F
  <2>2. [i \in 1..5 |-> F(i)] \in Seq({F(i) : i \in 1..5})
    OBVIOUS
  <2> QED
    BY <2>1, <2>2 DEF IsSeq
<1>3. IsSeq(<<>>) /\ IsSeq(NoAnswerEver)
  <2>1. <<>> \in Seq({}) /\ NoAnswerEver \in Seq({[part |-> "none, ever"]})
    BY DEF NoAnswerEver
  <2> QED
    BY <2>1 DEF IsSeq
<1> QED
  BY <1>1, <1>2, <1>3

LEMMA ExpectedIsSeq == \A s : IsSeq(ExpectedAnswer(s))
  BY AnswerIsSeq, ExpectedIs DEF AnswerTo

-----------------------------------------------------------------------------
(* One client: cn, sc, se, wi, fi, go, gt are its conn, script, sent, wire,   *)
(* fin, gone and got.                                                          *)

(* The wire holds what was sent and not read. *)
StreamOk(sc, se, wi, fi, go) ==
    /\ sc \in Seq(Tokens) /\ wi \in Seq(Tokens) /\ se \in 0..Len(sc)
    /\ fi \in BOOLEAN /\ go \in BOOLEAN
    /\ go => fi
    /\ ~ go => /\ Len(wi) <= se
               /\ \A i \in 1..Len(wi) : wi[i] = sc[se - Len(wi) + i]

(* Nothing sent later can change the answer: the server has read the request *)
(* to its end, or everything the client will ever send.                        *)
Settled(sc, se, wi, fi) ==
    \/ fi /\ wi = <<>>
    \/ Determined(SubSeq(sc, 1, se)) /\ se - Len(wi) = RequestEnd(SubSeq(sc, 1, se))

ClientOk(cn, sc, se, wi, fi, go, gt) ==
    LET expected == ExpectedAnswer(SubSeq(sc, 1, se))
    IN  /\ StreamOk(sc, se, wi, fi, go)
        /\ IsSeq(gt) /\ Begins(gt, expected)
        /\ cn \in {"off", "queued"} => gt = <<>> /\ (~ go => Len(wi) = se)
        /\ cn = "closed" /\ ~ go => wi = <<>> /\ Settled(sc, se, wi, fi) /\ gt = expected
        /\ cn = "reset" /\ ~ go => se > RequestEnd(SubSeq(sc, 1, se))

(* What the tokens read, r, have made of the request. *)
Opened(r, req) ==
    r # <<>> /\ r[1].kind = "request" /\ req.method = r[1].method /\ req.url = r[1].url

InHeaders(r, req) == Opened(r, req) /\ NoBlank(r) /\ Announces(r, Len(r) + 1, req.length)

InBody(r, req) ==
    /\ Opened(r, req)
    /\ \E h \in 1..Len(r) :
         /\ Headed(r, h, req.length)
         /\ Len(r) = h + Len(req.body)
         /\ \A i \in 1..Len(req.body) : req.body[i] = r[h + i]

(* The chunks received and those to come make up the answer. *)
Sending(gt, ou, answer) ==
    /\ IsSeq(gt) /\ IsSeq(ou) /\ IsSeq(answer)
    /\ Len(answer) = Len(gt) + Len(ou)
    /\ Begins(gt, answer)
    /\ \A i \in 1..Len(ou) : ou[i] = answer[Len(gt) + i]

(* The client being served: where the thread is says how much of its stream   *)
(* is read, and what for.                                                      *)
ServedOk(at, req, ou, sc, se, wi, fi, gt) ==
    LET read == SubSeq(sc, 1, se - Len(wi))
        expected == ExpectedAnswer(SubSeq(sc, 1, se))
    IN  /\ at = "line" => gt = <<>> /\ Len(wi) = se
        /\ at = "headers" => gt = <<>> /\ InHeaders(read, req)
        /\ at = "body" => gt = <<>> /\ (InBody(read, req) \/ (fi /\ wi = <<>>))
        /\ at = "route" => /\ gt = <<>> /\ Settled(sc, se, wi, fi)
                          /\ AnswerTo(req.method, req.url, req.body) = expected
        /\ at = "respond" => Settled(sc, se, wi, fi) /\ Sending(gt, ou, expected)

RequestOk(at, req) ==
    /\ req = [method |-> req.method, url |-> req.url, length |-> req.length, body |-> req.body]
    /\ req.length \in Nat /\ req.body \in Seq(Tokens) /\ Len(req.body) <= req.length
    /\ at \in {"line", "headers"} => req.body = <<>>
    /\ at = "line" => req.length = 0
    /\ at = "body" => Len(req.body) < req.length

LEMMA PrefixFacts ==
  ASSUME NEW sc \in Seq(Tokens), NEW n \in 0..Len(sc)
  PROVE  /\ SubSeq(sc, 1, n) \in Seq(Tokens) /\ Len(SubSeq(sc, 1, n)) = n
         /\ \A i \in 1..n : SubSeq(sc, 1, n)[i] = sc[i]
         /\ SubSeq(sc, 1, 0) = <<>>
  OBVIOUS

(* The token recv gets next, and what is read once it is taken. *)
LEMMA NextToken ==
  ASSUME NEW sc, NEW se, NEW wi, NEW fi, StreamOk(sc, se, wi, fi, FALSE), wi # <<>>
  PROVE  LET r == SubSeq(sc, 1, se - Len(wi))
         IN  /\ Head(wi) \in Tokens
             /\ se - Len(Tail(wi)) = (se - Len(wi)) + 1
             /\ SubSeq(sc, 1, se - Len(Tail(wi))) = Append(r, Head(wi))
             /\ StreamOk(sc, se, Tail(wi), fi, FALSE)
<1> DEFINE r == SubSeq(sc, 1, se - Len(wi))
           n == se - Len(wi)
           w == Tail(wi)
<1>1. /\ sc \in Seq(Tokens) /\ wi \in Seq(Tokens) /\ se \in 0..Len(sc) /\ fi \in BOOLEAN
      /\ Len(wi) \in Nat /\ Len(wi) > 0 /\ Len(wi) <= se /\ Len(sc) \in Nat
      /\ \A i \in 1..Len(wi) : wi[i] = sc[se - Len(wi) + i]
  BY DEF StreamOk
<1>2. /\ w \in Seq(Tokens) /\ Len(w) = Len(wi) - 1 /\ Head(wi) = wi[1] /\ Head(wi) \in Tokens
      /\ \A i \in 1..Len(w) : w[i] = wi[i + 1]
  BY <1>1
<1>3. n \in 0..Len(sc) /\ n + 1 \in 0..Len(sc) /\ se - Len(w) = n + 1 /\ Head(wi) = sc[n + 1]
  BY <1>1, <1>2
<1>4. SubSeq(sc, 1, n + 1) = Append(SubSeq(sc, 1, n), sc[n + 1])
  BY <1>1, <1>3
<1> HIDE DEF w
<1>5. \A i \in 1..Len(w) : w[i] = sc[se - Len(w) + i]
  BY <1>1, <1>2, <1>3
<1>6. StreamOk(sc, se, w, fi, FALSE)
  BY <1>1, <1>2, <1>5 DEF StreamOk
<1> QED
  BY <1>2, <1>3, <1>4, <1>6 DEF w

(* What is read is the beginning of what was sent. *)
LEMMA ReadFacts ==
  ASSUME NEW sc, NEW se, NEW wi, NEW fi, StreamOk(sc, se, wi, fi, FALSE)
  PROVE  LET r == SubSeq(sc, 1, se - Len(wi))
             s == SubSeq(sc, 1, se)
         IN  /\ r \in Seq(Tokens) /\ s \in Seq(Tokens)
             /\ Len(r) = se - Len(wi) /\ Len(s) = se /\ se \in Nat
             /\ Extends(s, r)
             /\ wi = <<>> => r = s
<1>1. /\ sc \in Seq(Tokens) /\ wi \in Seq(Tokens) /\ se \in 0..Len(sc)
      /\ Len(wi) \in Nat /\ Len(wi) <= se /\ Len(sc) \in Nat /\ se - Len(wi) \in 0..Len(sc)
  BY DEF StreamOk
<1>2. wi = <<>> => se - Len(wi) = se
  BY <1>1
<1> QED
  BY <1>1, <1>2, PrefixFacts DEF Extends

-----------------------------------------------------------------------------
(* The reading of a request, token by token. *)

LEMMA SendingStarts ==
  ASSUME NEW answer, IsSeq(answer)
  PROVE  Sending(<<>>, answer, answer)
<1>1. Len(answer) \in Nat /\ IsSeq(<<>>) /\ Len(<<>>) = 0
  BY SeqFacts, AnswerIsSeq
<1> QED
  BY <1>1 DEF Sending, Begins

(* parse_method_url: an empty line, at the end of the stream. *)
LEMMA LineAtEnd ==
  ASSUME NEW sc, NEW se, NEW fi, StreamOk(sc, se, <<>>, fi, FALSE), fi, se = 0, NEW req
  PROVE  ServedOk("respond", req, bad_request, sc, se, <<>>, fi, <<>>)
<1>1. SubSeq(sc, 1, se) = <<>>
  BY DEF StreamOk
<1>2. ExpectedAnswer(SubSeq(sc, 1, se)) = bad_request
  BY <1>1, ExpectedIs DEF IsRequest
<1>3. Sending(<<>>, bad_request, bad_request)
  BY SendingStarts, AnswerIsSeq
<1> QED
  BY <1>2, <1>3 DEF ServedOk, Settled

(* parse_method_url: a line that is no request line. *)
LEMMA LineIsBad ==
  ASSUME NEW sc, NEW se, NEW wi, NEW fi, StreamOk(sc, se, wi, fi, FALSE),
         Len(wi) = se, wi # <<>>, Head(wi).kind # "request", NEW req
  PROVE  ServedOk("respond", req, bad_request, sc, se, Tail(wi), fi, <<>>)
<1> DEFINE s == SubSeq(sc, 1, se)
           w == Tail(wi)
<1>1. Head(wi) \in Tokens /\ se - Len(w) = 1 /\ StreamOk(sc, se, w, fi, FALSE)
  BY NextToken DEF StreamOk
<1>2. s \in Seq(Tokens) /\ Len(s) = se /\ se >= 1 /\ s[1] = Head(wi)
  BY DEF StreamOk
<1> HIDE DEF s, w
<1>3. s # <<>> /\ ~ IsRequest(s)
  BY <1>2 DEF IsRequest
<1>4. Determined(s) /\ RequestEnd(s) = 1
  BY <1>3 DEF Determined, RequestEnd
<1>5. ExpectedAnswer(s) = bad_request
  BY <1>3, ExpectedIs
<1>6. Sending(<<>>, bad_request, bad_request)
  BY SendingStarts, AnswerIsSeq
<1> QED
  BY <1>1, <1>4, <1>5, <1>6 DEF ServedOk, Settled, s, w

(* parse_method_url: a request line. *)
LEMMA LineIsRequest ==
  ASSUME NEW sc, NEW se, NEW wi, NEW fi, StreamOk(sc, se, wi, fi, FALSE),
         Len(wi) = se, wi # <<>>, Head(wi).kind = "request", NEW req, NEW ou,
         req.method = Head(wi).method, req.url = Head(wi).url, req.length = 0
  PROVE  ServedOk("headers", req, ou, sc, se, Tail(wi), fi, <<>>)
<1> DEFINE r == SubSeq(sc, 1, se - Len(Tail(wi)))
<1>1. Head(wi) \in Tokens /\ r = Append(SubSeq(sc, 1, se - Len(wi)), Head(wi))
  BY NextToken, ZenonT(60)
<1>2. SubSeq(sc, 1, se - Len(wi)) = <<>>
  BY DEF StreamOk
<1> HIDE DEF r
<1>3. r = Append(<<>>, Head(wi))
  BY <1>1, <1>2
<1>4. r \in Seq(Tokens) /\ Len(r) = 1 /\ r[1] = Head(wi) /\ r # <<>>
  BY <1>1, <1>3
<1>5. InHeaders(r, req)
  BY <1>4 DEF InHeaders, Opened, NoBlank, Announces
<1> QED
  BY <1>5 DEF ServedOk, r

LEMMA SliceIs ==
  ASSUME NEW T, NEW s \in Seq(T), NEW b \in Seq(T), NEW h \in Nat,
         h + Len(b) <= Len(s), \A i \in 1..Len(b) : b[i] = s[h + i]
  PROVE  SubSeq(s, h + 1, h + Len(b)) = b
<1> DEFINE u == SubSeq(s, h + 1, h + Len(b))
<1>1. Len(b) \in Nat /\ Len(s) \in Nat
  OBVIOUS
<1>2. \A i \in (h + 1)..(h + Len(b)) : s[i] \in T
  BY <1>1, ElementOfSeq
<1>3. u \in Seq(T) /\ Len(u) = Len(b) /\ \A i \in 1..Len(b) : u[i] = s[h + i]
  BY <1>1, <1>2, SubSeqProperties
<1> HIDE DEF u
<1>4. u = b
  BY <1>1, <1>3, SeqEqual
<1> QED
  BY <1>4 DEF u

(* A request read to its end: the handler is given what was asked. *)
LEMMA RequestRead ==
  ASSUME NEW sc, NEW se, NEW wi, NEW fi, StreamOk(sc, se, wi, fi, FALSE), NEW req, NEW ou,
         RequestOk("route", req),
         InBody(SubSeq(sc, 1, se - Len(wi)), req), Len(req.body) = req.length
  PROVE  ServedOk("route", req, ou, sc, se, wi, fi, <<>>)
<1> DEFINE s == SubSeq(sc, 1, se)
           r == SubSeq(sc, 1, se - Len(wi))
<1>1. /\ r \in Seq(Tokens) /\ s \in Seq(Tokens) /\ Len(r) = se - Len(wi) /\ Len(s) = se
      /\ Extends(s, r)
  <2>1. Len(r) = se - Len(wi)
    BY DEF StreamOk
  <2>2. r \in Seq(Tokens) /\ s \in Seq(Tokens) /\ Len(s) = se
    BY ReadFacts
  <2>3. Extends(s, r)
    BY ReadFacts
  <2> QED
    BY <2>1, <2>2, <2>3
<1> HIDE DEF s, r
<1>2. Opened(r, req) /\ r # <<>>
  BY DEF InBody, Opened, r
<1>3. PICK h \in 1..Len(r) :
         /\ Headed(r, h, req.length)
         /\ Len(r) = h + Len(req.body)
         /\ \A i \in 1..Len(req.body) : req.body[i] = r[h + i]
  BY DEF InBody, r
<1>4. /\ Len(r) \in Nat /\ Len(s) \in Nat /\ Len(r) <= Len(s) /\ Len(r) >= 1
      /\ s # <<>> /\ s[1] = r[1] /\ \A i \in 1..Len(r) : s[i] = r[i]
  BY <1>1, <1>2 DEF Extends
<1>5. IsRequest(s) /\ req.method = s[1].method /\ req.url = s[1].url
  BY <1>2, <1>4 DEF IsRequest, Opened
<1>6. Headed(s, h, req.length)
  BY <1>1, <1>3, HeadedKept
<1>7. HeadersEnd(s) = h /\ AnnouncedLength(s) = req.length /\ RequestEnd(s) = h + req.length
  BY <1>1, <1>5, <1>6, HeadedIs DEF RequestEnd
<1>8. req.length \in Nat /\ req.body \in Seq(Tokens) /\ h + req.length = Len(r) /\ h \in 1..Len(s)
  BY <1>3, <1>4 DEF RequestOk
<1>9. Determined(s)
  BY <1>4, <1>6, <1>8 DEF Determined
<1>10. SubSeq(s, h + 1, h + req.length) = req.body
  <2>1. h \in Nat /\ h + Len(req.body) <= Len(s) /\ \A i \in 1..Len(req.body) : req.body[i] = s[h + i]
    BY <1>3, <1>4, <1>8
  <2> QED
    BY <1>1, <1>8, <2>1, SliceIs
<1>11. ExpectedAnswer(s) = AnswerTo(req.method, req.url, req.body)
  <2>1. ~ (RequestEnd(s) > Len(s))
    BY <1>4, <1>7, <1>8
  <2>2. ExpectedAnswer(s) = AnswerTo(s[1].method, s[1].url, SubSeq(s, HeadersEnd(s) + 1, RequestEnd(s)))
    BY <1>5, <2>1, ExpectedIs
  <2> QED
    BY <1>5, <1>7, <1>10, <2>2
<1>12. Settled(sc, se, wi, fi)
  BY <1>1, <1>7, <1>8, <1>9 DEF Settled, s
<1> QED
  BY <1>11, <1>12 DEF ServedOk, s

(* parse_headers: a header line; its length is the one that counts. *)
LEMMA HeaderLine ==
  ASSUME NEW sc, NEW se, NEW wi, NEW fi, StreamOk(sc, se, wi, fi, FALSE), wi # <<>>,
         NEW req, RequestOk("headers", req), InHeaders(SubSeq(sc, 1, se - Len(wi)), req),
         Head(wi).kind # "blank",
         NEW new, new.method = req.method, new.url = req.url,
         new.length = IF Head(wi).kind = "length" THEN Head(wi).n ELSE req.length
  PROVE  InHeaders(SubSeq(sc, 1, se - Len(Tail(wi))), new)
<1> DEFINE r == SubSeq(sc, 1, se - Len(wi))
           t == Head(wi)
           u == Append(r, t)
<1>1. t \in Tokens /\ SubSeq(sc, 1, se - Len(Tail(wi))) = u
  BY NextToken
<1>2. r \in Seq(Tokens) /\ r # <<>> /\ InHeaders(r, req) /\ req.length \in Nat
  BY ReadFacts DEF InHeaders, Opened, RequestOk
<1> HIDE DEF r, t
<1>3. u # <<>> /\ u[1] = r[1] /\ Len(u) = Len(r) + 1
  BY <1>1, <1>2
<1>4. NoBlank(u) /\ Announces(u, Len(u) + 1, new.length)
  BY <1>1, <1>2, NextHeader DEF InHeaders, t
<1> HIDE DEF u
<1>5. InHeaders(u, new)
  BY <1>2, <1>3, <1>4 DEF InHeaders, Opened
<1> QED
  BY <1>1, <1>5

(* parse_headers: the blank line. *)
LEMMA HeaderBlank ==
  ASSUME NEW sc, NEW se, NEW wi, NEW fi, StreamOk(sc, se, wi, fi, FALSE), wi # <<>>,
         NEW req, RequestOk("headers", req), InHeaders(SubSeq(sc, 1, se - Len(wi)), req),
         Head(wi).kind = "blank"
  PROVE  InBody(SubSeq(sc, 1, se - Len(Tail(wi))), req)
<1> DEFINE r == SubSeq(sc, 1, se - Len(wi))
           t == Head(wi)
           u == Append(r, t)
<1>1. t \in Tokens /\ SubSeq(sc, 1, se - Len(Tail(wi))) = u
  BY NextToken
<1>2. r \in Seq(Tokens) /\ r # <<>> /\ InHeaders(r, req) /\ req.length \in Nat /\ Len(req.body) = 0
  BY ReadFacts DEF InHeaders, Opened, RequestOk
<1> HIDE DEF r, t
<1>3. u # <<>> /\ u[1] = r[1] /\ Len(u) = Len(r) + 1 /\ Len(r) \in Nat
  BY <1>1, <1>2
<1>4. Headed(u, Len(r) + 1, req.length)
  BY <1>1, <1>2, NextHeader DEF InHeaders, t
<1> HIDE DEF u
<1>5. InBody(u, req)
  <2>1. Opened(u, req)
    BY <1>2, <1>3 DEF InHeaders, Opened
  <2>2. /\ Len(r) + 1 \in 1..Len(u) /\ Len(u) = (Len(r) + 1) + Len(req.body)
        /\ \A i \in 1..Len(req.body) : req.body[i] = u[(Len(r) + 1) + i]
    BY <1>2, <1>3
  <2> QED
    BY <1>4, <2>1, <2>2 DEF InBody
<1> QED
  BY <1>1, <1>5

(* parse_headers: the end of the stream ends the headers too. *)
LEMMA HeadersAtEnd ==
  ASSUME NEW sc, NEW se, NEW fi, StreamOk(sc, se, <<>>, fi, FALSE), fi,
         NEW req, NEW ou, RequestOk("headers", req), InHeaders(SubSeq(sc, 1, se), req), req.length = 0
  PROVE  ServedOk("route", req, ou, sc, se, <<>>, fi, <<>>)
<1> DEFINE s == SubSeq(sc, 1, se)
<1>1. s \in Seq(Tokens) /\ Len(s) = se /\ se \in Nat
  BY DEF StreamOk
<1> HIDE DEF s
<1>2. /\ NoBlank(s) /\ Announces(s, Len(s) + 1, 0) /\ IsRequest(s)
      /\ req.method = s[1].method /\ req.url = s[1].url /\ req.body = <<>>
  BY DEF InHeaders, Opened, IsRequest, RequestOk, s
<1>3. HeadersEnd(s) = Len(s) + 1 /\ AnnouncedLength(s) = 0
  BY <1>1, <1>2, OpenHeadedIs
<1>4. RequestEnd(s) = Len(s) + 1
  BY <1>1, <1>2, <1>3 DEF RequestEnd
<1>5. SubSeq(s, Len(s) + 2, Len(s) + 1) = <<>>
  BY <1>1
<1>6. ExpectedAnswer(s) = AnswerTo(s[1].method, s[1].url, SubSeq(s, HeadersEnd(s) + 1, RequestEnd(s)))
  BY <1>2, <1>3, ExpectedIs
<1>7. (Len(s) + 1) + 1 = Len(s) + 2
  BY <1>1
<1>8. ExpectedAnswer(s) = AnswerTo(req.method, req.url, req.body)
  BY <1>2, <1>3, <1>4, <1>5, <1>6, <1>7
<1> QED
  BY <1>8 DEF ServedOk, Settled, s

(* read_data: one byte. *)
LEMMA BodyByte ==
  ASSUME NEW sc, NEW se, NEW wi, NEW fi, StreamOk(sc, se, wi, fi, FALSE), wi # <<>>,
         NEW req, RequestOk("body", req), InBody(SubSeq(sc, 1, se - Len(wi)), req),
         NEW new, new.method = req.method, new.url = req.url, new.length = req.length,
         new.body = Append(req.body, Head(wi))
  PROVE  InBody(SubSeq(sc, 1, se - Len(Tail(wi))), new)
<1> DEFINE r == SubSeq(sc, 1, se - Len(wi))
           t == Head(wi)
           u == Append(r, t)
<1>1. t \in Tokens /\ SubSeq(sc, 1, se - Len(Tail(wi))) = u
  BY NextToken
<1>2. r \in Seq(Tokens) /\ r # <<>> /\ InBody(r, req) /\ req.body \in Seq(Tokens)
  BY ReadFacts DEF InBody, Opened, RequestOk
<1> HIDE DEF r, t
<1>3. /\ u \in Seq(Tokens) /\ u # <<>> /\ u[1] = r[1] /\ Len(u) = Len(r) + 1 /\ Len(r) \in Nat
      /\ u[Len(r) + 1] = t /\ \A i \in 1..Len(r) : u[i] = r[i]
  BY <1>1, <1>2
<1>4. /\ Len(new.body) = Len(req.body) + 1 /\ Len(req.body) \in Nat
      /\ new.body[Len(req.body) + 1] = t
      /\ \A i \in 1..Len(req.body) : new.body[i] = req.body[i]
  BY <1>1, <1>2 DEF t
<1> HIDE DEF u
<1>5. PICK h \in 1..Len(r) :
         /\ Headed(r, h, req.length)
         /\ Len(r) = h + Len(req.body)
         /\ \A i \in 1..Len(req.body) : req.body[i] = r[h + i]
  BY <1>2 DEF InBody
<1>6. Headed(u, h, new.length)
  <2>1. Extends(u, r)
    BY <1>3 DEF Extends
  <2> QED
    BY <1>2, <1>3, <1>5, <2>1, HeadedKept
<1>7. Len(u) = h + Len(new.body) /\ h \in 1..Len(u)
  BY <1>3, <1>4, <1>5
<1>8. \A i \in 1..Len(new.body) : new.body[i] = u[h + i]
  <2> SUFFICES ASSUME NEW i \in 1..Len(new.body) PROVE new.body[i] = u[h + i]
    OBVIOUS
  <2>1. CASE i \in 1..Len(req.body)
    <3>1. h + i \in 1..Len(r)
      BY <1>3, <1>4, <1>5, <2>1
    <3> QED
      BY <1>3, <1>4, <1>5, <2>1, <3>1
  <2>2. CASE i = Len(req.body) + 1
    <3>1. h + i = Len(r) + 1
      BY <1>3, <1>4, <1>5, <2>2
    <3> QED
      BY <1>3, <1>4, <2>2, <3>1
  <2> QED
    BY <1>4, <2>1, <2>2
<1>9. Opened(u, new)
  BY <1>2, <1>3 DEF InBody, Opened
<1> QED
  BY <1>1, <1>6, <1>7, <1>8, <1>9 DEF InBody

(* send: one chunk more received. *)
LEMMA ChunkSent ==
  ASSUME NEW gt, NEW ou, NEW answer, Sending(gt, ou, answer), ou # <<>>
  PROVE  Sending(Append(gt, Head(ou)), Tail(ou), answer)
<1> DEFINE g == Append(gt, Head(ou))
           w == Tail(ou)
<1>1. /\ IsSeq(gt) /\ IsSeq(ou) /\ IsSeq(answer) /\ Len(gt) \in Nat /\ Len(ou) \in Nat /\ Len(ou) > 0
      /\ Len(answer) = Len(gt) + Len(ou)
      /\ \A i \in 1..Len(gt) : gt[i] = answer[i]
      /\ \A i \in 1..Len(ou) : ou[i] = answer[Len(gt) + i]
  BY SeqFacts DEF Sending, Begins
<1>2. /\ IsSeq(w) /\ Len(w) = Len(ou) - 1 /\ Head(ou) = ou[1]
      /\ \A i \in 1..(Len(ou) - 1) : w[i] = ou[i + 1]
  BY <1>1, SeqFacts
<1>3. /\ IsSeq(g) /\ Len(g) = Len(gt) + 1 /\ g[Len(gt) + 1] = ou[1]
      /\ \A i \in 1..Len(gt) : g[i] = gt[i]
  BY <1>1, <1>2, AppendFacts
<1> HIDE DEF g, w
<1>4. Begins(g, answer)
  <2>1. answer[Len(gt) + 1] = ou[1]
    BY <1>1
  <2>2. \A i \in 1..Len(g) : i \in 1..Len(gt) \/ i = Len(gt) + 1
    BY <1>1, <1>3
  <2>3. Len(g) <= Len(answer)
    BY <1>1, <1>3
  <2> QED
    BY <1>1, <1>3, <2>1, <2>2, <2>3 DEF Begins
<1>5. Len(answer) = Len(g) + Len(w) /\ \A i \in 1..Len(w) : w[i] = answer[Len(g) + i]
  BY <1>1, <1>2, <1>3
<1>6. Sending(g, w, answer)
  BY <1>1, <1>2, <1>3, <1>4, <1>5 DEF Sending
<1> QED
  BY <1>6 DEF g, w

LEMMA AllSent ==
  ASSUME NEW gt, NEW answer, Sending(gt, <<>>, answer)
  PROVE  gt = answer
<1>1. Len(gt) \in Nat /\ Len(<<>>) = 0 /\ Len(answer) = Len(gt)
  BY SeqFacts DEF Sending
<1> QED
  BY <1>1, SameSeq DEF Sending

-----------------------------------------------------------------------------
(* One client sends a token more. *)

LEMMA StreamGrows ==
  ASSUME NEW sc, NEW se, NEW wi, StreamOk(sc, se, wi, FALSE, FALSE), se < Len(sc)
  PROVE  LET w == Append(wi, sc[se + 1])
         IN  /\ StreamOk(sc, se + 1, w, FALSE, FALSE)
             /\ (se + 1) - Len(w) = se - Len(wi)
             /\ SubSeq(sc, 1, se) \in Seq(Tokens) /\ SubSeq(sc, 1, se + 1) \in Seq(Tokens)
             /\ Extends(SubSeq(sc, 1, se + 1), SubSeq(sc, 1, se))
<1> DEFINE w == Append(wi, sc[se + 1])
<1>1. /\ sc \in Seq(Tokens) /\ wi \in Seq(Tokens) /\ se \in 0..Len(sc) /\ se + 1 \in 0..Len(sc)
      /\ Len(wi) \in Nat /\ Len(wi) <= se /\ Len(sc) \in Nat
      /\ \A i \in 1..Len(wi) : wi[i] = sc[se - Len(wi) + i]
  BY DEF StreamOk
<1>2. sc[se + 1] \in Tokens
  BY <1>1
<1>3. /\ w \in Seq(Tokens) /\ Len(w) = Len(wi) + 1 /\ w[Len(wi) + 1] = sc[se + 1]
      /\ \A i \in 1..Len(wi) : w[i] = wi[i]
  BY <1>1, <1>2
<1>4. (se + 1) - Len(w) = se - Len(wi)
  BY <1>1, <1>3
<1> HIDE DEF w
<1>5. \A i \in 1..Len(w) : w[i] = sc[(se + 1) - Len(w) + i]
  <2> SUFFICES ASSUME NEW i \in 1..Len(w) PROVE w[i] = sc[(se - Len(wi)) + i]
    BY <1>4
  <2>1. CASE i \in 1..Len(wi)
    BY <1>1, <1>3, <2>1
  <2>2. CASE i = Len(wi) + 1
    <3>1. (se - Len(wi)) + i = se + 1
      BY <1>1, <2>2
    <3> QED
      BY <1>3, <2>2, <3>1
  <2> QED
    BY <1>1, <1>3, <2>1, <2>2
<1>6. StreamOk(sc, se + 1, w, FALSE, FALSE)
  BY <1>1, <1>3, <1>5 DEF StreamOk
<1>7. /\ SubSeq(sc, 1, se) \in Seq(Tokens) /\ SubSeq(sc, 1, se + 1) \in Seq(Tokens)
      /\ Extends(SubSeq(sc, 1, se + 1), SubSeq(sc, 1, se))
  BY <1>1, PrefixFacts DEF Extends
<1> QED
  BY <1>4, <1>6, <1>7 DEF w

(* Once settled, the answer is settled. *)
LEMMA SettledKept ==
  ASSUME NEW sc, NEW se, NEW wi, StreamOk(sc, se, wi, FALSE, FALSE), se < Len(sc),
         Settled(sc, se, wi, FALSE)
  PROVE  /\ ExpectedAnswer(SubSeq(sc, 1, se + 1)) = ExpectedAnswer(SubSeq(sc, 1, se))
         /\ RequestEnd(SubSeq(sc, 1, se + 1)) = RequestEnd(SubSeq(sc, 1, se))
         /\ RequestEnd(SubSeq(sc, 1, se)) = se - Len(wi)
         /\ Settled(sc, se + 1, Append(wi, sc[se + 1]), FALSE)
<1> DEFINE s == SubSeq(sc, 1, se)
           u == SubSeq(sc, 1, se + 1)
           w == Append(wi, sc[se + 1])
<1>1. Determined(s) /\ se - Len(wi) = RequestEnd(s)
  BY DEF Settled
<1>2. s \in Seq(Tokens) /\ u \in Seq(Tokens)
  BY StreamGrows
<1>3. Extends(u, s)
  BY StreamGrows
<1>4. (se + 1) - Len(w) = se - Len(wi)
  BY DEF StreamOk
<1> HIDE DEF s, u, w
<1>5. Determined(u) /\ ExpectedAnswer(u) = ExpectedAnswer(s) /\ RequestEnd(u) = RequestEnd(s)
  BY <1>1, <1>2, <1>3, DeterminedKept
<1>6. Settled(sc, se + 1, w, FALSE)
  BY <1>1, <1>4, <1>5 DEF Settled, u
<1> QED
  BY <1>1, <1>5, <1>6 DEF s, u, w

(* What is being made of its request does not change. *)
LEMMA ServedMeanwhile ==
  ASSUME NEW sc, NEW se, NEW wi, StreamOk(sc, se, wi, FALSE, FALSE), se < Len(sc),
         NEW at, NEW req, NEW ou, NEW gt, ServedOk(at, req, ou, sc, se, wi, FALSE, gt)
  PROVE  ServedOk(at, req, ou, sc, se + 1, Append(wi, sc[se + 1]), FALSE, gt)
<1> DEFINE w == Append(wi, sc[se + 1])
<1>1. (se + 1) - Len(w) = se - Len(wi)
  BY DEF StreamOk
<1>2. Len(wi) = se => Len(w) = se + 1
  BY DEF StreamOk
<1>3. Settled(sc, se, wi, FALSE) =>
        /\ ExpectedAnswer(SubSeq(sc, 1, se + 1)) = ExpectedAnswer(SubSeq(sc, 1, se))
        /\ Settled(sc, se + 1, w, FALSE)
  BY SettledKept
<1> HIDE DEF w
<1>4. ServedOk(at, req, ou, sc, se + 1, w, FALSE, gt)
  BY <1>1, <1>2, <1>3 DEF ServedOk
<1> QED
  BY <1>4 DEF w

LEMMA EmptyBegins == \A t : IsSeq(t) => IsSeq(<<>>) /\ Begins(<<>>, t)
  BY SeqFacts, AnswerIsSeq DEF Begins

(* A client of the queue, or the one being served, sends a token. *)
LEMMA SendKeepsClient ==
  ASSUME NEW cn \in {"queued", "open"}, NEW sc, NEW se, NEW wi, NEW go, NEW gt,
         ClientOk(cn, sc, se, wi, FALSE, go, gt), se < Len(sc),
         cn = "open" => gt = <<>> \/ Settled(sc, se, wi, FALSE)
  PROVE  ClientOk(cn, sc, se + 1, Append(wi, sc[se + 1]), FALSE, go, gt)
<1> DEFINE w == Append(wi, sc[se + 1])
<1>1. StreamOk(sc, se, wi, FALSE, FALSE) /\ go = FALSE
  BY DEF ClientOk, StreamOk
<1>2. StreamOk(sc, se + 1, w, FALSE, FALSE)
  BY <1>1, StreamGrows
<1>3. Len(wi) = se => Len(w) = se + 1
  BY <1>1 DEF StreamOk
<1> HIDE DEF w
<1>4. IsSeq(gt) /\ Begins(gt, ExpectedAnswer(SubSeq(sc, 1, se + 1)))
  <2>1. CASE gt = <<>>
    BY <2>1, EmptyBegins, ExpectedIsSeq
  <2>2. CASE gt # <<>>
    BY <1>1, <2>2, SettledKept DEF ClientOk
  <2> QED
    BY <2>1, <2>2
<1>5. ClientOk(cn, sc, se + 1, w, FALSE, go, gt)
  BY <1>1, <1>2, <1>3, <1>4 DEF ClientOk
<1> QED
  BY <1>5 DEF w

(* A client sends to a closed socket, and is answered with a reset. *)
LEMMA ResetKeepsClient ==
  ASSUME NEW sc, NEW se, NEW wi, NEW go, NEW gt,
         ClientOk("closed", sc, se, wi, FALSE, go, gt), se < Len(sc), NEW n \in 0..Len(gt)
  PROVE  ClientOk("reset", sc, se + 1, wi, FALSE, go, SubSeq(gt, 1, n))
<1>1. StreamOk(sc, se, wi, FALSE, FALSE) /\ go = FALSE /\ wi = <<>> /\ Settled(sc, se, wi, FALSE)
  BY DEF ClientOk, StreamOk
<1>2. /\ ExpectedAnswer(SubSeq(sc, 1, se + 1)) = ExpectedAnswer(SubSeq(sc, 1, se))
      /\ RequestEnd(SubSeq(sc, 1, se + 1)) = se
  <2>1. se - Len(wi) = se
    BY <1>1 DEF StreamOk
  <2>2. /\ ExpectedAnswer(SubSeq(sc, 1, se + 1)) = ExpectedAnswer(SubSeq(sc, 1, se))
        /\ RequestEnd(SubSeq(sc, 1, se + 1)) = RequestEnd(SubSeq(sc, 1, se))
        /\ RequestEnd(SubSeq(sc, 1, se)) = se - Len(wi)
    BY <1>1, SettledKept
  <2> QED
    BY <2>1, <2>2
<1>3. IsSeq(SubSeq(gt, 1, n)) /\ Begins(SubSeq(gt, 1, n), ExpectedAnswer(SubSeq(sc, 1, se)))
  BY CutBegins, ExpectedIsSeq DEF ClientOk
<1>4. StreamOk(sc, se + 1, wi, FALSE, FALSE)
  BY <1>1 DEF StreamOk
<1>5. se + 1 > se
  BY <1>1 DEF StreamOk
<1> HIDE DEF ClientOk
<1> QED
  BY <1>1, <1>2, <1>3, <1>4, <1>5 DEF ClientOk

-----------------------------------------------------------------------------
(* The state.  Queue and connections tell the same; a connection is open just *)
(* while its client has its turn.                                              *)
QueueInv ==
    /\ IsInjective(backlog)
    /\ \A c \in Client : conn[c] = "queued" => \E i \in DOMAIN backlog : backlog[i] = c
    /\ sig # "exited" => \A i \in DOMAIN backlog : conn[backlog[i]] = "queued"
    /\ \A c \in Client : conn[c] = "open" => current = c /\ sig # "exited"
    /\ current \in Client /\ sig # "exited" => conn[current] = "open"

LEMMA QueueInvInit == Init => QueueInv
<1> SUFFICES ASSUME Init PROVE QueueInv
  OBVIOUS
<1>1. backlog = <<>> /\ DOMAIN backlog = {}
  BY DEF Init
<1> QED
  BY <1>1, NoClientAssumption DEF Init, QueueInv, IsInjective

(* The queue without its first client. *)
LEMMA QueueTail ==
  ASSUME TurnInv, QueueInv, sig = "none", backlog # <<>>
  PROVE  /\ Head(backlog) \in Client /\ conn[Head(backlog)] = "queued"
         /\ IsInjective(Tail(backlog))
         /\ \A i \in DOMAIN Tail(backlog) :
              Tail(backlog)[i] \in Client \ {Head(backlog)} /\ conn[Tail(backlog)[i]] = "queued"
         /\ \A c \in Client \ {Head(backlog)} :
              conn[c] = "queued" => \E i \in DOMAIN Tail(backlog) : Tail(backlog)[i] = c
<1> DEFINE q == Tail(backlog)
           h == Head(backlog)
<1>1. /\ backlog \in Seq(Client) /\ Len(backlog) \in Nat /\ Len(backlog) > 0
      /\ DOMAIN backlog = 1..Len(backlog) /\ h = backlog[1] /\ h \in Client
      /\ q \in Seq(Client) /\ Len(q) = Len(backlog) - 1 /\ DOMAIN q = 1..Len(q)
      /\ \A i \in 1..Len(q) : q[i] = backlog[i + 1] /\ q[i] \in Client
  BY DEF TurnInv
<1>2. \A i, j \in 1..Len(backlog) : backlog[i] = backlog[j] => i = j
  BY <1>1 DEF QueueInv, IsInjective
<1>3. \A i \in 1..Len(backlog) : conn[backlog[i]] = "queued"
  BY <1>1 DEF QueueInv
<1> HIDE DEF q, h
<1>4. IsInjective(q)
  BY <1>1, <1>2 DEF IsInjective
<1>5. \A i \in DOMAIN q : q[i] \in Client \ {h} /\ conn[q[i]] = "queued"
  BY <1>1, <1>2, <1>3
<1>6. ASSUME NEW c \in Client \ {h}, conn[c] = "queued"
      PROVE  \E i \in DOMAIN q : q[i] = c
  <2>1. PICK i \in 1..Len(backlog) : backlog[i] = c
    BY <1>1, <1>6 DEF QueueInv
  <2>2. i - 1 \in 1..Len(q) /\ q[i - 1] = c
    BY <1>1, <1>6, <2>1
  <2> QED
    BY <1>1, <2>2
<1> QED
  BY <1>1, <1>3, <1>4, <1>5, <1>6 DEF q, h

LEMMA QueueInvStep ==
  ASSUME TurnInv, ShutdownInv, QueueInv, [Next]_vars
  PROVE  QueueInv'
<1>0. /\ conn \in [Client -> {"off", "queued", "open", "closed", "reset", "cut"}]
      /\ backlog \in Seq(Client)
  BY DEF ShutdownInv, EndInv, TurnInv
<1>1. ASSUME NEW c \in Client, Connect(c) PROVE QueueInv'
  <2>1. /\ sig # "exited" /\ conn[c] = "off" /\ conn' = [conn EXCEPT ![c] = "queued"]
        /\ backlog' = Append(backlog, c) /\ sig' = sig /\ current' = current
    BY <1>1 DEF Connect, ShutdownInv, PortInv, server
  <2>2. /\ Len(backlog) \in Nat /\ DOMAIN backlog = 1..Len(backlog)
        /\ DOMAIN backlog' = 1..(Len(backlog) + 1)
        /\ backlog'[Len(backlog) + 1] = c /\ \A i \in 1..Len(backlog) : backlog'[i] = backlog[i]
    BY <1>0, <2>1
  <2>3. \A i \in 1..Len(backlog) : backlog[i] # c /\ backlog[i] \in Client /\ conn[backlog[i]] = "queued"
    BY <1>0, <2>1, <2>2 DEF QueueInv
  <2>4. IsInjective(backlog)'
    BY <2>2, <2>3 DEF QueueInv, IsInjective
  <2>5. \A i \in 1..(Len(backlog) + 1) : conn'[backlog'[i]] = "queued"
    BY <1>0, <2>1, <2>2, <2>3
  <2>6. ASSUME NEW d \in Client, conn'[d] = "queued"
        PROVE  \E i \in DOMAIN backlog' : backlog'[i] = d
    BY <1>0, <2>1, <2>2, <2>6 DEF QueueInv
  <2>7. \A d \in Client : conn'[d] = "open" <=> conn[d] = "open"
    BY <1>0, <2>1
  <2> QED
    BY <2>1, <2>2, <2>4, <2>5, <2>6, <2>7 DEF QueueInv
<1>2. ASSUME NEW c \in Client, Send(c) PROVE QueueInv'
  <2>1. /\ UNCHANGED <<backlog, sig, current>>
        /\ conn' = conn \/ (conn[c] = "closed" /\ conn' = [conn EXCEPT ![c] = "reset"])
    BY <1>2 DEF Send, server, serving
  <2>2. \A d \in Client, k \in {"queued", "open"} : conn'[d] = k <=> conn[d] = k
    BY <1>0, <2>1
  <2>3. \A i \in DOMAIN backlog : backlog[i] \in Client
    BY <1>0
  <2> QED
    BY <2>1, <2>2, <2>3 DEF QueueInv, IsInjective
<1>3. CASE accept
  <2>1. sig = "none" /\ keep /\ backlog # <<>> /\ current = NoClient
    BY <1>3 DEF accept, At, ShutdownInv, EndInv, TurnInv
  <2>2. /\ current' = Head(backlog) /\ backlog' = Tail(backlog) /\ sig' = sig
        /\ conn' = [conn EXCEPT ![Head(backlog)] = "open"]
    BY <1>3, <2>1 DEF accept
  <2> QED
    BY <1>0, <2>1, <2>2, QueueTail, NoClientAssumption DEF QueueInv, IsInjective
<1>4. CASE AcceptFails
  <2>1. sig = "none" /\ backlog # <<>> /\ current = NoClient
    BY <1>4 DEF AcceptFails, At, TurnInv
  <2>2. /\ UNCHANGED <<current, sig>> /\ backlog' = Tail(backlog)
        /\ conn' = [conn EXCEPT ![Head(backlog)] = "reset"]
    BY <1>4 DEF AcceptFails, server
  <2> QED
    BY <1>0, <2>1, <2>2, QueueTail, NoClientAssumption DEF QueueInv, IsInjective
<1>5. CASE CloseClient
  <2>1. /\ sig = "none" /\ current \in Client /\ conn[current] = "open"
    BY <1>5 DEF CloseClient, At, TurnInv, QueueInv
  <2>2. /\ UNCHANGED <<backlog, sig>> /\ current' = NoClient
        /\ conn' = [conn EXCEPT ![current] = CloseSocket(current)]
        /\ CloseSocket(current) \in {"closed", "reset"}
    BY <1>5 DEF CloseClient, CloseSocket
  <2>3. \A i \in DOMAIN backlog : backlog[i] \in Client
    BY <1>0
  <2> QED
    BY <1>0, <2>1, <2>2, <2>3, NoClientAssumption DEF QueueInv, IsInjective
<1>6. CASE Exit
  <2>1. /\ UNCHANGED <<backlog, current>> /\ sig' = "exited"
        /\ \A c \in Client : conn'[c] \notin {"queued", "open"}
    BY <1>6 DEF Exit, serving
  <2> QED
    BY <2>1 DEF QueueInv, IsInjective
<1>7. CASE dino_signal_shutdown
  BY <1>7 DEF dino_signal_shutdown, serving, clients, QueueInv, IsInjective
<1>11. CASE ClearServerSocket \/ CloseServerSocket
  BY <1>11 DEF ClearServerSocket, CloseServerSocket, serving, clients, QueueInv, IsInjective
<1>8. CASE \/ startup_connection \/ AssignServerSocket
           \/ parse_method_url \/ parse_headers \/ read_data \/ accept_request \/ send
  <2>1. UNCHANGED <<backlog, conn, current>> /\ sig = "none" /\ sig' = "none"
    BY <1>8 DEF startup_connection, AssignServerSocket, parse_method_url, parse_headers, read_data,
       accept_request, send, At, serving, clients, dino_signal_SIGPIPE
  <2> QED
    BY <2>1 DEF QueueInv, IsInjective
<1>9. ASSUME NEW c \in Client, HalfClose(c) \/ HangUp(c) \/ TakeIn(c) PROVE QueueInv'
  <2>1. UNCHANGED <<backlog, conn, current, sig>>
    BY <1>9 DEF HalfClose, HangUp, TakeIn, server, serving, clients
  <2> QED
    BY <2>1 DEF QueueInv, IsInjective
<1>10. CASE UNCHANGED vars
  BY <1>10 DEF vars, server, serving, clients, QueueInv, IsInjective
<1> QED
  BY <1>1, <1>2, <1>3, <1>4, <1>5, <1>6, <1>7, <1>8, <1>9, <1>10, <1>11
     DEF Next, ServerStep, HandlerStep, ClientStep

-----------------------------------------------------------------------------
(* The inductive invariant: every client is as it should be, and the one      *)
(* being served as the place of the server thread says.  Of a client that      *)
(* hung up only what it had received by then matters.                          *)
OfClient(c) == ClientOk(conn[c], script[c], sent[c], wire[c], fin[c], gone[c], got[c])

OfServed(c) == ServedOk(pc, request, out, script[c], sent[c], wire[c], fin[c], got[c])

AnswerInv ==
    /\ QueueInv
    /\ gsock \in {"stdin", "listener", "none"}
    /\ DOMAIN sent = Client /\ DOMAIN wire = Client /\ DOMAIN fin = Client /\ DOMAIN gone = Client
    /\ \A c \in Client : OfClient(c)
    /\ RequestOk(pc, request)
    /\ \A c \in Client : conn[c] = "open" /\ ~ gone[c] => OfServed(c)

LEMMA AnswerInvInit == Init => AnswerInv
<1> SUFFICES ASSUME Init PROVE AnswerInv
  OBVIOUS
<1>1. ASSUME NEW c \in Client PROVE OfClient(c)
  <2>1. script[c] \in Seq(Tokens) /\ Len(script[c]) \in Nat
    BY TokenFacts DEF Init
  <2>2. StreamOk(script[c], 0, <<>>, FALSE, FALSE)
    BY <2>1 DEF StreamOk
  <2> QED
    BY <2>2, EmptyBegins, ExpectedIsSeq DEF Init, OfClient, ClientOk
<1>2. RequestOk(pc, request)
  BY DEF Init, NoRequest, RequestOk
<1> QED
  BY <1>1, <1>2, QueueInvInit DEF Init, AnswerInv

(* A step that leaves a client alone. *)
LEMMA ClientFrame ==
  ASSUME NEW c \in Client, OfClient(c),
         conn'[c] = conn[c], script' = script, sent'[c] = sent[c], wire'[c] = wire[c],
         fin'[c] = fin[c], gone'[c] = gone[c], got'[c] = got[c]
  PROVE  OfClient(c)'
  BY DEF OfClient

LEMMA ServedFrame ==
  ASSUME NEW c \in Client, OfServed(c), pc' = pc, request' = request, out' = out,
         script' = script, sent'[c] = sent[c], wire'[c] = wire[c], fin'[c] = fin[c], got'[c] = got[c]
  PROVE  OfServed(c)'
  BY DEF OfServed

(* A client and the whole: what a step of one client has to keep. *)
LEMMA OneClient ==
  ASSUME AnswerInv, QueueInv', UNCHANGED <<pc, gsock, request, out, script>>, NEW c \in Client,
         DOMAIN sent' = Client, DOMAIN wire' = Client, DOMAIN fin' = Client, DOMAIN gone' = Client,
         \A d \in Client \ {c} : /\ conn'[d] = conn[d] /\ sent'[d] = sent[d] /\ wire'[d] = wire[d]
                                /\ fin'[d] = fin[d] /\ gone'[d] = gone[d] /\ got'[d] = got[d],
         OfClient(c)', conn'[c] = "open" /\ ~ gone'[c] => OfServed(c)'
  PROVE  AnswerInv'
<1>1. \A d \in Client : OfClient(d)'
  BY ClientFrame DEF AnswerInv
<1>2. \A d \in Client : conn'[d] = "open" /\ ~ gone'[d] => OfServed(d)'
  BY ServedFrame DEF AnswerInv
<1>3. RequestOk(pc, request)'
  BY DEF AnswerInv
<1> QED
  BY <1>1, <1>2, <1>3 DEF AnswerInv

LEMMA ConnectKeeps ==
  ASSUME TurnInv, ShutdownInv, AnswerInv, QueueInv', NEW c \in Client, Connect(c)
  PROVE  AnswerInv'
<1>1. /\ conn[c] = "off" /\ conn' = [conn EXCEPT ![c] = "queued"]
      /\ UNCHANGED <<pc, gsock, request, out, script, sent, wire, fin, gone, got>>
  BY DEF Connect, server
<1>2. DOMAIN conn = Client
  BY DEF ShutdownInv, EndInv
<1>3. OfClient(c)'
  BY <1>1, <1>2 DEF AnswerInv, OfClient, ClientOk
<1> QED
  BY <1>1, <1>2, <1>3, OneClient DEF AnswerInv

LEMMA SendKeeps ==
  ASSUME TurnInv, ShutdownInv, AnswerInv, QueueInv', NEW c \in Client, Send(c)
  PROVE  AnswerInv'
<1>1. /\ conn[c] \in {"queued", "open", "closed"} /\ ~ fin[c] /\ sent[c] < Len(script[c])
      /\ sent' = [sent EXCEPT ![c] = @ + 1]
      /\ UNCHANGED <<pc, gsock, request, out, script, fin, gone>>
  BY DEF Send, server, serving
<1>2. /\ DOMAIN conn = Client /\ DOMAIN got = Client /\ DOMAIN sent = Client /\ DOMAIN wire = Client
      /\ DOMAIN fin = Client /\ DOMAIN gone = Client
  BY DEF ShutdownInv, EndInv, TurnInv, AnswerInv
<1>3. /\ ClientOk(conn[c], script[c], sent[c], wire[c], FALSE, gone[c], got[c])
      /\ fin[c] = FALSE /\ gone[c] = FALSE
      /\ StreamOk(script[c], sent[c], wire[c], FALSE, FALSE)
  BY <1>1 DEF AnswerInv, OfClient, ClientOk, StreamOk
<1>4. CASE conn[c] = "closed"
  <2>1. conn' = [conn EXCEPT ![c] = "reset"] /\ LosesTail(c) /\ wire' = wire
    BY <1>1, <1>4 DEF Send
  <2>2. PICK n \in 0..Len(got[c]) : got' = [got EXCEPT ![c] = SubSeq(@, 1, n)]
    BY <2>1 DEF LosesTail
  <2>3. OfClient(c)'
    BY <1>1, <1>2, <1>3, <1>4, <2>1, <2>2, ResetKeepsClient DEF OfClient
  <2> QED
    BY <1>1, <1>2, <2>1, <2>2, <2>3, OneClient
<1>5. CASE conn[c] # "closed"
  <2>1. wire' = [wire EXCEPT ![c] = Append(@, script[c][sent[c] + 1])] /\ UNCHANGED <<conn, got>>
    BY <1>1, <1>5 DEF Send
  <2>2. conn[c] = "open" => OfServed(c) /\ current = c /\ sig # "exited"
    BY <1>3 DEF AnswerInv, QueueInv
  <2>3. conn[c] = "open" => got[c] = <<>> \/ Settled(script[c], sent[c], wire[c], FALSE)
    <3>1. conn[c] = "open" => pc \in {"line", "headers", "body", "route", "respond"}
      BY <2>2, NoClientAssumption DEF TurnInv
    <3> QED
      BY <1>3, <2>2, <3>1 DEF OfServed, ServedOk
  <2>4. OfClient(c)'
    BY <1>1, <1>2, <1>3, <1>5, <2>1, <2>3, SendKeepsClient, ZenonT(60) DEF OfClient
  <2>5. conn'[c] = "open" /\ ~ gone'[c] => OfServed(c)'
    BY <1>1, <1>2, <1>3, <2>1, <2>2, ServedMeanwhile, ZenonT(60) DEF OfServed
  <2> QED
    BY <1>1, <1>2, <2>1, <2>4, <2>5, OneClient
<1> QED
  BY <1>4, <1>5

LEMMA HangUpKeepsClient ==
  ASSUME NEW cn \in {"queued", "open"}, NEW sc, NEW se, NEW wi, NEW fi, NEW go, NEW gt,
         ClientOk(cn, sc, se, wi, fi, go, gt), NEW w \in {wi, <<>>}
  PROVE  ClientOk(cn, sc, se, w, TRUE, TRUE, gt)
<1>1. sc \in Seq(Tokens) /\ wi \in Seq(Tokens) /\ se \in 0..Len(sc)
  BY DEF ClientOk, StreamOk
<1>2. <<>> \in Seq(Tokens) /\ w \in Seq(Tokens)
  <2>1. <<>> \in Seq(Tokens)
    OBVIOUS
  <2>2. w = wi \/ w = <<>>
    OBVIOUS
  <2> QED
    BY <1>1, <2>1, <2>2
<1>3. StreamOk(sc, se, w, TRUE, TRUE)
  BY <1>1, <1>2 DEF StreamOk
<1> QED
  BY <1>3 DEF ClientOk

LEMMA LeaveKeeps ==
  ASSUME TurnInv, ShutdownInv, AnswerInv, QueueInv', NEW c \in Client,
         HalfClose(c) \/ HangUp(c)
  PROVE  AnswerInv'
<1>1. /\ conn[c] \in {"queued", "open"} /\ fin' = [fin EXCEPT ![c] = TRUE]
      /\ UNCHANGED <<pc, gsock, request, out, script, conn, sent, got>>
  BY DEF HalfClose, HangUp, server, serving
<1>2. /\ DOMAIN wire = Client /\ DOMAIN fin = Client /\ DOMAIN gone = Client
      /\ fin'[c] = TRUE /\ OfClient(c)
  BY <1>1 DEF AnswerInv
<1>3. CASE HalfClose(c)
  <2>1. UNCHANGED <<wire, gone>>
    BY <1>3 DEF HalfClose
  <2>2. OfClient(c)'
    BY <1>1, <1>2, <2>1 DEF OfClient, ClientOk, StreamOk
  <2>3. conn'[c] = "open" /\ ~ gone'[c] => OfServed(c)'
    BY <1>1, <1>2, <2>1 DEF AnswerInv, OfServed, ServedOk, Settled, OfClient, ClientOk, StreamOk
  <2> QED
    BY <1>1, <1>2, <2>1, <2>2, <2>3, OneClient DEF AnswerInv
<1>4. CASE HangUp(c)
  <2>1. /\ gone' = [gone EXCEPT ![c] = TRUE]
        /\ wire' = wire \/ wire' = [wire EXCEPT ![c] = <<>>]
    BY <1>4 DEF HangUp
  <2>2. gone'[c] = TRUE /\ wire'[c] \in {wire[c], <<>>} /\ DOMAIN wire' = Client
    BY <1>2, <2>1
  <2>3. OfClient(c)'
    BY <1>1, <1>2, <2>2, HangUpKeepsClient, ZenonT(60) DEF OfClient
  <2> QED
    BY <1>1, <1>2, <2>1, <2>2, <2>3, OneClient DEF AnswerInv
<1> QED
  BY <1>3, <1>4

-----------------------------------------------------------------------------
(* The steps of the server thread. *)

LEMMA QuietKeeps ==
  ASSUME TurnInv, ShutdownInv, AnswerInv, QueueInv',
         \/ startup_connection \/ AssignServerSocket \/ dino_signal_shutdown
         \/ ClearServerSocket \/ CloseServerSocket \/ \E c \in Client : TakeIn(c)
  PROVE  AnswerInv'
<1>1. /\ UNCHANGED <<request, out, conn, script, sent, wire, fin, gone, got>>
      /\ gsock' \in {"stdin", "listener", "none"}
      /\ pc' = pc \/ (pc' \in {"assign", "accept", "returned"} /\ pc \in {"boot", "assign"})
  BY DEF startup_connection, AssignServerSocket, dino_signal_shutdown, ClearServerSocket,
     CloseServerSocket, TakeIn, At, server, serving, clients, AnswerInv
<1>2. \A c \in Client : OfClient(c)'
  BY <1>1, ClientFrame DEF AnswerInv
<1>3. ASSUME NEW c \in Client, conn'[c] = "open", ~ gone'[c]
      PROVE  OfServed(c)'
  <2>1. OfServed(c) /\ current = c
    BY <1>1, <1>3 DEF AnswerInv, QueueInv
  <2>2. pc \in {"line", "headers", "body", "route", "respond"}
    BY <2>1, NoClientAssumption DEF TurnInv
  <2> QED
    BY <1>1, <2>1, <2>2, ServedFrame
<1>4. RequestOk(pc, request)'
  BY <1>1 DEF AnswerInv, RequestOk
<1> QED
  BY <1>1, <1>2, <1>3, <1>4 DEF AnswerInv

LEMMA ExitKeeps ==
  ASSUME TurnInv, ShutdownInv, AnswerInv, QueueInv', Exit
  PROVE  AnswerInv'
<1>1. /\ UNCHANGED <<pc, gsock, request, out, script, sent, wire, fin, gone, got>>
      /\ \A c \in Client : conn'[c] = conn[c] \/ conn'[c] = "cut"
      /\ \A c \in Client : conn'[c] # "open"
  BY DEF Exit, serving
<1>2. ASSUME NEW c \in Client PROVE OfClient(c)'
  <2>1. OfClient(c)
    BY DEF AnswerInv
  <2>2. CASE conn'[c] = conn[c]
    BY <1>1, <2>1, <2>2, ClientFrame
  <2>3. CASE conn'[c] = "cut"
    BY <1>1, <2>1, <2>3 DEF OfClient, ClientOk
  <2> QED
    BY <1>1, <2>2, <2>3
<1> QED
  BY <1>1, <1>2 DEF AnswerInv

(* accept and its failure: no connection was open. *)
LEMMA AcceptKeeps ==
  ASSUME TurnInv, ShutdownInv, AnswerInv, QueueInv', accept \/ AcceptFails
  PROVE  AnswerInv'
<1>1. /\ sig = "none" /\ pc = "accept" /\ keep /\ backlog # <<>> /\ current = NoClient
      /\ conn \in [Client -> {"off", "queued", "open", "closed", "reset", "cut"}]
  BY DEF accept, AcceptFails, At, ShutdownInv, EndInv, TurnInv
<1>2. PICK h \in Client : h = Head(backlog) /\ conn[h] = "queued"
  BY <1>1, QueueTail DEF AnswerInv
<1>3. \A c \in Client : conn[c] # "open"
  BY <1>1, NoClientAssumption DEF AnswerInv, QueueInv
<1>4. UNCHANGED <<gsock, out, script, sent, wire, fin, gone, got>>
  BY <1>1 DEF accept, AcceptFails, server
<1>5. CASE accept
  <2>1. conn' = [conn EXCEPT ![h] = "open"] /\ request' = NoRequest /\ pc' = "line"
    BY <1>1, <1>2, <1>5 DEF accept, init_request
  <2>2. \A c \in Client \ {h} : conn'[c] = conn[c]
    BY <1>1, <2>1
  <2>3. conn'[h] = "open"
    BY <1>1, <1>2, <2>1
  <2>4. OfClient(h)'
    BY <1>2, <1>4, <2>3 DEF AnswerInv, OfClient, ClientOk
  <2>5. ~ gone[h] => OfServed(h)'
    BY <1>2, <1>4, <2>1 DEF AnswerInv, OfClient, ClientOk, OfServed, ServedOk
  <2>6. RequestOk(pc, request)'
    BY <2>1 DEF NoRequest, RequestOk
  <2>7. \A c \in Client : OfClient(c)'
    BY <1>4, <2>2, <2>4, ClientFrame DEF AnswerInv
  <2> QED
    BY <1>3, <1>4, <2>2, <2>5, <2>6, <2>7 DEF AnswerInv
<1>6. CASE AcceptFails
  <2>1. conn' = [conn EXCEPT ![h] = "reset"] /\ UNCHANGED <<pc, request>> /\ gone[h]
    BY <1>2, <1>6 DEF AcceptFails, server
  <2>2. /\ \A c \in Client \ {h} : conn'[c] = conn[c]
        /\ conn'[h] = "reset"
    BY <1>1, <1>2, <2>1
  <2>3. OfClient(h)'
    BY <1>2, <1>4, <2>1, <2>2 DEF AnswerInv, OfClient, ClientOk
  <2>4. \A c \in Client : OfClient(c)'
    BY <1>4, <2>2, <2>3, ClientFrame DEF AnswerInv
  <2>5. \A c \in Client : conn'[c] # "open"
    BY <1>3, <2>2
  <2> QED
    BY <1>4, <2>1, <2>4, <2>5 DEF AnswerInv
<1> QED
  BY <1>5, <1>6

(* The turn of one client: what a step of its request has to keep. *)
LEMMA OneTurn ==
  ASSUME AnswerInv, QueueInv', UNCHANGED <<gsock, script, sent, fin, gone>>, NEW c \in Client,
         current = c, DOMAIN wire' = Client,
         \A d \in Client \ {c} : conn'[d] = conn[d] /\ wire'[d] = wire[d] /\ got'[d] = got[d],
         OfClient(c)', RequestOk(pc, request)', conn'[c] = "open" /\ ~ gone[c] => OfServed(c)'
  PROVE  AnswerInv'
<1>1. \A d \in Client : OfClient(d)'
  BY ClientFrame DEF AnswerInv
<1>2. \A d \in Client : conn'[d] = "open" /\ ~ gone'[d] => OfServed(d)'
  BY DEF AnswerInv, QueueInv
<1> QED
  BY <1>1, <1>2 DEF AnswerInv

(* A token taken from the wire of the client in turn. *)
LEMMA ConsumeKeepsClient ==
  ASSUME NEW sc, NEW se, NEW wi, NEW fi, NEW go, NEW gt, ClientOk("open", sc, se, wi, fi, go, gt),
         wi # <<>>
  PROVE  ClientOk("open", sc, se, Tail(wi), fi, go, gt)
<1>1. StreamOk(sc, se, Tail(wi), fi, go)
  <2>1. CASE go = TRUE
    BY <2>1 DEF ClientOk, StreamOk
  <2>2. CASE go = FALSE
    BY <2>2, NextToken DEF ClientOk
  <2> QED
    BY <2>1, <2>2 DEF ClientOk, StreamOk
<1> QED
  BY <1>1 DEF ClientOk

(* parse_method_url. *)
LEMMA ParseLineKeeps ==
  ASSUME TurnInv, ShutdownInv, AnswerInv, QueueInv', parse_method_url
  PROVE  AnswerInv'
<1>1. PICK c \in Client : c = current /\ conn[c] = "open"
  BY DEF parse_method_url, At, TurnInv, AnswerInv, QueueInv
<1>2. /\ pc = "line" /\ (wire[c] # <<>> \/ fin[c])
      /\ wire' = IF wire[c] = <<>> THEN wire ELSE [wire EXCEPT ![c] = Tail(@)]
      /\ UNCHANGED <<gsock, script, sent, fin, gone, conn, got>>
  BY <1>1 DEF parse_method_url, At, Readable, Consume, AtEnd
<1>3. /\ DOMAIN wire' = Client /\ \A d \in Client \ {c} : wire'[d] = wire[d]
      /\ wire'[c] = IF wire[c] = <<>> THEN <<>> ELSE Tail(wire[c])
  BY <1>2 DEF AnswerInv
<1>4. OfClient(c) /\ RequestOk("line", request)
  BY <1>2 DEF AnswerInv
<1>5. OfClient(c)'
  BY <1>1, <1>2, <1>3, <1>4, ConsumeKeepsClient DEF OfClient
<1>6. ~ gone[c] => /\ StreamOk(script[c], sent[c], wire[c], fin[c], FALSE)
                  /\ Len(wire[c]) = sent[c] /\ got[c] = <<>>
  BY <1>1, <1>2, <1>4 DEF AnswerInv, OfClient, ClientOk, StreamOk, OfServed, ServedOk
<1>7. CASE NextKind(c) = "request"
  <2>1. /\ wire[c] # <<>> /\ Head(wire[c]).kind = "request"
    BY <1>7 DEF NextKind, AtEnd
  <2>2. /\ request' = [request EXCEPT !.method = Head(wire[c]).method, !.url = Head(wire[c]).url]
        /\ pc' = "headers" /\ out' = out
    BY <1>1, <1>7 DEF parse_method_url
  <2>3. /\ request'.method = Head(wire[c]).method /\ request'.url = Head(wire[c]).url
        /\ request'.length = 0
        /\ RequestOk(pc, request)'
    BY <1>4, <2>2 DEF RequestOk
  <2>4. ASSUME ~ gone[c] PROVE OfServed(c)'
    <3>1. ServedOk("headers", request', out', script[c], sent[c], Tail(wire[c]), fin[c], <<>>)
      BY <1>6, <2>1, <2>3, <2>4, LineIsRequest
    <3>2. ServedOk(pc', request', out', script'[c], sent'[c], wire'[c], fin'[c], got'[c])
      BY <1>2, <1>3, <1>6, <2>1, <2>2, <2>4, <3>1
    <3> QED
      BY <3>2 DEF OfServed
  <2> QED
    BY <1>1, <1>2, <1>3, <1>5, <2>3, <2>4, OneTurn
<1>8. CASE NextKind(c) # "request"
  <2>1. out' = bad_request /\ pc' = "respond" /\ request' = request
    BY <1>1, <1>8 DEF parse_method_url
  <2>2. RequestOk(pc, request)'
    BY <1>4, <2>1 DEF RequestOk
  <2>3. CASE wire[c] = <<>>
    <3>1. ~ gone[c] => OfServed(c)'
      BY <1>2, <1>3, <1>6, <2>1, <2>3, LineAtEnd DEF OfServed
    <3> QED
      BY <1>1, <1>2, <1>3, <1>5, <2>2, <3>1, OneTurn
  <2>4. CASE wire[c] # <<>>
    <3>1. Head(wire[c]).kind # "request"
      BY <1>8, <2>4 DEF NextKind, AtEnd
    <3>2. ~ gone[c] => OfServed(c)'
      BY <1>2, <1>3, <1>6, <2>1, <2>4, <3>1, LineIsBad DEF OfServed
    <3> QED
      BY <1>1, <1>2, <1>3, <1>5, <2>2, <3>2, OneTurn
  <2> QED
    BY <2>3, <2>4
<1> QED
  BY <1>7, <1>8

(* parse_headers. *)
LEMMA ParseHeadersKeeps ==
  ASSUME TurnInv, ShutdownInv, AnswerInv, QueueInv', parse_headers
  PROVE  AnswerInv'
<1>1. PICK c \in Client : c = current /\ conn[c] = "open"
  BY DEF parse_headers, At, TurnInv, AnswerInv, QueueInv
<1>2. /\ pc = "headers" /\ (wire[c] # <<>> \/ fin[c])
      /\ wire' = IF wire[c] = <<>> THEN wire ELSE [wire EXCEPT ![c] = Tail(@)]
      /\ UNCHANGED <<gsock, script, sent, fin, gone, conn, got, out>>
  BY <1>1 DEF parse_headers, At, Readable, Consume, AtEnd
<1>3. /\ DOMAIN wire' = Client /\ \A d \in Client \ {c} : wire'[d] = wire[d]
      /\ wire'[c] = IF wire[c] = <<>> THEN <<>> ELSE Tail(wire[c])
  BY <1>2 DEF AnswerInv
<1>4. OfClient(c) /\ RequestOk("headers", request)
  BY <1>2 DEF AnswerInv
<1>5. OfClient(c)'
  BY <1>1, <1>2, <1>3, <1>4, ConsumeKeepsClient DEF OfClient
<1>6. ASSUME ~ gone[c]
      PROVE  /\ StreamOk(script[c], sent[c], wire[c], fin[c], FALSE) /\ got[c] = <<>>
             /\ InHeaders(SubSeq(script[c], 1, sent[c] - Len(wire[c])), request)
  BY <1>1, <1>2, <1>4, <1>6 DEF AnswerInv, OfClient, ClientOk, StreamOk, OfServed, ServedOk
<1>7. CASE wire[c] # <<>> /\ Head(wire[c]).kind # "blank"
  <2>1. NextKind(c) = Head(wire[c]).kind /\ Head(wire[c]) \in Tokens
    BY <1>4, <1>7 DEF NextKind, AtEnd, OfClient, ClientOk, StreamOk
  <2>2. pc' = "headers"
    BY <1>1, <1>7, <2>1, TokenFacts DEF parse_headers
  <2>3. request' = IF Head(wire[c]).kind = "length" THEN [request EXCEPT !.length = Head(wire[c]).n]
                   ELSE request
    BY <1>1, <2>1 DEF parse_headers
  <2>4. /\ request'.method = request.method /\ request'.url = request.url
        /\ request'.length = IF Head(wire[c]).kind = "length" THEN Head(wire[c]).n ELSE request.length
        /\ RequestOk("headers", request')
    BY <1>4, <2>1, <2>3, TokenFacts DEF RequestOk
  <2>5. ASSUME ~ gone[c] PROVE OfServed(c)'
    <3>1. InHeaders(SubSeq(script[c], 1, sent[c] - Len(Tail(wire[c]))), request')
      BY <1>4, <1>6, <1>7, <2>4, <2>5, HeaderLine
    <3>2. ServedOk("headers", request', out', script[c], sent[c], Tail(wire[c]), fin[c], <<>>)
      BY <3>1 DEF ServedOk
    <3>3. ServedOk(pc', request', out', script'[c], sent'[c], wire'[c], fin'[c], got'[c])
      BY <1>2, <1>3, <1>6, <1>7, <2>2, <2>5, <3>2
    <3> QED
      BY <3>3 DEF OfServed
  <2> QED
    BY <1>1, <1>2, <1>3, <1>5, <2>2, <2>4, <2>5, OneTurn
<1>8. CASE wire[c] = <<>> \/ Head(wire[c]).kind = "blank"
  <2>1. NextKind(c) \in {"blank", "end"}
    BY <1>8 DEF NextKind, AtEnd
  <2>2. request' = request /\ pc' = IF request.length = 0 THEN "route" ELSE "body"
    BY <1>1, <2>1 DEF parse_headers
  <2>3. RequestOk(pc, request)'
    BY <1>4, <2>2 DEF RequestOk
  <2>4. ASSUME ~ gone[c], wire[c] # <<>> PROVE OfServed(c)'
    <3>1. InBody(SubSeq(script[c], 1, sent[c] - Len(Tail(wire[c]))), request)
      BY <1>4, <1>6, <1>8, <2>4, HeaderBlank
    <3>2. StreamOk(script[c], sent[c], Tail(wire[c]), fin[c], FALSE)
      BY <1>6, <2>4, NextToken
    <3>3. ServedOk(pc', request, out, script[c], sent[c], Tail(wire[c]), fin[c], <<>>)
      <4>1. CASE request.length = 0
        <5>1. RequestOk("route", request) /\ Len(request.body) = request.length
          BY <1>4, <4>1 DEF RequestOk
        <5> QED
          BY <2>2, <3>1, <3>2, <4>1, <5>1, RequestRead
      <4>2. CASE request.length # 0
        BY <2>2, <3>1, <4>2 DEF ServedOk
      <4> QED
        BY <4>1, <4>2
    <3>4. ServedOk(pc', request', out', script'[c], sent'[c], wire'[c], fin'[c], got'[c])
      BY <1>2, <1>3, <1>6, <2>2, <2>4, <3>3
    <3> QED
      BY <3>4 DEF OfServed
  <2>5. ASSUME ~ gone[c], wire[c] = <<>> PROVE OfServed(c)'
    <3>1. fin[c] /\ sent[c] - Len(wire[c]) = sent[c]
      BY <1>2, <1>6, <2>5 DEF StreamOk
    <3>2. ServedOk(pc', request, out, script[c], sent[c], <<>>, fin[c], <<>>)
      <4>1. CASE request.length = 0
        BY <1>4, <1>6, <2>2, <2>5, <3>1, <4>1, HeadersAtEnd
      <4>2. CASE request.length # 0
        BY <2>2, <3>1, <4>2 DEF ServedOk
      <4> QED
        BY <4>1, <4>2
    <3>3. ServedOk(pc', request', out', script'[c], sent'[c], wire'[c], fin'[c], got'[c])
      BY <1>2, <1>3, <1>6, <2>2, <2>5, <3>2
    <3> QED
      BY <3>3 DEF OfServed
  <2> QED
    BY <1>1, <1>2, <1>3, <1>5, <2>3, <2>4, <2>5, OneTurn
<1> QED
  BY <1>7, <1>8

(* read_data: a turn of its loop that gets a byte. *)
LEMMA ReadDataKeeps ==
  ASSUME TurnInv, ShutdownInv, AnswerInv, QueueInv', read_data
  PROVE  AnswerInv'
<1>1. PICK c \in Client : c = current /\ conn[c] = "open"
  BY DEF read_data, At, TurnInv, AnswerInv, QueueInv
<1>2. /\ pc = "body" /\ wire[c] # <<>>
      /\ wire' = [wire EXCEPT ![c] = Tail(@)]
      /\ UNCHANGED <<gsock, script, sent, fin, gone, conn, got, out>>
      /\ request' = [request EXCEPT !.body = Append(@, Head(wire[c]))]
      /\ pc' = IF Len(request'.body) = request'.length THEN "route" ELSE "body"
  BY <1>1 DEF read_data, At, Consume, AtEnd, BodyComplete
<1>3. /\ DOMAIN wire' = Client /\ \A d \in Client \ {c} : wire'[d] = wire[d]
      /\ wire'[c] = Tail(wire[c])
  BY <1>2 DEF AnswerInv
<1>4. OfClient(c) /\ RequestOk("body", request)
  BY <1>2 DEF AnswerInv
<1>5. OfClient(c)'
  BY <1>1, <1>2, <1>3, <1>4, ConsumeKeepsClient DEF OfClient
<1>6. ASSUME ~ gone[c]
      PROVE  /\ StreamOk(script[c], sent[c], wire[c], fin[c], FALSE) /\ got[c] = <<>>
             /\ InBody(SubSeq(script[c], 1, sent[c] - Len(wire[c])), request)
  BY <1>1, <1>2, <1>4, <1>6 DEF AnswerInv, OfClient, ClientOk, StreamOk, OfServed, ServedOk
<1>7. /\ request'.method = request.method /\ request'.url = request.url
      /\ request'.length = request.length /\ request'.body = Append(request.body, Head(wire[c]))
      /\ request' = [method |-> request'.method, url |-> request'.url, length |-> request'.length,
                     body |-> request'.body]
  BY <1>2, <1>4 DEF RequestOk
<1>8. Head(wire[c]) \in Tokens
  BY <1>2, <1>4 DEF OfClient, ClientOk, StreamOk
<1>9. /\ request'.body \in Seq(Tokens) /\ Len(request'.body) = Len(request.body) + 1
      /\ Len(request'.body) <= request'.length
  BY <1>4, <1>7, <1>8 DEF RequestOk
<1>10. RequestOk(pc', request')
  BY <1>2, <1>4, <1>7, <1>9 DEF RequestOk
<1>11. ASSUME ~ gone[c] PROVE OfServed(c)'
  <2>1. InBody(SubSeq(script[c], 1, sent[c] - Len(Tail(wire[c]))), request')
    <3>1. /\ wire[c] # <<>> /\ RequestOk("body", request)
          /\ StreamOk(script[c], sent[c], wire[c], fin[c], FALSE)
          /\ InBody(SubSeq(script[c], 1, sent[c] - Len(wire[c])), request)
      BY <1>2, <1>4, <1>6, <1>11
    <3>2. /\ request'.method = request.method /\ request'.url = request.url
          /\ request'.length = request.length /\ request'.body = Append(request.body, Head(wire[c]))
      BY <1>7
    <3> QED
      BY <3>1, <3>2, BodyByte
  <2>2. StreamOk(script[c], sent[c], Tail(wire[c]), fin[c], FALSE)
    BY <1>2, <1>6, <1>11, NextToken
  <2>3. ServedOk(pc', request', out', script[c], sent[c], Tail(wire[c]), fin[c], <<>>)
    <3>1. CASE Len(request'.body) = request'.length
      BY <1>2, <1>10, <2>1, <2>2, <3>1, RequestRead
    <3>2. CASE Len(request'.body) # request'.length
      BY <1>2, <2>1, <3>2 DEF ServedOk
    <3> QED
      BY <3>1, <3>2
  <2>4. ServedOk(pc', request', out', script'[c], sent'[c], wire'[c], fin'[c], got'[c])
    BY <1>2, <1>3, <1>6, <1>11, <2>3
  <2> QED
    BY <2>4 DEF OfServed
<1> QED
  BY <1>1, <1>2, <1>3, <1>5, <1>10, <1>11, OneTurn

(* accept_request: the answer is made from the request that was read. *)
LEMMA AcceptRequestKeeps ==
  ASSUME TurnInv, ShutdownInv, AnswerInv, QueueInv', accept_request
  PROVE  AnswerInv'
<1>1. PICK c \in Client : c = current /\ conn[c] = "open"
  BY DEF accept_request, At, TurnInv, AnswerInv, QueueInv
<1>2. /\ pc = "route" /\ pc' = "respond"
      /\ UNCHANGED <<gsock, script, sent, fin, gone, conn, got, wire, request>>
      /\ DOMAIN wire' = Client
  BY DEF accept_request, At, clients, AnswerInv
<1>3. OfClient(c)'
  BY <1>2, ClientFrame DEF AnswerInv
<1>4. RequestOk(pc, request)'
  BY <1>2 DEF AnswerInv, RequestOk
<1>5. out' = AnswerTo(request.method, request.url, request.body)
  BY DEF accept_request, AnswerTo, invoke_method
<1>6. ASSUME ~ gone[c] PROVE OfServed(c)'
  <2> DEFINE expected == ExpectedAnswer(SubSeq(script[c], 1, sent[c]))
  <2>1. /\ got[c] = <<>> /\ Settled(script[c], sent[c], wire[c], fin[c])
        /\ AnswerTo(request.method, request.url, request.body) = expected
    BY <1>1, <1>2, <1>6 DEF AnswerInv, OfServed, ServedOk
  <2>2. Sending(<<>>, expected, expected)
    BY SendingStarts, ExpectedIsSeq
  <2>3. ServedOk("respond", request', out', script[c], sent[c], wire[c], fin[c], <<>>)
    BY <1>5, <2>1, <2>2 DEF ServedOk
  <2>4. ServedOk(pc', request', out', script'[c], sent'[c], wire'[c], fin'[c], got'[c])
    BY <1>2, <2>1, <2>3
  <2> QED
    BY <2>4 DEF OfServed
<1> QED
  BY <1>1, <1>2, <1>3, <1>4, <1>6, OneTurn

(* send: one chunk. *)
LEMMA SendChunkKeeps ==
  ASSUME TurnInv, ShutdownInv, AnswerInv, QueueInv', send
  PROVE  AnswerInv'
<1>1. PICK c \in Client : c = current /\ conn[c] = "open"
  BY DEF send, At, TurnInv, AnswerInv, QueueInv
<1>2. /\ pc = "respond" /\ out # <<>> /\ out' = Tail(out)
      /\ UNCHANGED <<pc, gsock, script, sent, fin, gone, conn, wire, request>>
      /\ DOMAIN wire' = Client
      /\ got' = IF gone[c] THEN got ELSE [got EXCEPT ![c] = Append(@, Head(out))]
  BY <1>1 DEF send, At, AnswerInv, SendFails
<1>3. RequestOk(pc, request)'
  BY <1>2 DEF AnswerInv
<1>4. OfClient(c)
  BY DEF AnswerInv
<1>5. CASE gone[c]
  <2>1. OfClient(c)'
    BY <1>2, <1>4, <1>5, ClientFrame
  <2> QED
    BY <1>1, <1>2, <1>3, <1>5, <2>1, OneTurn
<1>6. CASE ~ gone[c]
  <2> DEFINE expected == ExpectedAnswer(SubSeq(script[c], 1, sent[c]))
  <2>1. Settled(script[c], sent[c], wire[c], fin[c]) /\ Sending(got[c], out, expected)
    BY <1>1, <1>2, <1>6 DEF AnswerInv, OfServed, ServedOk
  <2>2. got'[c] = Append(got[c], Head(out)) /\ \A d \in Client \ {c} : got'[d] = got[d]
    BY <1>2, <1>6 DEF TurnInv
  <2>3. Sending(got'[c], Tail(out), expected)
    BY <1>2, <2>1, <2>2, ChunkSent
  <2>4. OfClient(c)'
    <3>1. IsSeq(got'[c]) /\ Begins(got'[c], expected)
      BY <2>3 DEF Sending
    <3>2. ClientOk("open", script[c], sent[c], wire[c], fin[c], gone[c], got'[c])
      BY <1>1, <1>4, <3>1 DEF OfClient, ClientOk
    <3>3. ClientOk(conn'[c], script'[c], sent'[c], wire'[c], fin'[c], gone'[c], got'[c])
      BY <1>1, <1>2, <3>2
    <3> QED
      BY <3>3 DEF OfClient
  <2>5. OfServed(c)'
    <3>1. ServedOk("respond", request, Tail(out), script[c], sent[c], wire[c], fin[c], got'[c])
      BY <2>1, <2>3 DEF ServedOk
    <3>2. ServedOk(pc', request', out', script'[c], sent'[c], wire'[c], fin'[c], got'[c])
      BY <1>2, <3>1
    <3> QED
      BY <3>2 DEF OfServed
  <2> QED
    BY <1>1, <1>2, <1>3, <2>2, <2>4, <2>5, OneTurn
<1> QED
  BY <1>5, <1>6

(* The end of a turn: in order when nothing was left unread, by a reset else. *)
LEMMA CloseInOrder ==
  ASSUME NEW sc, NEW se, NEW fi, NEW go, NEW gt, ClientOk("open", sc, se, <<>>, fi, go, gt),
         NEW req,
         ~ go => ServedOk("respond", req, <<>>, sc, se, <<>>, fi, gt)
  PROVE  ClientOk("closed", sc, se, <<>>, fi, go, gt)
<1>1. ~ go => /\ Settled(sc, se, <<>>, fi)
              /\ gt = ExpectedAnswer(SubSeq(sc, 1, se))
  BY AllSent DEF ServedOk
<1> QED
  BY <1>1 DEF ClientOk

LEMMA CloseByReset ==
  ASSUME NEW sc, NEW se, NEW wi, wi # <<>>, NEW fi, NEW go, NEW gt,
         ClientOk("open", sc, se, wi, fi, go, gt), NEW req,
         ~ go => ServedOk("respond", req, <<>>, sc, se, wi, fi, gt),
         NEW n \in 0..Len(gt)
  PROVE  ClientOk("reset", sc, se, <<>>, fi, go, SubSeq(gt, 1, n))
<1>1. /\ sc \in Seq(Tokens) /\ wi \in Seq(Tokens) /\ se \in 0..Len(sc)
      /\ StreamOk(sc, se, wi, fi, go) /\ fi \in BOOLEAN /\ go \in BOOLEAN /\ (go => fi)
  BY DEF ClientOk, StreamOk
<1>2. StreamOk(sc, se, <<>>, fi, go)
  BY <1>1 DEF StreamOk
<1>3. IsSeq(SubSeq(gt, 1, n)) /\ Begins(SubSeq(gt, 1, n), ExpectedAnswer(SubSeq(sc, 1, se)))
  BY CutBegins, ExpectedIsSeq DEF ClientOk
<1>4. ASSUME ~ go PROVE se > RequestEnd(SubSeq(sc, 1, se))
  <2>1. se - Len(wi) = RequestEnd(SubSeq(sc, 1, se))
    BY <1>4 DEF ServedOk, Settled
  <2>2. Len(wi) \in Nat /\ Len(wi) > 0 /\ se \in Nat
    BY <1>1
  <2> QED
    BY <2>1, <2>2
<1> QED
  BY <1>2, <1>3, <1>4 DEF ClientOk

LEMMA CloseKeeps ==
  ASSUME TurnInv, ShutdownInv, AnswerInv, QueueInv', CloseClient
  PROVE  AnswerInv'
<1>1. PICK c \in Client : c = current /\ conn[c] = "open"
  BY DEF CloseClient, At, TurnInv, AnswerInv, QueueInv
<1>2. /\ pc = "respond" /\ pc' = "accept" /\ out = <<>>
      /\ UNCHANGED <<gsock, script, sent, fin, gone, request>>
      /\ conn' = [conn EXCEPT ![c] = IF wire[c] = <<>> THEN "closed" ELSE "reset"]
      /\ wire' = [wire EXCEPT ![c] = <<>>]
      /\ IF wire[c] = <<>> THEN got' = got ELSE LosesTail(c)
  BY <1>1 DEF CloseClient, At, AnswerSent, CloseSocket
<1>3. /\ DOMAIN wire' = Client /\ wire'[c] = <<>>
      /\ conn'[c] = IF wire[c] = <<>> THEN "closed" ELSE "reset"
      /\ \A d \in Client \ {c} : conn'[d] = conn[d] /\ wire'[d] = wire[d]
  BY <1>2 DEF AnswerInv, ShutdownInv, EndInv
<1>4. RequestOk(pc, request)'
  BY <1>2 DEF AnswerInv, RequestOk
<1>5. /\ ClientOk("open", script[c], sent[c], wire[c], fin[c], gone[c], got[c])
      /\ ~ gone[c] => ServedOk("respond", request, <<>>, script[c], sent[c], wire[c], fin[c], got[c])
  BY <1>1, <1>2 DEF AnswerInv, OfClient, OfServed
<1>6. conn'[c] # "open"
  BY <1>3
<1>7. CASE wire[c] = <<>>
  <2>1. got' = got /\ conn'[c] = "closed"
    BY <1>2, <1>3, <1>7
  <2>2. ClientOk("closed", script[c], sent[c], <<>>, fin[c], gone[c], got[c])
    BY <1>5, <1>7, CloseInOrder
  <2>3. ClientOk(conn'[c], script'[c], sent'[c], wire'[c], fin'[c], gone'[c], got'[c])
    BY <1>2, <1>3, <2>1, <2>2
  <2>4. OfClient(c)'
    BY <2>3 DEF OfClient
  <2> QED
    BY <1>1, <1>2, <1>3, <1>4, <1>6, <2>1, <2>4, OneTurn
<1>8. CASE wire[c] # <<>>
  <2>1. PICK n \in 0..Len(got[c]) : got' = [got EXCEPT ![c] = SubSeq(@, 1, n)]
    BY <1>2, <1>8 DEF LosesTail
  <2>2. got'[c] = SubSeq(got[c], 1, n) /\ \A d \in Client \ {c} : got'[d] = got[d]
    BY <2>1 DEF TurnInv
  <2>3. ClientOk("reset", script[c], sent[c], <<>>, fin[c], gone[c], SubSeq(got[c], 1, n))
    BY <1>5, <1>8, CloseByReset
  <2>4. ClientOk(conn'[c], script'[c], sent'[c], wire'[c], fin'[c], gone'[c], got'[c])
    BY <1>2, <1>3, <1>8, <2>2, <2>3
  <2>5. OfClient(c)'
    BY <2>4 DEF OfClient
  <2> QED
    BY <1>1, <1>2, <1>3, <1>4, <1>6, <2>2, <2>5, OneTurn
<1> QED
  BY <1>7, <1>8

-----------------------------------------------------------------------------
LEMMA AnswerInvStep ==
  ASSUME TurnInv, ShutdownInv, AnswerInv, [Next]_vars
  PROVE  AnswerInv'
<1>1. QueueInv'
  BY QueueInvStep DEF AnswerInv
<1>2. CASE UNCHANGED vars
  <2>1. /\ UNCHANGED <<pc, request, out, gsock, conn, script, sent, wire, fin, gone, got>>
    BY <1>2 DEF vars, server, serving, clients
  <2>2. \A c \in Client : OfClient(c)' /\ (conn'[c] = "open" /\ ~ gone'[c] => OfServed(c)')
    BY <2>1, ClientFrame, ServedFrame DEF AnswerInv
  <2> QED
    BY <1>1, <2>1, <2>2 DEF AnswerInv
<1>3. CASE ClientStep
  BY <1>1, <1>3, ConnectKeeps, SendKeeps, LeaveKeeps, QuietKeeps DEF ClientStep
<1>4. CASE ServerStep
  BY <1>1, <1>4, QuietKeeps, AcceptKeeps, ParseLineKeeps, ParseHeadersKeeps, ReadDataKeeps,
     AcceptRequestKeeps, SendChunkKeeps, CloseKeeps, ExitKeeps DEF ServerStep, HandlerStep
<1>5. CASE dino_signal_shutdown
  BY <1>1, <1>5, QuietKeeps
<1> QED
  BY <1>2, <1>3, <1>4, <1>5 DEF Next

(* The three invariants together, of every reachable state. *)
THEOREM AnswerInvHolds == Spec => [](ShutdownInv /\ TurnInv /\ AnswerInv)
<1>1. Init => ShutdownInv /\ TurnInv /\ AnswerInv
  BY ShutdownInvInit, TurnInvInit, AnswerInvInit
<1>2. ShutdownInv /\ TurnInv /\ AnswerInv /\ [Next]_vars
        => (ShutdownInv /\ TurnInv /\ AnswerInv)'
  BY ShutdownInvStep, StepServes, AnswerInvStep
<1> QED
  BY <1>1, <1>2, PTL DEF Spec

(* The types of the server's variables, and what ties queue, connections and  *)
(* request to each other.                                                      *)
THEOREM ServerTypeCorrect == Spec => []TypeOK
<1>1. ASSUME ShutdownInv, TurnInv, AnswerInv PROVE TypeOK
  <2>1. ASSUME NEW c \in Client
        PROVE  /\ conn[c] \in {"off", "queued", "open", "closed", "reset", "cut"}
               /\ sent[c] \in 0..Len(script[c])
               /\ conn[c] = "queued" => \E i \in DOMAIN backlog : backlog[i] = c
               /\ conn[c] = "open" => current = c
    BY <1>1 DEF ShutdownInv, EndInv, AnswerInv, QueueInv, OfClient, ClientOk, StreamOk
  <2>2. pc \in {"line", "headers", "body", "route", "respond"} <=> current # NoClient
    BY <1>1, NoClientAssumption DEF TurnInv
  <2> QED
    BY <1>1, <2>1, <2>2
       DEF TypeOK, ShutdownInv, PortInv, HandlersInv, TurnInv, AnswerInv, QueueInv, RequestOk
<1> QED
  BY <1>1, AnswerInvHolds, PTL

(* Whatever a client has received begins the answer to the request it sent    *)
(* itself, although one dhandle on the stack serves them all (accept_request,  *)
(* invoke_method).                                                             *)
THEOREM AnswersAreForOwnRequest == Spec => []AnswerIsForOwnRequest
<1>1. ASSUME AnswerInv PROVE AnswerIsForOwnRequest
  <2>1. ASSUME NEW c \in Client PROVE IsPrefix(got[c], ExpectedAnswer(Sent(c)))
    <3>1. IsSeq(got[c]) /\ Begins(got[c], ExpectedAnswer(Sent(c)))
      BY <1>1 DEF AnswerInv, OfClient, ClientOk, Sent
    <3> QED
      BY <3>1, ExpectedIsSeq, BeginsIsPrefix
  <2> QED
    BY <2>1 DEF AnswerIsForOwnRequest
<1> QED
  BY <1>1, AnswerInvHolds, PTL

(* A connection closed in order, to a client that stayed, carried the whole    *)
(* answer to the whole request (read_data, dino_process_request).              *)
THEOREM ClosedConnectionsAreAnswered == Spec => []ClosedMeansAnswered
<1>1. ASSUME AnswerInv PROVE ClosedMeansAnswered
  BY <1>1 DEF AnswerInv, OfClient, ClientOk, Sent, ClosedMeansAnswered
<1> QED
  BY <1>1, AnswerInvHolds, PTL

(* A client that stays and sends no more than its request is never reset      *)
(* (close of a socket with unread data in dino_process_request).               *)
THEOREM ResetsAreOfOverlong == Spec => []ResetOnlyIfOverlong
<1>1. ASSUME AnswerInv PROVE ResetOnlyIfOverlong
  BY <1>1 DEF AnswerInv, OfClient, ClientOk, Sent, ResetOnlyIfOverlong
<1> QED
  BY <1>1, AnswerInvHolds, PTL
=============================================================================
