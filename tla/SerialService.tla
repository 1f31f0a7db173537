--------------------------- MODULE SerialService ----------------------------
(* What a server of one thread promises its clients, whatever they do: they  *)
(* are served one at a time, in the order they came, only the one being        *)
(* served is sent anything, nobody is served twice, and what a client has      *)
(* received is only ever cut at its end, by a reset.                            *)
EXTENDS Sequences, SequencesExt

CONSTANTS Client, NoClient

VARIABLES
    queue,      \* who has come and waits
    serving,    \* who is being served
    phase,      \* per client: "off", "queued", "open", "closed", "reset", "cut"
    answer,     \* per client: what it has received
    stopped     \* the service has ended

servicevars == <<queue, serving, phase, answer, stopped>>

ServiceInit ==
    /\ queue = <<>> /\ serving = NoClient /\ stopped = FALSE
    /\ phase = [c \in Client |-> "off"]
    /\ answer = [c \in Client |-> <<>>]

Arrive(c) ==
    /\ ~ stopped
    /\ phase[c] = "off"
    /\ phase' = [phase EXCEPT ![c] = "queued"]
    /\ queue' = Append(queue, c)
    /\ UNCHANGED <<serving, answer, stopped>>

TurnOf(c) == ~ stopped /\ serving = NoClient /\ queue # <<>> /\ Head(queue) = c

Take(c) ==
    /\ TurnOf(c)
    /\ phase' = [phase EXCEPT ![c] = "open"]
    /\ queue' = Tail(queue)
    /\ serving' = c
    /\ UNCHANGED <<answer, stopped>>

(* A client that has left before its turn. *)
Drop(c) ==
    /\ TurnOf(c)
    /\ phase' = [phase EXCEPT ![c] = "reset"]
    /\ queue' = Tail(queue)
    /\ UNCHANGED <<serving, answer, stopped>>

OnlyAnswerOf(c) == \A d \in Client \ {c} : answer'[d] = answer[d]

SendTo(c) ==
    /\ ~ stopped /\ serving = c
    /\ OnlyAnswerOf(c)
    /\ Front(answer'[c]) = answer[c]
    /\ UNCHANGED <<queue, serving, phase, stopped>>

CutBack(c) == OnlyAnswerOf(c) /\ IsPrefix(answer'[c], answer[c])

Finish(c) ==
    /\ ~ stopped /\ serving = c
    /\ serving' = NoClient
    /\ \/ phase' = [phase EXCEPT ![c] = "closed"] /\ UNCHANGED answer
       \/ phase' = [phase EXCEPT ![c] = "reset"] /\ CutBack(c)
    /\ UNCHANGED <<queue, stopped>>

(* The client goes on sending after it was answered. *)
ResetAfter(c) ==
    /\ ~ stopped /\ phase[c] = "closed"
    /\ phase' = [phase EXCEPT ![c] = "reset"]
    /\ CutBack(c)
    /\ UNCHANGED <<queue, serving, stopped>>

Stop ==
    /\ ~ stopped /\ stopped' = TRUE
    /\ phase' = [c \in Client |-> IF phase[c] \in {"queued", "open"} THEN "cut" ELSE phase[c]]
    /\ UNCHANGED <<queue, serving, answer>>

ServiceNext ==
    \/ \E c \in Client : Arrive(c) \/ Take(c) \/ Drop(c) \/ SendTo(c) \/ Finish(c) \/ ResetAfter(c)
    \/ Stop

ServiceSpec == ServiceInit /\ [][ServiceNext]_servicevars
=============================================================================
