------------------------------- MODULE Params -------------------------------
(* What the parameters of a request promise to a handler (PARAMS,            *)
(* PARAMS_COUNT, PARAMS_ENUMERATE of the README, and RESPONSE_HEADER_SET):    *)
(* per key, the values given for it so far, joined in the order given.  How   *)
(* they are stored is left to module StrMap, which implements this.           *)
EXTENDS Integers, Sequences, FiniteSets

CONSTANTS
    Key,        \* the names
    Text,       \* the values given for them
    Blank,      \* the values with nothing but white space in them
    Trim        \* what is left of a value without the white space around it

VARIABLES
    content,    \* per key the joined values; <<>> is a name not given
    answer      \* what the latest call returned

NoAnswer == [op |-> "none"]

Given == {k \in Key : content[k] # <<>>}

ParamsInit == content = [k \in Key |-> <<>>] /\ answer = NoAnswer

(* A call that finds no memory returns false and changes nothing. *)
Refused(op) == answer' = [op |-> op, ok |-> FALSE] /\ UNCHANGED content

(* The first value of a name is kept as it is, the next ones are trimmed. *)
AddValue(k, v) ==
    \/ Refused("add")
    \/ /\ answer' = [op |-> "add", ok |-> TRUE]
       /\ content' = IF v \in Blank THEN content
                     ELSE [content EXCEPT ![k] = IF k \in Given THEN Append(@, Trim[v]) ELSE <<v>>]

PutValue(k, v) ==
    \/ Refused("put")
    \/ /\ answer' = [op |-> "put", ok |-> TRUE]
       /\ content' = [content EXCEPT ![k] = <<v>>]

GetValue(k) == answer' = [op |-> "get", value |-> content[k]] /\ UNCHANGED content

(* "the return value will be the number of bytes required to store the value  *)
(* (if it exists) and its null-terminator.  For all other parameter             *)
(* configurations the return value is 1 if an associated value was found and    *)
(* completely copied into the output buffer, 0 otherwise" (dino_strmap.h).       *)
CopyValue(k) ==
    /\ answer'.op = "copy"
    /\ LET fits == k \in Given /\ answer'.given /\ Len(content[k]) + 1 <= answer'.n
           asks == k \in Given /\ ~ answer'.given /\ answer'.n = 0
       IN  /\ answer'.ok = IF asks THEN Len(content[k]) + 1 ELSE IF fits THEN 1 ELSE 0
           /\ answer'.value = IF fits THEN content[k] ELSE <<>>
    /\ UNCHANGED content

Count == answer' = [op |-> "count", n |-> Cardinality(Given)] /\ UNCHANGED content

(* Every name given is handed to the callback once, with its value, until the *)
(* callback returns false at some name.                                        *)
Enumerates(calls) ==
    /\ \A i \in DOMAIN calls : calls[i].key \in Given /\ calls[i].value = content[calls[i].key]
    /\ \A i, j \in DOMAIN calls : calls[i].key = calls[j].key => i = j

Enumerate(stops) ==
    /\ answer'.op = "enum"
    /\ answer' = [op |-> "enum", calls |-> answer'.calls]
    /\ Enumerates(answer'.calls)
    /\ \/ {answer'.calls[i].key : i \in DOMAIN answer'.calls} = Given
       \/ answer'.calls # <<>> /\ answer'.calls[Len(answer'.calls)].key = stops
    /\ UNCHANGED content

ParamsNext ==
    \/ \E k \in Key, v \in Text : AddValue(k, v) \/ PutValue(k, v)
    \/ \E k \in Key : GetValue(k) \/ CopyValue(k) \/ Enumerate(k)
    \/ Count

ParamsSpec == ParamsInit /\ [][ParamsNext]_<<content, answer>>
=============================================================================
