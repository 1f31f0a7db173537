----------------------------- MODULE TextBuffer -----------------------------
(* What dino_string.h promises: a text that grows by what is appended to it. *)
(* How much room it takes is left to module DinoString.                       *)
EXTENDS Integers, Sequences

VARIABLES
    exists,     \* between dino_string_new and dino_string_delete
    text,       \* what was appended since it was created or reset
    asked       \* the latest call: its kind, op, and the text it is given

Create(string) == ~ exists /\ exists' = TRUE /\ text' = string

AppendText(string) == exists /\ exists' = TRUE /\ text' = text \o string

Reset == exists /\ exists' = TRUE /\ text' = <<>>

Destroy == exists /\ exists' = FALSE /\ text' = <<>>

(* Every step is the call asked for, done with the text it is given. *)
TextNext ==
    \/ asked'.op = "create" /\ Create(asked'.text)
    \/ asked'.op \in {"append char", "append string"} /\ AppendText(asked'.text)
    \/ asked'.op = "reset" /\ Reset
    \/ asked'.op = "delete" /\ Destroy
=============================================================================
