-------------------------- MODULE RequestMemoryMC ---------------------------
(* Arenas from too small to enough for most of a request, texts and values    *)
(* that grow once: the arena runs out at every kind of allocation in turn.     *)
EXTENDS RequestMemory

MCKeys == [map \in Maps |-> CASE map = "request"  -> {"p", "q"}
                               [] map = "response" -> {"p"}
                               [] map = "symbols"  -> {"If", "Else", "EndIf", "=", "p"}]

MCHash == [key \in UNION {MCKeys[map] : map \in Maps} |-> 1]

MCBuckets == {1}

MCMaxSize ==
    [slot \in RequestSlot |-> CASE slot = Text("rsp") -> 3
                               [] slot \in {Value("request", "q"), Value("response", "p")} -> 1
                               [] OTHER -> 2]

MCSlot == RequestSlot \cup {Site}
=============================================================================
