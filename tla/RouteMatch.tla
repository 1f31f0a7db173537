----------------------------- MODULE RouteMatch -----------------------------
(* How a request is matched with a route (stack_ptr_parse of dino_utils.c,  *)
(* list_method_find and bind_url_params of dino_http.c, list_find of         *)
(* dino.c).  Text is abstracted to what the code tells apart:                *)
(*   - a path or URL is the sequence of its pieces between two slashes, ""   *)
(*     being the empty piece ("//", a leading or a trailing slash);          *)
(*   - a route name is a sequence of atoms, the verb prefix "get_" being     *)
(*     the atom "get", so "is a prefix of" keeps its meaning;                *)
(*   - of the map of parameters only the names a route may bind are kept.    *)
EXTENDS Integers, Sequences, FiniteSetsExt

CONSTANTS
    ParamSegment,   \* the pieces whose first character is ':'
    StarSegment     \* the pieces whose first character is '*'

ASSUME SegmentAssumption == ParamSegment \cap StarSegment = {}

(* Definitions named Wrong... are plausible slips in the definition that     *)
(* follows them.  No specification uses them: each is put in its place to    *)
(* see that a property of the module notices.                                *)
WrongKeepsEmptyPieces(path) == path

(* What a loop over s keeps: the elements at these places, in order. *)
Picked(s, places) ==
    LET kept[n \in 0..Len(s)] ==
            IF n = 0 THEN <<>>
            ELSE IF n \in places THEN Append(kept[n - 1], s[n]) ELSE kept[n - 1]
    IN  kept[Len(s)]

NotEmpty(path) == {i \in DOMAIN path : path[i] # ""}

(* strtok_r on "/" skips the empty pieces. *)
stack_ptr_parse(path) == Picked(path, NotEmpty(path))

WrongOnlyStarMatches(pattern, piece) == pattern \in StarSegment \/ pattern = piece

Wild == StarSegment \cup ParamSegment

SegmentMatches(pattern, piece) == pattern \in Wild \/ pattern = piece

Serves(route, method, url) ==
    /\ route.method = method
    /\ Len(route.stack) = Len(url)
    /\ \A i \in DOMAIN route.stack : SegmentMatches(route.stack[i], url[i])

(* The place in the list of the first route that serves the request; 0 is NULL. *)
list_method_find(list, method, url) ==
    LET hits == {i \in DOMAIN list : Serves(list[i], method, url)}
    IN  IF hits = {} THEN 0 ELSE Min(hits)

(* A value is the list of the values dino_strmap_add joined under its name    *)
(* with ", ", which no piece of a URL and no value of a query contains.        *)
WrongKeepsLastOnly(params, key, value) == [params EXCEPT ![key] = <<value>>]

dino_strmap_add(params, key, value) == [params EXCEPT ![key] = Append(@, value)]

(* The map of parameters a handler reads, made from the one the headers and   *)
(* the query have filled: piece by piece, from the left.                       *)
bind_url_params(params, stack, url) ==
    LET bound[n \in 0..Len(stack)] ==
            IF n = 0 THEN params
            ELSE IF stack[n] \in ParamSegment
                 THEN dino_strmap_add(bound[n - 1], stack[n], url[n])
                 ELSE bound[n - 1]
    IN  bound[Len(stack)]

PrefixedName(method, name) == <<method>> \o name

(* strncmp(name, entry, strlen(entry)) == 0: the entry, which carries its   *)
(* verb prefix, starts the name asked for, which does not.                   *)
StartsWith(name, entry) ==
    Len(entry) <= Len(name) /\ SubSeq(name, 1, Len(entry)) = entry

WrongLooksAtHeadOnly(list, name) == list # <<>> /\ StartsWith(name, list[1].name)

list_find(list, name) == \E i \in DOMAIN list : StartsWith(name, list[i].name)
=============================================================================
