----------------------------- MODULE RouteTable -----------------------------
(* The CONFIG block of an application and the route table it fills:          *)
(* add_method_to_site and list_add_new_item of dino.c, run by the ROUTE_*    *)
(* macros of dino.h, then requests dispatched through the finished table.    *)
EXTENDS RouteMatch

CONSTANTS
    Method,     \* the HTTP methods the application routes
    Name,       \* the names its ROUTE lines use (sequences of atoms)
    Path,       \* the paths its ROUTE lines bind (sequences of pieces)
    Url,        \* the URLs requested, already parsed (sequences of pieces)
    Given,      \* what requests give under the routes' own names ("?:p=zz"), name by name
    MaxLines    \* bound: ROUTE lines in the block

ASSUME MaxLinesAssumption == MaxLines \in Nat
ASSUME GivenAssumption == Given \subseteq [ParamSegment -> Seq(STRING)]
ASSUME PathAssumption == \A path \in Path : path \in Seq(Range(path))

(* A request for such a route, with this piece under every wildcard. *)
RequestFor(stack, piece) == [k \in DOMAIN stack |-> IF stack[k] \in Wild THEN piece ELSE stack[k]]

PathPieces == UNION {Range(path) : path \in Path}

(* Any URL may be asked for; so may one with a piece that no path names. *)
ASSUME UrlAssumption ==
    \E piece \in (UNION {Range(url) : url \in Url}) \ PathPieces :
        \A path \in Path : RequestFor(Picked(path, NotEmpty(path)), piece) \in Url

RouteLine == [method : Method, name : Name, path : Path]

VARIABLES
    script,     \* the ROUTE lines between DINO_CONFIG_START_HTTP and DINO_CONFIG_END
    line,       \* the line that runs next
    pc,         \* "config", then "serving" once DINO_START runs
    list,       \* dino_http_site_t.list, in link order
    last        \* the latest request dispatched: its URL, route place, parameters

vars == <<script, line, pc, list, last>>

NoParams == [name \in ParamSegment |-> <<>>]

NoRequest == [url |-> <<>>, route |-> 0, given |-> NoParams, params |-> NoParams]

Init ==
    /\ script \in UNION {[1..n -> RouteLine] : n \in 0..MaxLines}
    /\ line = 1
    /\ pc = "config"
    /\ list = <<>>
    /\ last = NoRequest

(* The route add_method_to_site builds from its arguments. *)
NewRoute(l) ==
    [method |-> l.method,
     name   |-> PrefixedName(l.method, l.name),
     stack  |-> stack_ptr_parse(l.path)]

WrongAddsAtHead(routes, route) == <<route>> \o routes

list_add_new_item(routes, route) == Append(routes, route)

(* A ROUTE_* line.  A name list_find knows makes dino_route_* return false   *)
(* and the macro break out of the block, to DINO_CONFIG_END and DINO_START.  *)
add_method_to_site ==
    /\ pc = "config"
    /\ line <= Len(script)
    /\ IF list_find(list, script[line].name)
       THEN pc' = "serving" /\ UNCHANGED <<list, line>>
       ELSE /\ list' = list_add_new_item(list, NewRoute(script[line]))
            /\ line' = line + 1
            /\ UNCHANGED pc
    /\ UNCHANGED <<script, last>>

(* The end of the block: DINO_START hands the table to the server. *)
DINO_CONFIG_END ==
    /\ pc = "config"
    /\ line > Len(script)
    /\ pc' = "serving"
    /\ UNCHANGED <<script, line, list, last>>

(* A request: find its route and, if there is one, bind the URL pieces to    *)
(* what its query has left in the map of parameters.                          *)
Dispatch(method, url, given) ==
    /\ pc = "serving"
    /\ LET route == list_method_find(list, method, url)
       IN  last' = [url    |-> url,
                    route  |-> route,
                    given  |-> given,
                    params |-> IF route = 0 THEN given
                               ELSE bind_url_params(given, list[route].stack, url)]
    /\ UNCHANGED <<script, line, pc, list>>

Next ==
    \/ add_method_to_site
    \/ DINO_CONFIG_END
    \/ \E method \in Method, url \in Url, given \in Given : Dispatch(method, url, given)

Spec == Init /\ [][Next]_vars

-----------------------------------------------------------------------------
Pieces == PathPieces \ {""}

(* The type invariant: no piece of a route is empty. *)
TypeOK ==
    /\ line \in 1..(Len(script) + 1)
    /\ pc \in {"config", "serving"}
    /\ Len(list) = line - 1
    /\ \A i \in DOMAIN list :
         /\ list[i].method \in Method
         /\ \A k \in DOMAIN list[i].stack : list[i].stack[k] \in Pieces
    /\ last.route \in 0..Len(list)

(* Binding one more route never takes a request away from the route that    *)
(* already serves it: earlier ROUTE lines win, whatever comes after          *)
(* (list_add_new_item adds at the tail, list_method_find scans from the head). *)
DispatchStable ==
    [][\A method \in Method, url \in Url :
         list_method_find(list, method, url) # 0 =>
           list_method_find(list', method, url) = list_method_find(list, method, url)]_list

Admissible(k) ==
    \A j \in 1..k : \A i \in 1..(j - 1) :
        ~ StartsWith(script[j].name, <<script[i].method>> \o script[i].name)

(* The table the server starts with is the longest run of the block's first *)
(* lines in which no name begins with an earlier line's verb-prefixed name:  *)
(* a refused line ends the block (the break of the ROUTE_* macros), and no   *)
(* line after it is bound.                                                   *)
TableIsLongestAdmissiblePrefix ==
    pc = "serving" =>
      /\ list = [i \in 1..Len(list) |-> NewRoute(script[i])]
      /\ Len(list) = Max({k \in 0..Len(script) : Admissible(k)})

HiddenBy(route, earlier) ==
    /\ earlier.method = route.method
    /\ Len(earlier.stack) = Len(route.stack)
    /\ \A k \in DOMAIN route.stack :
         earlier.stack[k] \in Wild \/ earlier.stack[k] = route.stack[k]

(* A route can be reached by some request if and only if no earlier route of *)
(* the same method and depth is at least as general at every piece: a        *)
(* combination of several earlier routes never hides it.                     *)
ReachableUnlessHidden ==
    \A i \in DOMAIN list :
        (\E url \in Url : list_method_find(list, list[i].method, url) = i)
          <=> ~ \E j \in 1..(i - 1) : HiddenBy(list[i], list[j])

(* How often the name of place k has been bound up to that place, in all. *)
Bound(stack, k)      == Cardinality({i \in 1..k : stack[i] = stack[k]})
BoundInAll(stack, p) == Cardinality({i \in 1..Len(stack) : stack[i] = p})

(* What a handler is given identifies the request, although every value of a *)
(* name is joined into one and the query may use the route's names: the      *)
(* values the request gave come first and are all kept, and counted from the *)
(* end the value of a name holds the pieces bound to it, in the order of its *)
(* places, so that with the pattern they give the URL, what is under '*'      *)
(* excepted (bind_url_params, dino_strmap_add).                                *)
UrlRecoverable ==
    last.route # 0 =>
      LET stack == list[last.route].stack
      IN  /\ Len(last.url) = Len(stack)
          /\ \A p \in ParamSegment :
               /\ Len(last.params[p]) = Len(last.given[p]) + BoundInAll(stack, p)
               /\ \A i \in DOMAIN last.given[p] : last.params[p][i] = last.given[p][i]
          /\ \A k \in DOMAIN stack :
               stack[k] \notin StarSegment =>
                 last.url[k] =
                   IF stack[k] \in ParamSegment
                   THEN LET value == last.params[stack[k]]
                        IN  value[Len(value) - BoundInAll(stack, stack[k]) + Bound(stack, k)]
                   ELSE stack[k]
=============================================================================
