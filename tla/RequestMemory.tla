--------------------------- MODULE RequestMemory ----------------------------
(* The memory behind the requests: what dino_http.c, the handler it calls,    *)
(* and the maps, strings and templates they use take from the allocator of     *)
(* module MemoryCache while the server starts and serves one request after      *)
(* another, and what they give back.  Contents are left out, but for the keys   *)
(* of a map.  Here malloc always has memory (StrMap, DinoString and Template     *)
(* look at what happens when it has none).                                      *)
EXTENDS MemoryCache, FiniteSets

CONSTANTS
    Keys,           \* for each map of a request, the keys it may come to hold
    Hash,           \* the bucket of each key
    Buckets,        \* the buckets of a map
    MaxSize,        \* bound: how long what these pointers lead to may grow
    BodySizes,      \* the announced lengths of a body
    AppFreesOutput  \* handlers free() the text a template call gives them

Maps == {"request", "response", "symbols"}
Strings == {"line", "url", "query", "header", "rsp", "source", "input", "body", "output",
            "symbol", "first", "second"}

ASSUME KeysAssumption ==
    /\ DOMAIN Keys = Maps /\ {"If", "Else", "EndIf", "="} \subseteq Keys["symbols"]
    /\ \A map \in Maps : \A key \in Keys[map] : Hash[key] \in Buckets
ASSUME BodySizesAssumption == BodySizes \subseteq Nat
ASSUME AppFreesOutputAssumption == AppFreesOutput \in BOOLEAN

(* The pointers of a dino_string_t, of a map, and of the URL's pieces. *)
Struct(string) == <<string, "struct">>
Text(string) == <<string, "text">>
Both(string) == {Struct(string), Text(string)}

Map(map) == <<map, "map">>
Table(map) == <<map, "buckets">>
Pairs(map, bucket) == <<map, "pairs", bucket>>
Key(map, key) == <<map, "key", key>>
Value(map, key) == <<map, "value", key>>
Values(map) == {Value(map, key) : key \in IF map = "symbols" THEN {} ELSE Keys[map]}
Whole(map) ==
    {Map(map), Table(map)} \cup {Pairs(map, bucket) : bucket \in Buckets}
      \cup {Key(map, key) : key \in Keys[map]} \cup Values(map)

Stack == <<"stack", "struct">>
StackData == <<"stack", "data">>
StackPointers == <<"stack", "pointers">>
WholeStack == {Stack, StackData, StackPointers}

Data == <<"data">>              \* request.data
FileContents == <<"file">>      \* file_contents
Site == <<"site">>              \* the dino_http_site_t, with its table of routes

RequestSlot ==
    (UNION {Both(string) : string \in Strings}) \cup (UNION {Whole(map) : map \in Maps})
      \cup WholeStack \cup {Data, FileContents}

ASSUME SlotAssumption == Slot = RequestSlot \cup {Site}

VARIABLE pc     \* where the server thread is

memvars == <<mem, pc>>

-----------------------------------------------------------------------------
(* The helpers, each a run of allocator calls. *)

One == 1    \* the size of a block before it grows

Grown(m, slot) == memory_realloc(m, slot, m.block[slot].size + 1)

CanGrow(m, slot) == m.block[slot].size < MaxSize[slot]

(* memory_free of several blocks, each before the one that holds its address, *)
(* so the order does not show, but for a call that faults.                      *)
FreeAll(m, slots) ==
    LET bad == {s \in slots : memory_free(m, s).fault # m.fault}
    IN  IF bad # {} THEN memory_free(m, CHOOSE s \in bad : TRUE)
        ELSE [m EXCEPT !.block = [s \in Slot |-> IF s \in slots THEN memory_free(m, s).block[s]
                                                  ELSE m.block[s]]]

(* The pointers in these slots go out of scope or are set to NULL.  A block   *)
(* of malloc not freed by then stays on record: nobody can free it any more.   *)
Dropped(m, slots) ==
    [m EXCEPT !.block = [s \in Slot |-> IF s \in slots /\ m.block[s].place # "heap"
                                        THEN NoBlock ELSE m.block[s]]]

dino_strmap_new(m, map) == memory_alloc(memory_alloc(m, Map(map), One), Table(map), One)

Stored(m, map, key) == m.block[Key(map, key)].place # "none"

(* The first pair of a bucket, or room for one more: bucket->count is 0 as    *)
(* long as bucket->pairs is NULL.                                              *)
PairAdded(m, pairs) ==
    IF m.block[pairs].place = "none" THEN memory_alloc(m, pairs, One) ELSE Grown(m, pairs)

(* A value stored before is joined with the new one, so it gets longer. *)
dino_strmap_add(m, map, key) ==
    IF Stored(m, map, key) THEN Grown(m, Value(map, key))
    ELSE PairAdded(memory_alloc(memory_alloc(m, Key(map, key), One), Value(map, key), One),
                   Pairs(map, Hash[key]))

intmap_put(m, key) ==
    IF Stored(m, "symbols", key) THEN m
    ELSE PairAdded(memory_alloc(m, Key("symbols", key), One), Pairs("symbols", Hash[key]))

WrongKeepsValues(m, map) == FreeAll(m, Whole(map) \ Values(map))

(* dino_strmap_delete, intmap_delete: every key, value, bucket, and the map. *)
dino_strmap_delete(m, map) == FreeAll(m, Whole(map))

dino_string_new(m, string) == memory_alloc(memory_alloc(m, Struct(string), One), Text(string), One)

(* A string made for a known length: its text lacks the byte of the           *)
(* terminator, so the first append always resizes it.                          *)
dino_string_new_with_str(m, string) == Grown(dino_string_new(m, string), Text(string))

dino_string_delete(m, string) == Dropped(FreeAll(m, Both(string)), Both(string))

stack_ptr_alloc(m) == memory_alloc(memory_alloc(m, Stack, One), StackData, One)

stack_ptr_free(m) == Dropped(FreeAll(m, WholeStack), WholeStack)

WrongAllocatesCacheFirst(m) == memory_alloc(memory_cache_alloc(m, MaxBlock + 1), Site, One)

(* dino_config_start_http and the routes: they outlive every request. *)
dino_config_start(m) == memory_alloc(m, Site, One)

WrongForgetsMapsOnly(m) ==
    [m EXCEPT !.block = [s \in Slot |-> IF s \in Whole("request") \cup Whole("response")
                                        THEN NoBlock ELSE m.block[s]]]

(* bzero of dhandle, and new locals: the pointers of the last request are gone. *)
Forgotten(m) ==
    [m EXCEPT !.block = [s \in Slot |-> IF s = Site THEN m.block[s] ELSE NoBlock]]

WrongFreesUrlTwice(m) == memory_free(memory_free(m, Struct("url")), Struct("url"))

(* free_request: the dino_string_t of the URL is freed as plain memory, its   *)
(* text is not; request.data is not either.                                    *)
FreeUrl(m) == memory_free(m, Struct("url"))

free_request(m) ==
    dino_strmap_delete(dino_strmap_delete(dino_string_delete(FreeUrl(m), "rsp"), "request"), "response")

-----------------------------------------------------------------------------
(* The server thread.  A fault is the end: libc aborts. *)
MemInit == mem = InitMemory /\ pc = "config"

Step(from, m, to) ==
    /\ pc = from
    /\ mem' = m
    /\ pc' = IF m.fault = "none" THEN to ELSE "aborted"

Configure == Step("config", dino_config_start(mem), "start")

(* dino_http_start up to its loop; startup_connection may fail. *)
dino_http_start ==
    \E n \in CacheSizes :
        \/ Step("start", memory_cache_alloc(mem, n), "accept")
        \/ Step("start", memory_cache_free(memory_cache_alloc(mem, n)), "stopped")

(* accept has returned, with a socket or with -1. *)
init_request ==
    /\ pc = "accept"
    /\ mem' = dino_strmap_new(dino_strmap_new(Forgotten(mem), "request"), "response")
    /\ pc' \in {"request line", "clear"}

(* parse_method_url: the line, then the URL, then the query if there is one. *)
ReadRequestLine == Step("request line", dino_string_new(mem, "line"), "read line")

(* dino_string_append_char on a full string, or dino_string_append_str on one *)
(* with too little room, in any of the loops.                                  *)
Grow(at, string) == CanGrow(mem, Text(string)) /\ Step(at, Grown(mem, Text(string)), at)

BadRequest == Step("read line", dino_string_delete(mem, "line"), "clear")

StartUrl == Step("read line", dino_string_new(mem, "url"), "read url")

StartQuery == Step("read url", dino_string_new(mem, "query"), "read query")

(* Query, headers, the pieces of the URL (bind_url_params), response_header_set. *)
AddParameter(at, map) ==
    \E key \in Keys[map] :
        CanGrow(mem, Value(map, key)) /\ Step(at, dino_strmap_add(mem, map, key), at)

EndQuery ==
    Step("read query", dino_string_delete(dino_string_delete(mem, "query"), "line"), "headers")

EndUrl == Step("read url", dino_string_delete(mem, "line"), "headers")

(* parse_headers and read_request: the lines, then the body if announced. *)
ReadHeader == Step("headers", dino_string_new(mem, "header"), "read headers")

EndHeaders ==
    LET m == dino_string_delete(mem, "header")
    IN  \/ Step("read headers", m, "parse")
        \/ \E n \in BodySizes : Step("read headers", memory_alloc(m, Data, n), "parse")

(* accept_request: the URL cut in pieces, one stack_ptr_push per piece. *)
StackUrl == Step("parse", stack_ptr_alloc(mem), "pieces")

stack_ptr_push == CanGrow(mem, StackPointers) /\ Step("pieces", Grown(mem, StackPointers), "pieces")

NoRoute == Step("pieces", stack_ptr_free(mem), "clear")

(* invoke_method: the pieces are bound, then the handler is called. *)
BindUrl == Step("pieces", mem, "bind")

CallHandler == Step("bind", mem, "handler")

response_send ==
    \/ /\ mem.block[Struct("rsp")].place = "none"
       /\ Step("handler", dino_string_new_with_str(mem, "rsp"), "handler")
    \/ /\ mem.block[Struct("rsp")].place # "none"
       /\ Grow("handler", "rsp")

Return == Step("handler", stack_ptr_free(mem), "clear")

(* The end of dino_process_request: the cache is cleared before the handle   *)
(* is freed, so free_request reads and frees stale blocks.                     *)
ClearCache == Step("clear", memory_cache_clear(mem), "free")

FreeRequest == Step("free", free_request(mem), "accept")

-----------------------------------------------------------------------------
(* A template call of the handler.  The bound: one of those that leave a      *)
(* block behind.                                                               *)
NoTemplateYet ==
    mem.block[Struct("input")].place = "none" /\ mem.block[Text("output")].place = "none"

pi_template_generator_create(m) ==
    intmap_put(intmap_put(intmap_put(intmap_put(dino_strmap_new(m, "symbols"), "If"), "Else"), "EndIf"), "=")

(* dino_template_generate_buffer up to its loop. *)
BeginScan(m) == dino_string_new(pi_template_generator_create(m), "symbol")

(* The scan is not begun when a callback is NULL.  The file may be missing,   *)
(* empty, or not be read.                                                      *)
template_generate_buffer ==
    /\ NoTemplateYet
    /\ LET m == dino_string_new(dino_string_new_with_str(mem, "input"), "output")
       IN  \/ Step("handler", m, "rendered")
           \/ Step("handler", BeginScan(m), "scan buffer")

template_process_file ==
    /\ NoTemplateYet
    /\ LET m0 == dino_string_new(dino_string_new_with_str(mem, "source"), "output")
           m1 == memory_alloc(m0, FileContents, One)
           m2 == dino_string_new(dino_string_new(m1, "input"), "body")
       IN  \/ Step("handler", dino_string_delete(m0, "source"), "rendered")
           \/ Step("handler", dino_string_delete(Dropped(memory_free(m1, FileContents), {FileContents}), "source"), "rendered")
           \/ Step("handler", m2, "respond")
           \/ Step("handler", BeginScan(m2), "scan file")

NewSymbols(m) == {key \in Keys["symbols"] : ~ Stored(m, "symbols", key)}

(* pi_template_lookup_symbol: one symbol or two, each a string of its own, the *)
(* text of a variable in the string of the loop, a new name in the map.         *)
Tag(at) ==
    /\ pc = at
    /\ \E m1 \in {dino_string_new_with_str(mem, "first")} :
       \E m2 \in {m1, dino_string_new_with_str(m1, "second")} :
       \E m3 \in {m2} \cup {m \in {Grown(m2, Text("symbol"))} : CanGrow(m2, Text("symbol"))} :
       \E m4 \in {m3} \cup {intmap_put(m3, key) : key \in NewSymbols(m3)} :
          Step(at, dino_string_delete(dino_string_delete(m4, "first"), "second"), at)

EndScan(at, to) ==
    LET m == dino_string_delete(mem, "symbol")
    IN  Step(at, Dropped(dino_strmap_delete(m, "symbols"), Whole("symbols")), to)

(* dino_template_process_file: header and text are put in the output. *)
RespondWithFile ==
    LET m == Dropped(memory_free(dino_string_delete(dino_string_delete(mem, "body"), "input"), FileContents),
                     {FileContents})
    IN  Step("respond", dino_string_delete(m, "source"), "rendered")

(* The handler gets the text of the output, or there is nobody to get it. *)
GiveOutput ==
    LET given == Dropped(memory_free(mem, Struct("output")), {Struct("output")})
    IN  \/ Step("rendered", IF AppFreesOutput THEN free(given, Text("output")) ELSE given, "handler")
        \/ Step("rendered", dino_string_delete(mem, "output"), "handler")

MemNext ==
    \/ Configure \/ dino_http_start \/ init_request
    \/ ReadRequestLine \/ Grow("read line", "line") \/ BadRequest
    \/ StartUrl \/ Grow("read url", "url")
    \/ StartQuery \/ Grow("read query", "query") \/ AddParameter("read query", "request")
    \/ EndQuery \/ EndUrl
    \/ ReadHeader \/ Grow("read headers", "header") \/ AddParameter("read headers", "request")
    \/ EndHeaders
    \/ StackUrl \/ stack_ptr_push \/ NoRoute
    \/ BindUrl \/ AddParameter("bind", "request") \/ CallHandler
    \/ AddParameter("handler", "response") \/ response_send
    \/ template_generate_buffer \/ Tag("scan buffer") \/ Grow("scan buffer", "output")
    \/ EndScan("scan buffer", "rendered")
    \/ template_process_file \/ Tag("scan file") \/ Grow("scan file", "body")
    \/ EndScan("scan file", "respond") \/ Grow("respond", "output") \/ RespondWithFile
    \/ GiveOutput \/ Return
    \/ ClearCache \/ FreeRequest

MemSpec == MemInit /\ [][MemNext]_memvars

-----------------------------------------------------------------------------
PcValues ==
    {"config", "start", "accept", "request line", "read line", "read url", "read query",
     "headers", "read headers", "parse", "pieces", "bind", "handler", "scan buffer", "scan file",
     "respond", "rendered", "clear", "free", "stopped", "aborted"}

(* The type invariant. *)
MemTypeOK == mem \in Memory /\ pc \in PcValues

(* No two blocks the request still points to overlap, the stale ones that    *)
(* free_request reads after memory_cache_clear included: nothing is carved     *)
(* between that clear and the end of free_request.                             *)
ReferencedBlocksApart ==
    LET pointers == {s \in Slot : mem.block[s].place \in Arena}
    IN  \A s, t \in pointers : s # t => Apart(mem.block[s], mem.block[t])

(* While a request is read, handled and answered no pointer in hand leads to  *)
(* the arena as it was before the last clear: init_request forgets them all,    *)
(* the answer's buffer included, although it is not freed there.               *)
StaleForgotten ==
    (\E s \in Slot : mem.block[s].place = "stale") => pc \in {"free", "accept", "aborted"}

(* "This assumes that there is no memory allocations that will be presisted   *)
(* across calls" (dino_process_request): the site and its routes are never in  *)
(* the arena, because they are allocated before it is.                         *)
SiteOutlivesRequests ==
    pc \notin {"config", "aborted"} => mem.block[Site].place = "heap"

(* Whatever spills out of the arena is freed by the end of its request,      *)
(* maps, strings and templates that lie partly in the arena and partly outside  *)
(* it included, but for the text of the URL, the body, and what a template call *)
(* leaves: its input, and the output it gave to the handler.                    *)
LeaksOnlyKnown ==
    pc = "accept" =>
      {s \in Slot : mem.block[s].place = "heap"}
        \subseteq {Site, Text("url"), Data, Struct("input"), Text("input"), Text("output")}

(* Nothing is freed twice, no arena memory reaches libc's free, and no block  *)
(* from before the last clear is grown, so that memory_realloc never copies     *)
(* from behind the arena: wherever in a request the arena runs out, in the      *)
(* middle of a map's pair too.                                                  *)
NothingFreedTwice ==
    mem.fault \in {"none", "libc realloc of arena memory"}

(* "See if it will fit in the cache: If not allocate from memory": a block    *)
(* that no longer fits in the cache comes from memory, and no request ends    *)
(* the process.                                                                *)
AllocatesFromMemoryWhenFull == pc # "aborted"

(* GET(template_test) of the tests frees the output of a template call with   *)
(* free, as any C string it owns.                                              *)
TemplateOutputIsFreeable == mem.fault # "libc free of arena memory"
=============================================================================
