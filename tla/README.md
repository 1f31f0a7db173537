# Formal model of the Dino web framework

TLA+ specifications of `src/lib` (the Dino framework, C), TLC configurations
that check them on small instances, and TLAPS proofs. Paths below are relative
to the repository; `PROJECT.json` maps every definition to its lines.

## The system

Dino is a single-threaded HTTP/1.0 server library. An application fills a route
table in a CONFIG block (macros of `dino.h`), then `DINO_START` runs the accept
loop of `dino_http.c`: one connection at a time, one request per connection.

| Component | State | Operations | Interacts with |
|---|---|---|---|
| Route table (`dino.c`, `dino_http.c`) | `dino_site->list`, linked, in the order added | `add_method_to_site`, `list_find`, `list_add_new_item`; `list_method_find`, `bind_url_params` | filled by the macros, read by every request; binds into the parameter map |
| Server loop (`dino_http.c`) | `g_server_socket`, `g_dino_keep_running`, the `dino_handle_t` of the request | `startup_connection`, `accept`, `read_request`, `accept_request`, `invoke_method`, `dino_process_request` | clients through sockets; signal handlers on the same thread |
| Signals (`dino.c`) | the same two globals | `dino_signal_shutdown`, `dino_signal_SIGPIPE` | interrupt the server loop anywhere |
| Arena (`dino_utils.c`) | `g_mem_cache` (size, freed, buffer) | `memory_alloc/realloc/free`, `memory_cache_alloc/clear/free` | under every string, map and stack |
| Request memory (`dino_http.c`, `dino_string.c`, `dino_strmap.c`) | the pointers a request owns | everything between `init_request` and `free_request` | the arena, libc's heap |
| Parameter map (`dino_strmap.c`) | buckets of pairs | `new`, `put`, `add`, `get_value`, `get_count`, `enum`, `delete` | headers, query and URL parameters all go into one map |
| Strings (`dino_string.c`) | buffer, size, position | `new_*`, `append_*`, `sprintf`, `resize`, `reset`, `delete` | under every text of a request |
| Template generator (`dino_template_generator.c`) | scanner, stack of conditions, symbol map | `dino_template_generate_buffer`, `dino_template_process_file` | asks callbacks of the application; writes a string |
| Integer map (`dino_intmap.c`) | buckets of pairs | `put`, `get_value`, `exists`, `get_count`, `enum` | the symbols of the template generator |
| Logging (`dino_debug.c`), status codes (`dino_http_error.h`) | | | not modelled |

What is hard here: signals that arrive in any statement of the one thread, the
handler of another signal included; clients that stop, half-close, hang up or
do not read at any byte, with nothing but the kernel between them and a blocking
`recv` or `send`; the arena that is cleared *before*
the request that lives in it is freed, and that may run out at any allocation, in
the middle of a map or a template; allocations that fail half way through a map
insertion; routes whose order and
generality interact; buffers that are full to the last byte, in unsigned
arithmetic; a template scanner that looks back one character and keeps its
conditions in an array of fixed depth. `PROJECT.json` lists each hazard at its line with the
properties aimed at it.

What makes each part correct: the table holds exactly the admissible first
lines and a request keeps its route; every answer belongs to its own request
and is complete when the connection closes in order; the server lives until it
is told to stop; blocks of the arena never overlap and never reach `free`; a
request leaks nothing but the known blocks; the map stores a key once, loses
no block, and returns what was given; a string's text is what was appended and
stays in its buffer; a template renders as its nested conditions say, and the
scan of any template ends.

## Modules

| Module | Models | State and actions |
|---|---|---|
| `RouteMatch` | matching, naming and the binding of URL pieces, as pure operators | paths and URLs are sequences of pieces, names sequences of atoms; the parameters a handler reads are, per name, the values `dino_strmap_add` joined |
| `RouteTable` (EXTENDS `RouteMatch`) | a CONFIG block and the table it fills | `script`/`line` are the ROUTE lines, `list` the table, `last` the latest request with the parameters it came with (`given`) and those its handler read; `add_method_to_site`, `DINO_CONFIG_END`, `Dispatch` |
| `HttpServer` (EXTENDS `RouteMatch`) | server loop, signals, clients | `pc` is where the thread is; one action per recv or send the thread can block or be interrupted at; `handlers` are the calls of the shutdown handler, each interrupted by the next; `full` says that the next send would block; `Connect`, `Send`, `HalfClose`, `HangUp`, `TakeIn` are the clients (external) |
| `MemoryCache` | the allocator | one operator per C function, from memory to memory; actions call them in any order |
| `RequestMemory` (EXTENDS `MemoryCache`) | every allocator call of a request, in program order, template calls from a buffer and from a file included | one slot per pointer: the struct and text of each string, the struct, bucket array, pairs, keys and values of each map; how often a text grows and how large the arena is are left open, so it runs out anywhere |
| `Params` | what the parameters of a request promise | abstract specification: key to joined values |
| `StrMap` | the hash map, with failing allocations and callers' buffers that may be too short | implements `Params` |
| `SerialService` | what clients may expect of one thread, whatever they do | abstract specification, implemented by `HttpServer` |
| `TextBuffer` | what a string builder promises | abstract specification: a text, and the call asked for with the caller's text (`asked`), which every step must carry out |
| `DinoString` | buffer, size and position in `size_t` arithmetic | one action per call, recorded with the text it is given in `call`; `KeepsItsText` is the refinement of `TextBuffer` |
| `IntMap` | the integer map, as operators from map to map | no variables |
| `Template` (EXTENDS `IntMap`) | the walk over a template | one action per turn of the loop; `pieces` is the template as written, `input` as scanned; the second half of the module says what it should render, without a stack |
| `MemoryCacheProofs`, `RequestMemoryProofs`, `RouteTableProofs`, `HttpServerProofs`, `StrMapProofs`, `DinoStringProofs`, `TemplateProofs` | theorems and proofs | |
| `RecursionLemmas` | lemmas on loops, shared by the proofs of `RouteTable`, `StrMap`, `DinoString` and `Template` | |
| `*MC` | instances for TLC | |

`HttpServer` and `RouteTable` share the matching operators, so the dispatch of
a request is the one the table's properties are about; `RequestMemory` is built
from the allocator's operators, so what is proved about `MemoryCache` is about
the calls a request makes. `Template` keeps its symbols by the operators of
`IntMap`.

`HttpServer` implements `SerialService` under the mapping: the queue is
`backlog`, the client being served `current`, a client's phase `conn`, what it
has received `got`, and the service has stopped when `sig` is "exited". What
the server reads, and what happens inside the thread, are stutters there.
`DinoString` implements `TextBuffer` under: the text is the first `position`
bytes of the buffer, and what is asked is the latest call with the caller's
text; an append that dropped, cut or garbled its text, and a reset nobody asked
for, would be steps of neither. `StrMap` implements `Params` under: the value of a key is
that of the first pair with the key in its bucket.

Operators whose name starts with `Wrong` are plausible slips. No
specification uses them; each stands for a mutation of the definition after
it, and shows that a property notices.

### Abstractions

* A connection carries tokens: a line of the request (`read_line` returns it
  whole), or a byte of the body. A line cut by the end of the stream is a line.
  A token is consumed in one step because nothing else looks at the bytes
  between two `recv` calls; the signal handler can still come between any two.
* Text is compared, never formatted. `"get_" ++ name` is a sequence of two
  atoms, so that "is a prefix of" in `list_find` keeps its meaning.
* A handler is `invoke_method`'s send sequence: status, a header, the blank
  line, the payload, carrying route, URL and body, so that a mix-up would show.
* `send` of an answer writes all of it (its short writes are not looked at by
  the code either) or blocks: after any `send` the client may have no room left
  (`full`), and then the next one has no step until the client takes in what it
  was sent (`TakeIn`), or has hung up, which makes `send` fail. The code sets no
  timeout.
* `dino_signal_shutdown` is modelled call by call: the socket is saved, taken
  out of `g_server_socket`, closed, and after the sleep the process exits.
  `signal` masks only the signal being handled, so up to `Signals` signals of
  different kinds nest (the code installs six), each between any two of those
  steps; the handler never returns to what it interrupted. The log message and
  the assignment of `g_dino_keep_running` are one step with the saving: a signal
  that comes between them finds what it would have found before them.
* A fatal error of libc raises SIGABRT and a stray write SIGSEGV, whose handler
  ends the process too. So does a Content-Length that no memory can hold (-1,
  say): `memory_alloc` returns NULL and the first byte of the body is written
  there (`dino_http.c:517`). In `HttpServer` that is the shutdown signal while
  the thread is at "body".
* In `RequestMemory` `malloc` always has memory (`StrMap`, `DinoString` and
  `Template` look at what happens when it has none), and contents are left out,
  but for the keys of a map. A map is as `dino_strmap.c` keeps it: key, value
  and the first array of pairs of a bucket come from `memory_alloc`, which goes
  on outside the arena when that is full; a longer array and a joined value come
  from `memory_realloc`, which then aborts. So a map may lie partly in the arena
  and partly in the heap. The temporary copies of `asprintf` and `alloca` are
  left out. A template call, from a buffer or from a file, goes through the
  allocator calls of its loop turn by turn; the caller may have passed NULL for
  `output_buffer`; at most one call of a request leaves a block behind
  (`NoTemplateYet`), because a second one would need slots of its own. A string
  made for a known length is always resized by its first append, because its
  text has no room for the terminator that `dino_string_append_str_length`
  reserves; empty texts and a `response_send` of no bytes are left out.
* In `StrMap` a value is the sequence of the texts joined in it and its length
  is their number. `room` is how many allocations of the call succeed.
* In `DinoString` the first fault (a write outside the buffer) ends a
  behaviour: what runs after it is undefined. A first allocation that fails
  gives a NULL string, which the callers dereference, and is left out. Any
  order of calls is allowed, which is more than the library does itself: it
  fills lines, URLs and bodies by character and everything else by string, and
  mixes the two only for a `%` that starts a template. So the overruns the
  property admits are not all reachable in a request: the ones that are, are a
  string of size 0 (`response_send` of no bytes, then another append) and a
  reallocation that fails.
* In `Template` the template is a sequence of pieces (text, tags, scraps of
  tags) scanned as atoms: `<`, `%`, `>`, `=`, a blank, another mark (a character
  that is no letter or digit, of `Marks`), or a word. All the scanner does
  depends on those; a word is what it would copy or look up. A symbol that
  begins with a mark is that one character, as `pi_template_get_symbol` cuts it,
  and the `rest` of what is written in the tag is skipped: `_title` asks for
  `_`. A call says which of the four operators the map has room for
  (`operators`), because `pi_template_generator_create` looks at none of its
  results, and whether its callbacks are there (`args`): without them
  `generate_buffer` answers that the input is invalid, and `process_file`, which
  does not look, answers that there was no error. `pi_template_if_set` reads past its array when conditions lie deeper
  than `Depth`: what it reads is a choice. The callbacks are two functions,
  `Truth` and `Value`; a name outside them is one the application does not
  know. `lost` remembers the symbols there was no memory for, for the
  properties only. The response header a file is answered with is left out, as
  is a failure of `ftell`. What the map and the strings do to memory is in
  `RequestMemory`, `StrMap` and `DinoString`.

### Fairness

`HttpServer` assumes weak fairness of the server thread's steps as a whole: the
scheduler runs the one thread whenever it can make a step, and `sleep(2)` ends.
Nothing is assumed of clients or signals: a client may stay silent for ever, or
never read its answer, and a `send` to it has then no step to be fair to. That,
a `recv` nobody answers, and the loop of `read_data` on a body cut short, are
the three ways `Hung` for one client to hold the thread.
`Template` assumes that a call, once made, goes on: it runs on that same thread
and waits for nothing. The other modules state no fairness.

## Runs

| Run | Bounds | What it shows |
|---|---|---|
| `RouteTable` | 2 methods, 2 names (`a` and `get_a`), 4 paths, one of which names a parameter twice, 3 lines, URLs of up to 2 pieces, a query that gives two values for that parameter | what the table holds when the server starts (a refused line ends the block); a request keeps its route; a route is reachable unless one earlier route covers it; the joined values a handler reads give back what was sent under each name and, with its route, the URL. Three lines are what two routes shadowing a third need; two pieces are what a binding off by one needs |
| `HttpServer` | 2 clients, 6 streams, accept queue of 2, one signal | answers, closing, resets, and the refinement of `SerialService`. Two clients are what state left over from one request to the next needs; in the queue of 2 one waits behind the other |
| `HttpServerLive` | 2 clients, 2 streams, accept queue of 1, 2 signals | the port is closed once a handler sleeps, but for the two windows named in `ListenerClosedOnShutdown`; only the handler ends the process; every connection is finished, unless the process stops or the thread hangs on one client for ever (blocked in `recv` or `send`, or spinning in `read_data`). Two signals are what one handler inside another needs |
| `MemoryCache` | 3 pointers, arenas 0/2/5, blocks of 0..2 | no overlap, bounds, `free` never sees the arena, `memory_realloc` (which copies the *new* size from the old block) of a block in use reads nothing behind the arena; of a block from before the last clear it may, and that is a fault of its own |
| `RequestMemory` | arenas of 9 and 20 units, blocks of up to 2 (the answer of up to 3), 2 request parameters in one bucket, one of which may come twice, 1 response header, 1 name of the application in a template | the arena runs out before, inside and after every phase of a request: 9 are used up by the maps and the request line, with 20 the pairs of a map, a template, or the answer are the first outside. While a request is read, handled and answered, no pointer in hand is of the time before the last clear |
| `RequestMemoryFull` | same | **violated**: growing a block when the arena is full calls libc's `realloc` on it |
| `RequestMemoryTest` | same, handlers free the template's text | **violated**: arena memory reaches `free` |
| `StrMap` | 3 keys, 2 buckets (two keys collide), 3 texts, values of up to 2 | implements `Params`; a key is stored once; nothing left after `delete` |
| `StrMapFirst` | same | **violated**: two values of a name come back joined |
| `DinoString` | a `size_t` of 6 bits, first buffers of 0..3 bytes, grown while the size is at most 6, strings of up to 4 characters | the text after each call is what that call was asked for; the calls that write outside the buffer are the known ones; only `append_char` fills the last byte. Every combination of room left and length appended occurs below one doubling past 6; 2 * (6 + 4) < 2^6 keeps the doubling itself from wrapping, as 64 bits do, while the subtractions wrap |
| `DinoStringText` | same | **violated**: a buffer full to its last byte has no terminator |
| `Template` | a stack 2 deep; nestings of up to 6 pieces ending in text, with room for all the operators or all but one; all templates of up to 3 tags or scraps of tags, with room for all; files and buffers of up to 2, with callbacks or without, and room for any of the operators; one mark, `_` | nested conditions render as they should; the scan ends, looks at nothing before the template, and copies a length of -1 only for a tag inside a tag; symbols are stored once; a file is closed unless it was empty. Six pieces are what a third level of conditions, beyond the stack, needs; three are what a tag in a tag needs |

`CHECK_DEADLOCK FALSE` is used throughout: an exited process, a returned
`dino_start`, an aborted request, a deleted map, a string after a fault and a
rendered template stop for good.

Bounds on counters: `MaxLines` (lines of a block), `Backlog` (5 in the code),
`Signals` (6 in the code), `MaxBlock` (size of a block), `MaxSize` (in
`RequestMemory`, how long what each pointer leads to may grow), `BodySizes` (the
lengths of a body), `MaxJoined` (texts in a value), `MaxSize` and `MaxLength`
(in `DinoString`, a string and what is appended to it), `Width` (bits of a `size_t`),
`Depth` (32 in the code) and the lengths of the templates in `TemplateMC`.

### Disagreements found

* `dino_utils.c:140`: `memory_realloc` of an arena block that no longer fits
  calls libc's `realloc` with it (run `RequestMemoryFull`).
* `dino.c:463` against `test/main.c:127`: the text of a template call lies in
  the arena, and the test frees it (run `RequestMemoryTest`).
* `dino_strmap.c:203` against `README.md:124`: PARAMS returns all values of a
  name, joined, not the first (run `StrMapFirst`).
* `dino_string.c:104` against `dino_string.h:83`: a text of exactly the
  buffer's size, put together by character, is not "a regular C String". A
  request or header line of 64 characters is such a text: whoever reads it as a
  string reads on into the arena (run `DinoStringText`).
* Noted, without a run: in `dino_template_generator.c:347` a tag opened inside
  an unclosed tag gives a length of -1 and a copy of `SIZE_MAX` bytes
  (`CrashesOnlyOnTagInTag` says that nothing else does); an Else for the
  condition that lies exactly `if_stack_depth` deep is ignored
  (`dino_template_generator.c:266` and below; `WellNested` leaves it out); a
  template file of no bytes is never closed (`LeftOpenOnlyIfEmpty`); the
  repository's README lists a macro `DINO_STOP` that `dino.h` does not have;
  `dino_http.c:126` speaks of refusing a POST without a
  Content-Length, and such a POST is dispatched with an empty body;
  `dino_strmap.c:187` trims a copy and line 215 stores the untrimmed value of a
  new key; `dino_strmap.h:186` says `dino_strmap_enum` returns false when the
  walk is cut short, and it returns true.

## Proofs

Each theorem is for every value of the constants: any clients and streams, any
routes, any arena, any hash, any template. What is assumed of the constants are
the named `ASSUME`s of the modules; none of them bounds a set, and of finiteness
nothing is assumed. Those worth a word:

* `ScriptAssumption` (`HttpServer`): a stream is a finite sequence of tokens,
  and what `atol` leaves in `content_size` is a natural number, as a `size_t` is.
* `PathAssumption` (`RouteTable`): a path is a finite sequence of pieces.
  `UrlAssumption`: for every path there may come a request that puts the same
  piece, one no path names, under each wildcard. A server does not choose its
  URLs; only `ReachableUnlessHidden` needs it.
* `CallsAssumption` (`Template`): a template is a finite sequence of pieces of
  the kinds `Atoms` writes, and a scrap is a finite sequence of atoms; the
  operators with room are any of the four. It also says what the kinds mean: a
  plain text is a word (`Word`), not a mark, and the name in a tag is one word,
  no operator's, or a mark with more of the name behind it (`rest`). Whatever is
  written otherwise (`<% If Else %>`, a `%` in the text) is a scrap, and stays
  a template of every property but `RendersAsNested`.
* `KeysAssumption`, `BodySizesAssumption` (`RequestMemory`): every key of a map
  has its bucket, the map of symbols may hold the four operators, and a length
  is a natural number.
  `TruthAssumption`: the application answers true or false. `ValueAssumption`:
  the strings it answers with are finite sequences. `HashAssumption`
  (`Template`, `StrMap`): a hash falls in a bucket, as a remainder does.
* `MaxSizeAssumption` (`DinoString`): a string appended to, with what is
  appended, is shorter than half the range of `size_t`. No buffer in memory
  comes near that with 64 bits; without it the doubling itself would wrap.
* `TextAssumption` (`StrMap`): trimming leaves no blank text.

What is proved, component by component:

* Arena (`MemoryCacheProofs`). The inductive invariant is `TypeOK`, `ArenaInv`
  and the apartness of blocks. `LiveBlocksApart` alone is not inductive: that a
  new block meets none of the old ones needs all of them to lie below the first
  free byte, and `ArenaNeverFreed` needs that every block, even one of size 0,
  starts inside the arena, which the strict `n < freed` of `memory_alloc` gives.
  `ReallocStaysInside` is about blocks in use. It follows from the block's start
  lying below the first free byte: the copy reads past the old block, but no
  further than the new one will reach. A block from before the last clear has no
  such bound, and its copy may run past the arena: the model names that a fault,
  and `NothingFreedTwice` says no request runs into it. Each allocator function has its lemma over an arbitrary memory.
* Memory of a request (`RequestMemoryProofs`). All six properties. `RequestInv`
  says, for each place of a request, what memory its slots may hold: while it is
  served its blocks in the arena are all "cache", after the clear all "stale";
  `HeldAt(pc)` is the slots that may own a block of malloc there, `FreedByApp`
  and `FreedAtEnd` those whose block was given back. One record, `Owned`, says
  it for any of these sets, so that each allocator call has one lemma
  (`AllocOwned`, `ReallocOwned`, `FreeOwned`, from the lemmas of
  `MemoryCacheProofs`), and so has each function made of them (`FreeAllOwned`,
  `MapNewOwned`, `AddOwned`, `PutOwned`, `CreateOwned`, and those of the
  strings). Nothing is said of which slots of a map are in the arena: each of
  its keys, values and arrays may be in either, and deleting the whole map frees
  what it owns outside. The leaks are known because `HeldAt` shrinks to them at
  the end; `NothingFreedTwice` holds because no slot is both owned and given
  back, and because nothing is grown once the arena was cleared under it.
  It is stated for applications that do not free a template's text
  (`~ AppFreesOutput`): the run `RequestMemoryTest` shows what happens otherwise.
* Route table (`RouteTableProofs`). All five properties. `TableInv` says the
  table is the routes of the lines run so far, all admissible, and that a block
  ends early only at a name `list_find` knows; from it the table is the longest
  admissible prefix, and (with the least element of a set of naturals) a request
  keeps its route. `LastInv` says which route the latest request was given, and that
  its handler read the parameters sent joined with that route's bindings. That
  the joined values end in the pieces bound to each name, in their order, so
  that these give back the URL, rests on what a filtering loop (`Picked`)
  returns: the n-th element kept is at the place with n places up to it. That a hidden
  route is hidden by *one* earlier route takes the request of `UrlAssumption`:
  whoever serves it covers the pattern it was made from.
* Server loop (`HttpServerProofs`). `ShutdownInv` ties `pc`, the
  flag, `g_server_socket`, the port and the calls of the shutdown handler, one
  interrupting the other: an open port is in `g_server_socket`, or saved by a
  call that has not closed it yet, except in the one step before the assignment.
  From it the two windows in which the port outlives a handler's close are the
  only ones. `ImplementsService`: every step
  of `HttpServer` is a step of `SerialService` or changes nothing of it; what
  that needs is `TurnInv` (a client is held exactly at the places of the thread
  where a request is read or answered).
  `AnswerInv` is what the answers need: for every client, what it has received
  is the beginning of the answer that what it *has sent* already determines, and
  for the one being served, the request in hand is what the tokens read so far
  say (the request line, then the last length announced, then a part of the
  body). The hard part is that `ExpectedAnswer` looks at the whole stream while
  the server has seen a beginning of it: the lemmas up to `DeterminedKept` say
  when more tokens cannot change an answer any more. From it
  `AnswersAreForOwnRequest`, `ClosedConnectionsAreAnswered`,
  `ResetsAreOfOverlong` and the type invariant.
* Parameter map (`StrMapProofs`). All four properties. `MapInv`: every bucket
  holds distinct names of its own hash, and `live` is what `dino_strmap_delete`
  would free, so that an error path that kept or freed a block too many would
  break it. `MapImplementsParams` maps a call to the call of `Params` with
  `Content`, the value of the first pair with each key; what `get_count` and
  `enum` return is proved of their walk over the buckets.
* Strings (`DinoStringProofs`). All four properties. The invariant `Good` says
  the text lies in a buffer of `size` bytes with nothing behind it, and that
  `size` fits a `size_t`. The arithmetic comes first: `PlusIs` and `MinusIs` say
  what `size_t` sums and differences are when they stay in range and when they
  wrap, `PowersOfTwo` what `Pow2` is, and `DoublingIs` that the doubling of a
  size other than 0 reaches what is needed before it wraps, with the least
  element of a set of naturals as the number of turns. `MaxSizeAssumption` keeps
  twice what is needed below the modulus; the length of -1 is beyond it, and
  there `AppendBelowZeroIs` follows the wrapped sums to the overrun they end in,
  which needs that the modulus is even. Then each call has its lemma over an
  arbitrary string, and `ImplementsTextBuffer` maps a step to the step of
  `TextBuffer` asked for: what an append leaves behind the old text is the
  caller's text, to the last character.
* Template generator (`TemplateProofs`). All its safety properties.
  `ScanInv`: the walk may stand on the `%` of a `<%` only if the template has a
  tag inside a tag, and on the first atom only if that is no `%`; the stack
  counts no more than the atoms walked past; the symbol map holds exactly those operators create found room for, with
  their types, and whatever else is in it is a variable.
  `NeverReadsBeforeInput` alone is not inductive: it needs where the walk stands
  between two turns. The lemmas about `IntMap` are proved for any map in order.
  `RendersAsNested` compares the scan of the atoms with a meaning of the pieces
  that knows no stack, no map and no pointer. `RenderInv` ties the two at every
  turn of the loop: the walk stands where a piece k begins (`Walked`), the stack
  holds, as far as it reaches, what the conditions around k come to
  (`StackSays`), the map knows the names used before k but for those lost
  (`MapSays`), and the output is what some set of the pieces before k renders
  to, all of them in sight and none missing that has to be there (`Shows`). None
  of the four is inductive without the others: what is shown depends on the
  stack, and which names stand for values on the map. The proof goes in three
  layers. First where the pieces lie: `Laid` gives each piece its place in the
  input (`LaidExists`, from what `FlattenSeq` computes), so that the next `%` is
  the next tag's (`PercentAhead`), the symbols read are the tag's (`TagSymbols`)
  and the walk stops behind it (`BehindTag`). Then what a piece stands under:
  `BranchStays`, `BranchOpens` and `BranchTurns` say how `BranchTaken` changes
  from a piece to the next, `StackPushed`, `StackTurned` and `StackPopped` that
  the stack changes alike. That a push beyond the array is counted is what
  keeps `StackPopped` true there; that an Else at exactly `Depth` is left out by
  `WellNested` is what `StackTurned` needs. Last what is output: `RenderMore`
  and `RenderTexts` say what one piece or one run of text more adds. TLC checked
  `RenderInv` on the instance of `TemplateMC` before it was proved.
* What loops compute is proved with `RecursionLemmas`: the models write them as
  recursive functions over a range of naturals, and going up or down such a
  range comes from the least element of a set of naturals, itself from the
  well-foundedness of strict inclusion on finite sets.

Only model-checked:

* The liveness properties `QueuedIsServed` and `ScanEnds`: liveness under
  fairness is out of the prover's reach, as is ENABLED.

No module declares a RECURSIVE operator.

## Plan

1. Done: routes, server loop, arena, request memory, parameter map.
2. Done: `DinoString` and `TextBuffer`.
3. Done: `IntMap` and `Template`.
4. Done: `SerialService`, and the proof that `HttpServer` implements it.
5. Done: the proofs of every safety property and action property of every
   component, and of the refinements of `SerialService`, `Params` and
   `TextBuffer`.
6. Left: the liveness properties, which only TLC checks.

Not modelled: logging (`dino_debug.c`, formatting only), status codes, HTTPS
(the site type exists, no code serves it), the example application (it only
calls the framework), `cannot_execute`, `not_found` and `unimplemented` (never
called), alignment of arena blocks, the contents of the bytes `memory_realloc`
copies, and a second `dino_start` in one process, for which `memory_cache_free`
leaves a dangling `g_mem_cache` (`dino_utils.c:164`): in a server that started,
that function is never reached (`EndsOnlyByShutdown`).
