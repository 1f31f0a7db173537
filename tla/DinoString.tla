----------------------------- MODULE DinoString -----------------------------
(* The string builder of dino_string.c: a buffer of `size` bytes, the first  *)
(* `position` of which are the text.  The arithmetic is size_t's; a write     *)
(* outside the buffer, or a doubling loop that never ends, is the fault that  *)
(* ends a behaviour.                                                          *)
EXTENDS Integers, Sequences, FiniteSetsExt

CONSTANTS
    Char,       \* the bytes a text is made of
    Nul,        \* the byte 0
    Width,      \* bits of a size_t
    Sizes,      \* what dino_string_new_with_size is called with (64 by default)
    Rooms,      \* what memory_realloc may find: room (TRUE) or none (FALSE)
    MaxSize,    \* bound: a longer string is not appended to
    MaxLength   \* bound: the length of an appended string

ASSUME NulAssumption == Nul \notin Char
ASSUME WidthAssumption == Width \in Nat \ {0}
ASSUME SizesAssumption == Sizes \subseteq 0..MaxSize
ASSUME RoomsAssumption == Rooms \subseteq BOOLEAN

(* 2 ^ n, by doubling. *)
Pow2[n \in 0..Width] == IF n = 0 THEN 1 ELSE 2 * Pow2[n - 1]

ASSUME MaxSizeAssumption == MaxSize \in Nat /\ 2 * (MaxSize + MaxLength) < Pow2[Width]
ASSUME MaxLengthAssumption == MaxLength \in Nat

VARIABLES
    str,        \* the dino_string_t and its text
    call        \* the latest call: what it does, the text and length it is given, the memory it finds

vars == <<str, call>>

SIZE_MAX == Pow2[Width] - 1

Plus(a, b) == (a + b) % Pow2[Width]
Minus(a, b) == (a - b) % Pow2[Width]

Zeros(n) == [i \in 1..n |-> Nul]

NoString == [live |-> FALSE, size |-> 0, position |-> 0, bytes |-> <<>>, fault |-> "none"]

Text(s) == SubSeq(s.bytes, 1, s.position)

-----------------------------------------------------------------------------
(* The functions of dino_string.c. *)

dino_string_new_with_size(n) ==
    [live |-> TRUE, size |-> n, position |-> 0, bytes |-> Zeros(n), fault |-> "none"]

dino_string_reset(s) == [s EXCEPT !.position = 0, !.bytes = Zeros(s.size)]

WrongForgetsSize(s, new_size, room) ==
    [s EXCEPT !.bytes = Text(s) \o Zeros(new_size - s.position)]

WrongClearsFromStart(s, new_size, room) ==
    [s EXCEPT !.size = new_size, !.bytes = Zeros(new_size)]

(* memory_realloc may return NULL; the callers do not look at the result. *)
dino_string_resize(s, new_size, room) ==
    IF room THEN [s EXCEPT !.size = new_size, !.bytes = Text(s) \o Zeros(new_size - s.position)]
    ELSE s

dino_string_buffer_double_size(s, room) == dino_string_resize(s, Plus(s.size, s.size), room)

Faulted(s, fault) == [s EXCEPT !.fault = fault]

(* memcpy, or a single assignment, at the position. *)
CopyIn(s, src, length) ==
    IF s.position + length > s.size THEN Faulted(s, "overrun")
    ELSE [s EXCEPT !.position = @ + length,
                   !.bytes = Text(s) \o src \o SubSeq(@, s.position + length + 1, s.size)]

dino_string_append_char(s, ch, room) ==
    CopyIn(IF s.position = s.size THEN dino_string_buffer_double_size(s, room) ELSE s, <<ch>>, 1)

WrongForgetsTerminator(s) == Minus(s.size, s.position)

(* What is left for text, with a byte kept for the terminator. *)
CharsRemaining(s) == Minus(Minus(s.size, s.position), 1)

WrongDoublesOnce(s, length) == {1}

(* How often the do-while may have doubled when it stops. *)
Doublings(s, length) ==
    {k \in 1..Width :
        (s.size * Pow2[k]) % Pow2[Width] >= Plus(s.size, Minus(length, CharsRemaining(s)))}

MakeRoom(s, length, room) ==
    IF CharsRemaining(s) >= length THEN s
    ELSE IF Doublings(s, length) = {} THEN Faulted(s, "endless loop")
    ELSE dino_string_resize(s, (s.size * Pow2[Min(Doublings(s, length))]) % Pow2[Width], room)

dino_string_append_str_length(s, src, length, room) ==
    LET t == MakeRoom(s, length, room)
    IN  IF t.fault # "none" THEN t ELSE CopyIn(t, src, length)

dino_string_append_str(s, src, room) == dino_string_append_str_length(s, src, Len(src), room)

dino_string_new_with_str(string, room) ==
    dino_string_append_str(dino_string_new_with_size(Len(string)), string, room)

-----------------------------------------------------------------------------
(* Any order of calls on one string, until the first fault. *)

Strings == UNION {[1..n -> Char] : n \in 0..MaxLength}

Called(op, text, length, room) ==
    call' = [op |-> op, text |-> text, length |-> length, room |-> room]

Init == str = NoString /\ call = [op |-> "none", text |-> <<>>, length |-> 0, room |-> TRUE]

New ==
    /\ ~ str.live
    /\ \/ \E n \in Sizes :
            str' = dino_string_new_with_size(n) /\ Called("create", <<>>, n, TRUE)
       \/ \E string \in Strings, room \in Rooms :
            /\ str' = dino_string_new_with_str(string, room)
            /\ Called("create", string, Len(string), room)

MayGrow == str.live /\ str.fault = "none" /\ str.size <= MaxSize

AppendChar ==
    /\ MayGrow
    /\ \E ch \in Char, room \in Rooms :
        str' = dino_string_append_char(str, ch, room) /\ Called("append char", <<ch>>, 1, room)

(* dino_string_sprintf appends what it has formatted. *)
AppendString ==
    /\ MayGrow
    /\ \E src \in Strings, room \in Rooms :
        /\ str' = dino_string_append_str(str, src, room)
        /\ Called("append string", src, Len(src), room)

(* The length of -1 that pi_template_output_length may pass. *)
AppendLengthBelowZero ==
    /\ MayGrow
    /\ \E room \in Rooms :
        /\ str' = dino_string_append_str_length(str, <<>>, SIZE_MAX, room)
        /\ Called("append string", <<>>, SIZE_MAX, room)

Reset ==
    /\ str.live /\ str.fault = "none"
    /\ str' = dino_string_reset(str)
    /\ Called("reset", <<>>, 0, TRUE)

dino_string_delete ==
    /\ str.live /\ str.fault = "none"
    /\ str' = NoString
    /\ Called("delete", <<>>, 0, TRUE)

Next ==
    New \/ AppendChar \/ AppendString \/ AppendLengthBelowZero \/ Reset \/ dino_string_delete

Spec == Init /\ [][Next]_vars

-----------------------------------------------------------------------------
(* The type invariant: the text lies in the buffer, which is as long as size *)
(* says and holds nothing behind the text.                                    *)
TypeOK ==
    /\ str.live \in BOOLEAN
    /\ str.size \in 0..SIZE_MAX
    /\ str.position \in 0..str.size
    /\ Len(str.bytes) = str.size
    /\ \A i \in 1..str.size : str.bytes[i] \in (IF i <= str.position THEN Char ELSE {Nul})
    /\ str.fault \in {"none", "overrun", "endless loop"}

(* A string that is full to the last byte has no room left to double from    *)
(* (its size is 0), or is appended to by string: then there is no byte for    *)
(* the terminator to subtract, and what remains wraps around to SIZE_MAX.      *)
Brimful(s) == s.position = s.size /\ (s.size = 0 \/ call'.op = "append string")

(* Only an append writes outside the buffer: on a string brimful in that     *)
(* sense, one that finds no memory to grow (nobody looks), and the length of   *)
(* -1 of the template generator.  dino_string_new_with_str never does, with    *)
(* no memory either.  The doubling loop always ends: at size 0 it is never     *)
(* entered.                                                                   *)
OverrunsOnlyAtTheBrim ==
    [][str'.fault # "none" =>
        /\ str'.fault = "overrun"
        /\ str.live
        /\ \/ Brimful(str)
           \/ ~ call'.room
           \/ call'.length = SIZE_MAX]_vars

(* append_str keeps a byte 0 behind the text however the sizes work out: a   *)
(* buffer becomes full to its last byte only by append_char, or because there  *)
(* was no memory to grow.                                                      *)
Full(s) == s.live /\ s.fault = "none" /\ s.size > 0 /\ s.position = s.size

FillsUpOnlyByChar ==
    [][Full(str') /\ ~ Full(str) => call'.op = "append char" \/ ~ call'.room]_vars

(* The promise of dino_string.h, as long as nothing faults: however often    *)
(* the buffer moves, and however the sizes work out, every call does to the    *)
(* text what it is asked for, with all of the text it is given.                *)
T == INSTANCE TextBuffer WITH exists <- str.live, text <- Text(str), asked <- call

KeepsItsText == [][str'.fault = "none" => T!TextNext]_vars

(* "Returns the dino_string_t as a regular C String" (dino_string_c_ptr in   *)
(* dino_string.h): there is a byte 0 that ends it.                             *)
IsRegularCString ==
    str.live /\ str.fault = "none" /\ str.size > 0 => \E i \in 1..str.size : str.bytes[i] = Nul
=============================================================================
