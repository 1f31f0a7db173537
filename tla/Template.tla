------------------------------ MODULE Template ------------------------------
(* The template generator of dino_template_generator.c: a pointer that walks *)
(* over the template from one '%' to the next, a stack of conditions with a    *)
(* fixed depth, and a map of the names met so far.  A template is written as a *)
(* sequence of pieces (plain text, tags, scraps of tags) and scanned as the    *)
(* atoms those consist of: a mark (a character that is no letter or digit), a  *)
(* blank, or a word.                                                           *)
EXTENDS IntMap, SequencesExt, FiniteSetsExt

CONSTANTS
    Calls,      \* the function called, its template (a sequence of pieces), whether its
                \*   arguments are there, and the operators the map has room for
    Word,       \* the words of plain text, by their place in the template
    Marks,      \* the other characters that are neither letters nor digits
    Depth,      \* if_stack_depth (32 in the code)
    Truth,      \* the conditions function_boolean_ptr knows
    Value,      \* the strings function_string_ptr knows
    Rooms       \* whether there is memory for one more symbol

ASSUME DepthAssumption == Depth \in Nat \ {0}
ASSUME RoomsAssumption == Rooms \subseteq BOOLEAN
ASSUME TruthAssumption == Truth \in [DOMAIN Truth -> BOOLEAN]
ASSUME ValueAssumption == \A name \in DOMAIN Value : Value[name] \in Seq(Range(Value[name]))

Blank == " "

Syntax == {"<", "%", ">", "=", Blank}

Punctuation == Syntax \cup Marks

OperatorNames == {<<"If">>, <<"Else">>, <<"EndIf">>, <<"=">>}

(* The pieces that hold a name. *)
WithName == {"if", "show", "bare"}

(* Every piece is written with a sequence of atoms.  A text is one word.  A    *)
(* name is one, no operator's, or a mark with the rest of the name behind it    *)
(* ("_title").  Whatever is written otherwise is a scrap.                       *)
ASSUME CallsAssumption ==
    \A call \in Calls :
        /\ call.source \in {"buffer", "file"}
        /\ call.args \in BOOLEAN
        /\ call.operators \subseteq OperatorNames
        /\ call.pieces \in Seq(Range(call.pieces))
        /\ \A i \in DOMAIN call.pieces : Word[i] \notin Punctuation
        /\ \A p \in Range(call.pieces) :
             /\ p.kind \in {"text", "if", "else", "endif", "show", "bare", "scrap"}
             /\ p.kind = "scrap" => p.atoms \in Seq(Range(p.atoms))
             /\ p.kind \in WithName =>
                  /\ p.name \notin Syntax /\ <<p.name>> \notin OperatorNames
                  /\ p.rest \in Seq(Range(p.rest)) /\ "%" \notin Range(p.rest)
                  /\ p.rest # <<>> => p.name \in Marks

NamesWritten ==
    {<<p.name>> : p \in {q \in UNION {Range(call.pieces) : call \in Calls} : q.kind \in WithName}}

(* The names the map may come to hold, or be asked for. *)
Known == OperatorNames \cup DOMAIN Truth \cup DOMAIN Value \cup NamesWritten

ASSUME HashAssumption == Capacity \in Nat \ {0} /\ \A name \in Known : Hash(name) \in 0..(Capacity - 1)

VARIABLES
    pieces,     \* the template as written
    input,      \* input_buffer: the atoms of the pieces
    source,     \* "buffer" or "file": which function was called
    args,       \* no callback and no buffer it was given is NULL
    operators,  \* the operators intmap_put has memory for; {} also if intmap_new has none
    ptr,        \* ptr_in, the first atom being 1
    out,        \* output_buffer
    ifs,        \* if_stack and if_stack_top
    map,        \* symbol_map
    lost,       \* the application's names intmap_put had no memory for
    open,       \* file_p has not been closed
    pc          \* "call", "scan", the status returned, or "crashed"

given == <<pieces, input, source, args, operators>>
vars == <<given, ptr, out, ifs, map, lost, open, pc>>

-----------------------------------------------------------------------------
(* Templates. *)

Tag(atoms) == <<"<", "%">> \o atoms \o <<"%", ">">>

Atoms(i) ==
    LET p == pieces[i]
    IN  CASE p.kind = "text"  -> <<Word[i]>>
          [] p.kind = "if"    -> Tag(<<"If", Blank, p.name>> \o p.rest)
          [] p.kind = "else"  -> Tag(<<"Else">>)
          [] p.kind = "endif" -> Tag(<<"EndIf">>)
          [] p.kind = "show"  -> Tag(<<"=", p.name>> \o p.rest)
          [] p.kind = "bare"  -> Tag(<<p.name>> \o p.rest)
          [] p.kind = "scrap" -> p.atoms

NUL == "NUL"

Char(i) == IF i \in DOMAIN input THEN input[i] ELSE NUL

(* The first place from i on with one of these; the NUL is the last place. *)
FirstOf(i, atoms) == Min({j \in i..Len(input) : input[j] \in atoms} \cup {Len(input) + 1})

-----------------------------------------------------------------------------
(* The symbols. *)

operator_type_invalid == 0
operator_type_variable == 1
operator_type_If == 2
operator_type_Else == 3
operator_type_EndIf == 4
operator_type_output == 5

(* What no put had room for is just missing: no result is looked at.  A NULL  *)
(* map answers like an empty one, and what is put there is lost.               *)
pi_template_generator_create ==
    LET Put(m, name, type) == intmap_put(m, <<name>>, type, <<name>> \in operators)
    IN  Put(Put(Put(Put(intmap_new, "If", operator_type_If), "Else", operator_type_Else),
                "EndIf", operator_type_EndIf), "=", operator_type_output)

pi_template_skip_white(i) ==
    Min({j \in i..Len(input) : input[j] # Blank} \cup {Len(input) + 1})

(* A mark (or the NUL) by itself, or, from a word on, all up to a blank or '%'. *)
pi_template_get_symbol(i) ==
    LET begin == pi_template_skip_white(i)
        end   == IF Char(begin) \in Punctuation \cup {NUL} THEN begin + 1
                 ELSE FirstOf(begin, {Blank, "%"})
    IN  [name |-> SubSeq(input, begin, Min({end - 1, Len(input)})), end |-> end]

NotOperator(name) ==
    intmap_get_value(map, name) \in {operator_type_invalid, operator_type_variable}

(* pi_template_test_symbol and pi_template_resolve_symbol: the application is *)
(* asked, unless the name is an operator's; what it knows is in Truth or Value. *)
Asked(type, name, known) ==
    IF NotOperator(name) /\ name \in DOMAIN known
    THEN [type |-> type, said |-> known[name], learned |-> {name}]
    ELSE [type |-> operator_type_invalid, said |-> <<>>, learned |-> {}]

(* The operator of a tag with these first symbols. *)
pi_template_lookup_symbol(first, second) ==
    LET type == intmap_get_value(map, first)
    IN  CASE type = operator_type_If       -> Asked(type, second, Truth)
          [] type = operator_type_output   -> Asked(type, second, Value)
          [] type = operator_type_variable -> Asked(type, first, Value)
          [] OTHER -> [type |-> type, said |-> <<>>, learned |-> {}]

-----------------------------------------------------------------------------
(* The stack of conditions: all pushes count, the first Depth are stored. *)

WrongPushesOnlyWhatFits(s, value) ==
    IF s.top < Depth THEN [top |-> s.top + 1, stack |-> [s.stack EXCEPT ![s.top] = value]] ELSE s

pi_template_push_if(s, value) ==
    [top |-> s.top + 1,
     stack |-> IF s.top < Depth THEN [s.stack EXCEPT ![s.top] = value] ELSE s.stack]

pi_template_push_else(s) ==
    IF 0 < s.top /\ s.top < Depth THEN [s EXCEPT !.stack[s.top - 1] = ~ @] ELSE s

WrongPopsBelowZero(s) == [s EXCEPT !.top = @ - 1]

pi_template_pop_if(s) == IF s.top > 0 THEN [s EXCEPT !.top = @ - 1] ELSE s

(* What it may return: behind the array it reads whatever lies there. *)
pi_template_if_set(s) ==
    IF \E i \in 0..(Min({s.top, Depth}) - 1) : ~ s.stack[i] THEN {FALSE}
    ELSE IF s.top > Depth THEN BOOLEAN
    ELSE {TRUE}

-----------------------------------------------------------------------------
(* dino_template_generate_buffer and dino_template_process_file. *)

Init ==
    /\ \E asked \in Calls :
          /\ source = asked.source /\ pieces = asked.pieces
          /\ args = asked.args /\ operators = asked.operators
    /\ input = FlattenSeq([i \in DOMAIN pieces |-> Atoms(i)])
    /\ ptr = 1 /\ out = <<>>
    /\ ifs = [top |-> 0, stack |-> [i \in 0..(Depth - 1) |-> FALSE]]
    /\ map = intmap_new /\ lost = {}
    /\ open = FALSE
    /\ pc = "call"

WrongSkipsNothing == FALSE

StartsWithPercent == Char(1) = "%"

(* Up to the loop.  A '%' at the start is copied before the loop. *)
dino_template_generate_buffer ==
    /\ pc = "call" /\ args
    /\ source = "buffer" \/ input # <<>>
    /\ map' = pi_template_generator_create
    /\ ptr' = IF StartsWithPercent THEN 2 ELSE 1
    /\ out' = IF StartsWithPercent THEN <<"%">> ELSE <<>>
    /\ open' = (source = "file")
    /\ pc' = "scan"
    /\ UNCHANGED <<given, ifs, lost>>

(* The call is refused and the output left as it was.  process_file does not  *)
(* look at that: it answers with the header and no text, and closes the file.  *)
ArgumentMissing ==
    /\ pc = "call" /\ ~ args
    /\ \/ source = "buffer" /\ pc' = "dino_template_invalid_input"
       \/ source = "file" /\ input # <<>> /\ pc' = "dino_template_no_error"
    /\ UNCHANGED <<given, ptr, out, ifs, map, lost, open>>

WrongClosesOnlyIfRead == TRUE

(* fclose stands inside the test of the size. *)
StaysOpen == input = <<>>

(* fopen fails, the file is empty, or fread fails. *)
FileNotRead ==
    /\ pc = "call" /\ source = "file"
    /\ \/ pc' = "dino_template_invalid_input" /\ UNCHANGED open
       \/ input = <<>> /\ pc' = "dino_template_invalid_input" /\ open' = StaysOpen
       \/ input # <<>> /\ pc' = "dino_template_file_not_found" /\ open' = StaysOpen
    /\ UNCHANGED <<given, ptr, out, ifs, map, lost>>

NextPercent == FirstOf(ptr, {"%"})

ptr_tag == NextPercent - 1

TextShown(shown, text) == IF shown THEN text ELSE <<>>

(* The loop ends: no atom is left, or no '%', and what is left is output.  A  *)
(* file is answered with the header, the text and status 200, and closed.      *)
Finish ==
    /\ pc = "scan"
    /\ NextPercent > Len(input)
    /\ \E shown \in pi_template_if_set(ifs) :
        out' = out \o TextShown(shown, SubSeq(input, ptr, Len(input)))
    /\ open' = FALSE
    /\ pc' = "dino_template_no_error"
    /\ UNCHANGED <<given, ptr, ifs, map, lost>>

WrongStopsBeforePercent == ptr_tag - ptr + 1

LengthWithPercent == ptr_tag - ptr + 2

(* A '%' that opens no tag is plain text. *)
PlainPercent ==
    /\ pc = "scan"
    /\ NextPercent <= Len(input)
    /\ Char(ptr_tag) # "<"
    /\ \E shown \in pi_template_if_set(ifs) :
        out' = out \o TextShown(shown, SubSeq(input, ptr, ptr + LengthWithPercent - 1))
    /\ ptr' = ptr + LengthWithPercent
    /\ UNCHANGED <<given, ifs, map, lost, open, pc>>

(* The length is -1 when the walk stands on the '%' of "<%" already. *)
LengthBeforeTag == ptr_tag - ptr

(* memcpy of SIZE_MAX bytes. *)
CopiesTooMuch ==
    /\ pc = "scan"
    /\ NextPercent <= Len(input)
    /\ Char(ptr_tag) = "<"
    /\ LengthBeforeTag < 0
    /\ TRUE \in pi_template_if_set(ifs)
    /\ pc' = "crashed"
    /\ UNCHANGED <<given, ptr, out, ifs, map, lost, open>>

WrongStaysAtOpening(i) == i + 1

(* Past "<%", then to the next '%', and past that one if it is of "%>". *)
AfterTag(i) ==
    LET close == FirstOf(i + 2, {"%"})
    IN  IF Char(close) = "%" /\ Char(close + 1) = ">" THEN close + 2 ELSE close

Outputs(tag) == tag.type \in {operator_type_variable, operator_type_output}

(* A name that is a variable already stays one. *)
Learn(names, room) ==
    \/ names = {} /\ UNCHANGED <<map, lost>>
    \/ \E n \in names :
         /\ map' = intmap_put(map, n, operator_type_variable, room)
         /\ lost' = lost \cup (IF room \/ intmap_exists(map, n) THEN {} ELSE {n})

(* One turn of the loop that finds a tag. *)
TagFound ==
    /\ pc = "scan"
    /\ NextPercent <= Len(input)
    /\ Char(ptr_tag) = "<"
    /\ \E first \in {pi_template_get_symbol(ptr_tag + 2)} :
       \E second \in {pi_template_get_symbol(first.end)} :
       \E tag \in {pi_template_lookup_symbol(first.name, second.name)} :
           /\ \E before, shown \in pi_template_if_set(ifs) :
                /\ LengthBeforeTag < 0 => ~ before
                /\ out' = out \o TextShown(before, SubSeq(input, ptr, ptr_tag - 1))
                              \o TextShown(shown /\ Outputs(tag), tag.said)
           /\ ifs' = CASE tag.type = operator_type_If    -> pi_template_push_if(ifs, tag.said)
                       [] tag.type = operator_type_Else  -> pi_template_push_else(ifs)
                       [] tag.type = operator_type_EndIf -> pi_template_pop_if(ifs)
                       [] OTHER                          -> ifs
           /\ \E room \in Rooms : Learn(tag.learned, room)
    /\ ptr' = AfterTag(ptr_tag)
    /\ UNCHANGED <<given, open, pc>>

Next ==
    \/ dino_template_generate_buffer \/ ArgumentMissing \/ FileNotRead
    \/ PlainPercent \/ CopiesTooMuch \/ TagFound
    \/ Finish

(* The call runs on the server thread, which is scheduled. *)
Spec == Init /\ [][Next]_vars /\ WF_vars(Next)

-----------------------------------------------------------------------------
(* What a template means, without a stack: piece by piece. *)

Works(operator) == <<operator>> \in operators

OfKind(kind) == {i \in DOMAIN pieces : pieces[i].kind = kind}

(* A condition the application does not know opens nothing, a tag whose       *)
(* operator is missing does nothing, and where no If can open no EndIf closes. *)
Opens(i)  == pieces[i].kind = "if" /\ Works("If") /\ <<pieces[i].name>> \in DOMAIN Truth
Turns(i)  == pieces[i].kind = "else" /\ Works("Else")
Closes(i) == pieces[i].kind = "endif" /\ Works("EndIf") /\ Works("If")

(* How many conditions are open before piece i. *)
Level(i) ==
    Cardinality({j \in 1..(i - 1) : Opens(j)}) - Cardinality({j \in 1..(i - 1) : Closes(j)})

(* The condition that piece i stands under at this level: the last one that   *)
(* opened it, turned round by every Else at that level since.                  *)
BranchTaken(i, level) ==
    LET if    == Max({j \in 1..(i - 1) : Opens(j) /\ Level(j) + 1 = level})
        elses == {j \in DOMAIN pieces : Turns(j) /\ if < j /\ j < i /\ Level(j) = level}
    IN  IF Cardinality(elses) % 2 = 0 THEN Truth[<<pieces[if].name>>] ELSE ~ Truth[<<pieces[if].name>>]

Visible(i) == \A level \in 1..Min({Level(i), Depth}) : BranchTaken(i, level)

(* A name stands for its value once an If or a "=" has used it. *)
NamedBefore(i, name) ==
    \E j \in 1..(i - 1) :
        \/ /\ pieces[j].kind = "show" /\ Works("=")
           /\ pieces[j].name = name /\ <<name>> \in DOMAIN Value
        \/ Opens(j) /\ pieces[j].name = name

ValueOf(name) == IF <<name>> \in DOMAIN Value THEN Value[<<name>>] ELSE <<>>

Meaning(i) ==
    LET p == pieces[i]
    IN  CASE p.kind = "text" -> Atoms(i)
          [] p.kind = "show" -> IF Works("=") THEN ValueOf(p.name) ELSE <<>>
          [] p.kind = "bare" -> IF NamedBefore(i, p.name) THEN ValueOf(p.name) ELSE <<>>
          [] OTHER           -> <<>>

(* Whole tags, every EndIf has its If, and no Else lies exactly Depth deep     *)
(* (there push_else does nothing, although the condition is stored).            *)
WellNested ==
    /\ OfKind("scrap") = {}
    /\ \A i \in DOMAIN pieces : Closes(i) => Level(i) > 0
    /\ \A i \in DOMAIN pieces : Turns(i) => Level(i) # Depth

(* Shown or not: what lies deeper than the stack, under conditions that hold  *)
(* as far as they are stored, and a name that could not be stored.             *)
Undetermined(i) ==
    \/ Level(i) > Depth
    \/ pieces[i].kind = "bare" /\ <<pieces[i].name>> \in lost

Rendered(shown) == FlattenSeq([i \in DOMAIN pieces |-> IF i \in shown THEN Meaning(i) ELSE <<>>])

-----------------------------------------------------------------------------
(* The type invariant: the walk stays in the template, the stack counts no    *)
(* more conditions than atoms walked past, and the map holds the operators     *)
(* there was room for.                                                         *)
TypeOK ==
    /\ ptr \in 1..(Len(input) + 1)
    /\ ifs.top \in 0..(ptr - 1)
    /\ ifs.stack \in [0..(Depth - 1) -> BOOLEAN]
    /\ lost \subseteq DOMAIN Truth \cup DOMAIN Value
    /\ open \in BOOLEAN
    /\ pc = "scan" => intmap_get_count(map) >= Cardinality(operators)
    /\ pc \in {"call", "scan", "crashed", "dino_template_no_error",
               "dino_template_invalid_input", "dino_template_file_not_found"}

(* A template of whole tags renders as nested conditions should, however     *)
(* deep it goes: a push beyond the stack is counted, so its pop is no other's, *)
(* and a tag with an unknown condition opens nothing (its EndIf closes the     *)
(* condition around it).  So it does when the map has no room for some of the  *)
(* operators: their tags do nothing.  A file whose callbacks are missing is      *)
(* answered with no text, without a look at its tags.                            *)
RendersAsNested ==
    pc = "dino_template_no_error" /\ (args => WellNested) =>
        LET visible == {i \in DOMAIN pieces : args /\ Visible(i)}
            free    == {i \in visible : Undetermined(i)}
        IN  \E some \in SUBSET free : out = Rendered((visible \ free) \cup some)

(* "Initialization would have ensured that we wont crash...": looking at the *)
(* atom before a '%' never looks before the template.                          *)
NeverReadsBeforeInput == pc = "scan" /\ Char(NextPercent) = "%" => NextPercent > 1

(* The length of -1 needs a tag opened inside a tag that has no '%' in        *)
(* between: no template whose tags are closed makes memcpy run away.           *)
CrashesOnlyOnTagInTag ==
    pc = "crashed" =>
        \E i \in DOMAIN input :
            /\ input[i] = "<" /\ Char(i + 1) = "%"
            /\ Char(FirstOf(i + 2, {"%"})) = "%"
            /\ Char(FirstOf(i + 2, {"%"}) - 1) = "<"

(* A name is in the map once, however often its tags came, in sight or not,   *)
(* and no name of the application takes the place of an operator: those that    *)
(* create found room for stay, and no other name becomes one.                   *)
SymbolsStoredOnce ==
    LET pairs == intmap_enum(map)
        names == {pairs[i].key : i \in DOMAIN pairs}
    IN  /\ intmap_get_count(map) = Cardinality(names)
        /\ pc = "scan" =>
             {n \in names : ~ NotOperator(n)} = operators

(* A file is closed however reading it went, unless it was empty. *)
LeftOpenOnlyIfEmpty == open => pc = "scan" \/ pc = "crashed" \/ input = <<>>

(* The walk gets to the end of every template: each turn of the loop, the one *)
(* that steps back included, brings it nearer.                                  *)
ScanEnds == <>(pc \notin {"call", "scan"})
=============================================================================
