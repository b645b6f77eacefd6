----------------------------- MODULE MessageReading -----------------------------
(***************************************************************************)
(* How a message becomes a StructuredInput: its lines are sorted into code,  *)
(* errors, constraints, problem and question (app/input/normalize.py), an    *)
(* image is transcribed and merged in (vision.py), and Python is made a      *)
(* runnable module (snippet.py), as understand_input puts them together.     *)
(* A line is its kind: lines of one kind have the same text (assign and      *)
(* value are two sample inputs; tagged is a fence with a language, console   *)
(* one of the fences that names none).  A part of the result is a sequence   *)
(* of lines, each with its place in the message.                             *)
(***************************************************************************)
EXTENDS Integers, Sequences, SequencesExt, FiniteSets

CONSTANTS
    Typed,      \* the kinds of line typed
    MaxLines,   \* bound
    Images,     \* what images show: sets of fields
    None,       \* no image
    Failed      \* an image that cannot be read, or a provider that fails

Fields == {"problem", "code", "error", "question", "constraints"}
CodeKinds == {"assign", "value", "ret", "step", "class", "prelude"}
Kinds == CodeKinds \cup
    {"blank", "tell", "ask", "given", "example", "head", "bound",
     "trace", "err", "fence", "tagged", "console", "indented"}

ASSUME SomeKinds == Typed \subseteq Kinds
ASSUME SomeImages == Images \subseteq SUBSET Fields /\ MaxLines \in Nat

VARIABLES
    text,       \* the message typed so far
    input,      \* the StructuredInput, or the empty record
    stage       \* typing, read

vars == <<text, input, stage>>

Blank == [n |-> 0, kind |-> "blank"]
\* A line the image had.
Shown(field) == [n |-> 0, kind |-> field]

IsBlank(l) == l.kind = "blank"
Solid(lines) == SelectSeq(lines, LAMBDA l : ~IsBlank(l))
Has(lines, kinds) == \E i \in DOMAIN lines : lines[i].kind \in kinds

RECURSIVE Trimmed(_)
\* Without the blank lines around.
Trimmed(lines) ==
    IF lines = <<>> THEN lines
    ELSE IF IsBlank(Head(lines)) THEN Trimmed(Tail(lines))
    ELSE IF IsBlank(Last(lines)) THEN Trimmed(Front(lines)) ELSE lines

-----------------------------------------------------------------------------
(* normalize.py: each step takes its lines out of the text and leaves blanks. *)

Scan == [open |-> <<>>, found |-> <<>>, errors |-> <<>>, left |-> <<>>]

LooksLikeError(lines) == Has(lines, {"err"})

\* A closed block: an error if it reads as one and names no language, or a log's.
CloseFence(s) ==
    LET marker == Head(s.open)
        body == Tail(s.open)
        aside == [s EXCEPT !.open = <<>>, !.left = Append(@, Blank)]
    IN  IF Solid(body) = <<>> THEN aside
        ELSE IF LooksLikeError(body) /\ marker.kind \in {"fence", "console"}
        THEN [aside EXCEPT !.errors = Append(@, Trimmed(body))]
        ELSE [aside EXCEPT !.found = Append(@, Trimmed(body))]

\* An unclosed fence is left as text.
ExtractFencedBlocks(lines) ==
    LET next(s, l) ==
            IF s.open # <<>>
            THEN IF l.kind = "fence" THEN CloseFence(s) ELSE [s EXCEPT !.open = Append(@, l)]
            ELSE IF l.kind \in {"fence", "tagged", "console"} THEN [s EXCEPT !.open = <<l>>]
            ELSE [s EXCEPT !.left = Append(@, l)]
        end == FoldLeft(next, Scan, lines)
    IN  [end EXCEPT !.left = @ \o end.open]

\* Tracebacks, each from its header to its last line.
Tracebacks(lines) ==
    LET next(s, l) ==
            CASE l.kind = "trace" -> [s EXCEPT !.left = @ \o s.open, !.open = <<l>>]
              [] l.kind = "err" /\ s.open # <<>> ->
                    [s EXCEPT !.errors = Append(@, Append(s.open, l)), !.open = <<>>,
                              !.left = Append(@, Blank)]
              [] l.kind # "trace" /\ s.open # <<>> /\ l.kind # "err" ->
                    [s EXCEPT !.open = Append(@, l)]
              [] OTHER -> [s EXCEPT !.left = Append(@, l)]
        end == FoldLeft(next, Scan, lines)
    IN  [end EXCEPT !.left = @ \o end.open]

\* The first of the patterns, then, on what it left, the last: an error on its own
\* line.  Those between are of other languages, whose errors are of no kind here.
ExtractErrors(lines) ==
    LET traced == Tracebacks(lines)
        alone == SelectSeq(traced.left, LAMBDA l : l.kind = "err")
    IN  [errors |-> traced.errors \o [i \in DOMAIN alone |-> <<alone[i]>>],
         left |-> [i \in DOMAIN traced.left |->
                      IF traced.left[i].kind = "err" THEN Blank ELSE traced.left[i]]]

\* Two code-like lines or more in a row, blank lines between them included.
CloseRun(s) ==
    LET code == Trimmed(s.open)
        after == SubSeq(s.open, Len(code) + 1, Len(s.open))
    IN  IF Len(Solid(code)) >= 2
        THEN [s EXCEPT !.open = <<>>, !.found = Append(@, code),
                       !.left = Append(@, Blank) \o after]
        ELSE [s EXCEPT !.open = <<>>, !.left = @ \o s.open]

ExtractUnfencedCode(lines) ==
    LET codeLike(s, l) == l.kind \in CodeKinds \/ (l.kind = "indented" /\ s.open # <<>>)
        next(s, l) ==
            IF codeLike(s, l) \/ (IsBlank(l) /\ s.open # <<>>)
            THEN [s EXCEPT !.open = Append(@, l)]
            ELSE [CloseRun(s) EXCEPT !.left = Append(@, l)]
    IN  CloseRun(FoldLeft(next, Scan, lines))

\* What follows a "Constraints:" heading up to a blank line or an example; and
\* every bound that stands alone.
ExtractConstraints(lines) ==
    LET out(s, l) == [s EXCEPT !.left = Append(@, l)]
        next(s, l) ==
            CASE s.open = <<>> ->
                    IF l.kind = "head" THEN [out(s, Blank) EXCEPT !.open = <<l>>] ELSE out(s, l)
              [] s.open # <<>> /\ IsBlank(l) ->
                    IF Len(s.open) = 1 THEN out(s, l) ELSE [out(s, l) EXCEPT !.open = <<>>]
              [] s.open # <<>> /\ l.kind = "example" -> [out(s, l) EXCEPT !.open = <<>>]
              [] OTHER -> [out(s, Blank) EXCEPT !.open = Append(@, l), !.found = Append(@, l)]
        end == FoldLeft(next, Scan, lines)
    IN  [found |-> end.found \o SelectSeq(end.left, LAMBDA l : l.kind = "bound"),
         left |-> SelectSeq(end.left, LAMBDA l : l.kind # "bound")]

\* A statement has a mark of one ("Given ...", an example, constraints taken from
\* it), and is long or holds an example.  A line is long when it tells or gives.
LooksLikeProblem(prose, constraints) ==
    /\ Has(prose, {"given", "example"}) \/ constraints # <<>>
    /\ Has(prose, {"given", "tell", "example"})

\* The mutant of ExtractDirectAsk: only the last line is looked at.
ExtractLastAsk(prose) ==
    IF Len(prose) > 1 /\ Last(prose).kind = "ask"
    THEN [problem |-> Front(prose), question |-> <<Last(prose)>>]
    ELSE [problem |-> prose, question |-> <<>>]

\* The request around a pasted problem: its last line, else its first.
ExtractDirectAsk(prose) ==
    IF Len(prose) > 1 /\ Last(prose).kind = "ask"
    THEN [problem |-> Front(prose), question |-> <<Last(prose)>>]
    ELSE IF Len(prose) > 1 /\ Head(prose).kind = "ask"
    THEN [problem |-> Tail(prose), question |-> <<Head(prose)>>]
    ELSE [problem |-> prose, question |-> <<>>]

Empty == [problem |-> <<>>, code |-> <<>>, error |-> <<>>, question |-> <<>>,
          constraints |-> <<>>]

NormalizeText(lines) ==
    LET fenced == ExtractFencedBlocks(lines)
        plain == ExtractErrors(fenced.left)
        unfenced == ExtractUnfencedCode(plain.left)
        bounds == ExtractConstraints(unfenced.left)
        prose == Solid(bounds.left)
        split == IF LooksLikeProblem(prose, bounds.found) THEN ExtractDirectAsk(prose)
                 ELSE [problem |-> <<>>, question |-> prose]
    IN  [problem |-> split.problem, question |-> split.question,
         code |-> fenced.found \o unfenced.found,
         error |-> FlattenSeq(fenced.errors \o plain.errors),
         constraints |-> bounds.found]

-----------------------------------------------------------------------------
(* vision.py and merge_inputs *)

\* The model's transcription, or its raw answer read as text.
ExtractFromImage(fields) ==
    LET part(f) == IF f \in fields THEN <<Shown(f)>> ELSE <<>>
    IN  [problem |-> part("problem"), error |-> part("error"), question |-> part("question"),
         code |-> IF "code" \in fields THEN <<part("code")>> ELSE <<>>,
         constraints |-> part("constraints")]

\* Each constraint once, where it first stands.
Once(lines) ==
    LET next(kept, l) == IF Has(kept, {l.kind}) THEN kept ELSE Append(kept, l)
    IN  FoldLeft(next, <<>>, lines)

\* The mutant of MergeInputs: the image wins.
MergeInputsImageFirst(shown, typed) ==
    LET first(a, b) == IF a # <<>> THEN a ELSE b
    IN  [problem |-> first(shown.problem, typed.problem),
         question |-> first(shown.question, typed.question),
         error |-> first(shown.error, typed.error),
         code |-> typed.code \o shown.code,
         constraints |-> Once(typed.constraints \o shown.constraints)]

\* Code and constraints are put together; for the rest the typed text wins.
MergeInputs(shown, typed) ==
    LET first(a, b) == IF a # <<>> THEN a ELSE b
    IN  [problem |-> first(typed.problem, shown.problem),
         question |-> first(typed.question, shown.question),
         error |-> first(typed.error, shown.error),
         code |-> typed.code \o shown.code,
         constraints |-> Once(typed.constraints \o shown.constraints)]

-----------------------------------------------------------------------------
(* snippet.py *)

Added(kind) == [n |-> 0, kind |-> kind]

RECURSIVE SampleInputs(_)
\* The literal assignments at the top: how many lines they take.
SampleInputs(lines) ==
    IF lines = <<>> \/ Head(lines).kind \notin {"assign", "value", "blank"} THEN 0
    ELSE IF IsBlank(Head(lines))
         THEN IF SampleInputs(Tail(lines)) = 0 THEN 0 ELSE 1 + SampleInputs(Tail(lines))
    ELSE 1 + SampleInputs(Tail(lines))

\* A bare body becomes a function; its sample inputs become the header, and the
\* lines below keep their numbers when there was one.  Where they are all it reads
\* -- a "step" reads another name -- it is called below, as the paste was run.
WrapBody(lines) ==
    LET consumed == SampleInputs(lines)
        padding == [i \in 1..(IF consumed = 0 THEN 0 ELSE consumed - 1) |-> Blank]
        called == IF consumed = 0 \/ Has(lines, {"step"}) THEN <<>>
                  ELSE <<Blank, Blank, Added("call")>>
    IN  <<Added("def")>> \o padding \o SubSeq(lines, consumed + 1, Len(lines)) \o called

\* A class gets functions that call its methods, below it.
AdaptClass(lines) ==
    IF Has(lines, {"class"}) THEN lines \o <<Blank, Blank, Added("adapter")>> ELSE lines

\* parses: as typed or once it is realigned; typing: List and the like are
\* used and never imported by name.
RepairSnippet(lines, parses, typing) ==
    IF ~parses THEN lines
    ELSE LET source == IF Has(lines, {"ret"}) THEN WrapBody(lines) ELSE AdaptClass(lines)
         IN  IF typing THEN <<Added("prelude")>> \o source ELSE source

MaxOffset == 10

\* The first line of the learner's that the repaired source still has.
LineOffset(before, after) ==
    LET places(i) == {k \in i..Len(after) : after[k].kind = before[i].kind}
        kept == {i \in DOMAIN before : ~IsBlank(before[i]) /\ places(i) # {}}
        first == Min(kept)
    IN  IF before = after \/ kept = {} THEN 0
        ELSE Min({Min(places(first)) - first, MaxOffset})

Repaired(block, parses, typing) ==
    LET run == RepairSnippet(block, parses, typing)
    IN  [typed |-> block, run |-> run, offset |-> LineOffset(block, run)]

Runnable(in, parses, typing) ==
    [in EXCEPT !.code = [b \in DOMAIN in.code |-> Repaired(in.code[b], parses, typing)]]

-----------------------------------------------------------------------------
Init == text = <<>> /\ input = Empty /\ stage = "typing"

Type(kind) ==
    /\ stage = "typing"
    /\ Len(text) < MaxLines
    /\ text' = Append(text, kind)
    /\ UNCHANGED <<input, stage>>

Lines == [i \in DOMAIN text |-> [n |-> i, kind |-> text[i]]]

\* understand_input: an image that cannot be read leaves the text.
UnderstandInput ==
    /\ stage = "typing"
    /\ \E typed \in {NormalizeText(Lines)}, with \in Images \cup {None, Failed},
         parses, typing \in BOOLEAN :
         /\ Solid(Lines) # <<>> \/ with # None
         /\ typing => parses
         /\ input' = Runnable(IF with \in {None, Failed} THEN typed
                              ELSE MergeInputs(ExtractFromImage(with), typed),
                              parses, typing)
    /\ stage' = "read"
    /\ UNCHANGED text

Next == UnderstandInput \/ \E kind \in Typed : Type(kind)

Spec == Init /\ [][Next]_vars

-----------------------------------------------------------------------------
(* Properties *)

TypeOK ==
    /\ text \in BoundedSeq(Typed, MaxLines)
    /\ DOMAIN input = Fields
    /\ stage \in {"typing", "read"}

\* All that was read, and where line i is in it.
AllRead == input.problem \o input.question \o input.error \o input.constraints
           \o FlattenSeq([b \in DOMAIN input.code |-> input.code[b].typed])

Places(i, lines) == Cardinality({j \in DOMAIN lines : lines[j].n = i})

\* Line i is one of the typed constraints, and is left out for one with its text.
Repeats(i, lines) ==
    LET constraints == NormalizeText(Lines).constraints
    IN  /\ Places(i, lines) = 0
        /\ \E j \in DOMAIN constraints : constraints[j].n = i
        /\ Has(input.constraints, {text[i]})

\* Everything the learner typed is in what was read, in one place, whatever they
\* mixed and whatever image came with it; only the marks around a block and the
\* word "Constraints:" go, and a constraint's repetition beside an image.
NothingIsLost ==
    stage = "read" =>
        LET read == AllRead IN
        \A i \in DOMAIN text :
            CASE text[i] = "blank" -> TRUE
              [] text[i] \in {"fence", "tagged", "console", "head"} -> Places(i, read) <= 1
              [] OTHER -> Places(i, read) = 1 \/ Repeats(i, read)

\* A message that begins or ends with its one request has it read as its question,
\* not as part of the problem pasted around it ("must still be pulled out as the
\* question, not silently absorbed"): where no list of constraints, no fence and no
\* traceback was begun above it.
AsksAreHeard ==
    LET solid == Solid(Lines)
        asks == SelectSeq(solid, LAMBDA l : l.kind = "ask")
    IN  /\ stage = "read"
        /\ Len(asks) = 1
        /\ asks[1] \in {Head(solid), Last(solid)}
        /\ ~Has(solid, {"head", "fence", "tagged", "console", "trace"})
        => \E j \in DOMAIN input.question : input.question[j].n = asks[1].n

=============================================================================
