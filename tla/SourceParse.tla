----------------------------- MODULE SourceParse -----------------------------
(***************************************************************************)
(* SourceDocument::parse_owned (document.rs): the checks on a source, in   *)
(* their order, and json_nesting_depth, which measures the raw bytes       *)
(* before the recursive parser sees them.                                  *)
(*                                                                         *)
(* The source is written here token by token, as a JSON text or as what    *)
(* is left of one after a mistake, and a parser that understands tokens    *)
(* goes along: that is the reference for the scanner, which sees bytes.    *)
(* A byte is one of the five the scanner looks for, or "other".  Commas,   *)
(* colons and the spelling of numbers are left out, so a text without a    *)
(* mistake here may still be malformed.                                    *)
(***************************************************************************)
EXTENDS Integers, Sequences

CONSTANTS
    MaxDepth,  \* MAX_SOURCE_JSON_DEPTH
    MaxBytes,  \* MAX_SOURCE_DOCUMENT_BYTES
    MaxText    \* bound of the model: bytes of a source

ASSUME LimitsAssumption ==
    MaxDepth \in Nat /\ MaxBytes \in Nat /\ MaxText \in Nat

VARIABLES
    path,     \* what the path is: see Paths
    text,     \* the source
    open,     \* the containers the parser is in
    deepest,  \* the most it has been in at once
    parser,   \* "ok", or "failed" at the first mistake
    outcome   \* what parse_owned answers: see Outcomes

parseVars == <<path, text, open, deepest, parser, outcome>>

Paths    == {"unsafe", "unsupported", "template", "json"}
Outcomes == {"none", "unsafe", "large", "unsupported", "nesting",
             "template", "json", "malformed"}

Openers == {"{", "["}
Closers == {"}", "]"}
Bytes   == Openers \cup Closers \cup {"quote", "backslash", "other"}
Opener  == [c \in Closers |-> IF c = "}" THEN "{" ELSE "["]

-----------------------------------------------------------------------------
(* json_nesting_depth. *)

ScanStart == [depth |-> 0, maximum |-> 0, inString |-> FALSE, escaped |-> FALSE]

Greater(m, n) == IF m >= n THEN m ELSE n

\* Mutant of ScanByte: a quote ends a string although it is escaped.
ScanByteUnescaped(state, byte) ==
    CASE state.inString ->
            [state EXCEPT !.inString = byte # "quote"]
      [] ~state.inString /\ byte = "quote" -> [state EXCEPT !.inString = TRUE]
      [] ~state.inString /\ byte \in Openers ->
            [state EXCEPT !.depth = @ + 1, !.maximum = Greater(@, state.depth + 1)]
      [] ~state.inString /\ byte \in Closers ->
            [state EXCEPT !.depth = Greater(@ - 1, 0)]
      [] OTHER -> state

\* One round of the loop.
ScanByte(state, byte) ==
    CASE state.inString /\ state.escaped -> [state EXCEPT !.escaped = FALSE]
      [] state.inString /\ ~state.escaped ->
            [state EXCEPT !.escaped  = byte = "backslash",
                          !.inString = byte # "quote"]
      [] ~state.inString /\ byte = "quote" -> [state EXCEPT !.inString = TRUE]
      [] ~state.inString /\ byte \in Openers ->
            [state EXCEPT !.depth = @ + 1, !.maximum = Greater(@, state.depth + 1)]
      [] ~state.inString /\ byte \in Closers ->
            [state EXCEPT !.depth = Greater(@ - 1, 0)]
      [] OTHER -> state

Scan(source) ==
    LET after[n \in 0..Len(source)] ==
            IF n = 0 THEN ScanStart ELSE ScanByte(after[n - 1], source[n])
    IN  after[Len(source)]

\* Mutant of NestingDepth: the depth the text ends with.
LastDepth(source) == Scan(source).depth

NestingDepth(source) == Scan(source).maximum

-----------------------------------------------------------------------------
(* The tokens of a source. *)

\* A character of a string: anything but a quote and a backslash, or a
\* backslash and what it escapes.
Characters == {<<c>> : c \in {"{", "]", "other"}}
    \cup {<<"backslash", c>> : c \in {"quote", "backslash", "other"}}

StringBodies == {<<>>} \cup Characters \cup {c \o d : c, d \in Characters}

ParseInit ==
    /\ path \in Paths
    /\ text = <<>> /\ open = <<>> /\ deepest = 0 /\ parser = "ok"
    /\ outcome = "none"

Write(bytes) ==
    /\ outcome = "none"
    /\ Len(text) + Len(bytes) <= MaxText
    /\ text' = text \o bytes
    /\ UNCHANGED <<path, outcome>>

WriteOpen(c) ==
    /\ parser = "ok"
    /\ Write(<<c>>)
    /\ open' = Append(open, c)
    /\ deepest' = Greater(deepest, Len(open'))
    /\ UNCHANGED parser

\* Does the byte close the container the parser is in?
Closes(c) == c \in Closers /\ Len(open) > 0 /\ open[Len(open)] = Opener[c]

WriteClose(c) ==
    /\ parser = "ok"
    /\ Closes(c)
    /\ Write(<<c>>)
    /\ open' = SubSeq(open, 1, Len(open) - 1)
    /\ UNCHANGED <<deepest, parser>>

WriteString(body) ==
    /\ parser = "ok"
    /\ Write(<<"quote">> \o body \o <<"quote">>)
    /\ UNCHANGED <<open, deepest, parser>>

WriteOther ==
    /\ parser = "ok"
    /\ Write(<<"other">>)
    /\ UNCHANGED <<open, deepest, parser>>

\* A byte that is no token, or any byte once the parser has given up.
WriteMistake(c) ==
    /\ \/ parser = "failed"
       \/ c \in Closers /\ ~Closes(c)
       \/ c \in {"quote", "backslash"}
    /\ Write(<<c>>)
    /\ parser' = "failed"
    /\ UNCHANGED <<open, deepest>>

-----------------------------------------------------------------------------
(* parse_owned. *)

Answer(result) ==
    /\ outcome = "none"
    /\ outcome' = result
    /\ UNCHANGED <<path, text, open, deepest, parser>>

RejectPath == path = "unsafe" /\ Answer("unsafe")

SafeAndSmall == path # "unsafe" /\ Len(text) <= MaxBytes

RejectSize == path # "unsafe" /\ ~(Len(text) <= MaxBytes) /\ Answer("large")

RejectKind == SafeAndSmall /\ path = "unsupported" /\ Answer("unsupported")

TooDeep(source) == NestingDepth(source) > MaxDepth

RejectNesting == SafeAndSmall /\ path = "json" /\ TooDeep(text) /\ Answer("nesting")

RetainTemplate == SafeAndSmall /\ path = "template" /\ Answer("template")

\* The text is JSON: a projection and the duplicate scan of it are kept.
RetainJson ==
    /\ SafeAndSmall /\ path = "json" /\ ~TooDeep(text)
    /\ parser = "ok" /\ open = <<>> /\ text # <<>>
    /\ Answer("json")

\* The text is not: the position of the mistake is kept.
RetainMalformed ==
    SafeAndSmall /\ path = "json" /\ ~TooDeep(text) /\ Answer("malformed")

Answered == outcome # "none" /\ UNCHANGED parseVars

ParseNext ==
    \/ \E c \in Openers : WriteOpen(c)
    \/ \E c \in Closers : WriteClose(c)
    \/ \E body \in StringBodies : WriteString(body)
    \/ WriteOther
    \/ \E c \in Bytes : WriteMistake(c)
    \/ RejectPath
    \/ RejectSize
    \/ RejectKind
    \/ RejectNesting
    \/ RetainTemplate
    \/ RetainJson
    \/ RetainMalformed
    \/ Answered

ParseSpec == ParseInit /\ [][ParseNext]_parseVars

-----------------------------------------------------------------------------

\* The variables have their types, and so has the scanner's state.
ParseTypeOK ==
    /\ Scan(text) \in [depth : Nat, maximum : Nat, inString : BOOLEAN, escaped : BOOLEAN]
    /\ path \in Paths
    /\ text \in Seq(Bytes) /\ Len(text) <= MaxText
    /\ open \in Seq(Openers)
    /\ deepest \in Nat
    /\ parser \in {"ok", "failed"}
    /\ outcome \in Outcomes

\* On a text without a mistake the scanner is where the parser is: the same
\* depth, the same maximum, outside of a string, whatever the strings hold.
NestingIsExact ==
    parser = "ok" =>
        Scan(text) = [depth    |-> Len(open), maximum |-> deepest,
                      inString |-> FALSE,     escaped |-> FALSE]

\* The recursive parser never meets more nesting than the limit, on a text
\* that goes wrong either: what it reads before the mistake is scanned alike.
ParserWithinLimit == outcome \in {"json", "malformed"} => deepest <= MaxDepth

\* A JSON text is refused for its nesting only when it exceeds the limit.
RefusedOnlyWhenDeep ==
    outcome = "nesting" /\ parser = "ok" => deepest > MaxDepth

\* The limit on nesting is neither passed nor anticipated.
LimitIsExact == ParseTypeOK /\ ParserWithinLimit /\ RefusedOnlyWhenDeep
=============================================================================
