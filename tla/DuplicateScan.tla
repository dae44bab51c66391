---------------------------- MODULE DuplicateScan ----------------------------
(***************************************************************************)
(* The streaming pass that finds repeated object members (json_scan.rs).   *)
(* A parser drives a visitor: it opens and closes objects and arrays,      *)
(* delivers keys and scalars, and may fail anywhere.  The visitor keeps    *)
(* the pointer of the value that comes next, as long as it is short        *)
(* enough, the keys of every object that is open, and a bounded list of    *)
(* the members that repeat a key.                                          *)
(*                                                                         *)
(* A pointer is the sequence of its segments; EscapedBytes and RawBytes    *)
(* are their lengths with and without the escapes of RFC 6901.  What the   *)
(* sensitivity tests answer for a key or a text is given.                  *)
(***************************************************************************)
EXTENDS Integers, Sequences, FiniteSets

CONSTANTS
    Keys,               \* keys of objects
    Texts,              \* string values
    Numerals,           \* the index of an array's n-th element, as a segment
    Digits,             \* the segments is_array_index accepts
    RawBytes,           \* length of a segment
    EscapedBytes,       \* and with its '~' and '/' escaped
    SensitiveKeys,      \* manifest_sensitive_key or manifest_sensitive_message
    SensitiveMessages,  \* manifest_sensitive_message
    SensitivePointers,  \* manifest_sensitive_json_pointer
    MaxPointerBytes,    \* MAX_DIAGNOSTIC_TEXT_BYTES
    MaxLocations,       \* MAX_DUPLICATE_KEY_LOCATIONS
    MaxLocationBytes,   \* MAX_DUPLICATE_KEY_LOCATION_BYTES
    MaxTokens           \* bound of the model: the tokens of a document

Segments == Keys \cup {Numerals[n] : n \in 1..Len(Numerals)}

ASSUME NamesAssumption ==
    /\ IsFiniteSet(Keys) /\ Numerals \in Seq(Segments) /\ Len(Numerals) > 0
    /\ Digits \subseteq Segments
    /\ SensitiveKeys \subseteq Keys
    /\ SensitiveMessages \subseteq Texts /\ SensitivePointers \subseteq Texts

ASSUME BytesAssumption ==
    /\ RawBytes \in [Segments -> Nat] /\ EscapedBytes \in [Segments -> Nat]
    /\ \A s \in Segments : RawBytes[s] <= EscapedBytes[s]

ASSUME BoundsAssumption ==
    /\ MaxPointerBytes \in Nat /\ MaxLocations \in Nat
    /\ MaxLocationBytes \in Nat /\ MaxTokens \in Nat

VARIABLES
    status,     \* "scanning", "done" or "failed"
    stack,      \* the objects and arrays that are open
    next,       \* where the next value goes, if one may come
    pointers,   \* DuplicateScan::pointers
    retained,   \* DuplicateState::retained_bytes
    truncated,  \* DuplicateScan::truncated
    sensitive,  \* DuplicateScan::sensitive
    members,    \* history: every member read, with the object it belongs to
    strings,    \* history: the strings read, with their locations
    tokens      \* how many tokens the parser has delivered

vars == <<status, stack, next, pointers, retained, truncated, sensitive,
          members, strings, tokens>>

(***************************************************************************)
(* A location is a pointer, its length, and whether the visitor still has  *)
(* it: `path` is Some only while `named` is true.                          *)
(***************************************************************************)
Locations == [path : Seq(Segments), bytes : Nat, named : BOOLEAN]
Root      == [path |-> <<>>, bytes |-> 0, named |-> TRUE]
Nowhere   == [due |-> FALSE, at |-> Root]
At(where) == [due |-> TRUE, at |-> where]

Frames == [map : BOOLEAN, at : Locations, keys : SUBSET Keys,
           index : Nat, object : Nat]

Step(parent, segment, fits) ==
    [path  |-> Append(parent.path, segment),
     bytes |-> parent.bytes + 1 + EscapedBytes[segment],
     named |-> parent.named /\ fits]

\* Mutant of BoundedChild: the length is checked before the key is escaped
\* and not after.
BoundedRawChild(parent, key) ==
    Step(parent, key, parent.bytes + RawBytes[key] + 1 <= MaxPointerBytes)

\* bounded_child: the key is measured as it is, then escaped.
BoundedChild(parent, key) ==
    Step(parent, key,
         /\ parent.bytes + RawBytes[key] + 1 <= MaxPointerBytes
         /\ parent.bytes + 1 + EscapedBytes[key] <= MaxPointerBytes)

\* bounded_index
BoundedIndex(parent, index) ==
    LET numeral == Numerals[index + 1]
    IN  Step(parent, numeral, parent.bytes + 1 + EscapedBytes[numeral] <= MaxPointerBytes)

\* is_manifest_json_pointer_value
IsPointerValue(path) ==
    \/ Len(path) = 3 /\ path[1] = "diagnostics" /\ path[2] \in Digits /\ path[3] = "json_path"
    \/ /\ Len(path) = 4
       /\ path[1] = "normalized" /\ path[2] = "applied_defaults"
       /\ path[3] \in Digits /\ path[4] = "field"

\* DuplicateState::record keeps a pointer it has and has room for.
Fits(where) ==
    /\ where.named
    /\ Len(pointers) < MaxLocations
    /\ retained + where.bytes <= MaxLocationBytes

\* Mutant of Record: a member without a pointer is passed over in silence.
RecordNamed(where) ==
    IF Fits(where)
    THEN /\ pointers' = Append(pointers, where.path)
         /\ retained' = retained + where.bytes
         /\ UNCHANGED truncated
    ELSE /\ truncated' = (truncated \/ where.named)
         /\ UNCHANGED <<pointers, retained>>

Record(where) ==
    IF Fits(where)
    THEN /\ pointers' = Append(pointers, where.path)
         /\ retained' = retained + where.bytes
         /\ UNCHANGED truncated
    ELSE /\ truncated' = TRUE
         /\ UNCHANGED <<pointers, retained>>

-----------------------------------------------------------------------------

Top == stack[Len(stack)]

Replace(frame) == Append(SubSeq(stack, 1, Len(stack) - 1), frame)

\* What is open, and what may come, after a value that lies in `frames`: an
\* array goes on with its next element, an object waits for a key.  Arrays
\* have fewer elements than there are numerals (bound of the model).
Deliver(frames) ==
    LET depth == Len(frames)
        array == frames[depth]
    IN  IF depth > 0 /\ ~array.map
        THEN /\ stack' = [frames EXCEPT ![depth].index = @ + 1]
             /\ array.index + 1 < Len(Numerals)
             /\ next' = At(BoundedIndex(array.at, array.index + 1))
        ELSE /\ stack' = frames
             /\ next' = Nowhere

\* The parser delivers another token.
Token ==
    /\ status = "scanning"
    /\ tokens < MaxTokens
    /\ tokens' = tokens + 1
    /\ UNCHANGED status

Init ==
    /\ status = "scanning"
    /\ stack = <<>> /\ next = At(Root)
    /\ pointers = <<>> /\ retained = 0 /\ truncated = FALSE /\ sensitive = FALSE
    /\ members = <<>> /\ strings = {} /\ tokens = 0

\* A number, a boolean or null.
Scalar ==
    /\ Token /\ next.due
    /\ Deliver(stack)
    /\ UNCHANGED <<pointers, retained, truncated, sensitive, members, strings>>

\* Mutant of String: the location is not looked at.
StringAnywhere(text) ==
    /\ Token /\ next.due
    /\ sensitive' = (sensitive \/ text \in SensitiveMessages)
    /\ strings' = strings \cup {[path |-> next.at.path, text |-> text]}
    /\ Deliver(stack)
    /\ UNCHANGED <<pointers, retained, truncated, members>>

\* visit_str: the test depends on where the string is, if that is known.
String(text) ==
    /\ Token /\ next.due
    /\ sensitive' = (sensitive \/
          text \in (IF next.at.named /\ IsPointerValue(next.at.path)
                    THEN SensitivePointers ELSE SensitiveMessages))
    /\ strings' = strings \cup {[path |-> next.at.path, text |-> text]}
    /\ Deliver(stack)
    /\ UNCHANGED <<pointers, retained, truncated, members>>

Frame(isMap) ==
    [map |-> isMap, at |-> next.at, keys |-> {}, index |-> 0, object |-> Len(members)]

\* visit_map and visit_seq begin.  An object is known by the number of
\* members read before it; one that is empty needs no number of its own.
Open(isMap) ==
    /\ Token /\ next.due
    /\ stack' = Append(stack, Frame(isMap))
    /\ next' = IF isMap THEN Nowhere ELSE At(BoundedIndex(next.at, 0))
    /\ UNCHANGED <<pointers, retained, truncated, sensitive, members, strings>>

\* Mutant of Key: the keys seen are those of all objects that are open.
KeyOfAnyObject(key) ==
    /\ Token /\ ~next.due
    /\ Len(stack) > 0 /\ Top.map
    /\ LET where == BoundedChild(Top.at, key)
       IN  /\ sensitive' = (sensitive \/ key \in SensitiveKeys)
           /\ IF \E i \in 1..Len(stack) : key \in stack[i].keys THEN Record(where)
              ELSE UNCHANGED <<pointers, retained, truncated>>
           /\ members' = Append(members, [object |-> Top.object, key |-> key, path |-> where.path])
           /\ next' = At(where)
    /\ stack' = Replace([Top EXCEPT !.keys = @ \cup {key}])
    /\ UNCHANGED strings

\* visit_map gets a key: it is observed, recorded if the object has it, and
\* its value is due.
Key(key) ==
    /\ Token /\ ~next.due
    /\ Len(stack) > 0 /\ Top.map
    /\ LET where == BoundedChild(Top.at, key)
       IN  /\ sensitive' = (sensitive \/ key \in SensitiveKeys)
           /\ IF key \in Top.keys THEN Record(where)
              ELSE UNCHANGED <<pointers, retained, truncated>>
           /\ members' = Append(members, [object |-> Top.object, key |-> key, path |-> where.path])
           /\ next' = At(where)
    /\ stack' = Replace([Top EXCEPT !.keys = @ \cup {key}])
    /\ UNCHANGED strings

\* An object ends between members, an array before any element.
Close ==
    /\ status = "scanning"
    /\ Len(stack) > 0
    /\ Top.map => ~next.due
    /\ Deliver(SubSeq(stack, 1, Len(stack) - 1))
    /\ UNCHANGED <<status, pointers, retained, truncated, sensitive, members, strings, tokens>>

\* deserializer.end()
Finish ==
    /\ status = "scanning"
    /\ stack = <<>> /\ ~next.due
    /\ status' = "done"
    /\ UNCHANGED <<stack, next, pointers, retained, truncated, sensitive, members, strings, tokens>>

\* The parser fails; the caller gets its error and no scan.
Malformed ==
    /\ status = "scanning"
    /\ status' = "failed"
    /\ UNCHANGED <<stack, next, pointers, retained, truncated, sensitive, members, strings, tokens>>

Ended == status # "scanning" /\ UNCHANGED vars

Next ==
    \/ Scalar
    \/ \E text \in Texts : String(text)
    \/ \E isMap \in BOOLEAN : Open(isMap)
    \/ \E key \in Keys : Key(key)
    \/ Close
    \/ Finish
    \/ Malformed
    \/ Ended

Spec == Init /\ [][Next]_vars

-----------------------------------------------------------------------------

\* The variables have their types.
TypeOK ==
    /\ status \in {"scanning", "done", "failed"}
    /\ stack \in Seq(Frames)
    /\ next \in [due : BOOLEAN, at : Locations]
    /\ pointers \in Seq(Seq(Segments))
    /\ retained \in Nat
    /\ truncated \in BOOLEAN /\ sensitive \in BOOLEAN
    /\ members \in Seq([object : Nat, key : Keys, path : Seq(Segments)])
    /\ strings \subseteq [path : Seq(Segments), text : Texts]
    /\ tokens \in Nat

\* The members that repeat a key of their object, whatever lies between.
Duplicates ==
    {n \in 1..Len(members) : \E m \in 1..n - 1 :
        members[m].object = members[n].object /\ members[m].key = members[n].key}

\* The list never exceeds MAX_DUPLICATE_KEY_LOCATIONS and its bytes never
\* MAX_DUPLICATE_KEY_LOCATION_BYTES, whatever a document repeats.
ScanIsBounded == Len(pointers) <= MaxLocations /\ retained <= MaxLocationBytes

\* The flag is set exactly when a duplicate has no pointer in the list, for
\* either limit and for a pointer too long to build.  A document therefore
\* has no duplicates when the list is empty and the flag is not set, which
\* is what normalization and the manifest reader conclude from it.
TruncatedIffMissing == truncated <=> Len(pointers) < Cardinality(Duplicates)

\* The list holds pointers of duplicates and of nothing else, each
\* occurrence once, in the order of the document.
PointersAreDuplicates ==
    \E kept \in SUBSET Duplicates :
        /\ Len(pointers) = Cardinality(kept)
        /\ \A n \in kept :
              pointers[Cardinality({m \in kept : m <= n})] = members[n].path

\* The length of a pointer.
Length(path) ==
    LET sum[n \in 0..Len(path)] ==
            IF n = 0 THEN 0 ELSE sum[n - 1] + 1 + EscapedBytes[path[n]]
    IN  sum[Len(path)]

\* The visitor has the pointer of the value that comes next exactly when it
\* is not longer than MAX_DIAGNOSTIC_TEXT_BYTES, however deep the value lies
\* and whatever its keys need to be escaped.
PointerKeptIffShort ==
    next.due => (next.at.named <=> Length(next.at.path) <= MaxPointerBytes)

\* The flag for sensitive content is what a second pass over the whole
\* document would find: every key and every string counts, repeated members
\* included, and a string is judged as a pointer only where a manifest has
\* pointers and the place of the string has one that is short enough.
SensitiveExact ==
    sensitive <=>
        \/ \E m \in 1..Len(members) : members[m].key \in SensitiveKeys
        \/ \E s \in strings :
              s.text \in
                  IF IsPointerValue(s.path) /\ Length(s.path) <= MaxPointerBytes
                  THEN SensitivePointers
                  ELSE SensitiveMessages
=============================================================================
