---------------------------- MODULE Sensitivity ----------------------------
(***************************************************************************)
(* What a manifest must not show (normalize.rs).  The tests look at        *)
(* strings, at names of members and at paths, each with rules of its own.  *)
(* A string is the sequence of its words; what its characters are          *)
(* searched for is given per word.  A name is a string too: its words are  *)
(* divided into the parts of a compact lower-case name, "hf_token" into    *)
(* "hf" and "token".                                                       *)
(***************************************************************************)
EXTENDS Json

CONSTANTS
    Rooted,      \* words that begin as an absolute path or file URL does
    CacheWords,  \* words that hold a hub's cache path
    TokenWords,  \* words that hold a token or a URL with user information
    Bearers,     \* words that end in "bearer"
    Trimmed,     \* words in quotes or brackets |-> what is in them
    Parameters,  \* words that are URLs |-> the names of their parameters
    KeyParts     \* words of several parts |-> their parts

PartsOf(word) == IF word \in DOMAIN KeyParts THEN KeyParts[word] ELSE <<word>>

Compact(name) == FlattenSeq([i \in 1..Len(name) |-> PartsOf(name[i])])

Wrappers == {"value", "data", "text", "string"}

\* manifest_semantic_key: what is left when wrappers are taken off the end
\* as long as something stays.
SemanticKey(parts) ==
    CHOOSE key \in {SubSeq(parts, 1, n) : n \in 0..Len(parts)} :
        /\ \A i \in Len(key) + 1..Len(parts) : i > 1 /\ parts[i] \in Wrappers
        /\ Len(key) < 2 \/ Last(key) \notin Wrappers

WholeKeys ==
    {<<"name", "or", "path">>, <<"chat", "template">>, <<"authorization">>, <<"passwd">>}

ContainedKeys ==
    {<<"password">>, <<"credential">>, <<"credentials">>, <<"client", "secret">>,
     <<"secret", "key">>, <<"private", "key">>, <<"api", "key">>, <<"access", "key">>,
     <<"auth", "token">>, <<"access", "token">>, <<"api", "token">>, <<"hf", "token">>}

SafeTokens == {<<s, "token">> : s \in {"bos", "eos", "unk", "sep", "pad", "cls", "mask"}}

Holds(parts, infix) ==
    \E i \in 1..Len(parts) - Len(infix) + 1 : SubSeq(parts, i, i + Len(infix) - 1) = infix

\* manifest_sensitive_compact_key
SensitiveParts(parts) ==
    LET key == SemanticKey(parts)
    IN  \/ key \in WholeKeys
        \/ \E infix \in ContainedKeys : Holds(key, infix)
        \/ key # <<>> /\ (Last(key) = "secret" \/ (Last(key) = "token" /\ key \notin SafeTokens))

\* manifest_sensitive_key
SensitiveKey(name) == SensitiveParts(Compact(name))

\* manifest_sensitive_url_parameters
SensitiveUrl(word) ==
    /\ word \in DOMAIN Parameters
    /\ \E name \in Parameters[word] :
          \/ name \in {<<"key">>, <<"sig">>, <<"sas">>}
          \/ Holds(name, <<"signature">>)
          \/ SensitiveParts(name)

\* manifest_sensitive_text: how the string begins, and what it contains.
SensitiveText(text) ==
    \/ text # <<>> /\ text[1] \in Rooted
    \/ \E i \in 1..Len(text) : text[i] \in CacheWords \cup TokenWords \/ SensitiveUrl(text[i])
    \/ \E i \in 1..Len(text) - 1 : text[i] \in Bearers

Trim(word) == IF word \in DOMAIN Trimmed THEN Trimmed[word] ELSE word

\* manifest_sensitive_message: the string, and every word of it for itself.
SensitiveMessage(text) ==
    \/ SensitiveText(text)
    \/ \E i \in 1..Len(text) : SensitiveText(<<Trim(text[i])>>)

\* manifest_sensitive_path: every segment as a name and as a string.
SensitivePath(path) ==
    \E i \in 1..Len(path) : SensitiveKey(path[i]) \/ SensitiveText(path[i])

\* The string a path is written as, judged as a message: a word that begins
\* in the middle of a segment, and a cache path over two segments, count.
CachePath == <<<<".cache">>, <<"huggingface">>>>

SensitivePathText(path) ==
    \/ \E i \in 1..Len(path) :
          LET segment == path[i]
          IN  \/ \E j \in 1..Len(segment) :
                    /\ i = 1 \/ j > 1
                    /\ Trim(segment[j]) \in Rooted
              \/ \E j \in 1..Len(segment) :
                    \/ segment[j] \in CacheWords \cup TokenWords
                    \/ SensitiveUrl(segment[j])
              \/ \E j \in 1..Len(segment) - 1 : segment[j] \in Bearers
    \/ \E i \in 2..Len(path) - 1 : SubSeq(path, i, i + 1) = CachePath

\* manifest_sensitive_json_pointer: a pointer is <<"pointer", its tokens>>, a
\* string that does not begin with a slash is <<"text", string>>.
SensitivePointer(pointer) ==
    IF pointer[1] = "text" THEN SensitiveText(pointer[2]) ELSE SensitivePath(pointer[2])

-----------------------------------------------------------------------------

Redacted == <<"<redacted>">>

\* manifest_json_is_safe: of every string and of every name in a value.
Safe(value) ==
    /\ \A string \in Strings(value) : ~SensitiveMessage(string)
    /\ \A name \in Names(value) : ~SensitiveKey(name) /\ ~SensitiveMessage(name)

\* The members of an object that may be shown.
Showable(object) == {name \in DOMAIN object : ~SensitiveKey(name) /\ ~SensitiveMessage(name)}

\* Mutant of Redacting: lists are passed over.
RedactingNoLists(value, below, n) ==
    [v \in Within(value) |->
        CASE v[1] = "text" /\ SensitiveMessage(v[2]) -> Text(Redacted)
          [] v[1] = "object" /\ n > 0 ->
                Object([name \in Showable(v[2]) |-> below[v[2][name]]])
          [] OTHER -> v]

\* redact_string and a step of redact_json: what is redacted of the values
\* within one that have n levels, by what is redacted of those in them.
Redacting(value, below, n) ==
    [v \in Within(value) |->
        CASE v[1] = "text" /\ SensitiveMessage(v[2]) -> Text(Redacted)
          [] v[1] = "list" /\ n > 0 ->
                List([i \in 1..Len(v[2]) |-> below[v[2][i]]])
          [] v[1] = "object" /\ n > 0 ->
                Object([name \in Showable(v[2]) |-> below[v[2][name]]])
          [] OTHER -> v]

\* redact_json
Redact(value) ==
    LET redacted[n \in 0..MaxNesting] == Redacting(value, redacted[n - 1], n)
    IN  redacted[MaxNesting][value]
=============================================================================
