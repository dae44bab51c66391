-------------------------------- MODULE Json --------------------------------
(***************************************************************************)
(* JSON values are tuples that begin with their type.  A string is the     *)
(* sequence of its words.  The members of an object have no order: what    *)
(* depends on one says so.                                                 *)
(***************************************************************************)
EXTENDS Integers, Sequences, FiniteSets, SequencesExt, TLC

CONSTANT MaxNesting  \* MAX_SOURCE_JSON_DEPTH

ASSUME NestingAssumption == MaxNesting \in Nat \ {0}

Null          == <<"null">>
Bool(b)       == <<"bool", b>>
Number        == <<"number">>
Text(string)  == <<"text", string>>
List(values)  == <<"list", values>>
Object(named) == <<"object", named>>

\* A number by where it lies: "small" fits u64 and i64, "large" only u64,
\* "negative" only i64, "fraction" is any other finite one, and an
\* "infinite" one is beyond f64.
Numeral(range) == <<"number", range>>

IsText(value) == value[1] = "text"
IsPair(value) == value[1] = "list" /\ Len(value[2]) = 2

-----------------------------------------------------------------------------
(***************************************************************************)
(* What is in a value.  Values nest as deep as the parser lets them; what  *)
(* goes through all of one goes through it level by level.                 *)
(***************************************************************************)

\* The values directly in a value.
Inside(value) ==
    CASE value[1] = "list"   -> {value[2][i] : i \in 1..Len(value[2])}
      [] value[1] = "object" -> {value[2][name] : name \in DOMAIN value[2]}
      [] OTHER               -> {}

\* The values so many levels inside a value, itself on level 0.
Levels(value) ==
    LET level[n \in 0..MaxNesting] ==
            IF n = 0 THEN {value} ELSE UNION {Inside(v) : v \in level[n - 1]}
    IN  level

Within(value) == UNION {Levels(value)[n] : n \in 0..MaxNesting}

\* The strings and the names of members in a value.
Strings(value) == {v[2] : v \in {u \in Within(value) : u[1] = "text"}}
Names(value)   == UNION {DOMAIN v[2] : v \in {u \in Within(value) : u[1] = "object"}}

\* Whether a value is made as those above are.
Formed(v) ==
    CASE v[1] = "text"   -> v = Text(v[2])
      [] v[1] = "list"   -> v = List(v[2]) /\ v[2] \in Seq(Inside(v))
      [] v[1] = "object" -> /\ v = Object(v[2])
                            /\ v[2] = [name \in DOMAIN v[2] |-> v[2][name]]
                            /\ IsFiniteSet(DOMAIN v[2])
      [] OTHER           -> TRUE

\* A value that has so many levels of lists and objects at most.
Nested(value, depth) ==
    /\ \A v \in Within(value) : Formed(v)
    /\ \A v \in Levels(value)[depth] : v[1] \notin {"list", "object"}

\* The keys of the members or elements of a value, and what lies at a place:
\* a place is the keys that lead there.
KeysOf(value) == IF value[1] \in {"list", "object"} THEN DOMAIN value[2] ELSE {}

At(value, place) ==
    LET at[n \in 0..Len(place)] == IF n = 0 THEN value ELSE at[n - 1][2][place[n]]
    IN  at[Len(place)]

\* The places in a value, the empty one included, level by level.
PlacesOn(value) ==
    LET level[n \in 0..MaxNesting] ==
            IF n = 0 THEN {<<>>}
            ELSE UNION {{Append(place, key) : key \in KeysOf(At(value, place))} : place \in level[n - 1]}
    IN  level

Places(value) == UNION {PlacesOn(value)[n] : n \in 0..MaxNesting}

-----------------------------------------------------------------------------

\* A function that has a value at x, and is f elsewhere.
With(f, x, v) == [y \in DOMAIN f \cup {x} |-> IF y = x THEN v ELSE f[y]]

\* How strings compare by their bytes.
Before(a, b) ==
    \/ IsStrictPrefix(a, b)
    \/ \E i \in 1..Len(a) :
          /\ i <= Len(b) /\ a[i] < b[i]
          /\ \A j \in 1..i - 1 : a[j] = b[j]

\* The elements of a set in their order: each has its place by how many
\* precede it.
InOrder(S, Precedes(_, _)) ==
    [i \in 1..Cardinality(S) |->
        CHOOSE x \in S : Cardinality({y \in S : Precedes(y, x)}) = i - 1]

Below(i, j) == i < j

\* The elements of a list at some of its places, in the list's order.
AtPlaces(list, places) ==
    [i \in 1..Cardinality(places) |-> list[InOrder(places, Below)[i]]]
=============================================================================
