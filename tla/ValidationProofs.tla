-------------------------- MODULE ValidationProofs --------------------------
(***************************************************************************)
(* Theorems about Validation for every repository, every rule of paths and *)
(* every limit.                                                            *)
(***************************************************************************)
EXTENDS Validation, SharedProofs

LEMMA WhenIs ==
    ASSUME NEW condition \in BOOLEAN, NEW f
    PROVE  /\ IsList(When(condition, <<f>>))
           /\ Findings(When(condition, <<f>>)) = IF condition THEN {f} ELSE {}
           /\ \A S : Hits(When(condition, <<f>>), S) = IF condition /\ f \in S THEN 1 ELSE 0
  BY NoneIs, OneIs DEF When

-----------------------------------------------------------------------------
(***************************************************************************)
(* What a list tells: its findings are about one document, have codes and  *)
(* pointers of two sets, the level of their code, and a related path only  *)
(* if it is a valid one.                                                   *)
(***************************************************************************)

Warnings ==
    {"missing_component_config", "missing_tokenizer_config", "missing_preprocessor_config",
     "custom_component_requires_code", "executable_reference_inert"}

Telling(f, path, codes, pointers) ==
    /\ f.document = Some(path)
    /\ f.code \in codes
    /\ f.pointer \in pointers
    /\ f.level = IF f.code \in Warnings THEN "warning" ELSE "error"
    /\ f.related # None => Valid(f.related[1])

Tells(list, path, codes, pointers) ==
    /\ IsList(list)
    /\ \A f \in Findings(list) : Telling(f, path, codes, pointers)

LEMMA TellsNone ==
    ASSUME NEW path, NEW codes, NEW pointers
    PROVE  Tells(<<>>, path, codes, pointers)
  BY NoneIs DEF Tells

LEMMA TellsOne ==
    ASSUME NEW path, NEW codes, NEW pointers, NEW f, Telling(f, path, codes, pointers)
    PROVE  Tells(<<f>>, path, codes, pointers)
  BY OneIs DEF Tells

LEMMA TellsWhen ==
    ASSUME NEW path, NEW codes, NEW pointers, NEW list, NEW condition \in BOOLEAN,
           condition => Tells(list, path, codes, pointers)
    PROVE  Tells(When(condition, list), path, codes, pointers)
  BY TellsNone DEF When

LEMMA TellsBoth ==
    ASSUME NEW path, NEW codes, NEW pointers, NEW codes2, NEW pointers2, NEW a, NEW b,
           Tells(a, path, codes, pointers), Tells(b, path, codes2, pointers2)
    PROVE  Tells(a \o b, path, codes \cup codes2, pointers \cup pointers2)
<1>1. IsList(a) /\ IsList(b)
  BY DEF Tells
<1>2. IsList(a \o b) /\ Findings(a \o b) = Findings(a) \cup Findings(b)
  BY <1>1, BothAre
<1>. QED
  BY <1>2 DEF Tells, Telling

LEMMA TellsMore ==
    ASSUME NEW path, NEW codes, NEW pointers, NEW list, Tells(list, path, codes, pointers),
           NEW codes2, codes \subseteq codes2, NEW pointers2, pointers \subseteq pointers2
    PROVE  Tells(list, path, codes2, pointers2)
  BY DEF Tells, Telling

\* The lists of a set's members.
LEMMA TellsEach ==
    ASSUME NEW path, NEW codes, NEW pointers, NEW set, NEW F, NEW list, IsEach(list, set, F),
           \A x \in set : Tells(F[x], path, codes, pointers)
    PROVE  Tells(list, path, codes, pointers)
<1>1. IsList(list) /\ Findings(list) = UNION {Findings(F[x]) : x \in set}
  BY EachIs
<1>2. ASSUME NEW f \in Findings(list) PROVE Telling(f, path, codes, pointers)
  <2>1. PICK x \in set : f \in Findings(F[x])
    BY <1>1
  <2>. QED
    BY <2>1 DEF Tells
<1>. QED
  BY <1>1, <1>2 DEF Tells

\* What a list does not tell it has no findings of.
LEMMA Untold ==
    ASSUME NEW path, NEW codes, NEW pointers, NEW list, Tells(list, path, codes, pointers),
           NEW S, \A f \in S : ~Telling(f, path, codes, pointers)
    PROVE  Hits(list, S) = 0
<1>1. Findings(list) \cap S = {}
  BY DEF Tells
<1>. QED
  BY <1>1, HitsAre DEF Tells
-----------------------------------------------------------------------------
(***************************************************************************)
(* Documents and paths.                                                    *)
(***************************************************************************)

\* A document of a repository that was constructed.
IsDocument(r, p) == Constructed(r) /\ p \in DOMAIN r.documents

LEMMA DocumentIs ==
    ASSUME NEW r, NEW p, IsDocument(r, p)
    PROVE  /\ p \in Paths /\ Valid(p) /\ p \in r.files
           /\ Readable(p, r.documents[p])
           /\ Nested(r.documents[p].json, MaxNesting)
           /\ r.documents[p].json \in Within(r.documents[p].json)
           /\ IsValue(r.documents[p].json)
           /\ Usable(r.documents[p]) =>
                 /\ r.documents[p].json[1] = "object"
                 /\ IsFiniteSet(DOMAIN r.documents[p].json[2])
                 /\ \A name \in DOMAIN r.documents[p].json[2] :
                       r.documents[p].json[2][name] \in Within(r.documents[p].json)
<1>1. p \in Paths /\ Valid(p) /\ p \in r.files /\ Readable(p, r.documents[p])
  BY DEF IsDocument, Constructed
<1>2. Nested(r.documents[p].json, MaxNesting)
  BY <1>1 DEF Readable
<1> DEFINE json == r.documents[p].json
<1>3. json \in Within(json)
  BY <1>2, WithinClosed
<1>4. /\ IsValue(json)
      /\ json[1] \in {"object", "list"} => \A key \in DOMAIN json[2] : json[2][key] \in Within(json)
  BY <1>2, <1>3, ValueIs
<1>. QED
  BY <1>1, <1>2, <1>3, <1>4 DEF Usable, IsValue

LEMMA JoinIs ==
    ASSUME NEW base, NEW child, Join(base, child) # None
    PROVE  Join(base, child) = Some(base \o child) /\ Valid(base \o child)
           /\ Join(base, child)[1] = base \o child
  BY DEF Join, Some, None

LEMMA PointersAre ==
    /\ \A a : Top(a) = Some(<<a>>)
    /\ \A a, b : Child(Some(<<a>>), b) = Some(<<a, b>>)
    /\ \A a, b, c : Child(Some(<<a, b>>), c) = Some(<<a, b, c>>)
<1>1. \A x : Some(x) # None /\ Some(x)[1] = x
  BY DEF Some, None
<1>2. MaxPointer \in Nat /\ MaxPointer >= 3
  BY ValidationAssumption
<1>3. Len(<<>>) = 0 /\ \A a : Len(<<a>>) = 1 /\ \A b : Len(<<a, b>>) = 2
  OBVIOUS
<1>4. ASSUME NEW a PROVE Append(<<>>, a) = <<a>>
  OBVIOUS
<1>5. ASSUME NEW a, NEW b PROVE Append(<<a>>, b) = <<a, b>>
  <2> DEFINE S == {a, b}
  <2>1. <<a>> \in Seq(S) /\ <<a, b>> \in Seq(S) /\ b \in S
    OBVIOUS
  <2>2. /\ Append(<<a>>, b) \in Seq(S) /\ Len(Append(<<a>>, b)) = 2
        /\ Append(<<a>>, b)[1] = a /\ Append(<<a>>, b)[2] = b
    BY <2>1, AppendProperties
  <2>3. /\ Len(<<a, b>>) = 2 /\ <<a, b>>[1] = a /\ <<a, b>>[2] = b
    OBVIOUS
  <2>4. \A i \in 1..2 : i = 1 \/ i = 2
    OBVIOUS
  <2>. QED
    BY <2>1, <2>2, <2>3, <2>4, SeqEqual
<1>6. ASSUME NEW a, NEW b, NEW c PROVE Append(<<a, b>>, c) = <<a, b, c>>
  <2> DEFINE S == {a, b, c}
  <2>1. <<a, b>> \in Seq(S) /\ <<a, b, c>> \in Seq(S) /\ c \in S /\ Len(<<a, b>>) = 2
    OBVIOUS
  <2>2. /\ Append(<<a, b>>, c) \in Seq(S) /\ Len(Append(<<a, b>>, c)) = 3
        /\ Append(<<a, b>>, c)[1] = a /\ Append(<<a, b>>, c)[2] = b /\ Append(<<a, b>>, c)[3] = c
    BY <2>1, AppendProperties
  <2>3. /\ Len(<<a, b, c>>) = 3
        /\ <<a, b, c>>[1] = a /\ <<a, b, c>>[2] = b /\ <<a, b, c>>[3] = c
    OBVIOUS
  <2>4. \A i \in 1..3 : i = 1 \/ i = 2 \/ i = 3
    OBVIOUS
  <2>. QED
    BY <2>1, <2>2, <2>3, <2>4, SeqEqual
<1>7. ASSUME NEW a PROVE Top(a) = Some(<<a>>)
  <2>1. Some(<<>>) # None /\ Some(<<>>)[1] = <<>> /\ ~(Len(<<>>) >= MaxPointer)
    BY <1>1, <1>2, <1>3
  <2>. QED
    BY <1>4, <2>1 DEF Top, Child
<1>8. ASSUME NEW a, NEW b PROVE Child(Some(<<a>>), b) = Some(<<a, b>>)
  <2>1. Some(<<a>>) # None /\ Some(<<a>>)[1] = <<a>> /\ ~(Len(<<a>>) >= MaxPointer)
    BY <1>1, <1>2, <1>3
  <2>. QED
    BY <1>5, <2>1 DEF Child
<1>9. ASSUME NEW a, NEW b, NEW c PROVE Child(Some(<<a, b>>), c) = Some(<<a, b, c>>)
  <2>1. Some(<<a, b>>) # None /\ Some(<<a, b>>)[1] = <<a, b>> /\ ~(Len(<<a, b>>) >= MaxPointer)
    BY <1>1, <1>2, <1>3
  <2>. QED
    BY <1>6, <2>1 DEF Child
<1>. QED
  BY <1>7, <1>8, <1>9

\* An error, and a warning, as they are told.
LEMMA ErrorIs ==
    ASSUME NEW code, code \notin Warnings, NEW path, NEW pointer
    PROVE  Telling(Error(code, path, pointer), path, {code}, {pointer})
  BY DEF Telling, Error, Report, None

LEMMA WarningIs ==
    ASSUME NEW code \in Warnings, NEW path, NEW pointer
    PROVE  Telling(Warning(code, path, pointer), path, {code}, {pointer})
  BY DEF Telling, Warning, Report, None

LEMMA InvalidIs ==
    ASSUME NEW path, NEW pointer
    PROVE  Telling(InvalidField(path, pointer), path, {"invalid_document_shape"}, {pointer})
<1>1. "invalid_document_shape" \notin Warnings
  BY DEF Warnings
<1>. QED
  BY <1>1, ErrorIs DEF InvalidField

\* A report that something related is missing.
LEMMA RelatedIs ==
    ASSUME NEW level, NEW code, NEW path, NEW pointer, NEW related,
           level = IF code \in Warnings THEN "warning" ELSE "error",
           related # None => Valid(related[1])
    PROVE  Telling(Report(level, code, Some(path), pointer, related), path, {code}, {pointer})
  BY DEF Telling, Report

-----------------------------------------------------------------------------
(* What the references pass tells. *)

LEMMA ReferenceTells ==
    ASSUME NEW r, NEW path, NEW name
    PROVE  Tells(ComponentReference(r, path, name), path,
                 {"unsafe_reference_path", "missing_component_directory"}, {Top(name)})
<1> DEFINE codes == {"unsafe_reference_path", "missing_component_directory"}
           related == Join(Parent(path), <<name>>)
           list == ComponentReference(r, path, name)
           missing == Report("error", "missing_component_directory", Some(path), Top(name), related)
<1>0. codes \cap Warnings = {}
  BY DEF Warnings
<1>1. CASE ~SafeName(name)
  BY <1>1, TellsNone DEF ComponentReference
<1>2. CASE SafeName(name) /\ related = None
  <2>1. list = <<Error("unsafe_reference_path", path, Top(name))>>
    BY <1>2 DEF ComponentReference
  <2>2. Telling(Error("unsafe_reference_path", path, Top(name)), path, codes, {Top(name)})
    BY <1>0, ErrorIs DEF Telling
  <2>. QED
    BY <2>1, <2>2, TellsOne
<1>3. CASE SafeName(name) /\ related # None
  <2>1. list = When(related[1] \notin r.directories, <<missing>>)
    BY <1>3 DEF ComponentReference
  <2>2. Valid(related[1])
    BY <1>3, JoinIs
  <2>3. "error" = IF "missing_component_directory" \in Warnings THEN "warning" ELSE "error"
    BY <1>0
  <2> HIDE DEF related
  <2>4. Telling(missing, path, {"missing_component_directory"}, {Top(name)})
    BY <2>2, <2>3, RelatedIs
  <2>5. Telling(missing, path, codes, {Top(name)})
    BY <2>4 DEF Telling
  <2>. QED
    BY <2>1, <2>5, TellsOne, TellsWhen
<1>. QED
  BY <1>1, <1>2, <1>3

\* The components an index names, one after the other.
LEMMA NamesFinite ==
    ASSUME NEW r, NEW path, IsDocument(r, path), Usable(r.documents[path])
    PROVE  /\ IsFiniteSet(PresentNames(r.documents[path].json[2]))
           /\ IsFiniteSet(Declared(r.documents[path].json[2]))
<1>1. IsFiniteSet(DOMAIN r.documents[path].json[2])
  BY DocumentIs
<1>. QED
  BY <1>1, FS_Subset DEF PresentNames, Declared

LEMMA IndexReferencesEach ==
    ASSUME NEW r, NEW path, IsDocument(r, path), Usable(r.documents[path])
    PROVE  LET names == PresentNames(r.documents[path].json[2])
           IN  IsEach(IndexReferences(r, path), names,
                      [name \in names |-> ComponentReference(r, path, name)])
<1> DEFINE names == PresentNames(r.documents[path].json[2])
<1>1. IsFiniteSet(names)
  BY NamesFinite
<1>2. \A name \in names : IsList(ComponentReference(r, path, name))
  BY ReferenceTells DEF Tells
<1>3. IndexReferences(r, path) =
          FlattenSeq([i \in 1..Len(SetToSeq(names)) |-> ComponentReference(r, path, SetToSeq(names)[i])])
  BY DEF IndexReferences, Each
<1>4. \A i \in 1..Len(SetToSeq(names)) : SetToSeq(names)[i] \in names
  BY <1>1, ListedIs
<1> HIDE DEF names
<1>. QED
  BY <1>1, <1>2, <1>3, <1>4 DEF IsEach, names

LEMMA IndexReferencesTell ==
    ASSUME NEW r, NEW path, IsDocument(r, path), Usable(r.documents[path])
    PROVE  Tells(IndexReferences(r, path), path,
                 {"unsafe_reference_path", "missing_component_directory"},
                 {Top(name) : name \in PresentNames(r.documents[path].json[2])})
<1> DEFINE names == PresentNames(r.documents[path].json[2])
           codes == {"unsafe_reference_path", "missing_component_directory"}
           F == [name \in names |-> ComponentReference(r, path, name)]
<1>1. IsEach(IndexReferences(r, path), names, F)
  BY IndexReferencesEach
<1>2. \A name \in names : Tells(F[name], path, codes, {Top(n) : n \in names})
  <2>1. ASSUME NEW name \in names PROVE Tells(F[name], path, codes, {Top(n) : n \in names})
    <3>1. Tells(F[name], path, codes, {Top(name)})
      BY ReferenceTells
    <3>2. {Top(name)} \subseteq {Top(n) : n \in names}
      OBVIOUS
    <3> HIDE DEF names, F, codes
    <3>. QED
      BY <3>1, <3>2, TellsMore
  <2>. QED
    BY <2>1
<1> HIDE DEF names, F
<1>. QED
  BY <1>1, <1>2, TellsEach DEF names

\* Lists that are put one after the other and what they tell.
LEMMA EachTells ==
    ASSUME NEW path, NEW codes, NEW set, NEW F, NEW list, IsEach(list, set, F),
           NEW P, \A x \in set : Tells(F[x], path, codes, P[x])
    PROVE  Tells(list, path, codes, UNION {P[x] : x \in set})
<1> DEFINE all == UNION {P[x] : x \in set}
<1>1. ASSUME NEW x \in set PROVE Tells(F[x], path, codes, all)
  <2>1. Tells(F[x], path, codes, P[x]) /\ P[x] \subseteq all
    OBVIOUS
  <2> HIDE DEF all
  <2>. QED
    BY <2>1, TellsMore
<1> HIDE DEF all
<1>2. Tells(list, path, codes, all)
  BY <1>1, TellsEach
<1>. QED
  BY <1>2 DEF all

ShardCodes ==
    {"invalid_document_shape", "unsafe_checkpoint_shard_path", "missing_checkpoint_shard",
     "empty_checkpoint_weight_map"}

LEMMA ShardTells ==
    ASSUME NEW r, NEW path, NEW shard
    PROVE  Tells(ShardFindings(r, path, shard), path, ShardCodes, {WeightMap})
<1> DEFINE related == Join(Parent(path), PathSpelled(shard))
           unsafe  == Error("unsafe_checkpoint_shard_path", path, WeightMap)
           missing == Report("error", "missing_checkpoint_shard", Some(path), WeightMap, related)
           list == ShardFindings(r, path, shard)
<1>0. ShardCodes \cap Warnings = {}
  BY DEF Warnings, ShardCodes
<1>1. Telling(unsafe, path, ShardCodes, {WeightMap})
  <2>1. Telling(unsafe, path, {"unsafe_checkpoint_shard_path"}, {WeightMap})
    BY <1>0, ErrorIs DEF ShardCodes
  <2>. QED
    BY <2>1 DEF Telling, ShardCodes
<1>2. CASE ~Valid(PathSpelled(shard)) \/ related = None
  <2>1. list = <<unsafe>>
    BY <1>2 DEF ShardFindings
  <2>. QED
    BY <1>1, <2>1, TellsOne
<1>3. CASE ~(~Valid(PathSpelled(shard)) \/ related = None)
  <2>1. list = When(related[1] \notin r.files, <<missing>>)
    BY <1>3 DEF ShardFindings
  <2>2. Valid(related[1])
    BY <1>3, JoinIs
  <2>3. "error" = IF "missing_checkpoint_shard" \in Warnings THEN "warning" ELSE "error"
    BY <1>0 DEF ShardCodes
  <2> HIDE DEF related
  <2>4. Telling(missing, path, {"missing_checkpoint_shard"}, {WeightMap})
    BY <2>2, <2>3, RelatedIs
  <2>5. Telling(missing, path, ShardCodes, {WeightMap})
    BY <2>4 DEF Telling, ShardCodes
  <2>. QED
    BY <2>1, <2>5, TellsOne, TellsWhen
<1>. QED
  BY <1>2, <1>3

\* The tensors of a weight map that name no shard, and the shards named.
NamelessOf(map) == {tensor \in DOMAIN map : ~(IsText(map[tensor]) /\ map[tensor][2] # <<>>)}
ShardsOf(map)   == {map[tensor][2] : tensor \in DOMAIN map \ NamelessOf(map)}

LEMMA ShardsAre ==
    ASSUME NEW r, NEW path, NEW map, map = r.documents[path].json[2][<<"weight_map">>][2],
           IsFiniteSet(DOMAIN map)
    PROVE  \E nameless, shards :
              /\ ShardReferences(r, path) = nameless \o shards
              /\ IsEach(nameless, NamelessOf(map),
                        [tensor \in NamelessOf(map) |-> <<InvalidField(path, Child(WeightMap, tensor))>>])
              /\ Tells(nameless, path, ShardCodes, {Child(WeightMap, tensor) : tensor \in NamelessOf(map)})
              /\ IsEach(shards, ShardsOf(map),
                        [shard \in ShardsOf(map) |-> ShardFindings(r, path, shard)])
              /\ Tells(shards, path, ShardCodes, {WeightMap})
<1> DEFINE N == NamelessOf(map)
           S == ShardsOf(map)
           F == [tensor \in N |-> <<InvalidField(path, Child(WeightMap, tensor))>>]
           G == [shard \in S |-> ShardFindings(r, path, shard)]
           nameless == FlattenSeq([i \in 1..Len(SetToSeq(N)) |->
                                      <<InvalidField(path, Child(WeightMap, SetToSeq(N)[i]))>>])
           shards == FlattenSeq([i \in 1..Len(SetToSeq(S)) |-> ShardFindings(r, path, SetToSeq(S)[i])])
<1>1. IsFiniteSet(N) /\ IsFiniteSet(S)
  <2>1. IsFiniteSet(N) /\ IsFiniteSet(DOMAIN map \ N)
    BY FS_Subset DEF NamelessOf
  <2> DEFINE f == [tensor \in DOMAIN map \ N |-> map[tensor][2]]
  <2>2. S = {f[x] : x \in DOMAIN f} /\ DOMAIN f = DOMAIN map \ N
    BY DEF ShardsOf
  <2> HIDE DEF f, S, N
  <2>. QED
    BY <2>1, <2>2, ImageIsFinite
<1>2. ShardReferences(r, path) = nameless \o shards
  BY DEF ShardReferences, Each, NamelessOf, ShardsOf
<1>3. /\ \A i \in 1..Len(SetToSeq(N)) : SetToSeq(N)[i] \in N
      /\ \A i \in 1..Len(SetToSeq(S)) : SetToSeq(S)[i] \in S
  BY <1>1, ListedIs
<1> HIDE DEF N, S
<1>4. ASSUME NEW tensor \in N PROVE Tells(F[tensor], path, ShardCodes, {Child(WeightMap, tensor)})
  <2>1. Telling(InvalidField(path, Child(WeightMap, tensor)), path, ShardCodes, {Child(WeightMap, tensor)})
    BY InvalidIs DEF Telling, ShardCodes
  <2>. QED
    BY <2>1, TellsOne
<1>5. ASSUME NEW shard \in S PROVE Tells(G[shard], path, ShardCodes, {WeightMap})
  BY ShardTells
<1>6. IsEach(nameless, N, F)
  BY <1>1, <1>3, <1>4 DEF IsEach, Tells
<1>7. IsEach(shards, S, G)
  BY <1>1, <1>3, <1>5 DEF IsEach, Tells
<1> HIDE DEF F, G, nameless, shards
<1>8. Tells(shards, path, ShardCodes, {WeightMap})
  BY <1>5, <1>7, TellsEach
<1>9. Tells(nameless, path, ShardCodes, {Child(WeightMap, tensor) : tensor \in N})
  <2> DEFINE P == [tensor \in N |-> {Child(WeightMap, tensor)}]
  <2>1. \A tensor \in N : Tells(F[tensor], path, ShardCodes, P[tensor])
    BY <1>4
  <2>2. UNION {P[tensor] : tensor \in N} = {Child(WeightMap, tensor) : tensor \in N}
    OBVIOUS
  <2> HIDE DEF P
  <2>3. Tells(nameless, path, ShardCodes, UNION {P[tensor] : tensor \in N})
    BY <1>6, <2>1, EachTells
  <2>. QED
    BY <2>2, <2>3
<1>. QED
  BY <1>2, <1>6, <1>7, <1>8, <1>9 DEF F, G, N, S

AdapterCodes == {"unsafe_adapter_base_path", "missing_adapter_base_path"}

LEMMA AdapterTells ==
    ASSUME NEW r, NEW path
    PROVE  Tells(AdapterReference(r, path), path, AdapterCodes, {Top(BaseName)})
<1> DEFINE object  == r.documents[path].json[2]
           local   == LocalPath(object[BaseName][2])
           related == Join(Parent(path), PathSpelled(local[1]))
           unsafe  == Error("unsafe_adapter_base_path", path, Top(BaseName))
           missing == Report("error", "missing_adapter_base_path", Some(path), Top(BaseName), related)
           list    == AdapterReference(r, path)
           nothing == \/ ~Usable(r.documents[path]) \/ BaseName \notin DOMAIN object
                      \/ ~IsText(object[BaseName]) \/ local = None
           refused == local[1] \in Tildes \/ ~Valid(PathSpelled(local[1])) \/ related = None
<1>0. AdapterCodes \cap Warnings = {}
  BY DEF Warnings, AdapterCodes
<1>1. Telling(unsafe, path, AdapterCodes, {Top(BaseName)})
  <2>1. Telling(unsafe, path, {"unsafe_adapter_base_path"}, {Top(BaseName)})
    BY <1>0, ErrorIs DEF AdapterCodes
  <2>. QED
    BY <2>1 DEF Telling, AdapterCodes
<1>2. CASE nothing
  BY <1>2, TellsNone DEF AdapterReference
<1>3. CASE ~nothing /\ refused
  <2>1. list = <<unsafe>>
    BY <1>3 DEF AdapterReference
  <2> HIDE DEF unsafe
  <2>. QED
    BY <1>1, <2>1, TellsOne
<1>4. CASE ~nothing /\ ~refused
  <2>1. list = When(related[1] \notin r.files \cup r.directories, <<missing>>)
    BY <1>4 DEF AdapterReference
  <2>2. Valid(related[1])
    BY <1>4, JoinIs
  <2>3. "error" = IF "missing_adapter_base_path" \in Warnings THEN "warning" ELSE "error"
    BY <1>0 DEF AdapterCodes
  <2> HIDE DEF related
  <2>4. Telling(missing, path, {"missing_adapter_base_path"}, {Top(BaseName)})
    BY <2>2, <2>3, RelatedIs
  <2>5. Telling(missing, path, AdapterCodes, {Top(BaseName)})
    BY <2>4 DEF Telling, AdapterCodes
  <2>. QED
    BY <2>1, <2>5, TellsOne, TellsWhen
<1>. QED
  BY <1>2, <1>3, <1>4

-----------------------------------------------------------------------------
(* What the pass over shapes and fields tells. *)

LEMMA SelfTells ==
    ASSUME NEW path, NEW codes, NEW pointers, NEW code, NEW pointer, code \in codes,
           pointer \in pointers, code \notin Warnings
    PROVE  Tells(<<Error(code, path, pointer)>>, path, codes, pointers)
<1>1. Telling(Error(code, path, pointer), path, {code}, {pointer})
  BY ErrorIs
<1>2. Telling(Error(code, path, pointer), path, codes, pointers)
  BY <1>1 DEF Telling
<1>. QED
  BY <1>2, TellsOne

DuplicatePointer(pointer) == IF Len(pointer) <= MaxPointer THEN Some(pointer) ELSE None

DuplicateCodes == {"duplicate_json_key"}

\* A document that is no template: the parts of what its shape tells.
LEMMA ShapeParts ==
    ASSUME NEW r, NEW path, IsDocument(r, path), Kind(path) # "ChatTemplate"
    PROVE  LET document == r.documents[path]
           IN  \E repeated :
                 /\ ShapeFindings(r, path) =
                       When(document.json = <<"malformed">>, <<Error("invalid_json", path, None)>>)
                       \o repeated
                       \o When(document.truncated, <<Error("duplicate_json_key", path, None)>>)
                       \o When(document.json[1] \notin {"malformed", "object"}, <<InvalidField(path, None)>>)
                 /\ IsEach(repeated, document.duplicates,
                           [pointer \in document.duplicates |->
                               <<Error("duplicate_json_key", path, DuplicatePointer(pointer))>>])
                 /\ Tells(repeated, path, DuplicateCodes,
                          {DuplicatePointer(pointer) : pointer \in document.duplicates})
<1> DEFINE document == r.documents[path]
           D == document.duplicates
           F == [pointer \in D |-> <<Error("duplicate_json_key", path, DuplicatePointer(pointer))>>]
           s == SetToSeq(D)
           repeated == FlattenSeq([i \in 1..Len(s) |->
                           <<Error("duplicate_json_key", path, DuplicatePointer(s[i]))>>])
<1>1. IsFiniteSet(D)
  BY DocumentIs DEF Readable
<1>2. ShapeFindings(r, path) =
         When(document.json = <<"malformed">>, <<Error("invalid_json", path, None)>>)
         \o repeated
         \o When(document.truncated, <<Error("duplicate_json_key", path, None)>>)
         \o When(document.json[1] \notin {"malformed", "object"}, <<InvalidField(path, None)>>)
  BY DEF ShapeFindings, Each, DuplicatePointer
<1>3. \A i \in 1..Len(s) : s[i] \in D
  BY <1>1, ListedIs
<1>4. ASSUME NEW pointer \in D PROVE Tells(F[pointer], path, DuplicateCodes, {DuplicatePointer(pointer)})
  <2>1. "duplicate_json_key" \notin Warnings /\ "duplicate_json_key" \in DuplicateCodes
    BY DEF Warnings, DuplicateCodes
  <2>. QED
    BY <2>1, SelfTells
<1> HIDE DEF D, s
<1>5. IsEach(repeated, D, F)
  BY <1>1, <1>3, <1>4 DEF IsEach, Tells, s
<1> HIDE DEF F, repeated
<1>6. Tells(repeated, path, DuplicateCodes, {DuplicatePointer(pointer) : pointer \in D})
  <2> DEFINE P == [pointer \in D |-> {DuplicatePointer(pointer)}]
  <2>1. \A pointer \in D : Tells(F[pointer], path, DuplicateCodes, P[pointer])
    BY <1>4
  <2>2. UNION {P[pointer] : pointer \in D} = {DuplicatePointer(pointer) : pointer \in D}
    OBVIOUS
  <2> HIDE DEF P
  <2>3. Tells(repeated, path, DuplicateCodes, UNION {P[pointer] : pointer \in D})
    BY <1>5, <2>1, EachTells
  <2>. QED
    BY <2>2, <2>3
<1>. QED
  BY <1>2, <1>5, <1>6 DEF F, D

ShapeCodes == {"invalid_text_encoding", "invalid_json", "duplicate_json_key", "invalid_document_shape"}

LEMMA ShapeTells ==
    ASSUME NEW r, NEW path, IsDocument(r, path)
    PROVE  \E pointers : Tells(ShapeFindings(r, path), path, ShapeCodes, pointers)
<1> DEFINE document == r.documents[path]
           encoding == When(document.json = <<"bytes">>, <<Error("invalid_text_encoding", path, None)>>)
           first == When(document.json = <<"malformed">>, <<Error("invalid_json", path, None)>>)
           cut == When(document.truncated, <<Error("duplicate_json_key", path, None)>>)
           shape == When(document.json[1] \notin {"malformed", "object"}, <<InvalidField(path, None)>>)
<1>0. /\ ShapeCodes \cap Warnings = {} /\ None \in {None} /\ document.truncated \in BOOLEAN
      /\ "invalid_text_encoding" \in ShapeCodes /\ "invalid_json" \in ShapeCodes
      /\ "duplicate_json_key" \in ShapeCodes /\ "invalid_document_shape" \in ShapeCodes
  BY DocumentIs DEF Warnings, ShapeCodes, Readable
<1>1. /\ Tells(encoding, path, ShapeCodes, {None}) /\ Tells(first, path, ShapeCodes, {None})
      /\ Tells(cut, path, ShapeCodes, {None}) /\ Tells(shape, path, ShapeCodes, {None})
  <2>1. /\ Tells(<<Error("invalid_text_encoding", path, None)>>, path, ShapeCodes, {None})
        /\ Tells(<<Error("invalid_json", path, None)>>, path, ShapeCodes, {None})
        /\ Tells(<<Error("duplicate_json_key", path, None)>>, path, ShapeCodes, {None})
        /\ Tells(<<Error("invalid_document_shape", path, None)>>, path, ShapeCodes, {None})
    BY <1>0, SelfTells
  <2>. QED
    BY <1>0, <2>1, TellsWhen DEF InvalidField
<1>2. CASE Kind(path) = "ChatTemplate"
  <2>1. ShapeFindings(r, path) = encoding
    BY <1>2 DEF ShapeFindings
  <2>. QED
    BY <1>1, <2>1
<1>3. CASE Kind(path) # "ChatTemplate"
  <2>1. PICK repeated :
           /\ ShapeFindings(r, path) = first \o repeated \o cut \o shape
           /\ Tells(repeated, path, DuplicateCodes,
                    {DuplicatePointer(pointer) : pointer \in document.duplicates})
    BY <1>3, ShapeParts
  <2> DEFINE P == {DuplicatePointer(pointer) : pointer \in document.duplicates}
  <2>2. Tells(repeated, path, DuplicateCodes, P)
    BY <2>1
  <2> HIDE DEF P, first, cut, shape
  <2>3. DuplicateCodes \subseteq ShapeCodes /\ P \subseteq P
    BY DEF DuplicateCodes, ShapeCodes
  <2>4. Tells(repeated, path, ShapeCodes, P)
    BY <2>2, <2>3, TellsMore
  <2>5. ShapeCodes \cup ShapeCodes = ShapeCodes
    OBVIOUS
  <2>6. Tells(first \o repeated, path, ShapeCodes \cup ShapeCodes, {None} \cup P)
    BY <1>1, <2>4, TellsBoth
  <2>7. Tells(first \o repeated \o cut, path, ShapeCodes \cup ShapeCodes, ({None} \cup P) \cup {None})
    BY <1>1, <2>5, <2>6, TellsBoth
  <2>8. Tells(first \o repeated \o cut \o shape, path, ShapeCodes \cup ShapeCodes,
              (({None} \cup P) \cup {None}) \cup {None})
    BY <1>1, <2>5, <2>7, TellsBoth
  <2>. QED
    BY <2>1, <2>5, <2>8
<1>. QED
  BY <1>2, <1>3

-----------------------------------------------------------------------------
(* The tables of fields. *)

Shapes ==
    {"Array", "String", "Bool", "BoolOrString", "U64", "I64", "I64OrI64Array", "F64", "Object",
     "StringOrI64Array", "StringOrStringArray"}

LEMMA TypedIs ==
    ASSUME NEW type, NEW words, NEW field \in Typed(type, words)
    PROVE  field.type = type /\ field = [name |-> field.name, type |-> field.type]
  BY DEF Typed

LEMMA FieldsTyped ==
    ASSUME NEW kind, NEW field \in FieldsOf(kind)
    PROVE  field.type \in Shapes /\ field = [name |-> field.name, type |-> field.type]
<1> DEFINE Good(table) == \A f \in table : f.type \in Shapes /\ f = [name |-> f.name, type |-> f.type]
<1>1. Good(ConfigFields)
  BY TypedIs DEF ConfigFields, Shapes
<1>2. Good(GenerationFields)
  BY TypedIs DEF GenerationFields, Shapes
<1>3. Good(TokenizerFields) /\ Good(PreprocessorFields) /\ Good(ProcessorFields)
  BY TypedIs DEF TokenizerFields, PreprocessorFields, ProcessorFields, Shapes
<1>4. Good(SchedulerFields) /\ Good(AdapterFields)
  BY TypedIs DEF SchedulerFields, AdapterFields, Shapes
<1>5. Good(QuantizationFields) /\ Good(ModelIndexFields)
  BY TypedIs DEF QuantizationFields, ModelIndexFields, Shapes
<1>6. \/ field \in ConfigFields \/ field \in GenerationFields \/ field \in TokenizerFields
      \/ field \in PreprocessorFields \/ field \in ProcessorFields \/ field \in SchedulerFields
      \/ field \in AdapterFields \/ field \in QuantizationFields \/ field \in ModelIndexFields
  BY DEF FieldsOf
<1>. QED
  BY <1>1, <1>2, <1>3, <1>4, <1>5, <1>6

LEMMA ShapesFinite == IsFiniteSet(Shapes)
<1> DEFINE f == [i \in 1..11 |-> <<"Array", "String", "Bool", "BoolOrString", "U64", "I64", "I64OrI64Array",
                                  "F64", "Object", "StringOrI64Array", "StringOrStringArray">>[i]]
<1>1. IsFiniteSet(DOMAIN f) /\ DOMAIN f = 1..11
  <2>1. DOMAIN f = 1..11
    OBVIOUS
  <2> HIDE DEF f
  <2>2. 1 \in Int /\ 11 \in Int
    OBVIOUS
  <2>3. IsFiniteSet(1..11)
    BY <2>2, FS_Interval
  <2>. QED
    BY <2>1, <2>3
<1>2. Shapes \subseteq {f[x] : x \in DOMAIN f}
  <2>1. ASSUME NEW t \in Shapes PROVE \E i \in 1..11 : f[i] = t
    <3>1. /\ f[1] = "Array" /\ f[2] = "String" /\ f[3] = "Bool" /\ f[4] = "BoolOrString" /\ f[5] = "U64"
          /\ f[6] = "I64" /\ f[7] = "I64OrI64Array" /\ f[8] = "F64" /\ f[9] = "Object"
          /\ f[10] = "StringOrI64Array" /\ f[11] = "StringOrStringArray"
      OBVIOUS
    <3>2. /\ 1 \in 1..11 /\ 2 \in 1..11 /\ 3 \in 1..11 /\ 4 \in 1..11 /\ 5 \in 1..11 /\ 6 \in 1..11
          /\ 7 \in 1..11 /\ 8 \in 1..11 /\ 9 \in 1..11 /\ 10 \in 1..11 /\ 11 \in 1..11
      OBVIOUS
    <3> HIDE DEF f
    <3>. QED
      BY <3>1, <3>2 DEF Shapes
  <2>. QED
    BY <1>1, <2>1
<1> HIDE DEF f
<1>3. IsFiniteSet({f[x] : x \in DOMAIN f})
  BY <1>1, ImageIsFinite
<1>. QED
  BY <1>2, <1>3, FS_Subset

\* The fields of a table that are misshapen in an object.
MisshapenOf(path, object) ==
    {field \in FieldsOf(Kind(path)) : Misshapen(object, field.name, field.type)}

LEMMA MisshapenFinite ==
    ASSUME NEW path, NEW object, IsFiniteSet(DOMAIN object)
    PROVE  IsFiniteSet(MisshapenOf(path, object))
<1> DEFINE pairs == (DOMAIN object) \X Shapes
           f == [pair \in pairs |-> [name |-> pair[1], type |-> pair[2]]]
           all == {f[x] : x \in DOMAIN f}
<1>1. IsFiniteSet(pairs) /\ DOMAIN f = pairs
  <2>1. IsFiniteSet(pairs)
    BY ShapesFinite, FS_Product
  <2>. QED
    BY <2>1
<1>2. ASSUME NEW field \in MisshapenOf(path, object) PROVE field \in all
  <2>1. /\ field.type \in Shapes /\ field = [name |-> field.name, type |-> field.type]
        /\ field.name \in DOMAIN object
    BY FieldsTyped DEF MisshapenOf, Misshapen
  <2>2. <<field.name, field.type>> \in pairs /\ f[<<field.name, field.type>>] = field
    BY <2>1
  <2>. QED
    BY <2>2
<1> HIDE DEF f
<1>3. IsFiniteSet(all)
  BY <1>1, ImageIsFinite
<1>. QED
  BY <1>2, <1>3, FS_Subset

Shape == {"invalid_document_shape"}

LEMMA InvalidTells ==
    ASSUME NEW path, NEW pointers, NEW pointer \in pointers
    PROVE  Tells(<<InvalidField(path, pointer)>>, path, Shape, pointers)
<1>1. "invalid_document_shape" \notin Warnings /\ "invalid_document_shape" \in Shape
  BY DEF Warnings, Shape
<1>. QED
  BY <1>1, SelfTells DEF InvalidField

LEMMA TableEach ==
    ASSUME NEW path, NEW object, IsFiniteSet(DOMAIN object)
    PROVE  /\ IsEach(TableFindings(path, object), MisshapenOf(path, object),
                     [field \in MisshapenOf(path, object) |-> <<InvalidField(path, Some(<<field.name>>))>>])
           /\ Tells(TableFindings(path, object), path, Shape,
                    {Some(<<field.name>>) : field \in MisshapenOf(path, object)})
<1> DEFINE D == MisshapenOf(path, object)
           F == [field \in D |-> <<InvalidField(path, Some(<<field.name>>))>>]
           s == SetToSeq(D)
           all == {Some(<<field.name>>) : field \in D}
<1>1. IsFiniteSet(D)
  BY MisshapenFinite
<1>2. TableFindings(path, object) =
          FlattenSeq([i \in 1..Len(s) |-> <<InvalidField(path, Some(<<s[i].name>>))>>])
  BY DEF TableFindings, Each, MisshapenOf
<1>3. \A i \in 1..Len(s) : s[i] \in D
  BY <1>1, ListedIs
<1>4. ASSUME NEW field \in D PROVE Tells(F[field], path, Shape, all)
  <2>1. Some(<<field.name>>) \in all
    OBVIOUS
  <2> HIDE DEF all, D
  <2>. QED
    BY <2>1, InvalidTells
<1> HIDE DEF D, s, all
<1>5. IsEach(TableFindings(path, object), D, F)
  BY <1>1, <1>2, <1>3, <1>4 DEF IsEach, Tells, s
<1> HIDE DEF F
<1>6. Tells(TableFindings(path, object), path, Shape, all)
  BY <1>4, <1>5, TellsEach
<1>. QED
  BY <1>5, <1>6 DEF F, D, all

\* One invalid field for every member of a set.
InvalidFor(path, set, P) ==
    FlattenSeq([i \in 1..Len(SetToSeq(set)) |-> <<InvalidField(path, P[SetToSeq(set)[i]])>>])

TellsInvalid(list, path, set, P) ==
    /\ Tells(list, path, Shape, {P[x] : x \in set})
    /\ \A S : Hits(list, S) = Cardinality({x \in set : InvalidField(path, P[x]) \in S})

LEMMA EachInvalid ==
    ASSUME NEW path, NEW set, IsFiniteSet(set), NEW P
    PROVE  TellsInvalid(InvalidFor(path, set, P), path, set, P)
<1> DEFINE F == [x \in set |-> <<InvalidField(path, P[x])>>]
           s == SetToSeq(set)
           list == InvalidFor(path, set, P)
           all == {P[x] : x \in set}
<1>1. \A i \in 1..Len(s) : s[i] \in set
  BY ListedIs
<1>2. ASSUME NEW x \in set PROVE Tells(F[x], path, Shape, all)
  <2>1. P[x] \in all
    OBVIOUS
  <2> HIDE DEF all
  <2>. QED
    BY <2>1, InvalidTells
<1> HIDE DEF s, all
<1>3. IsEach(list, set, F)
  BY <1>1, <1>2 DEF IsEach, Tells, s, InvalidFor
<1> HIDE DEF list
<1>4. Tells(list, path, Shape, all)
  <2> HIDE DEF F
  <2>. QED
    BY <1>2, <1>3, TellsEach
<1>5. ASSUME NEW S PROVE Hits(list, S) = Cardinality({x \in set : InvalidField(path, P[x]) \in S})
  <2> DEFINE some == {x \in set : InvalidField(path, P[x]) \in S}
  <2>1. \A x \in set : Hits(F[x], S) = IF x \in some THEN 1 ELSE 0
    BY OneIs
  <2>2. some \subseteq set
    OBVIOUS
  <2> HIDE DEF some, F
  <2>3. Hits(list, S) = Cardinality(some)
    BY <1>3, <2>1, <2>2, EachOf
  <2>. QED
    BY <2>3 DEF some
<1>. QED
  BY <1>4, <1>5 DEF all, list, TellsInvalid

\* The fields of a token that are checked, and those that are wrong.
Content == <<"content">>
WrongContent(token) == {name \in {Content} \cap DOMAIN token : ~IsText(token[name])}
WrongFlags(token) ==
    {name \in AddedTokenFlags \cap DOMAIN token : token[name] # Null /\ token[name][1] # "bool"}
TokenFieldNames == {Content} \cup AddedTokenFlags

\* The two parts of what is wrong with a token whose content is there.
AddedTokenTold(path, token, pointer, content, flags) ==
    /\ AddedToken(path, token, pointer) =
          When(Content \notin DOMAIN token, <<InvalidField(path, Child(pointer, Content))>>)
          \o content \o flags
    /\ Tells(content, path, Shape, {Child(pointer, n) : n \in TokenFieldNames})
    /\ Tells(flags, path, Shape, {Child(pointer, n) : n \in TokenFieldNames})
    /\ \A S : Hits(content, S) =
          Cardinality({n \in WrongContent(token) : InvalidField(path, Child(pointer, n)) \in S})
    /\ \A S : Hits(flags, S) =
          Cardinality({n \in WrongFlags(token) : InvalidField(path, Child(pointer, n)) \in S})

LEMMA AddedTokenParts ==
    ASSUME NEW path, NEW token, NEW pointer, IsFiniteSet(DOMAIN token)
    PROVE  \E content, flags : AddedTokenTold(path, token, pointer, content, flags)
<1> DEFINE C == WrongContent(token)
           D == WrongFlags(token)
           P == [n \in TokenFieldNames |-> Child(pointer, n)]
           content == InvalidFor(path, C, P)
           flags   == InvalidFor(path, D, P)
           all     == {Child(pointer, n) : n \in TokenFieldNames}
<1>1. IsFiniteSet(C) /\ IsFiniteSet(D) /\ C \subseteq TokenFieldNames /\ D \subseteq TokenFieldNames
  <2>1. C \subseteq DOMAIN token /\ D \subseteq DOMAIN token
    BY DEF WrongContent, WrongFlags
  <2>2. C \subseteq TokenFieldNames /\ D \subseteq TokenFieldNames
    BY DEF WrongContent, WrongFlags, TokenFieldNames
  <2> HIDE DEF C, D
  <2>. QED
    BY <2>1, <2>2, FS_Subset
<1>2. /\ \A i \in 1..Len(SetToSeq(C)) : SetToSeq(C)[i] \in TokenFieldNames
      /\ \A i \in 1..Len(SetToSeq(D)) : SetToSeq(D)[i] \in TokenFieldNames
  <2> HIDE DEF C, D
  <2>. QED
    BY <1>1, ListedIs
<1>3. \A n \in TokenFieldNames : P[n] = Child(pointer, n)
  OBVIOUS
<1>4. AddedToken(path, token, pointer) =
         When(Content \notin DOMAIN token, <<InvalidField(path, Child(pointer, Content))>>)
         \o FlattenSeq([i \in 1..Len(SetToSeq(C)) |-> <<InvalidField(path, Child(pointer, SetToSeq(C)[i]))>>])
         \o FlattenSeq([i \in 1..Len(SetToSeq(D)) |-> <<InvalidField(path, Child(pointer, SetToSeq(D)[i]))>>])
  BY DEF AddedToken, Each, WrongContent, WrongFlags, Content
<1> HIDE DEF C, D, P
<1>5. /\ content = FlattenSeq([i \in 1..Len(SetToSeq(C)) |-> <<InvalidField(path, Child(pointer, SetToSeq(C)[i]))>>])
      /\ flags = FlattenSeq([i \in 1..Len(SetToSeq(D)) |-> <<InvalidField(path, Child(pointer, SetToSeq(D)[i]))>>])
  BY <1>2, <1>3 DEF InvalidFor
<1> HIDE DEF content, flags
<1>6. /\ Tells(content, path, Shape, {P[n] : n \in C})
      /\ \A S : Hits(content, S) = Cardinality({n \in C : InvalidField(path, P[n]) \in S})
  <2>1. IsFiniteSet(C)
    BY <1>1
  <2>2. TellsInvalid(InvalidFor(path, C, P), path, C, P)
    BY <2>1, EachInvalid
  <2>. QED
    BY <2>2 DEF content, TellsInvalid
<1>7. /\ Tells(flags, path, Shape, {P[n] : n \in D})
      /\ \A S : Hits(flags, S) = Cardinality({n \in D : InvalidField(path, P[n]) \in S})
  <2>1. IsFiniteSet(D)
    BY <1>1
  <2>2. TellsInvalid(InvalidFor(path, D, P), path, D, P)
    BY <2>1, EachInvalid
  <2>. QED
    BY <2>2 DEF flags, TellsInvalid
<1>8. {P[n] : n \in C} \subseteq all /\ {P[n] : n \in D} \subseteq all
  BY <1>1, <1>3
<1>9. \A S : /\ {n \in C : InvalidField(path, P[n]) \in S} = {n \in C : InvalidField(path, Child(pointer, n)) \in S}
             /\ {n \in D : InvalidField(path, P[n]) \in S} = {n \in D : InvalidField(path, Child(pointer, n)) \in S}
  BY <1>1, <1>3
<1> HIDE DEF all
<1>10. Tells(content, path, Shape, all) /\ Tells(flags, path, Shape, all)
  BY <1>6, <1>7, <1>8, TellsMore
<1>11. \A S : Hits(content, S) = Cardinality({n \in C : InvalidField(path, Child(pointer, n)) \in S})
  BY <1>6, <1>9
<1>12. \A S : Hits(flags, S) = Cardinality({n \in D : InvalidField(path, Child(pointer, n)) \in S})
  BY <1>7, <1>9
<1>13. AddedToken(path, token, pointer) =
         When(Content \notin DOMAIN token, <<InvalidField(path, Child(pointer, Content))>>)
         \o content \o flags
  BY <1>4, <1>5
<1>14. AddedTokenTold(path, token, pointer, content, flags)
  BY <1>10, <1>11, <1>12, <1>13 DEF C, D, all, AddedTokenTold
<1>. QED
  BY <1>14

TokenPointers(pointer) == {pointer} \cup {Child(pointer, n) : n \in TokenFieldNames}

LEMMA AddedTokenTells ==
    ASSUME NEW path, NEW token, NEW pointer, IsFiniteSet(DOMAIN token)
    PROVE  Tells(AddedToken(path, token, pointer), path, Shape,
                 {Child(pointer, n) : n \in TokenFieldNames})
<1> DEFINE all == {Child(pointer, n) : n \in TokenFieldNames}
           missing == When(Content \notin DOMAIN token, <<InvalidField(path, Child(pointer, Content))>>)
<1>0. PICK content, flags : AddedTokenTold(path, token, pointer, content, flags)
  BY AddedTokenParts
<1>1. /\ AddedToken(path, token, pointer) = missing \o content \o flags
      /\ Tells(content, path, Shape, all) /\ Tells(flags, path, Shape, all)
  BY <1>0 DEF AddedTokenTold
<1>2. Tells(missing, path, Shape, all)
  <2>1. Child(pointer, Content) \in all
    BY DEF TokenFieldNames
  <2> HIDE DEF all
  <2>2. Tells(<<InvalidField(path, Child(pointer, Content))>>, path, Shape, all)
    BY <2>1, InvalidTells
  <2>. QED
    BY <2>2, TellsWhen
<1> HIDE DEF missing, all
<1>3. Tells(missing \o content, path, Shape \cup Shape, all \cup all)
  BY <1>1, <1>2, TellsBoth
<1>4. Shape \cup Shape = Shape /\ all \cup all = all
  OBVIOUS
<1>5. Tells(missing \o content \o flags, path, Shape \cup Shape, all \cup all)
  BY <1>1, <1>3, <1>4, TellsBoth
<1>. QED
  BY <1>1, <1>4, <1>5 DEF all

LEMMA TokenTells ==
    ASSUME NEW path, NEW value, NEW pointer, IsValue(value)
    PROVE  Tells(TokenFindings(path, value, pointer), path, Shape, TokenPointers(pointer))
<1>1. CASE value[1] = "text"
  <2>1. TokenFindings(path, value, pointer) = <<>>
    BY <1>1 DEF TokenFindings
  <2>. QED
    BY <2>1, TellsNone
<1>2. CASE value[1] = "object"
  <2>1. TokenFindings(path, value, pointer) = AddedToken(path, value[2], pointer)
    BY <1>2 DEF TokenFindings
  <2>2. Tells(AddedToken(path, value[2], pointer), path, Shape, {Child(pointer, n) : n \in TokenFieldNames})
    BY <1>2, AddedTokenTells DEF IsValue
  <2> DEFINE some == {Child(pointer, n) : n \in TokenFieldNames}
  <2>3. some \subseteq TokenPointers(pointer)
    BY DEF TokenPointers
  <2> HIDE DEF some
  <2>. QED
    BY <2>1, <2>2, <2>3, TellsMore DEF some
<1>3. CASE value[1] # "text" /\ value[1] # "object"
  <2>1. TokenFindings(path, value, pointer) = <<InvalidField(path, pointer)>>
    BY <1>3 DEF TokenFindings
  <2>2. pointer \in TokenPointers(pointer)
    BY DEF TokenPointers
  <2>. QED
    BY <2>1, <2>2, InvalidTells
<1>. QED
  BY <1>1, <1>2, <1>3

LEMMA EachWithin ==
    ASSUME NEW path, NEW codes, NEW set, NEW F, NEW list, IsEach(list, set, F),
           NEW P, NEW pointers,
           \A x \in set : Tells(F[x], path, codes, P[x]) /\ P[x] \subseteq pointers
    PROVE  Tells(list, path, codes, pointers)
<1>1. \A x \in set : Tells(F[x], path, codes, pointers)
  BY TellsMore
<1>. QED
  BY <1>1, TellsEach

\* The object of a document: its members are values, and so are theirs.
IsObject(object) ==
    /\ IsFiniteSet(DOMAIN object)
    /\ \A name \in DOMAIN object :
          /\ IsValue(object[name])
          /\ object[name][1] \in {"object", "list"} =>
                \A key \in DOMAIN object[name][2] : IsValue(object[name][2][key])

LEMMA ObjectIs ==
    ASSUME NEW r, NEW path, IsDocument(r, path), Usable(r.documents[path])
    PROVE  IsObject(r.documents[path].json[2])
<1> DEFINE json == r.documents[path].json
<1>1. /\ Nested(json, MaxNesting) /\ IsFiniteSet(DOMAIN json[2])
      /\ \A name \in DOMAIN json[2] : json[2][name] \in Within(json)
  BY DocumentIs
<1>2. ASSUME NEW name \in DOMAIN json[2]
      PROVE  /\ IsValue(json[2][name])
             /\ json[2][name][1] \in {"object", "list"} =>
                   \A key \in DOMAIN json[2][name][2] : IsValue(json[2][name][2][key])
  <2> DEFINE v == json[2][name]
  <2>1. v \in Within(json)
    BY <1>1
  <2>2. /\ IsValue(v)
        /\ v[1] \in {"object", "list"} => \A key \in DOMAIN v[2] : v[2][key] \in Within(json)
    BY <1>1, <2>1, ValueIs
  <2>3. v[1] \in {"object", "list"} => \A key \in DOMAIN v[2] : IsValue(v[2][key])
    BY <1>1, <2>2, ValueIs
  <2>. QED
    BY <2>2, <2>3
<1>. QED
  BY <1>1, <1>2 DEF IsObject

\* The tokens of a list or a map.
EntryOf(path, object, name, key) ==
    TokenFindings(path, object[name][2][key], Child(Some(<<name>>), key))

EntriesEach(path, object, name, type) ==
    IsEach(TokensFindings(path, object, name, type), DOMAIN object[name][2],
           [key \in DOMAIN object[name][2] |-> EntryOf(path, object, name, key)])

EntryPointers(object, name) ==
    UNION {TokenPointers(Some(<<name, key>>)) : key \in DOMAIN object[name][2]}

LEMMA TokensEach ==
    ASSUME NEW path, NEW object, IsObject(object), NEW name \in DOMAIN object, NEW type \in {"object", "list"},
           object[name] # Null, object[name][1] = type
    PROVE  /\ EntriesEach(path, object, name, type)
           /\ Tells(TokensFindings(path, object, name, type), path, Shape, EntryPointers(object, name))
<1> DEFINE D == DOMAIN object[name][2]
           F == [key \in D |-> EntryOf(path, object, name, key)]
           P == [key \in D |-> TokenPointers(Some(<<name, key>>))]
           s == SetToSeq(D)
           list == TokensFindings(path, object, name, type)
<1>1. IsFiniteSet(D)
  BY DEF IsObject, IsValue
<1>2. list = FlattenSeq([i \in 1..Len(s) |-> EntryOf(path, object, name, s[i])])
  BY DEF TokensFindings, Each, EntryOf
<1>3. \A i \in 1..Len(s) : s[i] \in D
  BY <1>1, ListedIs
<1>4. ASSUME NEW key \in D PROVE Tells(F[key], path, Shape, P[key])
  <2>1. IsValue(object[name][2][key])
    BY DEF IsObject
  <2>2. Child(Some(<<name>>), key) = Some(<<name, key>>)
    BY PointersAre
  <2>. QED
    BY <2>1, <2>2, TokenTells DEF EntryOf
<1> HIDE DEF D, s, list, P
<1>5. IsEach(list, D, F)
  BY <1>1, <1>2, <1>3, <1>4 DEF IsEach, Tells, s
<1> HIDE DEF F
<1>4a. \A key \in D : Tells(F[key], path, Shape, P[key])
  BY <1>4
<1>6. Tells(list, path, Shape, UNION {P[key] : key \in D})
  BY <1>4a, <1>5, EachTells
<1>7. UNION {P[key] : key \in D} = EntryPointers(object, name)
  BY DEF P, D, EntryPointers
<1>. QED
  BY <1>5, <1>6, <1>7 DEF F, D, list, EntriesEach

TokensPointers(object, name) == {Some(<<name>>)} \cup EntryPointers(object, name)

LEMMA TokensTell ==
    ASSUME NEW path, NEW object, IsObject(object), NEW name, NEW type \in {"object", "list"}
    PROVE  Tells(TokensFindings(path, object, name, type), path, Shape, TokensPointers(object, name))
<1> DEFINE list == TokensFindings(path, object, name, type)
           all == TokensPointers(object, name)
<1>1. CASE name \notin DOMAIN object \/ object[name] = Null
  <2>1. list = <<>>
    BY <1>1 DEF TokensFindings
  <2>. QED
    BY <2>1, TellsNone
<1>2. CASE name \in DOMAIN object /\ object[name] # Null /\ object[name][1] # type
  <2>1. list = <<InvalidField(path, Some(<<name>>))>>
    BY <1>2 DEF TokensFindings
  <2>2. Some(<<name>>) \in all
    BY DEF TokensPointers
  <2> HIDE DEF all, list
  <2>3. Tells(list, path, Shape, all)
    BY <2>1, <2>2, InvalidTells
  <2>. QED
    BY <2>3 DEF all, list
<1>3. CASE name \in DOMAIN object /\ object[name] # Null /\ object[name][1] = type
  <2> DEFINE some == EntryPointers(object, name)
  <2>1. Tells(list, path, Shape, some)
    BY <1>3, TokensEach
  <2>2. some \subseteq all
    BY DEF TokensPointers
  <2> HIDE DEF some, all, list
  <2>3. Tells(list, path, Shape, all)
    BY <2>1, <2>2, TellsMore
  <2>. QED
    BY <2>3 DEF all, list
<1>. QED
  BY <1>1, <1>2, <1>3

\* The special tokens.
Additional == <<"additional_special_tokens">>
ById       == <<"added_tokens_decoder">>

SpecialOf(path, object, name) ==
    When(object[name] # Null, TokenFindings(path, object[name], Some(<<name>>)))

SinglePointers(object) ==
    UNION {TokenPointers(Some(<<name>>)) : name \in SpecialTokenFields \cap DOMAIN object}

LEMMA SpecialParts ==
    ASSUME NEW path, NEW object, IsObject(object)
    PROVE  \E single :
              /\ SpecialTokenFindings(path, object) =
                    single \o TokensFindings(path, object, Additional, "list")
                    \o When(Kind(path) = "TokenizerConfig", TokensFindings(path, object, ById, "object"))
              /\ IsEach(single, SpecialTokenFields \cap DOMAIN object,
                        [name \in SpecialTokenFields \cap DOMAIN object |-> SpecialOf(path, object, name)])
              /\ Tells(single, path, Shape, SinglePointers(object))
<1> DEFINE D == SpecialTokenFields \cap DOMAIN object
           F == [name \in D |-> SpecialOf(path, object, name)]
           P == [name \in D |-> TokenPointers(Some(<<name>>))]
           s == SetToSeq(D)
           single == FlattenSeq([i \in 1..Len(s) |-> SpecialOf(path, object, s[i])])
<1>1. IsFiniteSet(D)
  <2>1. D \subseteq DOMAIN object /\ IsFiniteSet(DOMAIN object)
    BY DEF IsObject
  <2>. QED
    BY <2>1, FS_Subset
<1>2. SpecialTokenFindings(path, object) =
         single \o TokensFindings(path, object, Additional, "list")
         \o When(Kind(path) = "TokenizerConfig", TokensFindings(path, object, ById, "object"))
  BY DEF SpecialTokenFindings, Each, SpecialOf, Additional, ById
<1>3. \A i \in 1..Len(s) : s[i] \in D
  BY <1>1, ListedIs
<1>4. ASSUME NEW name \in D PROVE Tells(F[name], path, Shape, P[name])
  <2>1. IsValue(object[name])
    BY DEF IsObject
  <2>2. Tells(TokenFindings(path, object[name], Some(<<name>>)), path, Shape, TokenPointers(Some(<<name>>)))
    BY <2>1, TokenTells
  <2>3. (object[name] # Null) \in BOOLEAN
    OBVIOUS
  <2>4. Tells(SpecialOf(path, object, name), path, Shape, TokenPointers(Some(<<name>>)))
    BY <2>2, <2>3, TellsWhen DEF SpecialOf
  <2>. QED
    BY <2>4
<1> HIDE DEF D, s, P
<1>5. IsEach(single, D, F)
  BY <1>1, <1>3, <1>4 DEF IsEach, Tells, s
<1> HIDE DEF F, single
<1>6. \A name \in D : P[name] \subseteq SinglePointers(object)
  BY DEF P, D, SinglePointers
<1>7. Tells(single, path, Shape, SinglePointers(object))
  BY <1>4, <1>5, <1>6, EachWithin
<1>. QED
  BY <1>2, <1>5, <1>6, <1>7 DEF F, D

SpecialPointers(object) ==
    SinglePointers(object) \cup TokensPointers(object, Additional) \cup TokensPointers(object, ById)

LEMMA SpecialTell ==
    ASSUME NEW path, NEW object, IsObject(object)
    PROVE  Tells(SpecialTokenFindings(path, object), path, Shape, SpecialPointers(object))
<1> DEFINE A == SinglePointers(object)
           B == TokensPointers(object, Additional)
           C == TokensPointers(object, ById)
           two == TokensFindings(path, object, Additional, "list")
           three == When(Kind(path) = "TokenizerConfig", TokensFindings(path, object, ById, "object"))
<1>1. PICK single : /\ SpecialTokenFindings(path, object) = single \o two \o three
                    /\ Tells(single, path, Shape, A)
  BY SpecialParts
<1>2. Tells(two, path, Shape, B)
  BY TokensTell
<1>3. Tells(three, path, Shape, C)
  <2>1. Tells(TokensFindings(path, object, ById, "object"), path, Shape, C)
    BY TokensTell
  <2> HIDE DEF C
  <2>. QED
    BY <2>1, TellsWhen
<1>7. SpecialPointers(object) = A \cup B \cup C
  BY DEF SpecialPointers
<1> HIDE DEF A, B, C, two, three
<1>4. Tells(single \o two, path, Shape \cup Shape, A \cup B)
  BY <1>1, <1>2, TellsBoth
<1>5. Shape \cup Shape = Shape
  OBVIOUS
<1>6. Tells(single \o two \o three, path, Shape \cup Shape, (A \cup B) \cup C)
  BY <1>3, <1>4, <1>5, TellsBoth
<1>. QED
  BY <1>1, <1>5, <1>6, <1>7

-----------------------------------------------------------------------------
(* Lists whose findings have a pointer. *)

Locates(list, path, codes) ==
    \E pointers : None \notin pointers /\ Tells(list, path, codes, pointers)

LEMMA LocatesThese ==
    ASSUME NEW path, NEW codes, NEW pointers, NEW list,
           Tells(list, path, codes, pointers), None \notin pointers
    PROVE  Locates(list, path, codes)
  BY DEF Locates

LEMMA LocatesNone ==
    ASSUME NEW path, NEW codes
    PROVE  Locates(<<>>, path, codes)
<1>1. Tells(<<>>, path, codes, {})
  BY TellsNone
<1>. QED
  BY <1>1, LocatesThese

LEMMA LocatesWhen ==
    ASSUME NEW path, NEW codes, NEW list, NEW condition \in BOOLEAN,
           condition => Locates(list, path, codes)
    PROVE  Locates(When(condition, list), path, codes)
  BY LocatesNone DEF When

LEMMA LocatesBoth ==
    ASSUME NEW path, NEW codes, NEW a, NEW b, Locates(a, path, codes), Locates(b, path, codes)
    PROVE  Locates(a \o b, path, codes)
<1>1. PICK p : None \notin p /\ Tells(a, path, codes, p)
  BY DEF Locates
<1>2. PICK q : None \notin q /\ Tells(b, path, codes, q)
  BY DEF Locates
<1>3. Tells(a \o b, path, codes \cup codes, p \cup q)
  BY <1>1, <1>2, TellsBoth
<1>4. codes \cup codes = codes /\ None \notin p \cup q
  BY <1>1, <1>2
<1>. QED
  BY <1>3, <1>4, LocatesThese

LEMMA LocatesMore ==
    ASSUME NEW path, NEW codes, NEW list, Locates(list, path, codes),
           NEW codes2, codes \subseteq codes2
    PROVE  Locates(list, path, codes2)
<1>1. PICK p : None \notin p /\ Tells(list, path, codes, p)
  BY DEF Locates
<1>2. Tells(list, path, codes2, p)
  BY <1>1, TellsMore
<1>. QED
  BY <1>1, <1>2, LocatesThese

LEMMA LocatesEach ==
    ASSUME NEW path, NEW codes, NEW set, NEW F, NEW list, IsEach(list, set, F),
           NEW pointers, None \notin pointers,
           \A x \in set : Tells(F[x], path, codes, pointers)
    PROVE  Locates(list, path, codes)
<1>1. Tells(list, path, codes, pointers)
  BY TellsEach
<1>. QED
  BY <1>1, LocatesThese

\* What a list that locates does not tell.
LEMMA Located ==
    ASSUME NEW path, NEW codes, NEW list, Locates(list, path, codes)
    PROVE  /\ IsList(list)
           /\ \A f \in Findings(list) :
                 /\ f.document = Some(path) /\ f.code \in codes /\ f.pointer # None
                 /\ f.level = IF f.code \in Warnings THEN "warning" ELSE "error"
                 /\ f.related # None => Valid(f.related[1])
  BY DEF Locates, Tells, Telling

LEMMA SomeIsNotNone == \A x : Some(x) # None /\ Some(x)[1] = x
  BY DEF Some, None

-----------------------------------------------------------------------------
(* The fields of a usable document. *)

FieldCodes == {"invalid_document_shape", "unsafe_reference_path"}

LEMMA InvalidLocates ==
    ASSUME NEW path, NEW pointer, pointer # None
    PROVE  Locates(<<InvalidField(path, pointer)>>, path, FieldCodes)
<1>1. Tells(<<InvalidField(path, pointer)>>, path, Shape, {pointer})
  BY InvalidTells
<1>2. Locates(<<InvalidField(path, pointer)>>, path, Shape)
  BY <1>1, LocatesThese
<1>3. Shape \subseteq FieldCodes
  BY DEF Shape, FieldCodes
<1>. QED
  BY <1>2, <1>3, LocatesMore

\* The architectures.
ArchitectureIs(path, value, i) ==
    When(value[2][i] # Null /\ ~IsText(value[2][i]),
         <<InvalidField(path, Some(<<<<"architectures">>, i>>))>>)

ArchitecturesEach(path, object) ==
    LET value == object[<<"architectures">>]
        F     == [i \in 1..Len(value[2]) |-> ArchitectureIs(path, value, i)]
    IN  /\ IsEach(ArchitecturesFindings(path, object), 1..Len(value[2]), F)
        /\ \A i \in 1..Len(value[2]) : Tells(F[i], path, Shape, {Some(<<<<"architectures">>, i>>)})

LEMMA ArchitecturesAre ==
    ASSUME NEW path, NEW object, IsObject(object), <<"architectures">> \in DOMAIN object,
           object[<<"architectures">>] # Null, object[<<"architectures">>][1] = "list"
    PROVE  ArchitecturesEach(path, object)
<1> DEFINE name == <<"architectures">>
           value == object[name]
           list == ArchitecturesFindings(path, object)
           D == 1..Len(value[2])
           F == [i \in D |-> ArchitectureIs(path, value, i)]
           s == SetToSeq(D)
<1>1. IsFiniteSet(D)
  <2>1. IsValue(value)
    BY DEF IsObject
  <2>2. Len(value[2]) \in Nat
    BY <2>1 DEF IsValue
  <2> HIDE DEF value
  <2>. QED
    BY <2>2, FS_Interval
<1>2. list = FlattenSeq([i \in 1..Len(s) |-> ArchitectureIs(path, value, s[i])])
  BY DEF ArchitecturesFindings, Each, ArchitectureIs
<1>3. \A i \in 1..Len(s) : s[i] \in D
  BY <1>1, ListedIs
<1>4. ASSUME NEW i \in D PROVE Tells(F[i], path, Shape, {Some(<<name, i>>)})
  <2>1. (value[2][i] # Null /\ ~IsText(value[2][i])) \in BOOLEAN
    OBVIOUS
  <2>2. F[i] = When(value[2][i] # Null /\ ~IsText(value[2][i]), <<InvalidField(path, Some(<<name, i>>))>>)
    BY DEF ArchitectureIs
  <2> HIDE DEF D, F, value
  <2>3. Tells(<<InvalidField(path, Some(<<name, i>>))>>, path, Shape, {Some(<<name, i>>)})
    BY InvalidTells
  <2>. QED
    BY <2>1, <2>2, <2>3, TellsWhen
<1> HIDE DEF D, s, value
<1>5. IsEach(list, D, F)
  BY <1>1, <1>2, <1>3, <1>4 DEF IsEach, Tells, s
<1>. QED
  BY <1>4, <1>5 DEF ArchitecturesEach, D, value

LEMMA ArchitecturesTell ==
    ASSUME NEW path, NEW object, IsObject(object)
    PROVE  Locates(ArchitecturesFindings(path, object), path, FieldCodes)
<1> DEFINE name == <<"architectures">>
           value == object[name]
           list == ArchitecturesFindings(path, object)
<1>1. CASE name \notin DOMAIN object \/ value = Null
  <2>1. list = <<>>
    BY <1>1 DEF ArchitecturesFindings
  <2>. QED
    BY <2>1, LocatesNone
<1>2. CASE name \in DOMAIN object /\ value # Null /\ value[1] # "list"
  <2>1. list = <<InvalidField(path, Some(<<name>>))>>
    BY <1>2 DEF ArchitecturesFindings
  <2>. QED
    BY <2>1, InvalidLocates, SomeIsNotNone
<1>3. CASE name \in DOMAIN object /\ value # Null /\ value[1] = "list"
  <2> DEFINE D == 1..Len(value[2])
             F == [i \in D |-> ArchitectureIs(path, value, i)]
             Q == [i \in D |-> {Some(<<name, i>>)}]
             P == {Some(<<name, i>>) : i \in D}
  <2>1. IsEach(list, D, F) /\ \A i \in D : Tells(F[i], path, Shape, {Some(<<name, i>>)})
    BY <1>3, ArchitecturesAre DEF ArchitecturesEach
  <2>2. \A i \in D : Tells(F[i], path, Shape, Q[i]) /\ Q[i] \subseteq P
    BY <2>1
  <2>3. None \notin P
    BY SomeIsNotNone
  <2> HIDE DEF D, F, P, Q
  <2>4. Tells(list, path, Shape, P)
    BY <2>1, <2>2, EachWithin
  <2>5. Locates(list, path, Shape)
    BY <2>3, <2>4, LocatesThese
  <2>6. Shape \subseteq FieldCodes
    BY DEF Shape, FieldCodes
  <2>. QED
    BY <2>5, <2>6, LocatesMore
<1>. QED
  BY <1>1, <1>2, <1>3

\* The components of an index.
LEMMA ComponentFieldTells ==
    ASSUME NEW path, NEW object, NEW name
    PROVE  Tells(ComponentField(path, object, name), path, FieldCodes, {Top(name)})
<1>0. FieldCodes \cap Warnings = {}
  BY DEF Warnings, FieldCodes
<1>1. CASE ~ComponentTuple(object[name])
  <2>1. ComponentField(path, object, name) = <<InvalidField(path, Top(name))>>
    BY <1>1 DEF ComponentField
  <2>2. Shape \subseteq FieldCodes /\ Top(name) \in {Top(name)}
    BY DEF Shape, FieldCodes
  <2>. QED
    BY <2>1, <2>2, InvalidTells, TellsMore
<1>2. CASE ComponentTuple(object[name])
  <2>1. ComponentField(path, object, name) =
           When(PresentTuple(object[name]) /\ ~SafeName(name),
                <<Error("unsafe_reference_path", path, Top(name))>>)
    BY <1>2 DEF ComponentField
  <2>2. Tells(<<Error("unsafe_reference_path", path, Top(name))>>, path, FieldCodes, {Top(name)})
    BY <1>0, SelfTells DEF FieldCodes
  <2>3. (PresentTuple(object[name]) /\ ~SafeName(name)) \in BOOLEAN
    OBVIOUS
  <2>. QED
    BY <2>1, <2>2, <2>3, TellsWhen
<1>. QED
  BY <1>1, <1>2

ComponentsEach(path, object) ==
    IsEach(IndexComponents(path, object), Declared(object),
           [name \in Declared(object) |-> ComponentField(path, object, name)])

LEMMA IndexComponentsEach ==
    ASSUME NEW path, NEW object, IsObject(object)
    PROVE  ComponentsEach(path, object)
<1> DEFINE D == Declared(object)
           F == [name \in D |-> ComponentField(path, object, name)]
           s == SetToSeq(D)
           list == IndexComponents(path, object)
<1>1. IsFiniteSet(D)
  <2>1. D \subseteq DOMAIN object /\ IsFiniteSet(DOMAIN object)
    BY DEF IsObject, Declared
  <2>. QED
    BY <2>1, FS_Subset
<1>2. list = FlattenSeq([i \in 1..Len(s) |-> ComponentField(path, object, s[i])])
  BY DEF IndexComponents, Each
<1>3. \A i \in 1..Len(s) : s[i] \in D
  BY <1>1, ListedIs
<1> HIDE DEF D, s
<1>4. \A name \in D : IsList(F[name])
  BY ComponentFieldTells DEF Tells
<1>5. IsEach(list, D, F)
  BY <1>1, <1>2, <1>3, <1>4 DEF IsEach, s
<1>. QED
  BY <1>5 DEF ComponentsEach, D

LEMMA IndexComponentsTell ==
    ASSUME NEW path, NEW object, IsObject(object)
    PROVE  Locates(IndexComponents(path, object), path, FieldCodes)
<1> DEFINE D == Declared(object)
           F == [name \in D |-> ComponentField(path, object, name)]
           P == [name \in D |-> {Top(name)}]
           all == {Top(name) : name \in D}
<1>1. IsEach(IndexComponents(path, object), D, F)
  BY IndexComponentsEach DEF ComponentsEach
<1>2. \A name \in D : Tells(F[name], path, FieldCodes, P[name]) /\ P[name] \subseteq all
  BY ComponentFieldTells
<1>3. None \notin all
  BY PointersAre, SomeIsNotNone
<1> HIDE DEF D, F, P, all
<1>4. Tells(IndexComponents(path, object), path, FieldCodes, all)
  BY <1>1, <1>2, EachWithin
<1>. QED
  BY <1>3, <1>4, LocatesThese

LEMMA InlineTells ==
    ASSUME NEW path, NEW object
    PROVE  Locates(InlineTemplateFindings(path, object), path, FieldCodes)
<1> DEFINE name == <<"chat_template">>
           condition == /\ name \in DOMAIN object /\ object[name] # Null
                        /\ object[name][1] \notin {"text", "object", "list"}
<1>1. InlineTemplateFindings(path, object) = When(condition, <<InvalidField(path, Some(<<name>>))>>)
  BY DEF InlineTemplateFindings
<1>2. Locates(<<InvalidField(path, Some(<<name>>))>>, path, FieldCodes)
  BY InvalidLocates, SomeIsNotNone
<1>3. condition \in BOOLEAN
  OBVIOUS
<1> HIDE DEF condition
<1>. QED
  BY <1>1, <1>2, <1>3, LocatesWhen

LEMMA MetadataTells ==
    ASSUME NEW path, NEW object
    PROVE  Locates(MetadataFindings(path, object), path, FieldCodes)
<1> DEFINE name == <<"metadata">>
           size == <<"total_size">>
           condition == Misshapen(object[name][2], size, "U64")
           list == MetadataFindings(path, object)
<1>1. CASE name \notin DOMAIN object \/ object[name] = Null
  <2>1. list = <<>>
    BY <1>1 DEF MetadataFindings
  <2>. QED
    BY <2>1, LocatesNone
<1>2. CASE name \in DOMAIN object /\ object[name] # Null /\ object[name][1] # "object"
  <2>1. list = <<InvalidField(path, Some(<<name>>))>>
    BY <1>2 DEF MetadataFindings
  <2>. QED
    BY <2>1, InvalidLocates, SomeIsNotNone
<1>3. CASE name \in DOMAIN object /\ object[name] # Null /\ object[name][1] = "object"
  <2>1. list = When(condition, <<InvalidField(path, Some(<<name, size>>))>>)
    BY <1>3 DEF MetadataFindings
  <2>2. Locates(<<InvalidField(path, Some(<<name, size>>))>>, path, FieldCodes)
    BY InvalidLocates, SomeIsNotNone
  <2>3. condition \in BOOLEAN
    BY DEF Misshapen
  <2> HIDE DEF condition, list
  <2>4. Locates(list, path, FieldCodes)
    BY <2>1, <2>2, <2>3, LocatesWhen
  <2>. QED
    BY <2>4 DEF list
<1>. QED
  BY <1>1, <1>2, <1>3
-----------------------------------------------------------------------------
(* What the pass over references tells. *)

\* The members of a weight map.
LEMMA MapIs ==
    ASSUME NEW object, IsObject(object), NEW name \in DOMAIN object, object[name][1] = "object"
    PROVE  IsFiniteSet(DOMAIN object[name][2])
  BY DEF IsObject, IsValue

\* A weight map that is there.
HasMap(r, path) ==
    /\ Usable(r.documents[path])
    /\ <<"weight_map">> \in DOMAIN r.documents[path].json[2]
    /\ r.documents[path].json[2][<<"weight_map">>][1] = "object"
    /\ DOMAIN r.documents[path].json[2][<<"weight_map">>][2] # {}

MapOf(r, path) == r.documents[path].json[2][<<"weight_map">>][2]

LEMMA MapPointers ==
    /\ WeightMap = Some(<<<<"weight_map">>>>) /\ WeightMap # None
    /\ \A tensor : /\ Child(WeightMap, tensor) = Some(<<<<"weight_map">>, tensor>>)
                   /\ Child(WeightMap, tensor) # None
  BY PointersAre, SomeIsNotNone DEF WeightMap

LEMMA SafetensorsCases ==
    ASSUME NEW r, NEW path, ~HasMap(r, path)
    PROVE  \/ SafetensorsReferences(r, path) = <<>> /\ ~Usable(r.documents[path])
           \/ /\ SafetensorsReferences(r, path) = <<InvalidField(path, WeightMap)>>
              /\ \/ <<"weight_map">> \notin DOMAIN r.documents[path].json[2]
                 \/ r.documents[path].json[2][<<"weight_map">>][1] # "object"
           \/ /\ SafetensorsReferences(r, path) = <<Error("empty_checkpoint_weight_map", path, WeightMap)>>
              /\ <<"weight_map">> \in DOMAIN r.documents[path].json[2]
              /\ r.documents[path].json[2][<<"weight_map">>][1] = "object"
              /\ DOMAIN MapOf(r, path) = {}
  BY DEF HasMap, MapOf, SafetensorsReferences

LEMMA SafetensorsLocate ==
    ASSUME NEW r, NEW path, IsDocument(r, path)
    PROVE  Locates(SafetensorsReferences(r, path), path, ShardCodes)
<1> DEFINE list == SafetensorsReferences(r, path)
<1>1. Locates(<<InvalidField(path, WeightMap)>>, path, ShardCodes)
  <2>1. Locates(<<InvalidField(path, WeightMap)>>, path, Shape)
    BY MapPointers, InvalidTells, LocatesThese
  <2>2. Shape \subseteq ShardCodes
    BY DEF Shape, ShardCodes
  <2>. QED
    BY <2>1, <2>2, LocatesMore
<1>2. Locates(<<Error("empty_checkpoint_weight_map", path, WeightMap)>>, path, ShardCodes)
  <2>1. "empty_checkpoint_weight_map" \notin Warnings /\ "empty_checkpoint_weight_map" \in ShardCodes
    BY DEF Warnings, ShardCodes
  <2>2. Tells(<<Error("empty_checkpoint_weight_map", path, WeightMap)>>, path, ShardCodes, {WeightMap})
    BY <2>1, SelfTells
  <2>. QED
    BY <2>2, MapPointers, LocatesThese
<1>3. CASE ~HasMap(r, path)
  BY <1>1, <1>2, <1>3, SafetensorsCases, LocatesNone
<1>4. CASE HasMap(r, path)
  <2> DEFINE map == MapOf(r, path)
             P == {Child(WeightMap, t) : t \in NamelessOf(map)}
  <2>1. list = ShardReferences(r, path)
    BY <1>4 DEF SafetensorsReferences, HasMap
  <2>2. IsFiniteSet(DOMAIN map)
    BY <1>4, ObjectIs, MapIs DEF HasMap, MapOf
  <2>3. map = r.documents[path].json[2][<<"weight_map">>][2]
    BY DEF MapOf
  <2> HIDE DEF map, list
  <2>4. PICK nameless, shards :
           /\ ShardReferences(r, path) = nameless \o shards
           /\ Tells(nameless, path, ShardCodes, P)
           /\ Tells(shards, path, ShardCodes, {WeightMap})
    BY <2>2, <2>3, ShardsAre
  <2>5. None \notin P /\ None \notin {WeightMap}
    BY MapPointers
  <2> HIDE DEF P
  <2>6. Locates(nameless, path, ShardCodes) /\ Locates(shards, path, ShardCodes)
    BY <2>4, <2>5, LocatesThese
  <2>7. Locates(list, path, ShardCodes)
    BY <2>1, <2>4, <2>6, LocatesBoth
  <2>. QED
    BY <2>7 DEF list
<1>. QED
  BY <1>3, <1>4

ReferenceCodes ==
    {"unsafe_reference_path", "missing_component_directory"} \cup ShardCodes \cup AdapterCodes

LEMMA ReferencesLocate ==
    ASSUME NEW r, NEW path, IsDocument(r, path)
    PROVE  /\ Locates(References(r, path), path, ReferenceCodes)
           /\ ~Usable(r.documents[path]) => References(r, path) = <<>>
<1>1. CASE Kind(path) = "SafetensorsIndex"
  <2>1. References(r, path) = SafetensorsReferences(r, path)
    BY <1>1 DEF References
  <2>2. ShardCodes \subseteq ReferenceCodes
    BY DEF ReferenceCodes
  <2>. QED
    BY <2>1, <2>2, SafetensorsLocate, LocatesMore DEF SafetensorsReferences
<1>2. CASE Kind(path) = "AdapterConfig"
  <2>1. References(r, path) = AdapterReference(r, path)
    BY <1>2 DEF References
  <2>2. AdapterCodes \subseteq ReferenceCodes
    BY DEF ReferenceCodes
  <2>3. None \notin {Top(BaseName)}
    BY PointersAre, SomeIsNotNone
  <2>4. Locates(AdapterReference(r, path), path, AdapterCodes)
    BY <2>3, AdapterTells, LocatesThese
  <2>. QED
    BY <2>1, <2>2, <2>4, LocatesMore DEF AdapterReference
<1>3. CASE Kind(path) = "ModelIndex"
  <2>1. References(r, path) = IndexReferences(r, path)
    BY <1>3 DEF References
  <2>2. CASE ~Usable(r.documents[path])
    BY <2>1, <2>2, LocatesNone DEF IndexReferences
  <2>3. CASE Usable(r.documents[path])
    <3> DEFINE codes == {"unsafe_reference_path", "missing_component_directory"}
               P == {Top(name) : name \in PresentNames(r.documents[path].json[2])}
    <3>1. Tells(IndexReferences(r, path), path, codes, P)
      BY <2>3, IndexReferencesTell
    <3>2. codes \subseteq ReferenceCodes
      BY DEF ReferenceCodes
    <3>3. None \notin P
      BY PointersAre, SomeIsNotNone
    <3> HIDE DEF P, codes
    <3>4. Locates(IndexReferences(r, path), path, codes)
      BY <3>1, <3>3, LocatesThese
    <3>. QED
      BY <2>1, <2>3, <3>2, <3>4, LocatesMore
  <2>. QED
    BY <2>2, <2>3
<1>4. CASE Kind(path) \notin {"SafetensorsIndex", "AdapterConfig", "ModelIndex"}
  <2>1. References(r, path) = <<>>
    BY <1>4 DEF References
  <2>. QED
    BY <2>1, LocatesNone
<1>. QED
  BY <1>1, <1>2, <1>3, <1>4

-----------------------------------------------------------------------------
(* The parts of the fields. *)

SpecialPart(path, object) ==
    When(Kind(path) \in {"TokenizerConfig", "SpecialTokensMap"}, SpecialTokenFindings(path, object))
ArchitecturePart(path, object) ==
    When(Kind(path) = "Config", ArchitecturesFindings(path, object))
ComponentPart(path, object) ==
    When(Kind(path) = "ModelIndex", IndexComponents(path, object))
InlinePart(path, object) ==
    When(Kind(path) \in {"TokenizerConfig", "ProcessorConfig"}, InlineTemplateFindings(path, object))
MetadataPart(path, object) ==
    When(Kind(path) = "SafetensorsIndex", MetadataFindings(path, object))

LEMMA PartsLocate ==
    ASSUME NEW path, NEW object, IsObject(object)
    PROVE  /\ Locates(TableFindings(path, object), path, FieldCodes)
           /\ Locates(SpecialPart(path, object), path, FieldCodes)
           /\ Locates(ArchitecturePart(path, object), path, FieldCodes)
           /\ Locates(ComponentPart(path, object), path, FieldCodes)
           /\ Locates(InlinePart(path, object), path, FieldCodes)
           /\ Locates(MetadataPart(path, object), path, FieldCodes)
<1>0. Shape \subseteq FieldCodes
  BY DEF Shape, FieldCodes
<1>1. Locates(TableFindings(path, object), path, FieldCodes)
  <2> DEFINE P == {Some(<<field.name>>) : field \in MisshapenOf(path, object)}
  <2>1. IsFiniteSet(DOMAIN object)
    BY DEF IsObject
  <2>2. Tells(TableFindings(path, object), path, Shape, P)
    BY <2>1, TableEach
  <2>3. None \notin P
    BY SomeIsNotNone
  <2> HIDE DEF P
  <2>4. Locates(TableFindings(path, object), path, Shape)
    BY <2>2, <2>3, LocatesThese
  <2>. QED
    BY <1>0, <2>4, LocatesMore
<1>2. Locates(SpecialPart(path, object), path, FieldCodes)
  <2>1. None \notin SpecialPointers(object)
    <3>1. \A a : Some(<<a>>) # None /\ \A n : Child(Some(<<a>>), n) # None
      BY PointersAre, SomeIsNotNone
    <3>2. ASSUME NEW a, NEW b PROVE Some(<<a, b>>) # None /\ \A n : Child(Some(<<a, b>>), n) # None
      <4>1. \A n : Child(Some(<<a, b>>), n) = Some(<<a, b, n>>)
        BY PointersAre
      <4>. QED
        BY <4>1, SomeIsNotNone
    <3>3. \A a : None \notin TokenPointers(Some(<<a>>))
      BY <3>1 DEF TokenPointers
    <3>4. \A a, b : None \notin TokenPointers(Some(<<a, b>>))
      BY <3>2 DEF TokenPointers
    <3>5. None \notin SinglePointers(object)
      BY <3>3 DEF SinglePointers
    <3>6. \A name : None \notin TokensPointers(object, name)
      BY <3>1, <3>4 DEF TokensPointers, EntryPointers
    <3>. QED
      BY <3>5, <3>6 DEF SpecialPointers
  <2>2. Locates(SpecialTokenFindings(path, object), path, Shape)
    BY <2>1, SpecialTell, LocatesThese
  <2>3. Locates(SpecialTokenFindings(path, object), path, FieldCodes)
    BY <1>0, <2>2, LocatesMore
  <2>4. (Kind(path) \in {"TokenizerConfig", "SpecialTokensMap"}) \in BOOLEAN
    OBVIOUS
  <2>. QED
    BY <2>3, <2>4, LocatesWhen DEF SpecialPart
<1>3. Locates(ArchitecturePart(path, object), path, FieldCodes)
  BY ArchitecturesTell, LocatesWhen DEF ArchitecturePart
<1>4. Locates(ComponentPart(path, object), path, FieldCodes)
  BY IndexComponentsTell, LocatesWhen DEF ComponentPart
<1>5. Locates(InlinePart(path, object), path, FieldCodes)
  <2>1. (Kind(path) \in {"TokenizerConfig", "ProcessorConfig"}) \in BOOLEAN
    OBVIOUS
  <2>. QED
    BY <2>1, InlineTells, LocatesWhen DEF InlinePart
<1>6. Locates(MetadataPart(path, object), path, FieldCodes)
  BY MetadataTells, LocatesWhen DEF MetadataPart
<1>. QED
  BY <1>1, <1>2, <1>3, <1>4, <1>5, <1>6

LEMMA FieldsAre ==
    ASSUME NEW r, NEW path, IsDocument(r, path), Usable(r.documents[path]),
           NEW object, object = r.documents[path].json[2]
    PROVE  /\ Locates(FieldFindings(r, path), path, FieldCodes)
           /\ \A S : Hits(FieldFindings(r, path), S) =
                 Hits(TableFindings(path, object), S) + Hits(SpecialPart(path, object), S)
                 + Hits(ArchitecturePart(path, object), S) + Hits(ComponentPart(path, object), S)
                 + Hits(InlinePart(path, object), S) + Hits(MetadataPart(path, object), S)
<1> DEFINE a == TableFindings(path, object)
           b == SpecialPart(path, object)
           c == ArchitecturePart(path, object)
           d == ComponentPart(path, object)
           e == InlinePart(path, object)
           f == MetadataPart(path, object)
<1>1. IsObject(object)
  BY ObjectIs
<1>2. FieldFindings(r, path) = a \o b \o c \o d \o e \o f
  BY DEF FieldFindings, SpecialPart, ArchitecturePart, ComponentPart, InlinePart, MetadataPart
<1>3. /\ Locates(a, path, FieldCodes) /\ Locates(b, path, FieldCodes) /\ Locates(c, path, FieldCodes)
      /\ Locates(d, path, FieldCodes) /\ Locates(e, path, FieldCodes) /\ Locates(f, path, FieldCodes)
  BY <1>1, PartsLocate
<1> HIDE DEF a, b, c, d, e, f
<1>4. Locates(a \o b, path, FieldCodes)
  BY <1>3, LocatesBoth
<1>5. Locates(a \o b \o c, path, FieldCodes)
  BY <1>3, <1>4, LocatesBoth
<1>6. Locates(a \o b \o c \o d, path, FieldCodes)
  BY <1>3, <1>5, LocatesBoth
<1>7. Locates(a \o b \o c \o d \o e, path, FieldCodes)
  BY <1>3, <1>6, LocatesBoth
<1>8. Locates(a \o b \o c \o d \o e \o f, path, FieldCodes)
  BY <1>3, <1>7, LocatesBoth
<1>9. /\ IsList(a) /\ IsList(b) /\ IsList(c) /\ IsList(d) /\ IsList(e) /\ IsList(f)
      /\ IsList(a \o b) /\ IsList(a \o b \o c) /\ IsList(a \o b \o c \o d)
      /\ IsList(a \o b \o c \o d \o e)
  BY <1>3, <1>4, <1>5, <1>6, <1>7, Located
<1>10. ASSUME NEW S
       PROVE  Hits(a \o b \o c \o d \o e \o f, S) =
                 Hits(a, S) + Hits(b, S) + Hits(c, S) + Hits(d, S) + Hits(e, S) + Hits(f, S)
  <2>1. Hits(a \o b, S) = Hits(a, S) + Hits(b, S)
    BY <1>9, BothAre
  <2>2. Hits(a \o b \o c, S) = Hits(a \o b, S) + Hits(c, S)
    BY <1>9, BothAre
  <2>3. Hits(a \o b \o c \o d, S) = Hits(a \o b \o c, S) + Hits(d, S)
    BY <1>9, BothAre
  <2>4. Hits(a \o b \o c \o d \o e, S) = Hits(a \o b \o c \o d, S) + Hits(e, S)
    BY <1>9, BothAre
  <2>5. Hits(a \o b \o c \o d \o e \o f, S) = Hits(a \o b \o c \o d \o e, S) + Hits(f, S)
    BY <1>9, BothAre
  <2>. QED
    BY <2>1, <2>2, <2>3, <2>4, <2>5
<1>. QED
  BY <1>2, <1>8, <1>10 DEF a, b, c, d, e, f
-----------------------------------------------------------------------------
(***************************************************************************)
(* The walk over the places of a value, and what it reports.               *)
(***************************************************************************)

WalkStep(path, json, walk, place) ==
    LET value        == At(json, place)
        child(key)   == walk[Append(place, key)]
        member(name) ==
            When(Reported(value[2], name), <<Inert(path, Pointer(Append(place, name)))>>)
            \o child(name)
    IN  CASE value[1] = "object" -> Each(DOMAIN value[2], member)
          [] value[1] = "list"   -> Each(DOMAIN value[2], child)
          [] OTHER               -> <<>>

IsWalk(path, json, walk) ==
    walk = [place \in Places(json) |-> WalkStep(path, json, walk, place)]

\* What a step reports of one key, and what lies there.
Marked(json, place, key) == At(json, place)[1] = "object" /\ Reported(At(json, place)[2], key)

OfKey(path, json, walk, place, key) ==
    IF At(json, place)[1] = "object"
    THEN When(Reported(At(json, place)[2], key), <<Inert(path, Pointer(Append(place, key)))>>)
         \o walk[Append(place, key)]
    ELSE walk[Append(place, key)]

LEMMA StepIs ==
    ASSUME NEW path, NEW json, NEW walk, NEW place, NEW s, s = SetToSeq(KeysOf(At(json, place))),
           IsFiniteSet(KeysOf(At(json, place)))
    PROVE  WalkStep(path, json, walk, place) =
              FlattenSeq([i \in 1..Len(s) |-> OfKey(path, json, walk, place, s[i])])
<1> DEFINE value == At(json, place)
           D == KeysOf(value)
<1>1. CASE value[1] = "object"
  <2>1. D = DOMAIN value[2] /\ s = SetToSeq(DOMAIN value[2])
    BY <1>1 DEF KeysOf
  <2>2. WalkStep(path, json, walk, place) =
           FlattenSeq([i \in 1..Len(s) |->
               When(Reported(value[2], s[i]), <<Inert(path, Pointer(Append(place, s[i])))>>)
               \o walk[Append(place, s[i])]])
    BY <1>1, <2>1 DEF WalkStep, Each
  <2>3. \A key : OfKey(path, json, walk, place, key) =
           When(Reported(value[2], key), <<Inert(path, Pointer(Append(place, key)))>>)
           \o walk[Append(place, key)]
    BY <1>1 DEF OfKey
  <2>. QED
    BY <2>2, <2>3
<1>2. CASE value[1] = "list"
  <2>1. D = DOMAIN value[2] /\ s = SetToSeq(DOMAIN value[2])
    BY <1>2 DEF KeysOf
  <2>2. WalkStep(path, json, walk, place) = FlattenSeq([i \in 1..Len(s) |-> walk[Append(place, s[i])]])
    BY <1>2, <2>1 DEF WalkStep, Each
  <2>3. \A key : OfKey(path, json, walk, place, key) = walk[Append(place, key)]
    BY <1>2 DEF OfKey
  <2>. QED
    BY <2>2, <2>3
<1>3. CASE value[1] # "object" /\ value[1] # "list"
  <2>1. D = {} /\ WalkStep(path, json, walk, place) = <<>>
    BY <1>3 DEF KeysOf, WalkStep
  <2>2. Len(s) = 0
    BY <2>1, ListedIs, FS_EmptySet
  <2>3. [i \in 1..Len(s) |-> OfKey(path, json, walk, place, s[i])] = <<>>
    BY <2>2
  <2>4. FlattenSeq(<<>>) = <<>>
    BY DEF FlattenSeq
  <2>. QED
    BY <2>1, <2>3, <2>4
<1>. QED
  BY <1>1, <1>2, <1>3

\* A step depends on what is found one key further only.
LEMMA StepAgrees ==
    ASSUME NEW path, NEW json, NEW place, NEW f, NEW g, IsFiniteSet(KeysOf(At(json, place))),
           \A key \in KeysOf(At(json, place)) : f[Append(place, key)] = g[Append(place, key)]
    PROVE  WalkStep(path, json, f, place) = WalkStep(path, json, g, place)
<1> DEFINE s == SetToSeq(KeysOf(At(json, place)))
<1>1. \A i \in 1..Len(s) : s[i] \in KeysOf(At(json, place))
  BY ListedIs
<1>2. \A i \in 1..Len(s) : OfKey(path, json, f, place, s[i]) = OfKey(path, json, g, place, s[i])
  BY <1>1 DEF OfKey
<1>3. [i \in 1..Len(s) |-> OfKey(path, json, f, place, s[i])] =
         [i \in 1..Len(s) |-> OfKey(path, json, g, place, s[i])]
  BY <1>2
<1>4. WalkStep(path, json, f, place) = FlattenSeq([i \in 1..Len(s) |-> OfKey(path, json, f, place, s[i])])
  BY StepIs
<1>5. WalkStep(path, json, g, place) = FlattenSeq([i \in 1..Len(s) |-> OfKey(path, json, g, place, s[i])])
  BY StepIs
<1>. QED
  BY <1>3, <1>4, <1>5

\* From the deepest places upwards there is a walk.
Walks(path, json, k, f) ==
    \A place \in Places(json) : Len(place) + k > MaxNesting => f[place] = WalkStep(path, json, f, place)

LEMMA WalkExists ==
    ASSUME NEW path, NEW json, Nested(json, MaxNesting)
    PROVE  \E walk : IsWalk(path, json, walk)
<1> DEFINE Bad == {k \in Nat : ~\E f : Walks(path, json, k, f)}
<1>0. \A place \in Places(json) :
         /\ Len(place) \in 0..MaxNesting /\ IsFiniteSet(KeysOf(At(json, place)))
         /\ \A key \in KeysOf(At(json, place)) :
               Append(place, key) \in Places(json) /\ Len(Append(place, key)) = Len(place) + 1
  BY PlaceFacts
<1>1. Bad = {}
  <2>1. SUFFICES ASSUME Bad # {} PROVE FALSE
    OBVIOUS
  <2>2. Bad \in SUBSET Nat
    OBVIOUS
  <2> HIDE DEF Bad
  <2>3. PICK k \in Bad : \A m \in Bad : k <= m
    BY <2>1, <2>2, Least
  <2>4. k \in Nat /\ ~\E f : Walks(path, json, k, f)
    BY DEF Bad
  <2>5. CASE k = 0
    <3>1. \A place \in Places(json) : ~(Len(place) + 0 > MaxNesting)
      BY <1>0, NestingAssumption
    <3>2. Walks(path, json, 0, <<>>)
      BY <3>1 DEF Walks
    <3>. QED
      BY <2>4, <2>5, <3>2
  <2>6. CASE k # 0
    <3>1. k - 1 \in Nat /\ k - 1 \notin Bad
      BY <2>3, <2>4, <2>6
    <3>2. PICK h : Walks(path, json, k - 1, h)
      BY <3>1 DEF Bad
    <3> DEFINE g == [place \in Places(json) |->
                        IF Len(place) + k = MaxNesting + 1 THEN WalkStep(path, json, h, place) ELSE h[place]]
    <3>3. ASSUME NEW place \in Places(json), Len(place) + k > MaxNesting
          PROVE  g[place] = WalkStep(path, json, g, place)
      <4>1. \A key \in KeysOf(At(json, place)) : g[Append(place, key)] = h[Append(place, key)]
        <5>1. ASSUME NEW key \in KeysOf(At(json, place))
              PROVE  /\ Append(place, key) \in Places(json)
                     /\ Len(Append(place, key)) + k # MaxNesting + 1
          BY <1>0, <2>4, <3>3, NestingAssumption
        <5>. QED
          BY <5>1
      <4>2. WalkStep(path, json, g, place) = WalkStep(path, json, h, place)
        <5>1. IsFiniteSet(KeysOf(At(json, place)))
          BY <1>0
        <5> HIDE DEF g
        <5>. QED
          BY <4>1, <5>1, StepAgrees
      <4>3. CASE Len(place) + k = MaxNesting + 1
        BY <4>2, <4>3
      <4>4. CASE Len(place) + k # MaxNesting + 1
        <5>1. Len(place) + (k - 1) > MaxNesting
          BY <1>0, <2>4, <3>3, <4>4, NestingAssumption
        <5>2. h[place] = WalkStep(path, json, h, place)
          BY <3>2, <5>1 DEF Walks
        <5>. QED
          BY <4>2, <4>4, <5>2
      <4>. QED
        BY <4>3, <4>4
    <3> HIDE DEF g
    <3>4. Walks(path, json, k, g)
      BY <3>3 DEF Walks
    <3>. QED
      BY <2>4, <3>4
  <2>. QED
    BY <2>5, <2>6
<1>2. PICK f : Walks(path, json, MaxNesting + 1, f)
  <2>1. MaxNesting + 1 \in Nat /\ MaxNesting + 1 \notin Bad
    BY <1>1, NestingAssumption
  <2>. QED
    BY <2>1
<1> DEFINE w == [place \in Places(json) |-> f[place]]
           v == [place \in Places(json) |-> WalkStep(path, json, w, place)]
<1>3. ASSUME NEW place \in Places(json)
      PROVE  w[place] = WalkStep(path, json, w, place)
  <2>1. Len(place) + (MaxNesting + 1) > MaxNesting
    BY <1>0, NestingAssumption
  <2>2. f[place] = WalkStep(path, json, f, place)
    BY <1>2, <2>1 DEF Walks
  <2>3. \A key \in KeysOf(At(json, place)) : w[Append(place, key)] = f[Append(place, key)]
    BY <1>0
  <2>4. IsFiniteSet(KeysOf(At(json, place))) /\ w[place] = f[place]
    BY <1>0
  <2> HIDE DEF w
  <2>5. WalkStep(path, json, w, place) = WalkStep(path, json, f, place)
    BY <2>3, <2>4, StepAgrees
  <2>. QED
    BY <2>2, <2>4, <2>5
<1>4. w = v
  <2>1. \A place \in Places(json) : v[place] = WalkStep(path, json, w, place)
    OBVIOUS
  <2>2. /\ DOMAIN w = Places(json) /\ DOMAIN v = Places(json)
        /\ w = [x \in DOMAIN w |-> w[x]] /\ v = [x \in DOMAIN v |-> v[x]]
    OBVIOUS
  <2> HIDE DEF v, w
  <2>3. \A place \in Places(json) : v[place] = w[place]
    BY <1>3, <2>1
  <2>. QED
    BY <2>2, <2>3
<1> HIDE DEF w
<1>5. IsWalk(path, json, w)
  BY <1>4 DEF IsWalk
<1>. QED
  BY <1>5

LEMMA WalkIs ==
    ASSUME NEW path, NEW json, Nested(json, MaxNesting)
    PROVE  \E walk : /\ Walk(path, json) = walk[<<>>]
                     /\ \A place \in Places(json) : walk[place] = WalkStep(path, json, walk, place)
<1> DEFINE w == CHOOSE walk : IsWalk(path, json, walk)
<1>1. IsWalk(path, json, w)
  BY WalkExists
<1>2. Walk(path, json) = w[<<>>]
  BY DEF Walk, IsWalk, WalkStep
<1> HIDE DEF w
<1>3. \A place \in Places(json) : w[place] = WalkStep(path, json, w, place)
  BY <1>1 DEF IsWalk
<1>. QED
  BY <1>2, <1>3
InertCodes == {"executable_reference_inert"}

PointersTo(json) == {Pointer(q) : q \in Places(json)}

\* The places that are reported, as findings of a set.
Marks(path, json, S) ==
    {q \in Places(json) : q # <<>> /\ Executable(json, q) /\ Inert(path, Pointer(q)) \in S}

WalkGood(path, json, walk, place) ==
    /\ Tells(walk[place], path, InertCodes, PointersTo(json))
    /\ \A S : Hits(walk[place], S) = Cardinality(Marks(path, json, S) \cap Beneath(json, place))

KeyGood(path, json, walk, place, key) ==
    /\ Tells(OfKey(path, json, walk, place, key), path, InertCodes, PointersTo(json))
    /\ \A S : Hits(OfKey(path, json, walk, place, key), S) =
                 Cardinality(Marks(path, json, S) \cap Under(json, Append(place, key)))

LEMMA MarkedIs ==
    ASSUME NEW json, Nested(json, MaxNesting), NEW place \in Places(json), NEW key \in KeysOf(At(json, place))
    PROVE  /\ Append(place, key) # <<>>
           /\ Executable(json, Append(place, key)) <=> Marked(json, place, key)
<1> DEFINE c == Append(place, key)
           n == Len(place)
<1>1. /\ place \in Seq(KeysIn(json)) /\ n \in 0..MaxNesting /\ key \in KeysIn(json)
      /\ c \in Seq(KeysIn(json)) /\ Len(c) = n + 1 /\ (\A i \in 1..n : c[i] = place[i]) /\ c[n + 1] = key
  BY PlaceFacts
<1> HIDE DEF c, n
<1>2. c # <<>> /\ Last(c) = key
  <2>1. Len(c) # 0 /\ Len(<<>>) = 0
    BY <1>1
  <2>. QED
    BY <1>1, <2>1 DEF Last
<1>3. SubSeq(c, 1, Len(c) - 1) = place
  <2> DEFINE front == SubSeq(c, 1, n)
  <2>1. Len(c) - 1 = n /\ n \in Nat /\ Len(place) = n
    BY <1>1, NestingAssumption DEF n
  <2>2. \A i \in 1..n : c[i] \in KeysIn(json)
    BY <1>1, <2>1, ElementOfSeq
  <2>3. /\ front \in Seq(KeysIn(json))
        /\ Len(front) = IF 1 <= n THEN n - 1 + 1 ELSE 0
        /\ \A i \in 1..n - 1 + 1 : front[i] = c[1 + i - 1]
    BY <2>1, <2>2, SubSeqProperties
  <2> HIDE DEF front
  <2>4. Len(front) = n /\ \A i \in 1..n : front[i] = place[i]
    <3>1. n - 1 + 1 = n /\ \A i \in 1..n : 1 + i - 1 = i
      BY <2>1
    <3>. QED
      BY <1>1, <2>1, <2>3, <3>1
  <2>5. front = place
    BY <1>1, <2>1, <2>3, <2>4, SeqEqual
  <2>. QED
    BY <2>1, <2>5 DEF front
<1>. QED
  BY <1>2, <1>3 DEF Executable, Marked, Reported, c

LEMMA KeyCounts ==
    ASSUME NEW path, NEW json, Nested(json, MaxNesting), NEW walk,
           NEW place \in Places(json), NEW key \in KeysOf(At(json, place)),
           WalkGood(path, json, walk, Append(place, key))
    PROVE  KeyGood(path, json, walk, place, key)
<1> DEFINE c == Append(place, key)
           P == PointersTo(json)
           f == Inert(path, Pointer(c))
           mark == When(Marked(json, place, key), <<f>>)
           list == OfKey(path, json, walk, place, key)
<1>1. c \in Places(json) /\ c # <<>> /\ (Executable(json, c) <=> Marked(json, place, key))
  BY PlaceFacts, MarkedIs
<1>2. Marked(json, place, key) \in BOOLEAN
  BY DEF Marked
<1>3. Tells(<<f>>, path, InertCodes, P)
  <2>1. Pointer(c) \in P
    BY <1>1 DEF PointersTo
  <2>2. "executable_reference_inert" \in Warnings
    BY DEF Warnings
  <2> HIDE DEF P, c
  <2>3. Telling(f, path, InertCodes, {Pointer(c)})
    BY <2>2, WarningIs DEF Inert, InertCodes
  <2>4. Telling(f, path, InertCodes, P)
    BY <2>1, <2>3 DEF Telling
  <2>. QED
    BY <2>4, TellsOne
<1>4. Tells(mark, path, InertCodes, P)
  <2> HIDE DEF P, f
  <2>. QED
    BY <1>2, <1>3, TellsWhen
<1>5. Tells(walk[c], path, InertCodes, P)
  BY DEF WalkGood
<1>6. \/ list = mark \o walk[c]
      \/ list = walk[c] /\ ~Marked(json, place, key)
  <2>1. CASE At(json, place)[1] = "object"
    <3>1. Marked(json, place, key) = Reported(At(json, place)[2], key)
      <4>1. Reported(At(json, place)[2], key) \in BOOLEAN
        BY DEF Reported
      <4>. QED
        BY <1>2, <2>1, <4>1 DEF Marked
    <3>. QED
      BY <2>1, <3>1 DEF OfKey
  <2>2. CASE At(json, place)[1] # "object"
    BY <2>2 DEF OfKey, Marked
  <2>. QED
    BY <2>1, <2>2
<1>7. Tells(list, path, InertCodes, P)
  <2> HIDE DEF P, mark, list, c
  <2>1. InertCodes \cup InertCodes = InertCodes /\ P \cup P = P
    OBVIOUS
  <2>2. Tells(mark \o walk[c], path, InertCodes \cup InertCodes, P \cup P)
    BY <1>4, <1>5, TellsBoth
  <2>. QED
    BY <1>5, <1>6, <2>1, <2>2
<1>8. ASSUME NEW S
      PROVE  Hits(list, S) = Cardinality(Marks(path, json, S) \cap Under(json, c))
  <2> DEFINE M == Marks(path, json, S)
             A == M \cap Beneath(json, c)
             one == IF Marked(json, place, key) /\ f \in S THEN 1 ELSE 0
  <2>1. Hits(walk[c], S) = Cardinality(A)
    BY DEF WalkGood
  <2>2. Hits(mark, S) = one
    BY OneIs, NoneIs DEF When
  <2>3. Hits(list, S) = one + Cardinality(A)
    <3>1. IsList(mark) /\ IsList(walk[c])
      BY <1>4, <1>5 DEF Tells
    <3>2. Hits(mark \o walk[c], S) = Hits(mark, S) + Hits(walk[c], S)
      BY <3>1, BothAre
    <3>3. Hits(walk[c], S) \in Nat
      BY <3>1, HitsAre
    <3>4. ~Marked(json, place, key) => one = 0
      OBVIOUS
    <3> HIDE DEF mark, list, c, one, A
    <3>5. CASE list = mark \o walk[c]
      BY <2>1, <2>2, <3>2, <3>5
    <3>6. CASE list = walk[c] /\ ~Marked(json, place, key)
      BY <2>1, <3>3, <3>4, <3>6
    <3>. QED
      BY <1>6, <3>5, <3>6
  <2>4. IsFiniteSet(Beneath(json, c)) /\ c \in Under(json, c)
    BY <1>1, BeneathIs
  <2>5. IsFiniteSet(A) /\ c \notin A
    <3>1. A \subseteq Beneath(json, c)
      OBVIOUS
    <3>2. c \notin A
      BY DEF Beneath
    <3> HIDE DEF A
    <3>. QED
      BY <2>4, <3>1, <3>2, FS_Subset
  <2>6. c \in M <=> Marked(json, place, key) /\ f \in S
    BY <1>1 DEF Marks
  <2>7. CASE c \in M
    <3>1. M \cap Under(json, c) = A \cup {c}
      BY <2>4, <2>7 DEF Beneath
    <3> HIDE DEF A, M
    <3>2. Cardinality(A \cup {c}) = Cardinality(A) + 1 /\ Cardinality(A) \in Nat
      BY <2>5, FS_AddElement, FS_CardinalityType
    <3>3. one = 1
      BY <2>6, <2>7
    <3> HIDE DEF one, list, c
    <3>4. Hits(list, S) = Cardinality(M \cap Under(json, c))
      BY <2>3, <3>1, <3>2, <3>3
    <3>. QED
      BY <3>4 DEF M
  <2>8. CASE c \notin M
    <3>1. M \cap Under(json, c) = A
      BY <2>8 DEF Beneath
    <3> HIDE DEF A, M
    <3>2. Cardinality(A) \in Nat
      BY <2>5, FS_CardinalityType
    <3>3. one = 0
      BY <2>6, <2>8
    <3> HIDE DEF one, list, c
    <3>4. Hits(list, S) = Cardinality(M \cap Under(json, c))
      BY <2>3, <3>1, <3>2, <3>3
    <3>. QED
      BY <3>4 DEF M
  <2>. QED
    BY <2>7, <2>8
<1>. QED
  BY <1>7, <1>8 DEF KeyGood

LEMMA PlaceCounts ==
    ASSUME NEW path, NEW json, Nested(json, MaxNesting), NEW walk, NEW place \in Places(json),
           walk[place] = WalkStep(path, json, walk, place),
           \A key \in KeysOf(At(json, place)) : WalkGood(path, json, walk, Append(place, key))
    PROVE  WalkGood(path, json, walk, place)
<1> DEFINE D == KeysOf(At(json, place))
           F == [key \in D |-> OfKey(path, json, walk, place, key)]
           s == SetToSeq(D)
           list == walk[place]
<1>1. IsFiniteSet(D)
  BY PlaceFacts
<1>2. list = FlattenSeq([i \in 1..Len(s) |-> OfKey(path, json, walk, place, s[i])])
  BY <1>1, StepIs
<1>3. \A i \in 1..Len(s) : s[i] \in D
  BY <1>1, ListedIs
<1>4. ASSUME NEW key \in D
      PROVE  /\ Tells(F[key], path, InertCodes, PointersTo(json))
             /\ \A S : Hits(F[key], S) = Cardinality(Marks(path, json, S) \cap Under(json, Append(place, key)))
  BY KeyCounts DEF KeyGood
<1> HIDE DEF D, s, list
<1>5. IsEach(list, D, F)
  BY <1>1, <1>2, <1>3, <1>4 DEF IsEach, Tells, s
<1> HIDE DEF F
<1>6. Tells(list, path, InertCodes, PointersTo(json))
  BY <1>4, <1>5, TellsEach
<1>7. ASSUME NEW S
      PROVE  Hits(list, S) = Cardinality(Marks(path, json, S) \cap Beneath(json, place))
  <2> DEFINE M == Marks(path, json, S)
             T == [key \in D |-> M \cap Under(json, Append(place, key))]
  <2>1. ASSUME NEW key \in D PROVE IsFiniteSet(T[key])
    <3>1. IsFiniteSet(Under(json, Append(place, key))) /\ T[key] \subseteq Under(json, Append(place, key))
      BY PlaceFacts, BeneathIs DEF D
    <3> HIDE DEF T
    <3>. QED
      BY <3>1, FS_Subset
  <2>2. ASSUME NEW k \in D, NEW l \in D, k # l PROVE T[k] \cap T[l] = {}
    <3>1. Under(json, Append(place, k)) \cap Under(json, Append(place, l)) = {}
      BY <2>2, BeneathIs DEF D
    <3>. QED
      BY <3>1
  <2>3. UNION {T[key] : key \in D} = M \cap Beneath(json, place)
    <3>1. Beneath(json, place) = UNION {Under(json, Append(place, key)) : key \in D}
      BY BeneathIs DEF D
    <3>. QED
      BY <3>1
  <2>4. \A key \in D : IsList(F[key]) /\ Hits(F[key], S) = Cardinality(T[key])
    BY <1>4 DEF Tells
  <2> HIDE DEF T, M
  <2>5. Counted(D, F, S, T)
    BY <2>1, <2>2, <2>4 DEF Counted
  <2>6. Hits(list, S) = Cardinality(UNION {T[key] : key \in D})
    BY <1>5, <2>5, EachCounts
  <2>. QED
    BY <2>3, <2>6 DEF M
<1>. QED
  BY <1>6, <1>7 DEF WalkGood, list

LEMMA WalkCounts ==
    ASSUME NEW path, NEW json, Nested(json, MaxNesting)
    PROVE  /\ Tells(Walk(path, json), path, InertCodes, PointersTo(json))
           /\ \A S : Hits(Walk(path, json), S) = Cardinality(Marks(path, json, S))
<1>1. PICK walk : /\ Walk(path, json) = walk[<<>>]
                  /\ \A place \in Places(json) : walk[place] = WalkStep(path, json, walk, place)
  BY WalkIs
<1> DEFINE Bad == {k \in Nat : \E place \in Places(json) :
                      Len(place) + k = MaxNesting /\ ~WalkGood(path, json, walk, place)}
<1>2. Bad = {}
  <2>1. SUFFICES ASSUME Bad # {} PROVE FALSE
    OBVIOUS
  <2>2. Bad \in SUBSET Nat
    OBVIOUS
  <2> HIDE DEF Bad
  <2>3. PICK k \in Bad : \A m \in Bad : k <= m
    BY <2>1, <2>2, Least
  <2>4. k \in Nat
    BY <2>2, <2>3
  <2>5. PICK place \in Places(json) : Len(place) + k = MaxNesting /\ ~WalkGood(path, json, walk, place)
    BY <2>3 DEF Bad
  <2>6. ASSUME NEW key \in KeysOf(At(json, place))
        PROVE  WalkGood(path, json, walk, Append(place, key))
    <3> DEFINE c == Append(place, key)
    <3>1. /\ c \in Places(json) /\ Len(c) = Len(place) + 1 /\ Len(place) \in 0..MaxNesting
          /\ Len(c) \in 0..MaxNesting
      BY PlaceFacts
    <3>2. k - 1 \in Nat /\ Len(c) + (k - 1) = MaxNesting /\ ~(k <= k - 1)
      BY <2>4, <2>5, <3>1, NestingAssumption
    <3>3. k - 1 \notin Bad
      BY <2>3, <3>2
    <3>. QED
      BY <3>1, <3>2, <3>3 DEF Bad
  <2>. QED
    BY <1>1, <2>5, <2>6, PlaceCounts
<1>3. WalkGood(path, json, walk, <<>>)
  <2>1. <<>> \in Places(json) /\ MaxNesting \in Nat /\ Len(<<>>) + MaxNesting = MaxNesting
    BY PlaceFacts, NestingAssumption
  <2>. QED
    BY <1>2, <2>1
<1>4. ASSUME NEW S PROVE Marks(path, json, S) \cap Beneath(json, <<>>) = Marks(path, json, S)
  <2>1. \A q \in Places(json) : Len(q) \in 0..MaxNesting
    BY PlaceFacts
  <2>2. Len(<<>>) = 0 /\ 1..0 = {}
    OBVIOUS
  <2>3. \A q \in Places(json) : q # <<>> => q \in Beneath(json, <<>>)
    BY <2>1, <2>2 DEF Beneath, Under
  <2>. QED
    BY <2>3 DEF Marks
<1>. QED
  BY <1>1, <1>3, <1>4 DEF WalkGood
-----------------------------------------------------------------------------
(* What the configuration pass tells, and the one over executables. *)

ConfigurationCodes ==
    {"missing_component_config", "missing_tokenizer_config", "missing_preprocessor_config"}

LEMMA ConfigurationTells ==
    ASSUME NEW r, NEW path, NEW name
    PROVE  Tells(ComponentConfiguration(r, path, name), path, {"missing_component_config"}, {Top(name)})
<1> DEFINE codes == {"missing_component_config"}
           related == Join(Parent(path), <<name>>)
           condition == related[1] \in r.directories /\ ~HasConfiguration(r, related[1])
           list == ComponentConfiguration(r, path, name)
           missing == Report("warning", "missing_component_config", Some(path), Top(name), related)
<1>1. CASE ~SafeName(name) \/ related = None
  <2>1. list = <<>>
    BY <1>1 DEF ComponentConfiguration
  <2>. QED
    BY <2>1, TellsNone
<1>2. CASE SafeName(name) /\ related # None
  <2>1. list = When(condition, <<missing>>)
    BY <1>2 DEF ComponentConfiguration
  <2>2. Valid(related[1]) /\ condition \in BOOLEAN
    BY <1>2, JoinIs
  <2>3. "warning" = IF "missing_component_config" \in Warnings THEN "warning" ELSE "error"
    BY DEF Warnings
  <2> HIDE DEF related, condition
  <2>4. Telling(missing, path, codes, {Top(name)})
    BY <2>2, <2>3, RelatedIs
  <2>. QED
    BY <2>1, <2>2, <2>4, TellsOne, TellsWhen
<1>. QED
  BY <1>1, <1>2

LEMMA IndexConfigurationsEach ==
    ASSUME NEW r, NEW path, IsDocument(r, path), Usable(r.documents[path])
    PROVE  LET names == PresentNames(r.documents[path].json[2])
           IN  IsEach(IndexConfigurations(r, path), names,
                      [name \in names |-> ComponentConfiguration(r, path, name)])
<1> DEFINE names == PresentNames(r.documents[path].json[2])
<1>1. IsFiniteSet(names)
  BY NamesFinite
<1>2. \A name \in names : IsList(ComponentConfiguration(r, path, name))
  BY ConfigurationTells DEF Tells
<1>3. IndexConfigurations(r, path) =
          FlattenSeq([i \in 1..Len(SetToSeq(names)) |-> ComponentConfiguration(r, path, SetToSeq(names)[i])])
  BY DEF IndexConfigurations, Each
<1>4. \A i \in 1..Len(SetToSeq(names)) : SetToSeq(names)[i] \in names
  BY <1>1, ListedIs
<1> HIDE DEF names
<1>. QED
  BY <1>1, <1>2, <1>3, <1>4 DEF IsEach, names

\* Codes alone.
Speaks(list, path, codes) == \E pointers : Tells(list, path, codes, pointers)

LEMMA ConfigurationsSpeak ==
    ASSUME NEW r, NEW path, IsDocument(r, path)
    PROVE  /\ Speaks(Configurations(r, path), path, ConfigurationCodes)
           /\ ~Usable(r.documents[path]) => Configurations(r, path) = <<>>
<1>1. CASE Kind(path) = "ModelIndex"
  <2>1. Configurations(r, path) = IndexConfigurations(r, path)
    BY <1>1 DEF Configurations
  <2>2. CASE ~Usable(r.documents[path])
    BY <2>1, <2>2, TellsNone DEF IndexConfigurations, Speaks
  <2>3. CASE Usable(r.documents[path])
    <3> DEFINE names == PresentNames(r.documents[path].json[2])
               F == [name \in names |-> ComponentConfiguration(r, path, name)]
               P == [name \in names |-> {Top(name)}]
               codes == {"missing_component_config"}
               all == UNION {P[name] : name \in names}
    <3>1. IsEach(IndexConfigurations(r, path), names, F)
      BY <2>3, IndexConfigurationsEach
    <3>2. \A name \in names : Tells(F[name], path, codes, P[name]) /\ P[name] \subseteq all
      BY ConfigurationTells
    <3>3. codes \subseteq ConfigurationCodes
      BY DEF ConfigurationCodes
    <3> HIDE DEF names, F, P, codes, all
    <3>4. Tells(IndexConfigurations(r, path), path, codes, all)
      BY <3>1, <3>2, EachWithin
    <3>5. Tells(IndexConfigurations(r, path), path, ConfigurationCodes, all)
      BY <3>3, <3>4, TellsMore
    <3>. QED
      BY <2>1, <2>3, <3>5 DEF Speaks
  <2>. QED
    BY <2>2, <2>3
<1>2. CASE Kind(path) = "ProcessorConfig"
  <2>1. Configurations(r, path) = ProcessorCompanions(r, path)
    BY <1>2 DEF Configurations
  <2>2. CASE ~Usable(r.documents[path])
    BY <2>1, <2>2, TellsNone DEF ProcessorCompanions, Speaks
  <2>3. CASE Usable(r.documents[path])
    <3>1. PICK c \in BOOLEAN, d \in BOOLEAN :
             ProcessorCompanions(r, path) =
                When(c, <<Warning("missing_tokenizer_config", path, None)>>)
                \o When(d, <<Warning("missing_preprocessor_config", path, None)>>)
      <4> DEFINE object == r.documents[path].json[2]
                 tokenizer == Given(object, <<"tokenizer_class">>) \/ Embedded(object, <<"tokenizer">>)
                 preprocessor ==
                   \/ Given(object, <<"feature_extractor_type">>) \/ Given(object, <<"image_processor_type">>)
                   \/ Embedded(object, <<"feature_extractor">>) \/ Embedded(object, <<"image_processor">>)
                 c == tokenizer /\ ~HasDocument(r, Parent(path), "tokenizer_config.json")
                 d == preprocessor /\ ~HasDocument(r, Parent(path), "preprocessor_config.json")
      <4>1. c \in BOOLEAN /\ d \in BOOLEAN
        OBVIOUS
      <4>2. ProcessorCompanions(r, path) =
                When(c, <<Warning("missing_tokenizer_config", path, None)>>)
                \o When(d, <<Warning("missing_preprocessor_config", path, None)>>)
        BY <2>3 DEF ProcessorCompanions
      <4> HIDE DEF c, d
      <4>. QED
        BY <4>1, <4>2
    <3>2. /\ "missing_tokenizer_config" \in Warnings /\ "missing_preprocessor_config" \in Warnings
          /\ "missing_tokenizer_config" \in ConfigurationCodes
          /\ "missing_preprocessor_config" \in ConfigurationCodes
      BY DEF Warnings, ConfigurationCodes
    <3>3. /\ Telling(Warning("missing_tokenizer_config", path, None), path, ConfigurationCodes, {None})
          /\ Telling(Warning("missing_preprocessor_config", path, None), path, ConfigurationCodes, {None})
      BY <3>2, WarningIs DEF Telling
    <3>4. /\ Tells(When(c, <<Warning("missing_tokenizer_config", path, None)>>), path, ConfigurationCodes, {None})
          /\ Tells(When(d, <<Warning("missing_preprocessor_config", path, None)>>), path, ConfigurationCodes, {None})
      BY <3>3, TellsOne, TellsWhen
    <3> DEFINE a == When(c, <<Warning("missing_tokenizer_config", path, None)>>)
               b == When(d, <<Warning("missing_preprocessor_config", path, None)>>)
               P == {None}
    <3>5. Tells(a, path, ConfigurationCodes, P) /\ Tells(b, path, ConfigurationCodes, P)
      BY <3>4
    <3>6. ProcessorCompanions(r, path) = a \o b
      BY <3>1
    <3> HIDE DEF a, b, P
    <3>7. Tells(a \o b, path, ConfigurationCodes \cup ConfigurationCodes, P \cup P)
      BY <3>5, TellsBoth
    <3>. QED
      BY <2>1, <2>3, <3>6, <3>7 DEF Speaks
  <2>. QED
    BY <2>2, <2>3
<1>3. CASE Kind(path) \notin {"ModelIndex", "ProcessorConfig"}
  <2>1. Configurations(r, path) = <<>>
    BY <1>3 DEF Configurations
  <2>. QED
    BY <2>1, TellsNone DEF Speaks
<1>. QED
  BY <1>1, <1>2, <1>3

CodeCodes == {"custom_component_requires_code", "executable_reference_inert"}

LEMMA CodeTells ==
    ASSUME NEW path, NEW object, NEW name
    PROVE  Tells(ComponentCode(path, object, name), path, CodeCodes, {Top(name)})
<1> DEFINE library == object[name][2][1]
           custom == Warning("custom_component_requires_code", path, Top(name))
           inert == Inert(path, Top(name))
           condition == library[2] \notin KnownLibraries
<1>1. /\ "custom_component_requires_code" \in Warnings /\ "executable_reference_inert" \in Warnings
      /\ "custom_component_requires_code" \in CodeCodes /\ "executable_reference_inert" \in CodeCodes
  BY DEF Warnings, CodeCodes
<1>2. Telling(custom, path, CodeCodes, {Top(name)}) /\ Telling(inert, path, CodeCodes, {Top(name)})
  BY <1>1, WarningIs DEF Telling, Inert
<1>3. condition \in BOOLEAN
  OBVIOUS
<1>4. ComponentCode(path, object, name) = IF library = Null THEN <<custom>> ELSE When(condition, <<inert>>)
  BY DEF ComponentCode
<1> HIDE DEF library, custom, inert, condition
<1>5. Tells(<<custom>>, path, CodeCodes, {Top(name)}) /\ Tells(<<inert>>, path, CodeCodes, {Top(name)})
  BY <1>2, TellsOne
<1>6. Tells(When(condition, <<inert>>), path, CodeCodes, {Top(name)})
  BY <1>3, <1>5, TellsWhen
<1>. QED
  BY <1>4, <1>5, <1>6

LEMMA IndexExecutablesEach ==
    ASSUME NEW r, NEW path, IsDocument(r, path), Usable(r.documents[path])
    PROVE  LET object == r.documents[path].json[2]
               names == PresentNames(object)
           IN  IsEach(IndexExecutables(r, path), names,
                      [name \in names |-> ComponentCode(path, object, name)])
<1> DEFINE object == r.documents[path].json[2]
           names == PresentNames(object)
<1>1. IsFiniteSet(names)
  BY NamesFinite
<1>2. \A name \in names : IsList(ComponentCode(path, object, name))
  BY CodeTells DEF Tells
<1>3. IndexExecutables(r, path) =
          FlattenSeq([i \in 1..Len(SetToSeq(names)) |-> ComponentCode(path, object, SetToSeq(names)[i])])
  BY DEF IndexExecutables, Each
<1>4. \A i \in 1..Len(SetToSeq(names)) : SetToSeq(names)[i] \in names
  BY <1>1, ListedIs
<1> HIDE DEF names
<1>. QED
  BY <1>1, <1>2, <1>3, <1>4 DEF IsEach, names

IndexPart(r, path) == When(Kind(path) = "ModelIndex", IndexExecutables(r, path))
WalkPart(r, path)  == When(~r.documents[path].repeated, Walk(path, r.documents[path].json))

LEMMA ExecutablesAre ==
    ASSUME NEW r, NEW path, IsDocument(r, path)
    PROVE  /\ Executables(r, path) = IndexPart(r, path) \o WalkPart(r, path)
           /\ Locates(IndexPart(r, path), path, CodeCodes)
           /\ ~Usable(r.documents[path]) => IndexPart(r, path) = <<>>
           /\ r.documents[path].repeated => WalkPart(r, path) = <<>>
           /\ Tells(WalkPart(r, path), path, InertCodes, PointersTo(r.documents[path].json))
           /\ Speaks(Executables(r, path), path, CodeCodes)
<1>1. Executables(r, path) = IndexPart(r, path) \o WalkPart(r, path)
  BY DEF Executables, IndexPart, WalkPart
<1>2. Nested(r.documents[path].json, MaxNesting) /\ r.documents[path].repeated \in BOOLEAN
  BY DocumentIs DEF Readable
<1>3. Tells(WalkPart(r, path), path, InertCodes, PointersTo(r.documents[path].json))
  <2>1. Tells(Walk(path, r.documents[path].json), path, InertCodes, PointersTo(r.documents[path].json))
    BY <1>2, WalkCounts
  <2>2. (~r.documents[path].repeated) \in BOOLEAN
    BY <1>2
  <2>. QED
    BY <2>1, <2>2, TellsWhen DEF WalkPart
<1>4. ~Usable(r.documents[path]) => IndexPart(r, path) = <<>>
  BY DEF IndexPart, IndexExecutables, When
<1>5. r.documents[path].repeated => WalkPart(r, path) = <<>>
  BY DEF WalkPart, When
<1>6. Locates(IndexPart(r, path), path, CodeCodes)
  <2>1. CASE ~Usable(r.documents[path])
    BY <1>4, <2>1, LocatesNone
  <2>2. CASE Usable(r.documents[path])
    <3> DEFINE object == r.documents[path].json[2]
               names == PresentNames(object)
               F == [name \in names |-> ComponentCode(path, object, name)]
               P == [name \in names |-> {Top(name)}]
               all == UNION {P[name] : name \in names}
    <3>1. IsEach(IndexExecutables(r, path), names, F)
      BY <2>2, IndexExecutablesEach
    <3>2. \A name \in names : Tells(F[name], path, CodeCodes, P[name]) /\ P[name] \subseteq all
      BY CodeTells
    <3>3. None \notin all
      BY PointersAre, SomeIsNotNone
    <3> HIDE DEF object, names, F, P, all
    <3>4. Tells(IndexExecutables(r, path), path, CodeCodes, all)
      BY <3>1, <3>2, EachWithin
    <3>5. Locates(IndexExecutables(r, path), path, CodeCodes)
      BY <3>3, <3>4, LocatesThese
    <3>6. (Kind(path) = "ModelIndex") \in BOOLEAN
      OBVIOUS
    <3>. QED
      BY <3>5, <3>6, LocatesWhen DEF IndexPart
  <2>. QED
    BY <2>1, <2>2
<1>7. Speaks(Executables(r, path), path, CodeCodes)
  <2>1. PICK pointers : Tells(IndexPart(r, path), path, CodeCodes, pointers)
    BY <1>6 DEF Locates
  <2> DEFINE P == PointersTo(r.documents[path].json)
  <2> HIDE DEF P
  <2>2. Tells(Executables(r, path), path, CodeCodes \cup InertCodes, pointers \cup P)
    BY <1>1, <1>3, <2>1, TellsBoth DEF P
  <2>3. CodeCodes \cup InertCodes = CodeCodes
    BY DEF CodeCodes, InertCodes
  <2>. QED
    BY <2>2, <2>3 DEF Speaks
<1>. QED
  BY <1>1, <1>3, <1>4, <1>5, <1>6, <1>7
-----------------------------------------------------------------------------
(* What the passes tell, and the root. *)

PassCodes == ReferenceCodes \cup ShapeCodes \cup FieldCodes \cup ConfigurationCodes \cup CodeCodes

LEMMA SpeaksMore ==
    ASSUME NEW path, NEW codes, NEW list, Speaks(list, path, codes), NEW codes2, codes \subseteq codes2
    PROVE  Speaks(list, path, codes2)
  BY TellsMore DEF Speaks

\* Without fields a document has none that are wrong.
LEMMA FieldsLocate ==
    ASSUME NEW r, NEW path, IsDocument(r, path)
    PROVE  /\ Locates(FieldFindings(r, path), path, FieldCodes)
           /\ ~Usable(r.documents[path]) => FieldFindings(r, path) = <<>>
<1>1. CASE ~Usable(r.documents[path])
  <2>1. FieldFindings(r, path) = <<>>
    BY <1>1 DEF FieldFindings
  <2>. QED
    BY <2>1, LocatesNone
<1>2. CASE Usable(r.documents[path])
  BY <1>2, FieldsAre
<1>. QED
  BY <1>1, <1>2

LEMMA PassesAre ==
    /\ Passes[1] = "references" /\ Passes[2] = "fields" /\ Passes[3] = "configuration"
    /\ Passes[4] = "executable" /\ Len(Passes) = 4 /\ 1..4 = {1, 2, 3, 4}
    /\ ToSet(Passes) = {Passes[i] : i \in 1..4}
  BY DEF Passes, ToSet

LEMMA PassSpeaks ==
    ASSUME NEW r, NEW path, IsDocument(r, path), NEW i \in 1..4
    PROVE  Speaks(PassFindings(r, Passes[i], path), path, PassCodes)
<1>1. CASE i = 1
  <2>1. Locates(References(r, path), path, ReferenceCodes)
    BY ReferencesLocate
  <2>2. Speaks(References(r, path), path, ReferenceCodes)
    BY <2>1 DEF Locates, Speaks
  <2>3. PassFindings(r, Passes[i], path) = References(r, path)
    BY <1>1, PassesAre DEF PassFindings
  <2>4. ReferenceCodes \subseteq PassCodes
    BY DEF PassCodes
  <2>. QED
    BY <2>2, <2>3, <2>4, SpeaksMore
<1>2. CASE i = 2
  <2>1. PICK shapes : Tells(ShapeFindings(r, path), path, ShapeCodes, shapes)
    BY ShapeTells
  <2>2. PICK fields : Tells(FieldFindings(r, path), path, FieldCodes, fields)
    BY FieldsLocate DEF Locates
  <2>3. PassFindings(r, Passes[i], path) = ShapeFindings(r, path) \o FieldFindings(r, path)
    BY <1>2, PassesAre DEF PassFindings
  <2>4. Tells(PassFindings(r, Passes[i], path), path, ShapeCodes \cup FieldCodes, shapes \cup fields)
    BY <2>1, <2>2, <2>3, TellsBoth
  <2>5. ShapeCodes \cup FieldCodes \subseteq PassCodes
    BY DEF PassCodes
  <2>. QED
    BY <2>4, <2>5, SpeaksMore DEF Speaks
<1>3. CASE i = 3
  <2>1. Speaks(Configurations(r, path), path, ConfigurationCodes)
    BY ConfigurationsSpeak
  <2>2. PassFindings(r, Passes[i], path) = Configurations(r, path)
    BY <1>3, PassesAre DEF PassFindings
  <2>3. ConfigurationCodes \subseteq PassCodes
    BY DEF PassCodes
  <2>. QED
    BY <2>1, <2>2, <2>3, SpeaksMore
<1>4. CASE i = 4
  <2>1. Speaks(Executables(r, path), path, CodeCodes)
    BY ExecutablesAre
  <2>2. PassFindings(r, Passes[i], path) = Executables(r, path)
    BY <1>4, PassesAre DEF PassFindings
  <2>3. CodeCodes \subseteq PassCodes
    BY DEF PassCodes
  <2>. QED
    BY <2>1, <2>2, <2>3, SpeaksMore
<1>. QED
  BY <1>1, <1>2, <1>3, <1>4, PassesAre

\* What is reported of the root before the passes.
RootList(r) == IF Normalize(r.documents)[1] = "ok" THEN <<>> ELSE RootFindings(r)

RootOf(r) == RootPath(r.documents)[1]

NoRoot == Report("error", "missing_root_config", None, None, None)

LEMMA RootIs ==
    ASSUME NEW r, RootPath(r.documents) # None
    PROVE  /\ RootPath(r.documents) = Some(RootOf(r)) /\ RootOf(r) \in DOMAIN r.documents
           /\ RootOf(r) \in {ModelIndexPath, ConfigPath}
  BY DEF RootPath, RootOf, Some, None

LEMMA RootCases ==
    ASSUME NEW r
    PROVE  \/ RootPath(r.documents) = None /\ Normalize(r.documents)[1] = "error" /\ RootList(r) = <<NoRoot>>
           \/ /\ RootPath(r.documents) # None /\ r.documents[RootOf(r)].repeated
              /\ Normalize(r.documents)[1] = "error" /\ RootList(r) = <<>>
           \/ /\ RootPath(r.documents) # None /\ ~r.documents[RootOf(r)].repeated
              /\ r.documents[RootOf(r)].json[1] # "object" /\ Normalize(r.documents)[1] = "error"
              /\ RootList(r) = When(r.documents[RootOf(r)].json # <<"malformed">>,
                                    <<Error("root_not_object", RootOf(r), None)>>)
           \/ /\ RootPath(r.documents) # None /\ Usable(r.documents[RootOf(r)])
              /\ TakeArchitecture(r.documents[RootOf(r)].json[2], RootOf(r)) = None
              /\ Normalize(r.documents)[1] = "error"
              /\ RootList(r) = <<Error("missing_architecture", RootOf(r), None)>>
           \/ /\ RootPath(r.documents) # None /\ Usable(r.documents[RootOf(r)])
              /\ TakeArchitecture(r.documents[RootOf(r)].json[2], RootOf(r)) # None
              /\ Normalize(r.documents)[1] = "ok" /\ RootList(r) = <<>>
              /\ Normalize(r.documents)[2] =
                    Configuration(r.documents[RootOf(r)].json[2], RootOf(r),
                                  TakeArchitecture(r.documents[RootOf(r)].json[2], RootOf(r))[1])
<1> DEFINE root == RootPath(r.documents)
           document == r.documents[RootOf(r)]
           taken == TakeArchitecture(document.json[2], RootOf(r))
           normal == Normalize(r.documents)
<1>1. CASE root = None
  <2>1. normal = <<"error", "MissingRootConfig">>
    BY <1>1 DEF Normalize
  <2>. QED
    BY <1>1, <2>1 DEF RootList, RootFindings, NoRoot
<1>2. CASE root # None /\ document.repeated
  <2>1. normal = <<"error", "DuplicateKeys">>
    BY <1>2 DEF Normalize, RootOf
  <2>. QED
    BY <1>2, <2>1 DEF RootList, RootFindings
<1>3. CASE root # None /\ ~document.repeated /\ document.json[1] # "object"
  <2>1. normal = <<"error", "ExpectedObject">>
    BY <1>3 DEF Normalize, RootOf
  <2>. QED
    BY <1>3, <2>1 DEF RootList, RootFindings, RootOf
<1>4. CASE root # None /\ ~document.repeated /\ document.json[1] = "object" /\ taken = None
  <2>1. normal = <<"error", "MissingArchitecture">>
    BY <1>4 DEF Normalize, RootOf
  <2>. QED
    BY <1>4, <2>1 DEF RootList, RootFindings, RootOf, Usable
<1>5. CASE root # None /\ ~document.repeated /\ document.json[1] = "object" /\ taken # None
  <2>1. normal = <<"ok", Configuration(document.json[2], RootOf(r), taken[1])>>
    BY <1>5 DEF Normalize, RootOf
  <2> HIDE DEF normal
  <2>. QED
    BY <1>5, <2>1 DEF RootList, Usable, normal
<1>. QED
  BY <1>1, <1>2, <1>3, <1>4, <1>5

RootCodes == {"missing_root_config", "root_not_object", "missing_architecture"}

\* A finding about the root as a whole.
RootTelling(r, f) ==
    /\ f.level = "error" /\ f.code \in RootCodes /\ f.pointer = None /\ f.related = None
    /\ IF f.code = "missing_root_config" THEN f.document = None
       ELSE RootPath(r.documents) # None /\ f.document = Some(RootOf(r))

LEMMA RootTells ==
    ASSUME NEW r
    PROVE  IsList(RootList(r)) /\ \A f \in Findings(RootList(r)) : RootTelling(r, f)
<1>1. RootTelling(r, NoRoot)
  BY DEF RootTelling, RootCodes, NoRoot, Report
<1>2. ASSUME RootPath(r.documents) # None
      PROVE  /\ RootTelling(r, Error("root_not_object", RootOf(r), None))
             /\ RootTelling(r, Error("missing_architecture", RootOf(r), None))
  BY <1>2 DEF RootTelling, RootCodes, Error, Report
<1>3. \/ RootList(r) = <<>>
      \/ \E f : RootList(r) = <<f>> /\ RootTelling(r, f)
  BY <1>1, <1>2, RootCases DEF When
<1>. QED
  BY <1>3, NoneIs, OneIs
-----------------------------------------------------------------------------
(***************************************************************************)
(* The invariant.  The findings so far are those about the root and those  *)
(* of the passes that have come to a document, as many times as they are   *)
(* in their lists, and no others.                                          *)
(***************************************************************************)

\* Has a pass come to a document?
Passed(now, rest, i, p) ==
    \/ now = "done"
    \/ \E j \in 1..4 : now = Passes[j] /\ (i < j \/ (i = j /\ p \notin rest))

PassList(r, i, p) == PassFindings(r, Passes[i], p)

Said(r, now, rest, i, p, S) == IF Passed(now, rest, i, p) THEN Hits(PassList(r, i, p), S) ELSE 0

SaidOfAll(r, now, rest, p, S) ==
    Said(r, now, rest, 1, p, S) + Said(r, now, rest, 2, p, S)
    + Said(r, now, rest, 3, p, S) + Said(r, now, rest, 4, p, S)

About(p, S) == \A f \in S : f.document = Some(p)

Counts(r, now, rest, list) ==
    \A p \in DOMAIN r.documents : \A S : About(p, S) =>
        Hits(list, S) = Hits(RootList(r), S) + SaidOfAll(r, now, rest, p, S)

\* Where the findings of a list come from.
Heard(r, list) ==
    \A f \in Findings(list) :
        \/ f \in Findings(RootList(r))
        \/ \E i \in 1..4 : \E p \in DOMAIN r.documents : f \in Findings(PassList(r, i, p))

Stages == {"references", "fields", "configuration", "executable"}

IInv ==
    /\ Constructed(repository)
    /\ pass \in {"normalization", "done"} \cup Stages
    /\ left \subseteq DOMAIN repository.documents
    /\ IsList(findings)
    /\ Heard(repository, findings)
    /\ pass = "normalization" => findings = <<>>
    /\ pass # "normalization" => /\ Findings(RootList(repository)) \subseteq Findings(findings)
                                 /\ Counts(repository, pass, left, findings)

LEMMA StagesAre ==
    /\ Stages = {Passes[i] : i \in 1..4} /\ ToSet(Passes) = Stages
    /\ \A i \in 1..4 : Passes[i] \in Stages
    /\ \A i, j \in 1..4 : Passes[i] = Passes[j] => i = j
    /\ "normalization" \notin Stages /\ "done" \notin Stages
<1>1. \A i, j \in {1, 2, 3, 4} : Passes[i] = Passes[j] => i = j
  BY PassesAre
<1>2. Stages = {Passes[i] : i \in {1, 2, 3, 4}}
  BY PassesAre DEF Stages
<1>3. "normalization" \notin Stages /\ "done" \notin Stages
  BY DEF Stages
<1>. QED
  BY <1>1, <1>2, <1>3, PassesAre

LEMMA PassedIs ==
    /\ \A rest : \A p \in rest : \A i \in 1..4 : ~Passed("references", rest, i, p)
    /\ \A rest, p : \A i \in 1..4 : Passed("done", rest, i, p)
    /\ \A j \in 1..4 : \A i \in 1..4 : \A rest, p :
          Passed(Passes[j], rest, i, p) <=> (i < j \/ (i = j /\ p \notin rest))
<1>1. \A j \in 1..4 : \A i \in 1..4 : \A rest, p :
          Passed(Passes[j], rest, i, p) <=> (i < j \/ (i = j /\ p \notin rest))
  <2>1. ASSUME NEW j \in 1..4, NEW i \in 1..4, NEW rest, NEW p
        PROVE  Passed(Passes[j], rest, i, p) <=> (i < j \/ (i = j /\ p \notin rest))
    <3>1. Passes[j] # "done"
      BY StagesAre
    <3>2. \A k \in 1..4 : Passes[j] = Passes[k] => j = k
      BY StagesAre
    <3>. QED
      BY <3>1, <3>2 DEF Passed
  <2>. QED
    BY <2>1
<1>2. ASSUME NEW rest, NEW p \in rest, NEW i \in 1..4 PROVE ~Passed("references", rest, i, p)
  <2>1. Passes[1] = "references" /\ 1 \in 1..4 /\ ~(i < 1)
    BY PassesAre
  <2>. QED
    BY <1>1, <2>1
<1>3. \A rest, p : \A i \in 1..4 : Passed("done", rest, i, p)
  BY DEF Passed
<1>. QED
  BY <1>1, <1>2, <1>3

LEMMA HitsOfPass ==
    ASSUME NEW r, NEW p, IsDocument(r, p), NEW i \in 1..4, NEW S
    PROVE  IsList(PassList(r, i, p)) /\ Hits(PassList(r, i, p), S) \in Nat
  BY PassSpeaks, HitsAre DEF Speaks, Tells, PassList

\* A list about one document has no findings about another.
LEMMA OfAnother ==
    ASSUME NEW r, NEW p, NEW q, p # q, IsDocument(r, p), NEW i \in 1..4, NEW S, About(q, S)
    PROVE  Hits(PassList(r, i, p), S) = 0
<1>1. PICK pointers : Tells(PassList(r, i, p), p, PassCodes, pointers)
  BY PassSpeaks DEF Speaks, PassList
<1>2. Some(p) # Some(q)
  BY DEF Some
<1>3. \A f \in S : ~Telling(f, p, PassCodes, pointers)
  BY <1>2 DEF About, Telling
<1>. QED
  BY <1>1, <1>3, Untold

LEMMA AtTheStart ==
    ASSUME NEW r, Constructed(r)
    PROVE  Counts(r, "references", DOMAIN r.documents, RootList(r))
<1>1. SUFFICES ASSUME NEW p \in DOMAIN r.documents, NEW S
               PROVE  Hits(RootList(r), S) =
                         Hits(RootList(r), S) + SaidOfAll(r, "references", DOMAIN r.documents, p, S)
  BY DEF Counts
<1>2. \A i \in 1..4 : Said(r, "references", DOMAIN r.documents, i, p, S) = 0
  BY PassedIs DEF Said
<1>3. SaidOfAll(r, "references", DOMAIN r.documents, p, S) = 0
  BY <1>2 DEF SaidOfAll
<1>4. Hits(RootList(r), S) \in Nat
  BY RootTells, HitsAre
<1>. QED
  BY <1>3, <1>4

LEMMA AtADocument ==
    ASSUME NEW r, Constructed(r), NEW rest, rest \subseteq DOMAIN r.documents, NEW path \in rest,
           NEW j \in 1..4, NEW list, IsList(list), Counts(r, Passes[j], rest, list)
    PROVE  Counts(r, Passes[j], rest \ {path}, list \o PassList(r, j, path))
<1> DEFINE new == PassList(r, j, path)
           less == rest \ {path}
<1>1. SUFFICES ASSUME NEW p \in DOMAIN r.documents, NEW S, About(p, S)
               PROVE  Hits(list \o new, S) =
                         Hits(RootList(r), S) + SaidOfAll(r, Passes[j], less, p, S)
  BY DEF Counts
<1>2. IsDocument(r, path) /\ IsDocument(r, p)
  BY DEF IsDocument
<1>3. IsList(new) /\ Hits(new, S) \in Nat
  BY <1>2, HitsOfPass
<1>4. Hits(list \o new, S) = Hits(list, S) + Hits(new, S)
  BY <1>3, BothAre
<1>5. Hits(list, S) = Hits(RootList(r), S) + SaidOfAll(r, Passes[j], rest, p, S)
  BY <1>1 DEF Counts
<1>6. Hits(RootList(r), S) \in Nat
  BY RootTells, HitsAre
<1> DEFINE before == [i \in 1..4 |-> Said(r, Passes[j], rest, i, p, S)]
           after == [i \in 1..4 |-> Said(r, Passes[j], less, i, p, S)]
<1>7. \A i \in 1..4 : before[i] \in Nat /\ after[i] \in Nat
  BY <1>2, HitsOfPass DEF Said
<1>8. \A i \in 1..4 : i # j => after[i] = before[i]
  <2>1. ASSUME NEW i \in 1..4, i # j PROVE after[i] = before[i]
    <3>1. Passed(Passes[j], less, i, p) <=> Passed(Passes[j], rest, i, p)
      BY <2>1, PassedIs
    <3>. QED
      BY <3>1 DEF Said
  <2>. QED
    BY <2>1
<1>9. after[j] = before[j] + Hits(new, S)
  <2>1. CASE p = path
    <3>1. Passed(Passes[j], less, j, p) /\ ~Passed(Passes[j], rest, j, p)
      BY <2>1, PassedIs
    <3>2. after[j] = Hits(new, S) /\ before[j] = 0
      BY <2>1, <3>1 DEF Said
    <3>. QED
      BY <1>3, <3>2
  <2>2. CASE p # path
    <3>1. Hits(new, S) = 0
      BY <1>1, <1>2, <2>2, OfAnother
    <3>2. Passed(Passes[j], less, j, p) <=> Passed(Passes[j], rest, j, p)
      BY <2>2, PassedIs
    <3>3. after[j] = before[j]
      BY <3>2 DEF Said
    <3> HIDE DEF after, before
    <3>. QED
      BY <1>7, <3>1, <3>3
  <2>. QED
    BY <2>1, <2>2
<1>10. /\ SaidOfAll(r, Passes[j], rest, p, S) = before[1] + before[2] + before[3] + before[4]
       /\ SaidOfAll(r, Passes[j], less, p, S) = after[1] + after[2] + after[3] + after[4]
  BY DEF SaidOfAll
<1>11. j \in {1, 2, 3, 4}
  BY PassesAre
<1> HIDE DEF before, after, new, less
<1>12. after[1] + after[2] + after[3] + after[4] =
           before[1] + before[2] + before[3] + before[4] + Hits(new, S)
  <2>1. /\ before[1] \in Nat /\ before[2] \in Nat /\ before[3] \in Nat /\ before[4] \in Nat
        /\ after[1] \in Nat /\ after[2] \in Nat /\ after[3] \in Nat /\ after[4] \in Nat
    BY <1>7
  <2>2. CASE j = 1
    <3>1. after[2] = before[2] /\ after[3] = before[3] /\ after[4] = before[4]
          /\ after[1] = before[1] + Hits(new, S)
      BY <1>8, <1>9, <2>2
    <3>. QED
      BY ONLY <1>3, <2>1, <3>1
  <2>3. CASE j = 2
    <3>1. after[1] = before[1] /\ after[3] = before[3] /\ after[4] = before[4]
          /\ after[2] = before[2] + Hits(new, S)
      BY <1>8, <1>9, <2>3
    <3>. QED
      BY ONLY <1>3, <2>1, <3>1
  <2>4. CASE j = 3
    <3>1. after[1] = before[1] /\ after[2] = before[2] /\ after[4] = before[4]
          /\ after[3] = before[3] + Hits(new, S)
      BY <1>8, <1>9, <2>4
    <3>. QED
      BY ONLY <1>3, <2>1, <3>1
  <2>5. CASE j = 4
    <3>1. after[1] = before[1] /\ after[2] = before[2] /\ after[3] = before[3]
          /\ after[4] = before[4] + Hits(new, S)
      BY <1>8, <1>9, <2>5
    <3>. QED
      BY ONLY <1>3, <2>1, <3>1
  <2>. QED
    BY <1>11, <2>2, <2>3, <2>4, <2>5
<1>13. before[1] + before[2] + before[3] + before[4] \in Nat
  BY <1>7
<1> DEFINE was == before[1] + before[2] + before[3] + before[4]
<1> HIDE DEF was
<1>14. SaidOfAll(r, Passes[j], less, p, S) = was + Hits(new, S) /\ was \in Nat
       /\ Hits(list, S) = Hits(RootList(r), S) + was
  BY <1>5, <1>10, <1>12, <1>13 DEF was
<1>. QED
  BY ONLY <1>3, <1>4, <1>6, <1>14

LEMMA AtTheEnd ==
    ASSUME NEW r, Constructed(r), NEW i \in 1..4, NEW list, Counts(r, Passes[i], {}, list)
    PROVE  /\ i = 4 => Counts(r, "done", {}, list)
           /\ i < 4 => Counts(r, Passes[i + 1], DOMAIN r.documents, list)
<1>1. ASSUME NEW now, NEW rest,
             \A p \in DOMAIN r.documents : \A k \in 1..4 :
                Passed(now, rest, k, p) <=> Passed(Passes[i], {}, k, p)
      PROVE  Counts(r, now, rest, list)
  <2>1. ASSUME NEW p \in DOMAIN r.documents, NEW S
        PROVE  SaidOfAll(r, now, rest, p, S) = SaidOfAll(r, Passes[i], {}, p, S)
    BY <1>1 DEF SaidOfAll, Said
  <2>. QED
    BY <2>1 DEF Counts
<1>2. CASE i = 4
  <2>1. \A p \in DOMAIN r.documents : \A k \in 1..4 :
            Passed("done", {}, k, p) <=> Passed(Passes[i], {}, k, p)
    <3>1. ASSUME NEW p, NEW k \in 1..4 PROVE Passed(Passes[i], {}, k, p) /\ Passed("done", {}, k, p)
      <4>1. k < i \/ k = i
        BY <1>2
      <4>. QED
        BY <4>1, PassedIs
    <3>. QED
      BY <3>1
  <2>. QED
    BY <1>1, <1>2, <2>1
<1>3. CASE i < 4
  <2>1. i + 1 \in 1..4
    BY <1>3
  <2>2. ASSUME NEW p \in DOMAIN r.documents, NEW k \in 1..4
        PROVE  Passed(Passes[i + 1], DOMAIN r.documents, k, p) <=> Passed(Passes[i], {}, k, p)
    <3>1. Passed(Passes[i + 1], DOMAIN r.documents, k, p) <=> k < i + 1
      <4>1. Passed(Passes[i + 1], DOMAIN r.documents, k, p) <=>
                (k < i + 1 \/ (k = i + 1 /\ p \notin DOMAIN r.documents))
        BY <2>1, PassedIs
      <4>. QED
        BY <4>1
    <3>2. Passed(Passes[i], {}, k, p) <=> (k < i \/ k = i)
      BY PassedIs
    <3>. QED
      BY <3>1, <3>2
  <2>. QED
    BY <1>1, <1>3, <2>2
<1>. QED
  BY <1>2, <1>3

-----------------------------------------------------------------------------

LEMMA Initial == Init => IInv
<1> SUFFICES ASSUME Init PROVE IInv
  OBVIOUS
<1>1. Constructed(repository)
  BY ValidationAssumption DEF Init
<1>2. IsList(findings) /\ Heard(repository, findings)
  BY NoneIs DEF Init, Heard
<1>. QED
  BY <1>1, <1>2 DEF Init, IInv

LEMMA RootKeeps == IInv /\ ValidateRoot => IInv'
<1> SUFFICES ASSUME IInv, ValidateRoot PROVE IInv'
  OBVIOUS
<1> DEFINE r == repository
<1>1. Constructed(r) /\ r' = r /\ findings' = RootList(r) /\ pass' = "references"
      /\ left' = DOMAIN r.documents
  BY PassesAre DEF IInv, ValidateRoot, RootList
<1>2. IsList(RootList(r)) /\ Heard(r, RootList(r))
  BY RootTells DEF Heard
<1>3. Counts(r, "references", DOMAIN r.documents, RootList(r))
  BY <1>1, AtTheStart
<1>4. pass' \in Stages /\ pass' # "normalization"
  BY <1>1 DEF Stages
<1> HIDE DEF r
<1>5. /\ Constructed(r') /\ Heard(r', findings') /\ Counts(r', pass', left', findings')
      /\ left' \subseteq DOMAIN r'.documents /\ IsList(findings')
      /\ Findings(RootList(r')) \subseteq Findings(findings')
  BY <1>1, <1>2, <1>3
<1>. QED
  BY <1>4, <1>5 DEF IInv, r

LEMMA DocumentKeeps ==
    ASSUME NEW p \in ToSet(Passes), NEW path \in left
    PROVE  IInv /\ ValidateDocument(p, path) => IInv'
<1> SUFFICES ASSUME IInv, ValidateDocument(p, path) PROVE IInv'
  OBVIOUS
<1> DEFINE r == repository
<1>1. PICK j \in 1..4 : p = Passes[j]
  BY PassesAre
<1>2. /\ Constructed(r) /\ r' = r /\ findings' = findings \o PassList(r, j, path)
      /\ pass = Passes[j] /\ pass' = Passes[j] /\ left' = left \ {path}
      /\ IsList(findings) /\ Heard(r, findings) /\ left \subseteq DOMAIN r.documents
  BY <1>1 DEF IInv, ValidateDocument, PassList
<1>3. pass \in Stages /\ pass # "normalization"
  BY <1>2, StagesAre
<1>4. Counts(r, Passes[j], left, findings) /\ Findings(RootList(r)) \subseteq Findings(findings)
  BY <1>2, <1>3 DEF IInv
<1>5. IsDocument(r, path)
  BY <1>2 DEF IsDocument
<1> HIDE DEF r
<1>6. IsList(PassList(r, j, path))
  BY <1>5, HitsOfPass
<1>7. IsList(findings') /\ Findings(findings') = Findings(findings) \cup Findings(PassList(r, j, path))
  BY <1>2, <1>6, BothAre
<1>8. Heard(r, findings')
  BY <1>2, <1>7 DEF Heard
<1>9. Counts(r, Passes[j], left \ {path}, findings \o PassList(r, j, path))
  BY <1>2, <1>4, AtADocument
<1>10. /\ Constructed(r') /\ Heard(r', findings') /\ Counts(r', pass', left', findings')
       /\ left' \subseteq DOMAIN r'.documents /\ pass' \in Stages /\ pass' # "normalization"
       /\ Findings(RootList(r')) \subseteq Findings(findings')
  BY <1>2, <1>3, <1>4, <1>7, <1>8, <1>9
<1>. QED
  BY <1>7, <1>10 DEF IInv, r

LEMMA EndKeeps ==
    ASSUME NEW i \in 1..Len(Passes)
    PROVE  IInv /\ EndPass(i) => IInv'
<1> SUFFICES ASSUME IInv, EndPass(i) PROVE IInv'
  OBVIOUS
<1> DEFINE r == repository
<1>1. i \in 1..4 /\ Len(Passes) = 4
  BY PassesAre
<1>2. /\ Constructed(r) /\ r' = r /\ findings' = findings /\ pass = Passes[i] /\ left = {}
      /\ pass' = (IF i < 4 THEN Passes[i + 1] ELSE "done")
      /\ left' = (IF i < 4 THEN DOMAIN r.documents ELSE {})
      /\ IsList(findings) /\ Heard(r, findings)
  BY <1>1 DEF IInv, EndPass
<1>3. pass # "normalization"
  BY <1>1, <1>2, StagesAre
<1>4. Counts(r, Passes[i], {}, findings) /\ Findings(RootList(r)) \subseteq Findings(findings)
  BY <1>2, <1>3 DEF IInv
<1> HIDE DEF r
<1>5. /\ i = 4 => Counts(r, "done", {}, findings)
      /\ i < 4 => Counts(r, Passes[i + 1], DOMAIN r.documents, findings)
  BY <1>1, <1>2, <1>4, AtTheEnd
<1>6. CASE i = 4
  <2>1. /\ Constructed(r') /\ Heard(r', findings') /\ Counts(r', pass', left', findings')
        /\ left' \subseteq DOMAIN r'.documents /\ pass' = "done" /\ IsList(findings')
        /\ Findings(RootList(r')) \subseteq Findings(findings')
    BY <1>2, <1>4, <1>5, <1>6
  <2>. QED
    BY <2>1 DEF IInv, r
<1>7. CASE i < 4
  <2>1. i + 1 \in 1..4
    BY <1>1, <1>7
  <2>2. Passes[i + 1] \in Stages /\ Passes[i + 1] # "normalization"
    BY <2>1, StagesAre
  <2>3. /\ Constructed(r') /\ Heard(r', findings') /\ Counts(r', pass', left', findings')
        /\ left' \subseteq DOMAIN r'.documents /\ IsList(findings')
        /\ pass' \in Stages /\ pass' # "normalization"
        /\ Findings(RootList(r')) \subseteq Findings(findings')
    BY <1>2, <1>4, <1>5, <1>7, <2>2
  <2>. QED
    BY <2>3 DEF IInv, r
<1>. QED
  BY <1>1, <1>6, <1>7

LEMMA Inductive == IInv /\ [Next]_vars => IInv'
<1> SUFFICES ASSUME IInv, [Next]_vars PROVE IInv'
  OBVIOUS
<1>1. CASE ValidateRoot
  BY <1>1, RootKeeps
<1>2. CASE \E p \in ToSet(Passes), path \in left : ValidateDocument(p, path)
  BY <1>2, DocumentKeeps
<1>3. CASE \E i \in 1..Len(Passes) : EndPass(i)
  BY <1>3, EndKeeps
<1>4. CASE Done \/ UNCHANGED vars
  BY <1>4 DEF Done, vars, IInv
<1>. QED
  BY <1>1, <1>2, <1>3, <1>4 DEF Next

\* Validation only ever has the findings of the root and of the documents its
\* passes have come to, each as often as it is reported there.
THEOREM Invariance == Spec => []IInv
<1>1. Init => IInv
  BY Initial
<1>2. IInv /\ [Next]_vars => IInv'
  BY Inductive
<1>. QED
  BY <1>1, <1>2, PTL DEF Spec
-----------------------------------------------------------------------------
(***************************************************************************)
(* When validation is done, a document's findings are those of its lists.  *)
(***************************************************************************)

Whole(r, p, S) ==
    Hits(RootList(r), S) + Hits(References(r, p), S) + Hits(ShapeFindings(r, p), S)
    + Hits(FieldFindings(r, p), S) + Hits(Configurations(r, p), S)
    + Hits(IndexPart(r, p), S) + Hits(WalkPart(r, p), S)

LEMMA ListsAre ==
    ASSUME NEW r, NEW p, IsDocument(r, p)
    PROVE  /\ IsList(RootList(r)) /\ IsList(References(r, p)) /\ IsList(ShapeFindings(r, p))
           /\ IsList(FieldFindings(r, p)) /\ IsList(Configurations(r, p))
           /\ IsList(IndexPart(r, p)) /\ IsList(WalkPart(r, p))
<1>1. IsList(RootList(r))
  BY RootTells
<1>2. IsList(References(r, p)) /\ IsList(FieldFindings(r, p))
  BY ReferencesLocate, FieldsLocate, Located
<1>3. IsList(ShapeFindings(r, p))
  BY ShapeTells DEF Tells
<1>4. IsList(Configurations(r, p))
  BY ConfigurationsSpeak DEF Speaks, Tells
<1>5. IsList(IndexPart(r, p)) /\ IsList(WalkPart(r, p))
  BY ExecutablesAre DEF Tells, Locates
<1>. QED
  BY <1>1, <1>2, <1>3, <1>4, <1>5

LEMMA PartsAre ==
    ASSUME NEW r, NEW p, IsDocument(r, p), NEW S
    PROVE  /\ Hits(RootList(r), S) \in Nat /\ Hits(References(r, p), S) \in Nat
           /\ Hits(ShapeFindings(r, p), S) \in Nat /\ Hits(FieldFindings(r, p), S) \in Nat
           /\ Hits(Configurations(r, p), S) \in Nat
           /\ Hits(IndexPart(r, p), S) \in Nat /\ Hits(WalkPart(r, p), S) \in Nat
  BY ListsAre, HitsAre

LEMMA Ended ==
    ASSUME IInv, IsDone, NEW p \in DOMAIN repository.documents
    PROVE  /\ IsDocument(repository, p) /\ IsList(findings)
           /\ \A S : About(p, S) => Hits(findings, S) = Whole(repository, p, S)
<1> DEFINE r == repository
<1>1. IsDocument(r, p) /\ IsList(findings)
  BY DEF IInv, IsDocument
<1>2. ASSUME NEW S, About(p, S) PROVE Hits(findings, S) = Whole(r, p, S)
  <2>1. pass = "done" /\ pass # "normalization" /\ Counts(r, "done", left, findings)
    BY DEF IInv, IsDone
  <2>2. Hits(findings, S) = Hits(RootList(r), S) + SaidOfAll(r, "done", left, p, S)
    BY <1>2, <2>1 DEF Counts
  <2>3. SaidOfAll(r, "done", left, p, S) =
            Hits(PassList(r, 1, p), S) + Hits(PassList(r, 2, p), S)
            + Hits(PassList(r, 3, p), S) + Hits(PassList(r, 4, p), S)
    BY PassedIs, PassesAre DEF SaidOfAll, Said
  <2>4. /\ PassList(r, 1, p) = References(r, p) /\ PassList(r, 3, p) = Configurations(r, p)
        /\ PassList(r, 2, p) = ShapeFindings(r, p) \o FieldFindings(r, p)
        /\ PassList(r, 4, p) = Executables(r, p)
    BY PassesAre DEF PassList, PassFindings
  <2> HIDE DEF r
  <2>5. Hits(PassList(r, 2, p), S) = Hits(ShapeFindings(r, p), S) + Hits(FieldFindings(r, p), S)
    BY <1>1, <2>4, ListsAre, BothAre
  <2>6. Hits(PassList(r, 4, p), S) = Hits(IndexPart(r, p), S) + Hits(WalkPart(r, p), S)
    <3>1. Executables(r, p) = IndexPart(r, p) \o WalkPart(r, p)
      BY <1>1, ExecutablesAre
    <3>2. IsList(IndexPart(r, p)) /\ IsList(WalkPart(r, p))
      BY <1>1, ListsAre
    <3>3. Hits(IndexPart(r, p) \o WalkPart(r, p), S) = Hits(IndexPart(r, p), S) + Hits(WalkPart(r, p), S)
      BY ONLY <3>2, BothAre
    <3>4. PassList(r, 4, p) = IndexPart(r, p) \o WalkPart(r, p)
      BY <2>4, <3>1
    <3>. QED
      BY ONLY <3>3, <3>4
  <2>7. /\ Hits(RootList(r), S) \in Nat /\ Hits(References(r, p), S) \in Nat
        /\ Hits(ShapeFindings(r, p), S) \in Nat /\ Hits(FieldFindings(r, p), S) \in Nat
        /\ Hits(Configurations(r, p), S) \in Nat
        /\ Hits(IndexPart(r, p), S) \in Nat /\ Hits(WalkPart(r, p), S) \in Nat
    BY <1>1, PartsAre
  <2>8. Hits(findings, S) =
            Hits(RootList(r), S) + (Hits(References(r, p), S)
              + (Hits(ShapeFindings(r, p), S) + Hits(FieldFindings(r, p), S))
              + Hits(Configurations(r, p), S) + (Hits(IndexPart(r, p), S) + Hits(WalkPart(r, p), S)))
    BY <2>2, <2>3, <2>4, <2>5, <2>6
  <2>9. Hits(findings, S) = Whole(r, p, S)
    BY ONLY <2>7, <2>8 DEF Whole
  <2>. QED
    BY <2>9 DEF r
<1>. QED
  BY <1>1, <1>2

\* A finding about a document is reported if and only if a list has it.
InLists(r, p, f) ==
    \/ f \in Findings(RootList(r)) \/ f \in Findings(References(r, p))
    \/ f \in Findings(ShapeFindings(r, p)) \/ f \in Findings(FieldFindings(r, p))
    \/ f \in Findings(Configurations(r, p))
    \/ f \in Findings(IndexPart(r, p)) \/ f \in Findings(WalkPart(r, p))

LEMMA HasOne ==
    ASSUME NEW list, IsList(list), NEW f
    PROVE  Hits(list, {f}) \in Nat /\ (Hits(list, {f}) # 0 <=> f \in Findings(list))
<1>1. Hits(list, {f}) \in Nat /\ (Hits(list, {f}) = 0 <=> Findings(list) \cap {f} = {})
  BY HitsAre
<1>. QED
  BY <1>1

LEMMA ReportedIff ==
    ASSUME IInv, IsDone, NEW p \in DOMAIN repository.documents, NEW f, f.document = Some(p)
    PROVE  f \in Findings(findings) <=> InLists(repository, p, f)
<1> DEFINE r == repository
           S == {f}
<1>1. IsDocument(r, p) /\ IsList(findings) /\ Hits(findings, S) = Whole(r, p, S)
  BY Ended DEF About
<1> HIDE DEF r
<1>2. /\ Hits(RootList(r), S) \in Nat /\ (Hits(RootList(r), S) # 0 <=> f \in Findings(RootList(r)))
      /\ Hits(References(r, p), S) \in Nat
      /\ (Hits(References(r, p), S) # 0 <=> f \in Findings(References(r, p)))
      /\ Hits(ShapeFindings(r, p), S) \in Nat
      /\ (Hits(ShapeFindings(r, p), S) # 0 <=> f \in Findings(ShapeFindings(r, p)))
      /\ Hits(FieldFindings(r, p), S) \in Nat
      /\ (Hits(FieldFindings(r, p), S) # 0 <=> f \in Findings(FieldFindings(r, p)))
      /\ Hits(Configurations(r, p), S) \in Nat
      /\ (Hits(Configurations(r, p), S) # 0 <=> f \in Findings(Configurations(r, p)))
      /\ Hits(IndexPart(r, p), S) \in Nat
      /\ (Hits(IndexPart(r, p), S) # 0 <=> f \in Findings(IndexPart(r, p)))
      /\ Hits(WalkPart(r, p), S) \in Nat
      /\ (Hits(WalkPart(r, p), S) # 0 <=> f \in Findings(WalkPart(r, p)))
  BY <1>1, ListsAre, HasOne
<1>3. Hits(findings, S) # 0 <=> f \in Findings(findings)
  BY <1>1, HasOne
<1> HIDE DEF S
<1>4. Whole(r, p, S) # 0 <=> InLists(r, p, f)
  <2>1. Whole(r, p, S) # 0 <=>
            \/ Hits(RootList(r), S) # 0 \/ Hits(References(r, p), S) # 0
            \/ Hits(ShapeFindings(r, p), S) # 0 \/ Hits(FieldFindings(r, p), S) # 0
            \/ Hits(Configurations(r, p), S) # 0
            \/ Hits(IndexPart(r, p), S) # 0 \/ Hits(WalkPart(r, p), S) # 0
    <3>1. /\ Hits(RootList(r), S) \in Nat /\ Hits(References(r, p), S) \in Nat
          /\ Hits(ShapeFindings(r, p), S) \in Nat /\ Hits(FieldFindings(r, p), S) \in Nat
          /\ Hits(Configurations(r, p), S) \in Nat
          /\ Hits(IndexPart(r, p), S) \in Nat /\ Hits(WalkPart(r, p), S) \in Nat
      BY <1>2
    <3> DEFINE a == Hits(RootList(r), S)
               b == Hits(References(r, p), S)
               c == Hits(ShapeFindings(r, p), S)
               d == Hits(FieldFindings(r, p), S)
               e == Hits(Configurations(r, p), S)
               x == Hits(IndexPart(r, p), S)
               y == Hits(WalkPart(r, p), S)
    <3>2. Whole(r, p, S) = a + b + c + d + e + x + y
      BY DEF Whole
    <3> HIDE DEF a, b, c, d, e, x, y
    <3>3. a \in Nat /\ b \in Nat /\ c \in Nat /\ d \in Nat /\ e \in Nat /\ x \in Nat /\ y \in Nat
      BY <3>1 DEF a, b, c, d, e, x, y
    <3>4. a + b + c + d + e + x + y # 0 <=>
              a # 0 \/ b # 0 \/ c # 0 \/ d # 0 \/ e # 0 \/ x # 0 \/ y # 0
      BY ONLY <3>3
    <3>5. Whole(r, p, S) # 0 <=> a # 0 \/ b # 0 \/ c # 0 \/ d # 0 \/ e # 0 \/ x # 0 \/ y # 0
      BY ONLY <3>2, <3>4
    <3>. QED
      BY ONLY <3>5 DEF a, b, c, d, e, x, y
  <2>. QED
    BY <1>2, <2>1 DEF InLists
<1>. QED
  BY <1>1, <1>3, <1>4 DEF r

\* The findings with a code at a pointer, and the errors there.
CodedAt(code, p, pointer) ==
    {f \in Findings(findings) : f.code = code /\ f.document = Some(p) /\ f.pointer = pointer}

WrongAt(p, pointer) ==
    {f \in Findings(findings) : f.level = "error" /\ f.document = Some(p) /\ f.pointer = pointer}

LEMMA ReportedAtIs ==
    ASSUME IInv, IsDone, NEW p \in DOMAIN repository.documents, NEW code, NEW pointer
    PROVE  /\ Cardinality(ReportedAt(code, p, pointer)) = Whole(repository, p, CodedAt(code, p, pointer))
           /\ (ReportedAt(code, p, pointer) # {} <=> CodedAt(code, p, pointer) # {})
<1>1. ReportedAt(code, p, pointer) = {i \in 1..Len(findings) : findings[i] \in CodedAt(code, p, pointer)}
  BY DEF ReportedAt, CodedAt, Findings
<1>2. Cardinality(ReportedAt(code, p, pointer)) = Hits(findings, CodedAt(code, p, pointer))
  BY <1>1 DEF Hits
<1>3. About(p, CodedAt(code, p, pointer))
  BY DEF About, CodedAt
<1>4. ReportedAt(code, p, pointer) # {} <=> CodedAt(code, p, pointer) # {}
  BY DEF ReportedAt, CodedAt, Findings
<1>. QED
  BY <1>2, <1>3, <1>4, Ended

LEMMA ErrorsAtIs ==
    ASSUME IInv, IsDone, NEW p \in DOMAIN repository.documents, NEW pointer
    PROVE  /\ Cardinality(ErrorsAt(p, pointer)) = Whole(repository, p, WrongAt(p, pointer))
           /\ (ErrorsAt(p, pointer) # {} <=> WrongAt(p, pointer) # {})
<1>1. ErrorsAt(p, pointer) = {i \in 1..Len(findings) : findings[i] \in WrongAt(p, pointer)}
  BY DEF ErrorsAt, WrongAt, Findings
<1>2. Cardinality(ErrorsAt(p, pointer)) = Hits(findings, WrongAt(p, pointer))
  BY <1>1 DEF Hits
<1>3. About(p, WrongAt(p, pointer))
  BY DEF About, WrongAt
<1>4. ErrorsAt(p, pointer) # {} <=> WrongAt(p, pointer) # {}
  BY DEF ErrorsAt, WrongAt, Findings
<1>. QED
  BY <1>2, <1>3, <1>4, Ended

\* The findings of a document's lists, when validation is done.
LEMMA ListsHeard ==
    ASSUME IInv, IsDone, NEW p \in DOMAIN repository.documents, NEW f, InLists(repository, p, f),
           f.document = Some(p)
    PROVE  f \in Findings(findings)
  BY ReportedIff

\* Findings that a set has none of.
LEMMA NoHits ==
    ASSUME NEW list, IsList(list), NEW S, \A f \in Findings(list) : f \notin S
    PROVE  Hits(list, S) = 0
  BY HitsAre
-----------------------------------------------------------------------------
(***************************************************************************)
(* What cannot be read is reported.                                        *)
(***************************************************************************)

DuplicateAt(path, pointer) == Error("duplicate_json_key", path, DuplicatePointer(pointer))

LEMMA ErrorFacts ==
    ASSUME NEW code, NEW path, NEW pointer
    PROVE  /\ Error(code, path, pointer).code = code /\ Error(code, path, pointer).pointer = pointer
           /\ Error(code, path, pointer).document = Some(path)
           /\ Error(code, path, pointer).level = "error"
           /\ InvalidField(path, pointer) = Error("invalid_document_shape", path, pointer)
  BY DEF Error, Report, InvalidField

\* The findings about the shape of a document that is no template.
LEMMA ShapeHas ==
    ASSUME NEW r, NEW p, IsDocument(r, p), Kind(p) # "ChatTemplate", NEW f
    PROVE  LET document == r.documents[p]
           IN  f \in Findings(ShapeFindings(r, p)) <=>
                 \/ document.json = <<"malformed">> /\ f = Error("invalid_json", p, None)
                 \/ \E pointer \in document.duplicates : f = DuplicateAt(p, pointer)
                 \/ document.truncated /\ f = Error("duplicate_json_key", p, None)
                 \/ document.json[1] \notin {"malformed", "object"} /\ f = InvalidField(p, None)
<1> DEFINE document == r.documents[p]
           D == document.duplicates
           F == [pointer \in D |-> <<DuplicateAt(p, pointer)>>]
           a == When(document.json = <<"malformed">>, <<Error("invalid_json", p, None)>>)
           c == When(document.truncated, <<Error("duplicate_json_key", p, None)>>)
           d == When(document.json[1] \notin {"malformed", "object"}, <<InvalidField(p, None)>>)
<1>1. PICK b : ShapeFindings(r, p) = a \o b \o c \o d /\ IsEach(b, D, F)
  BY ShapeParts DEF DuplicateAt
<1>2. document.truncated \in BOOLEAN
  BY DocumentIs DEF Readable
<1>3. /\ IsList(a) /\ (f \in Findings(a) <=> document.json = <<"malformed">> /\ f = Error("invalid_json", p, None))
      /\ IsList(c) /\ (f \in Findings(c) <=> document.truncated /\ f = Error("duplicate_json_key", p, None))
      /\ IsList(d)
      /\ (f \in Findings(d) <=> document.json[1] \notin {"malformed", "object"} /\ f = InvalidField(p, None))
  BY <1>2, NoneIs, OneIs DEF When
<1>4. IsList(b) /\ Findings(b) = UNION {Findings(F[pointer]) : pointer \in D}
  <2> HIDE DEF F, D
  <2>. QED
    BY <1>1, EachIs
<1>5. f \in Findings(b) <=> \E pointer \in D : f = DuplicateAt(p, pointer)
  <2>1. \A pointer \in D : Findings(F[pointer]) = {DuplicateAt(p, pointer)}
    BY OneIs
  <2> HIDE DEF F, D
  <2>2. f \in Findings(b) <=> \E pointer \in D : f \in Findings(F[pointer])
    BY <1>4
  <2>3. \A pointer \in D : f \in Findings(F[pointer]) <=> f = DuplicateAt(p, pointer)
    BY <2>1
  <2>. QED
    BY <2>2, <2>3
<1> HIDE DEF a, c, d, D, F
<1>6. /\ IsList(a \o b) /\ Findings(a \o b) = Findings(a) \cup Findings(b)
  BY <1>3, <1>4, BothAre
<1>7. IsList(a \o b \o c) /\ Findings(a \o b \o c) = Findings(a) \cup Findings(b) \cup Findings(c)
  BY <1>3, <1>6, BothAre
<1>8. Findings(a \o b \o c \o d) = Findings(a) \cup Findings(b) \cup Findings(c) \cup Findings(d)
  BY <1>3, <1>7, BothAre
<1>9. f \in Findings(ShapeFindings(r, p)) <=>
         f \in Findings(a) \/ f \in Findings(b) \/ f \in Findings(c) \/ f \in Findings(d)
  BY <1>1, <1>8
<1>. QED
  BY <1>3, <1>5, <1>9 DEF D

\* How many of them are about repeated members.
LEMMA ShapeCounts ==
    ASSUME NEW r, NEW p, IsDocument(r, p), Kind(p) # "ChatTemplate", NEW S,
           \A f \in Findings(ShapeFindings(r, p)) : f \in S <=> f.code = "duplicate_json_key"
    PROVE  Hits(ShapeFindings(r, p), S) =
              Cardinality(r.documents[p].duplicates) + (IF r.documents[p].truncated THEN 1 ELSE 0)
<1> DEFINE document == r.documents[p]
           D == document.duplicates
           F == [pointer \in D |-> <<DuplicateAt(p, pointer)>>]
           a == When(document.json = <<"malformed">>, <<Error("invalid_json", p, None)>>)
           c == When(document.truncated, <<Error("duplicate_json_key", p, None)>>)
           d == When(document.json[1] \notin {"malformed", "object"}, <<InvalidField(p, None)>>)
           more == IF document.truncated THEN 1 ELSE 0
<1>1. PICK b : ShapeFindings(r, p) = a \o b \o c \o d /\ IsEach(b, D, F)
  BY ShapeParts DEF DuplicateAt
<1>2. document.truncated \in BOOLEAN /\ IsFiniteSet(D)
  BY DocumentIs DEF Readable
<1>3. \A f \in Findings(ShapeFindings(r, p)) : f \in S <=> f.code = "duplicate_json_key"
  OBVIOUS
<1>4. /\ document.json = <<"malformed">> => Error("invalid_json", p, None) \notin S
      /\ \A pointer \in D : DuplicateAt(p, pointer) \in S
      /\ document.truncated => Error("duplicate_json_key", p, None) \in S
      /\ document.json[1] \notin {"malformed", "object"} => InvalidField(p, None) \notin S
  <2>2. ASSUME NEW pointer \in D PROVE DuplicateAt(p, pointer) \in S
    <3>1. DuplicateAt(p, pointer) \in Findings(ShapeFindings(r, p))
      BY ShapeHas
    <3>. QED
      BY <1>3, <3>1, ErrorFacts DEF DuplicateAt
  <2>5. document.json = <<"malformed">> => Error("invalid_json", p, None) \notin S
    <3>1. SUFFICES ASSUME document.json = <<"malformed">> PROVE Error("invalid_json", p, None) \notin S
      OBVIOUS
    <3>2. Error("invalid_json", p, None) \in Findings(ShapeFindings(r, p))
      BY <3>1, ShapeHas
    <3>. QED
      BY <1>3, <3>2, ErrorFacts
  <2>6. document.truncated => Error("duplicate_json_key", p, None) \in S
    <3>1. SUFFICES ASSUME document.truncated PROVE Error("duplicate_json_key", p, None) \in S
      OBVIOUS
    <3>2. Error("duplicate_json_key", p, None) \in Findings(ShapeFindings(r, p))
      BY <3>1, ShapeHas
    <3>. QED
      BY <1>3, <3>2, ErrorFacts
  <2>7. document.json[1] \notin {"malformed", "object"} => InvalidField(p, None) \notin S
    <3>1. SUFFICES ASSUME document.json[1] \notin {"malformed", "object"} PROVE InvalidField(p, None) \notin S
      OBVIOUS
    <3>2. InvalidField(p, None) \in Findings(ShapeFindings(r, p))
      BY <3>1, ShapeHas
    <3>. QED
      BY <1>3, <3>2, ErrorFacts
  <2>. QED
    BY <2>2, <2>5, <2>6, <2>7
<1>5. /\ IsList(a) /\ Hits(a, S) = 0 /\ IsList(c) /\ Hits(c, S) = more /\ IsList(d) /\ Hits(d, S) = 0
  BY <1>2, <1>4, NoneIs, OneIs DEF When
<1>6. \A pointer \in D : Hits(F[pointer], S) = IF pointer \in D THEN 1 ELSE 0
  BY <1>4, OneIs
<1> HIDE DEF a, c, d, D, F, more
<1>7. IsList(b) /\ Hits(b, S) = Cardinality(D)
  BY <1>1, <1>6, EachIs, EachOf
<1>8. IsList(a \o b) /\ Hits(a \o b, S) = Hits(a, S) + Hits(b, S)
  BY <1>5, <1>7, BothAre
<1>9. IsList(a \o b \o c) /\ Hits(a \o b \o c, S) = Hits(a \o b, S) + Hits(c, S)
  BY <1>5, <1>8, BothAre
<1>10. Hits(a \o b \o c \o d, S) = Hits(a \o b \o c, S) + Hits(d, S)
  BY <1>5, <1>9, BothAre
<1>11. Cardinality(D) \in Nat /\ more \in Nat
  BY <1>2, FS_CardinalityType DEF more
<1>12. Hits(ShapeFindings(r, p), S) = Cardinality(D) + more
  BY <1>1, <1>5, <1>7, <1>8, <1>9, <1>10, <1>11
<1>. QED
  BY <1>12 DEF D, more
\* What is reported of the root names it, unless it repeats members.
LEMMA RootSays ==
    ASSUME NEW r, NEW p, NEW f \in Findings(RootList(r)), f.document = Some(p)
    PROVE  /\ RootPath(r.documents) = Some(p) /\ RootOf(r) = p /\ ~r.documents[p].repeated
           /\ f.pointer = None /\ f.level = "error"
           /\ \/ /\ f.code = "root_not_object" /\ r.documents[p].json[1] # "object"
                 /\ r.documents[p].json # <<"malformed">>
              \/ f.code = "missing_architecture" /\ Usable(r.documents[p])
<1>1. RootTelling(r, f) /\ Some(p) # None
  BY RootTells DEF Some, None
<1>2. RootPath(r.documents) # None /\ Some(RootOf(r)) = Some(p)
  BY <1>1 DEF RootTelling
<1>3. RootOf(r) = p /\ RootPath(r.documents) = Some(p)
  BY <1>2, RootIs DEF Some
<1>4. RootList(r) # <<>>
  BY NoneIs
<1>5. ASSUME NEW g PROVE Findings(<<g>>) = {g}
  BY OneIs
<1>6. CASE /\ ~r.documents[p].repeated /\ r.documents[p].json[1] # "object"
           /\ RootList(r) = When(r.documents[p].json # <<"malformed">>, <<Error("root_not_object", p, None)>>)
  <2>1. /\ r.documents[p].json # <<"malformed">>
        /\ RootList(r) = <<Error("root_not_object", p, None)>>
    BY <1>4, <1>6 DEF When
  <2>2. f = Error("root_not_object", p, None)
    BY <1>5, <2>1
  <2>. QED
    BY <1>3, <1>6, <2>1, <2>2, ErrorFacts
<1>7. CASE Usable(r.documents[p]) /\ RootList(r) = <<Error("missing_architecture", p, None)>>
  <2>1. f = Error("missing_architecture", p, None)
    BY <1>5, <1>7
  <2>. QED
    BY <1>3, <1>7, <2>1, ErrorFacts DEF Usable
<1>. QED
  BY <1>2, <1>3, <1>4, <1>6, <1>7, RootCases

\* Of a document that repeats a member nothing but the shape is reported.
LEMMA RepeatedIs ==
    ASSUME NEW r, NEW p, IsDocument(r, p), r.documents[p].repeated
    PROVE  /\ Kind(p) # "ChatTemplate" /\ ~Usable(r.documents[p])
           /\ r.documents[p].json # <<"malformed">>
           /\ \A f : f.document = Some(p) => (InLists(r, p, f) <=> f \in Findings(ShapeFindings(r, p)))
           /\ \A S : About(p, S) => Whole(r, p, S) = Hits(ShapeFindings(r, p), S)
<1>1. Readable(p, r.documents[p])
  BY DocumentIs
<1>2. Kind(p) # "ChatTemplate" /\ ~Usable(r.documents[p]) /\ r.documents[p].json # <<"malformed">>
  BY <1>1 DEF Readable, Usable
<1>3. /\ References(r, p) = <<>> /\ FieldFindings(r, p) = <<>> /\ Configurations(r, p) = <<>>
      /\ IndexPart(r, p) = <<>> /\ WalkPart(r, p) = <<>>
  BY <1>2, ReferencesLocate, FieldsLocate, ConfigurationsSpeak, ExecutablesAre
<1>4. \A f \in Findings(RootList(r)) : f.document # Some(p)
  BY RootSays
<1>5. ASSUME NEW f, f.document = Some(p)
      PROVE  InLists(r, p, f) <=> f \in Findings(ShapeFindings(r, p))
  BY <1>3, <1>4, <1>5, NoneIs DEF InLists
<1>6. ASSUME NEW S, About(p, S) PROVE Whole(r, p, S) = Hits(ShapeFindings(r, p), S)
  <2>1. Hits(RootList(r), S) = 0
    BY <1>4, <1>6, RootTells, NoHits DEF About
  <2>2. Hits(<<>>, S) = 0 /\ Hits(ShapeFindings(r, p), S) \in Nat
    BY NoneIs, PartsAre
  <2>. QED
    BY ONLY <1>3, <2>1, <2>2 DEF Whole
<1>. QED
  BY <1>2, <1>5, <1>6

LEMMA RepeatedFindings == IInv => RepeatedIsNotInterpreted
<1> SUFFICES ASSUME IInv, IsDone, NEW p \in DOMAIN repository.documents, repository.documents[p].repeated
             PROVE  /\ \A i \in 1..Len(findings) : findings[i].document = Some(p) =>
                          \/ findings[i].code = "duplicate_json_key"
                          \/ findings[i].code = "invalid_document_shape" /\ findings[i].pointer = None
                    /\ Cardinality({i \in 1..Len(findings) :
                                       /\ findings[i].document = Some(p)
                                       /\ findings[i].code = "duplicate_json_key"}) =
                          Cardinality(repository.documents[p].duplicates)
                          + IF repository.documents[p].truncated THEN 1 ELSE 0
  BY DEF RepeatedIsNotInterpreted
<1> DEFINE r == repository
           S == {f \in Findings(findings) : f.document = Some(p) /\ f.code = "duplicate_json_key"}
<1>1. IsDocument(r, p) /\ IsList(findings) /\ \A T : About(p, T) => Hits(findings, T) = Whole(r, p, T)
  BY Ended
<1>2. /\ Kind(p) # "ChatTemplate" /\ r.documents[p].json # <<"malformed">>
      /\ \A f : f.document = Some(p) => (InLists(r, p, f) <=> f \in Findings(ShapeFindings(r, p)))
      /\ \A T : About(p, T) => Whole(r, p, T) = Hits(ShapeFindings(r, p), T)
  BY <1>1, RepeatedIs
<1>3. \A f : f.document = Some(p) => (f \in Findings(findings) <=> f \in Findings(ShapeFindings(r, p)))
  BY <1>2, ReportedIff
<1>4. ASSUME NEW i \in 1..Len(findings), findings[i].document = Some(p)
      PROVE  \/ findings[i].code = "duplicate_json_key"
             \/ findings[i].code = "invalid_document_shape" /\ findings[i].pointer = None
  <2>1. findings[i] \in Findings(ShapeFindings(r, p))
    BY <1>3, <1>4 DEF Findings
  <2>2. \/ \E pointer \in r.documents[p].duplicates : findings[i] = DuplicateAt(p, pointer)
        \/ findings[i] = Error("duplicate_json_key", p, None)
        \/ findings[i] = InvalidField(p, None)
    BY <1>1, <1>2, <2>1, ShapeHas
  <2>. QED
    BY <2>2, ErrorFacts DEF DuplicateAt
<1>5. {i \in 1..Len(findings) : findings[i].document = Some(p) /\ findings[i].code = "duplicate_json_key"}
         = {i \in 1..Len(findings) : findings[i] \in S}
  BY DEF Findings
<1>6. Hits(findings, S) = Hits(ShapeFindings(r, p), S)
  BY <1>1, <1>2 DEF About
<1>7. \A f \in Findings(ShapeFindings(r, p)) : f.document = Some(p)
  BY <1>1, ShapeTells DEF Tells, Telling
<1>8. \A f \in Findings(ShapeFindings(r, p)) : f \in S <=> f.code = "duplicate_json_key"
  BY <1>3, <1>7
<1>9. Hits(ShapeFindings(r, p), S) =
          Cardinality(r.documents[p].duplicates) + (IF r.documents[p].truncated THEN 1 ELSE 0)
  <2> HIDE DEF S, r
  <2>. QED
    BY <1>1, <1>2, <1>8, ShapeCounts
<1>10. Cardinality({i \in 1..Len(findings) : findings[i].document = Some(p) /\ findings[i].code = "duplicate_json_key"})
          = Cardinality(r.documents[p].duplicates) + (IF r.documents[p].truncated THEN 1 ELSE 0)
  BY <1>5, <1>6, <1>9 DEF Hits
<1>. QED
  BY <1>4, <1>10

\* A finding at no pointer that says a view is refused.
LEMMA RefusedIs ==
    ASSUME NEW r, NEW p, IsDocument(r, p), Kind(p) # "ChatTemplate", NEW f, f.document = Some(p),
           \/ f.code = "invalid_json" /\ f.pointer = None
           \/ f.code = "invalid_document_shape" /\ f.pointer = None
           \/ f.code = "duplicate_json_key"
    PROVE  InLists(r, p, f) <=> f \in Findings(ShapeFindings(r, p))
<1>1. f \notin Findings(RootList(r))
  BY RootSays
<1>2. f \notin Findings(References(r, p))
  <2>1. Locates(References(r, p), p, ReferenceCodes)
    BY ReferencesLocate
  <2>2. \A g \in Findings(References(r, p)) : g.pointer # None /\ g.code \in ReferenceCodes
    BY <2>1, Located
  <2>3. "duplicate_json_key" \notin ReferenceCodes
    BY DEF ReferenceCodes, ShardCodes, AdapterCodes
  <2>. QED
    BY <2>2, <2>3
<1>3. f \notin Findings(FieldFindings(r, p))
  <2>1. Locates(FieldFindings(r, p), p, FieldCodes)
    BY FieldsLocate
  <2>2. \A g \in Findings(FieldFindings(r, p)) : g.pointer # None /\ g.code \in FieldCodes
    BY <2>1, Located
  <2>3. "duplicate_json_key" \notin FieldCodes
    BY DEF FieldCodes
  <2>. QED
    BY <2>2, <2>3
<1>4. f \notin Findings(Configurations(r, p))
  <2>1. \A g \in Findings(Configurations(r, p)) : g.code \in ConfigurationCodes
    BY ConfigurationsSpeak DEF Speaks, Tells, Telling
  <2>. QED
    BY <2>1 DEF ConfigurationCodes
<1>5. f \notin Findings(IndexPart(r, p)) /\ f \notin Findings(WalkPart(r, p))
  <2>1. Locates(IndexPart(r, p), p, CodeCodes)
        /\ Tells(WalkPart(r, p), p, InertCodes, PointersTo(r.documents[p].json))
    BY ExecutablesAre
  <2>2. /\ \A g \in Findings(IndexPart(r, p)) : g.code \in CodeCodes
        /\ \A g \in Findings(WalkPart(r, p)) : g.code \in InertCodes
    BY <2>1, Located DEF Tells, Telling
  <2>. QED
    BY <2>2 DEF CodeCodes, InertCodes
<1>. QED
  BY <1>1, <1>2, <1>3, <1>4, <1>5 DEF InLists

LEMMA RefusedViews == IInv => ViewsAreRefusedIffReported
<1> SUFFICES ASSUME IInv, IsDone, NEW p \in DOMAIN repository.documents, Kind(p) # "ChatTemplate"
             PROVE  (ViewError(repository.documents[p]) # {}
                       <=> \/ ReportedAt("invalid_json", p, None) # {}
                           \/ ReportedAt("invalid_document_shape", p, None) # {}
                           \/ \E i \in 1..Len(findings) :
                                 findings[i].code = "duplicate_json_key" /\ findings[i].document = Some(p))
  BY DEF ViewsAreRefusedIffReported
<1> DEFINE r == repository
           document == r.documents[p]
           list == ShapeFindings(r, p)
           Refused1(f) == \/ f.code = "invalid_json" /\ f.pointer = None
                          \/ f.code = "invalid_document_shape" /\ f.pointer = None
                          \/ f.code = "duplicate_json_key"
<1>1. IsDocument(r, p)
  BY Ended
<1>2. Readable(p, document)
  BY <1>1, DocumentIs
<1>3. \A f : f.document = Some(p) /\ Refused1(f) => (f \in Findings(findings) <=> f \in Findings(list))
  BY <1>1, ReportedIff, RefusedIs
<1>4. (\/ ReportedAt("invalid_json", p, None) # {}
       \/ ReportedAt("invalid_document_shape", p, None) # {}
       \/ \E i \in 1..Len(findings) :
             findings[i].code = "duplicate_json_key" /\ findings[i].document = Some(p))
      <=> \E f \in Findings(findings) : f.document = Some(p) /\ Refused1(f)
  BY DEF ReportedAt, Findings
<1>5. \A f \in Findings(list) : f.document = Some(p) /\ Refused1(f)
  <2>1. ASSUME NEW f \in Findings(list) PROVE f.document = Some(p) /\ Refused1(f)
    <3>1. \/ f = Error("invalid_json", p, None)
          \/ \E pointer \in document.duplicates : f = DuplicateAt(p, pointer)
          \/ f = Error("duplicate_json_key", p, None)
          \/ f = InvalidField(p, None)
      BY <1>1, ShapeHas
    <3>. QED
      BY <3>1, ErrorFacts DEF DuplicateAt
  <2>. QED
    BY <2>1
<1>6. (\E f \in Findings(list) : TRUE) <=>
          \/ document.json = <<"malformed">> \/ document.duplicates # {} \/ document.truncated
          \/ document.json[1] \notin {"malformed", "object"}
  BY <1>1, ShapeHas
<1>7. ViewError(document) # {} <=> document.repeated \/ document.json[1] # "object"
  BY DEF ViewError
<1>8. document.repeated <=> document.duplicates # {} \/ document.truncated
  BY <1>2 DEF Readable
<1>9. document.json[1] = "malformed" <=> document.json = <<"malformed">>
  BY <1>2 DEF Readable
<1>. QED
  BY <1>3, <1>4, <1>5, <1>6, <1>7, <1>8, <1>9

\* A document that no view is made of is reported, once for every repeated
\* member, and nothing else is made of what it says.
THEOREM Unreadable == Spec => []UnreadableIsReported
<1>1. IInv => UnreadableIsReported
  BY RepeatedFindings, RefusedViews DEF UnreadableIsReported
<1>. QED
  BY <1>1, Invariance, PTL
-----------------------------------------------------------------------------
(***************************************************************************)
(* Findings with one code, or errors, at one pointer.                      *)
(***************************************************************************)

\* A set that has those that are reported, and none of another kind.
SortOf(S, code, p, pointer) ==
    /\ CodedAt(code, p, pointer) \subseteq S
    /\ \A f \in S : f.code = code /\ f.document = Some(p) /\ f.pointer = pointer

WrongOf(S, p, pointer) ==
    /\ WrongAt(p, pointer) \subseteq S
    /\ \A f \in S : f.level = "error" /\ f.document = Some(p) /\ f.pointer = pointer

LEMMA ReportedCount ==
    ASSUME IInv, IsDone, NEW p \in DOMAIN repository.documents, NEW code, NEW pointer,
           NEW S, SortOf(S, code, p, pointer)
    PROVE  About(p, S) /\ Cardinality(ReportedAt(code, p, pointer)) = Whole(repository, p, S)
<1>1. ReportedAt(code, p, pointer) = {i \in 1..Len(findings) : findings[i] \in S}
  BY DEF ReportedAt, SortOf, CodedAt, Findings
<1>2. Cardinality(ReportedAt(code, p, pointer)) = Hits(findings, S)
  BY <1>1 DEF Hits
<1>3. About(p, S)
  BY DEF About, SortOf
<1>. QED
  BY <1>2, <1>3, Ended

LEMMA ErrorCount ==
    ASSUME IInv, IsDone, NEW p \in DOMAIN repository.documents, NEW pointer,
           NEW S, WrongOf(S, p, pointer)
    PROVE  About(p, S) /\ Cardinality(ErrorsAt(p, pointer)) = Whole(repository, p, S)
<1>1. ErrorsAt(p, pointer) = {i \in 1..Len(findings) : findings[i] \in S}
  BY DEF ErrorsAt, WrongOf, WrongAt, Findings
<1>2. Cardinality(ErrorsAt(p, pointer)) = Hits(findings, S)
  BY <1>1 DEF Hits
<1>3. About(p, S)
  BY DEF About, WrongOf
<1>. QED
  BY <1>2, <1>3, Ended

\* Lists that a set of findings has nothing to do with.
LEMMA Unspoken ==
    ASSUME NEW path, NEW codes, NEW list, Speaks(list, path, codes),
           NEW S, \A f \in S : f.code \notin codes
    PROVE  Hits(list, S) = 0
  BY Untold DEF Speaks, Telling

LEMMA Unlocated ==
    ASSUME NEW path, NEW codes, NEW list, Locates(list, path, codes),
           NEW S, \A f \in S : f.code \notin codes \/ f.pointer = None
    PROVE  Hits(list, S) = 0
  BY Untold DEF Locates, Telling

LEMMA RootUnspoken ==
    ASSUME NEW r, NEW S, \A f \in S : f.code \notin RootCodes \/ f.pointer # None
    PROVE  Hits(RootList(r), S) = 0
  BY RootTells, NoHits DEF RootTelling

LEMMA ShapeUnspoken ==
    ASSUME NEW r, NEW p, IsDocument(r, p), NEW S, \A f \in S : f.code \notin ShapeCodes
    PROVE  Hits(ShapeFindings(r, p), S) = 0
  BY ShapeTells, Unspoken DEF Speaks

-----------------------------------------------------------------------------
(* Executable metadata. *)

InertOnly(S) == \A f \in S : f.code = "executable_reference_inert"

LEMMA InertIs ==
    ASSUME NEW r, NEW p, IsDocument(r, p), NEW S, InertOnly(S)
    PROVE  Whole(r, p, S) = Hits(IndexPart(r, p), S) + Hits(WalkPart(r, p), S)
<1>1. /\ "executable_reference_inert" \notin RootCodes /\ "executable_reference_inert" \notin ReferenceCodes
      /\ "executable_reference_inert" \notin ShapeCodes /\ "executable_reference_inert" \notin FieldCodes
      /\ "executable_reference_inert" \notin ConfigurationCodes
  BY DEF RootCodes, ReferenceCodes, ShardCodes, AdapterCodes, ShapeCodes, FieldCodes, ConfigurationCodes
<1>2. Hits(RootList(r), S) = 0
  BY <1>1, RootUnspoken DEF InertOnly
<1>3. Hits(References(r, p), S) = 0
  BY <1>1, ReferencesLocate, Unlocated DEF InertOnly
<1>4. Hits(ShapeFindings(r, p), S) = 0
  BY <1>1, ShapeUnspoken DEF InertOnly
<1>5. Hits(FieldFindings(r, p), S) = 0
  BY <1>1, FieldsLocate, Unlocated DEF InertOnly
<1>6. Hits(Configurations(r, p), S) = 0
  BY <1>1, ConfigurationsSpeak, Unspoken DEF InertOnly
<1>7. Hits(IndexPart(r, p), S) \in Nat /\ Hits(WalkPart(r, p), S) \in Nat
  BY PartsAre
<1>. QED
  BY ONLY <1>2, <1>3, <1>4, <1>5, <1>6, <1>7 DEF Whole

InertFacts(path, pointer) ==
    /\ Inert(path, pointer).code = "executable_reference_inert"
    /\ Inert(path, pointer).document = Some(path) /\ Inert(path, pointer).pointer = pointer
    /\ Inert(path, pointer).level = "warning"

LEMMA InertHas == \A path, pointer : InertFacts(path, pointer)
  BY DEF InertFacts, Inert, Warning, Report

\* The components of an index whose code is not known.
CustomNames(r, p) ==
    {name \in PresentNames(r.documents[p].json[2]) :
        /\ r.documents[p].json[2][name][2][1] # Null
        /\ r.documents[p].json[2][name][2][1][2] \notin KnownLibraries}

IsIndex(r, p) == Kind(p) = "ModelIndex" /\ Usable(r.documents[p])

LEMMA CodeCounts ==
    ASSUME NEW r, NEW p, IsDocument(r, p), IsIndex(r, p), NEW pointer, NEW S,
           \A f \in S : f.code = "executable_reference_inert" /\ f.pointer = pointer,
           Inert(p, pointer) \in S
    PROVE  Hits(IndexPart(r, p), S) = Cardinality({name \in CustomNames(r, p) : Top(name) = pointer})
<1> DEFINE object == r.documents[p].json[2]
           names == PresentNames(object)
           some == {name \in CustomNames(r, p) : Top(name) = pointer}
           F == [name \in names |-> ComponentCode(p, object, name)]
<1>1. IsEach(IndexExecutables(r, p), names, F)
  BY IndexExecutablesEach DEF IsIndex
<1>2. IndexPart(r, p) = IndexExecutables(r, p)
  BY DEF IndexPart, IsIndex, When
<1>3. some \subseteq names
  BY DEF CustomNames
<1>4. ASSUME NEW name \in names
      PROVE  Hits(F[name], S) = IF name \in some THEN 1 ELSE 0
  <2> DEFINE library == object[name][2][1]
  <2>1. F[name] = IF library = Null
                  THEN <<Warning("custom_component_requires_code", p, Top(name))>>
                  ELSE When(library[2] \notin KnownLibraries, <<Inert(p, Top(name))>>)
    BY DEF ComponentCode
  <2>2. name \in some <=> library # Null /\ library[2] \notin KnownLibraries /\ Top(name) = pointer
    BY DEF CustomNames
  <2>3. Warning("custom_component_requires_code", p, Top(name)).code = "custom_component_requires_code"
    BY DEF Warning, Report
  <2>4. Warning("custom_component_requires_code", p, Top(name)) \notin S
    BY <2>3
  <2>5. Inert(p, Top(name)) \in S <=> Top(name) = pointer
    BY InertHas DEF InertFacts
  <2> HIDE DEF library, F, some
  <2>. QED
    BY <2>1, <2>2, <2>4, <2>5, OneIs, NoneIs DEF When
<1> HIDE DEF names, F, some
<1>5. Hits(IndexExecutables(r, p), S) = Cardinality(some)
  BY <1>1, <1>3, <1>4, EachOf
<1>. QED
  BY <1>2, <1>5 DEF some

\* What is reported at a pointer, and without one.
LEMMA InertCounts ==
    ASSUME NEW r, NEW p, IsDocument(r, p), ~r.documents[p].repeated, NEW pointer, NEW S,
           \A f \in S : f.code = "executable_reference_inert" /\ f.pointer = pointer,
           Inert(p, pointer) \in S
    PROVE  Hits(WalkPart(r, p), S) =
              Cardinality({q \in Places(r.documents[p].json) :
                  q # <<>> /\ Executable(r.documents[p].json, q) /\ Pointer(q) = pointer})
<1> DEFINE json == r.documents[p].json
<1>1. WalkPart(r, p) = Walk(p, json)
  BY DEF WalkPart, When
<1>2. Nested(json, MaxNesting)
  BY DocumentIs
<1>3. Hits(Walk(p, json), S) = Cardinality(Marks(p, json, S))
  BY <1>2, WalkCounts
<1>4. Marks(p, json, S) =
         {q \in Places(json) : q # <<>> /\ Executable(json, q) /\ Pointer(q) = pointer}
  <2>1. \A q : Inert(p, Pointer(q)) \in S <=> Pointer(q) = pointer
    BY InertHas DEF InertFacts
  <2>. QED
    BY <2>1 DEF Marks
<1>. QED
  BY <1>1, <1>3, <1>4
\* The library and class of a tuple that is present.
LEMMA PresentIs ==
    ASSUME NEW object, NEW name
    PROVE  /\ name \in PresentNames(object) => name \in Declared(object)
           /\ name \in Declared(object) => name \in DOMAIN object /\ ~Metadata(name) /\ IsPair(object[name])
  BY DEF PresentNames, PresentTuple, Declared, TupleShaped

\* A component of an index is no executable member.
LEMMA ComponentIsNoLocator ==
    ASSUME NEW json, Nested(json, MaxNesting), json[1] = "object", NEW name \in Declared(json[2]),
           <<name>> \in Places(json)
    PROVE  ~Executable(json, <<name>>)
<1> DEFINE object == json[2]
<1>1. ~Metadata(name) /\ IsPair(object[name])
  BY PresentIs
<1>2. Last(<<name>>) = name /\ SubSeq(<<name>>, 1, Len(<<name>>) - 1) = <<>>
  <2>1. Len(<<name>>) = 1 /\ <<name>>[1] = name
    OBVIOUS
  <2> DEFINE front == SubSeq(<<name>>, 1, 0)
  <2>2. \A i \in 1..0 : <<name>>[i] \in {name}
    OBVIOUS
  <2>3. front \in Seq({name}) /\ Len(front) = 0
    BY <2>2, SubSeqProperties
  <2> HIDE DEF front
  <2>4. front = <<>>
    BY <2>3
  <2>. QED
    BY <2>1, <2>4 DEF Last, front
<1>3. At(json, <<>>) = json
  <2>1. <<>> \in Seq({name}) /\ name \in {name}
    OBVIOUS
  <2>. QED
    BY ONLY <2>1, AtSteps
<1>4. name \notin Locators
  <2>1. Metadata(<<"auto_map">>) /\ Metadata(<<"auto_mapping">>) /\ Metadata(<<"custom_pipeline">>)
        /\ Metadata(<<"trust_remote_code">>)
    BY DEF Metadata
  <2>2. Metadata(<<"_module">>)
    BY UnderscoredAssumption DEF Metadata
  <2>. QED
    BY <1>1, <2>1, <2>2 DEF Locators
<1>5. ~CustomClass(name, object[name])
  <2>1. object[name][1] = "list" /\ ~IsText(object[name])
    BY <1>1 DEF IsPair, IsText
  <2>. QED
    BY <2>1 DEF CustomClass
<1>. QED
  BY <1>2, <1>3, <1>4, <1>5 DEF Executable, ExecutableLocator

LEMMA OneOrNone ==
    ASSUME NEW set, NEW x, NEW condition \in BOOLEAN, set = IF condition THEN {x} ELSE {}
    PROVE  Cardinality(set) = IF condition THEN 1 ELSE 0
  BY FS_EmptySet, FS_Singleton

LEMMA PointerIs ==
    ASSUME NEW place, Len(place) <= MaxPointer, NEW q
    PROVE  Pointer(q) = Some(place) <=> q = place
<1>1. Some(place) # None /\ (Some(q) = Some(place) => q = place)
  BY DEF Some, None
<1>. QED
  BY <1>1 DEF Pointer

LEMMA ExecutableFindings == IInv => ExecutablesAreReportedOnce
<1> SUFFICES ASSUME IInv, IsDone, NEW p \in DOMAIN repository.documents,
                    ~repository.documents[p].repeated
             PROVE  LET value  == repository.documents[p].json
                        places == {place \in Places(value) \ {<<>>} : Executable(value, place)}
                        custom == IF p \in IndexDocuments
                                  THEN {<<name>> : name \in {n \in Declared(value[2]) :
                                           /\ PresentTuple(value[2][n]) /\ value[2][n][2][1] # Null
                                           /\ value[2][n][2][1][2] \notin KnownLibraries}}
                                  ELSE {}
                    IN  /\ \A place \in Places(value) : Len(place) <= MaxPointer =>
                              ReportedOnce(ReportedAt("executable_reference_inert", p, Some(place)),
                                           place \in places \cup custom)
                        /\ Cardinality(ReportedAt("executable_reference_inert", p, None)) =
                              Cardinality({place \in places : Len(place) > MaxPointer})
  BY DEF ExecutablesAreReportedOnce
<1> DEFINE r == repository
           code == "executable_reference_inert"
           value == repository.documents[p].json
           places == {place \in Places(value) \ {<<>>} : Executable(value, place)}
           custom == IF p \in IndexDocuments
                     THEN {<<name>> : name \in {n \in Declared(value[2]) :
                              /\ PresentTuple(value[2][n]) /\ value[2][n][2][1] # Null
                              /\ value[2][n][2][1][2] \notin KnownLibraries}}
                     ELSE {}
           Set(pointer) == CodedAt(code, p, pointer) \cup {Inert(p, pointer)}
<1>1. IsDocument(r, p) /\ Nested(value, MaxNesting)
  BY Ended, DocumentIs
<1>2. p \in IndexDocuments <=> IsIndex(r, p)
  BY DEF IndexDocuments, IsIndex
<1>3. custom = IF IsIndex(r, p) THEN {<<name>> : name \in CustomNames(r, p)} ELSE {}
  <2>1. CustomNames(r, p) = {n \in Declared(value[2]) :
                              /\ PresentTuple(value[2][n]) /\ value[2][n][2][1] # Null
                              /\ value[2][n][2][1][2] \notin KnownLibraries}
    <3>1. \A n \in Declared(value[2]) : PresentTuple(value[2][n]) <=> n \in PresentNames(value[2])
      BY DEF Declared, PresentNames
    <3>. QED
      BY <3>1, PresentIs DEF CustomNames
  <2>. QED
    BY <1>2, <2>1
<1>4. ASSUME NEW pointer
      PROVE  /\ Cardinality(ReportedAt(code, p, pointer)) =
                   Hits(IndexPart(r, p), Set(pointer)) + Hits(WalkPart(r, p), Set(pointer))
             /\ Hits(WalkPart(r, p), Set(pointer)) =
                   Cardinality({q \in places : Pointer(q) = pointer})
             /\ Hits(IndexPart(r, p), Set(pointer)) =
                   IF IsIndex(r, p) THEN Cardinality({name \in CustomNames(r, p) : Top(name) = pointer}) ELSE 0
  <2> DEFINE S == Set(pointer)
  <2>1. \A f \in S : f.code = code /\ f.document = Some(p) /\ f.pointer = pointer
    BY InertHas DEF InertFacts, CodedAt
  <2>2. SortOf(S, code, p, pointer) /\ InertOnly(S) /\ Inert(p, pointer) \in S
    BY <2>1 DEF SortOf, InertOnly
  <2>3. {q \in Places(value) : q # <<>> /\ Executable(value, q) /\ Pointer(q) = pointer}
            = {q \in places : Pointer(q) = pointer}
    OBVIOUS
  <2>4. ~IsIndex(r, p) => IndexPart(r, p) = <<>>
    BY DEF IsIndex, IndexPart, IndexExecutables, When
  <2> HIDE DEF S, places, r
  <2>5. Cardinality(ReportedAt(code, p, pointer)) = Whole(repository, p, S)
    BY <2>2, ReportedCount
  <2>6. Whole(r, p, S) = Hits(IndexPart(r, p), S) + Hits(WalkPart(r, p), S)
    BY <1>1, <2>2, InertIs
  <2>7. Hits(WalkPart(r, p), S) = Cardinality({q \in places : Pointer(q) = pointer})
    <3>1. ~r.documents[p].repeated /\ value = r.documents[p].json
      BY DEF r
    <3>2. Hits(WalkPart(r, p), S) =
              Cardinality({q \in Places(r.documents[p].json) :
                  q # <<>> /\ Executable(r.documents[p].json, q) /\ Pointer(q) = pointer})
      BY <1>1, <2>1, <2>2, <3>1, InertCounts
    <3>. QED
      BY <2>3, <3>1, <3>2
  <2>8. Hits(IndexPart(r, p), S) =
            IF IsIndex(r, p) THEN Cardinality({name \in CustomNames(r, p) : Top(name) = pointer}) ELSE 0
    <3>1. CASE IsIndex(r, p)
      BY <1>1, <2>1, <2>2, <3>1, CodeCounts
    <3>2. CASE ~IsIndex(r, p)
      BY <2>4, <3>2, NoneIs
    <3>. QED
      BY <3>1, <3>2
  <2>. QED
    BY <2>5, <2>6, <2>7, <2>8 DEF S, r
<1> HIDE DEF Set, r, custom
<1>5. ASSUME NEW place \in Places(value), Len(place) <= MaxPointer
      PROVE  ReportedOnce(ReportedAt(code, p, Some(place)), place \in places \cup custom)
  <2> DEFINE pointer == Some(place)
             here == {q \in places : Pointer(q) = pointer}
             named == {name \in CustomNames(r, p) : Top(name) = pointer}
  <2>1. here = IF place \in places THEN {place} ELSE {}
    BY <1>5, PointerIs
  <2>2. Cardinality(here) = IF place \in places THEN 1 ELSE 0
    <3>1. (place \in places) \in BOOLEAN
      OBVIOUS
    <3> HIDE DEF here, places
    <3>. QED
      BY <2>1, <3>1, OneOrNone
  <2>3. \A name : Top(name) = pointer <=> place = <<name>>
    BY PointersAre DEF Some
  <2>4. (IF IsIndex(r, p) THEN Cardinality(named) ELSE 0) = IF place \in custom THEN 1 ELSE 0
    <3>1. CASE IsIndex(r, p) /\ place \in custom
      <4>1. PICK name \in CustomNames(r, p) : place = <<name>>
        BY <1>3, <3>1
      <4>2. named = {name}
        BY <2>3, <4>1
      <4>. QED
        BY <3>1, <4>2, FS_Singleton
    <3>2. CASE IsIndex(r, p) /\ place \notin custom
      <4>1. named = {}
        BY <1>3, <2>3, <3>2
      <4>. QED
        BY <3>2, <4>1, FS_EmptySet
    <3>3. CASE ~IsIndex(r, p)
      BY <1>3, <3>3
    <3>. QED
      BY <3>1, <3>2, <3>3
  <2>5. ~(place \in custom /\ place \in places)
    <3>1. SUFFICES ASSUME place \in custom, place \in places PROVE FALSE
      OBVIOUS
    <3>2. IsIndex(r, p)
      BY <1>3, <3>1
    <3>3. PICK name \in CustomNames(r, p) : place = <<name>>
      BY <1>3, <3>1, <3>2
    <3>4. name \in Declared(value[2]) /\ value[1] = "object"
      BY <3>2, <3>3, PresentIs DEF CustomNames, IsIndex, Usable, r
    <3>5. ~Executable(value, <<name>>)
      BY <1>1, <3>3, <3>4, ComponentIsNoLocator
    <3>. QED
      BY <3>1, <3>3, <3>5
  <2>6. Cardinality(ReportedAt(code, p, pointer)) =
            (IF place \in custom THEN 1 ELSE 0) + (IF place \in places THEN 1 ELSE 0)
    <3> HIDE DEF here, named, places, pointer
    <3>1. Cardinality(ReportedAt(code, p, pointer)) =
             Hits(IndexPart(r, p), Set(pointer)) + Hits(WalkPart(r, p), Set(pointer))
      BY <1>4
    <3>2. Hits(WalkPart(r, p), Set(pointer)) = Cardinality(here)
      BY <1>4 DEF here
    <3>3. Hits(IndexPart(r, p), Set(pointer)) = IF IsIndex(r, p) THEN Cardinality(named) ELSE 0
      BY <1>4 DEF named
    <3>. QED
      BY <2>2, <2>4, <3>1, <3>2, <3>3
  <2> HIDE DEF places, pointer
  <2>7. Cardinality(ReportedAt(code, p, pointer)) = IF place \in places \cup custom THEN 1 ELSE 0
    BY ONLY <2>5, <2>6
  <2>. QED
    BY <2>7 DEF ReportedOnce, pointer
<1>6. Cardinality(ReportedAt(code, p, None)) = Cardinality({place \in places : Len(place) > MaxPointer})
  <2> DEFINE deep == {place \in places : Len(place) > MaxPointer}
             here == {q \in places : Pointer(q) = None}
  <2>1. here = deep
    <3>1. \A q \in places : Len(q) \in Nat
      BY <1>1, PlaceFacts
    <3>2. \A q : Some(q) # None
      BY DEF Some, None
    <3>3. \A q \in places : Len(q) > MaxPointer <=> ~(Len(q) <= MaxPointer)
      BY <3>1, ValidationAssumption
    <3> HIDE DEF places
    <3>. QED
      BY <3>2, <3>3 DEF Pointer
  <2>2. {name \in CustomNames(r, p) : Top(name) = None} = {}
    BY PointersAre, SomeIsNotNone
  <2>3. IsFiniteSet(here)
    <3>1. IsFiniteSet(Places(value)) /\ here \subseteq Places(value)
      BY <1>1, PlaceFacts
    <3> HIDE DEF here
    <3>. QED
      BY <3>1, FS_Subset
  <2> HIDE DEF places, here, deep
  <2>4. Cardinality(here) \in Nat
    BY <2>3, FS_CardinalityType
  <2>5. Hits(WalkPart(r, p), Set(None)) = Cardinality(here)
    BY <1>4 DEF here
  <2>6. Hits(IndexPart(r, p), Set(None)) = 0
    BY <1>4, <2>2, FS_EmptySet
  <2>7. Cardinality(ReportedAt(code, p, None)) = Cardinality(here)
    <3>1. Cardinality(ReportedAt(code, p, None)) =
             Hits(IndexPart(r, p), Set(None)) + Hits(WalkPart(r, p), Set(None))
      BY <1>4
    <3>. QED
      BY ONLY <2>4, <2>5, <2>6, <3>1
  <2>. QED
    BY <2>1, <2>7 DEF deep
<1>. QED
  BY <1>5, <1>6 DEF custom

\* Whatever names code that a loader might run, at any depth and beneath
\* another such name, is reported once.
THEOREM ExecutablesReported == Spec => []ExecutablesAreReportedOnce
<1>1. IInv => ExecutablesAreReportedOnce
  BY ExecutableFindings
<1>. QED
  BY <1>1, Invariance, PTL
-----------------------------------------------------------------------------
(***************************************************************************)
(* Normalization is explained.                                             *)
(***************************************************************************)

LEMMA RootKinds == Kind(ModelIndexPath) = "ModelIndex" /\ Kind(ConfigPath) = "Config"
<1>1. /\ Name(ModelIndexPath)[1] = "model_index.json" /\ Name(ConfigPath)[1] = "config.json"
  BY DEF Name, ModelIndexPath, ConfigPath
<1>2. /\ "model_index.json" \in DOMAIN Kinds /\ Kinds["model_index.json"] = "ModelIndex"
      /\ "config.json" \in DOMAIN Kinds /\ Kinds["config.json"] = "Config"
  BY DEF Kinds
<1>. QED
  BY <1>1, <1>2 DEF Kind

Structural == {"invalid_json", "duplicate_json_key"}

\* Only the pass over shapes reports what the parser found.
LEMMA ShapeOnly ==
    ASSUME NEW r, NEW p, IsDocument(r, p), NEW f, f.document = Some(p), f.code \in Structural
    PROVE  InLists(r, p, f) <=> f \in Findings(ShapeFindings(r, p))
<1>1. f \notin Findings(RootList(r))
  BY RootSays DEF Structural
<1>2. f \notin Findings(References(r, p))
  <2>1. Locates(References(r, p), p, ReferenceCodes)
    BY ReferencesLocate
  <2>2. \A g \in Findings(References(r, p)) : g.code \in ReferenceCodes
    BY <2>1, Located
  <2>. QED
    BY <2>2 DEF ReferenceCodes, ShardCodes, AdapterCodes, Structural
<1>3. f \notin Findings(FieldFindings(r, p))
  <2>1. Locates(FieldFindings(r, p), p, FieldCodes)
    BY FieldsLocate
  <2>2. \A g \in Findings(FieldFindings(r, p)) : g.code \in FieldCodes
    BY <2>1, Located
  <2>. QED
    BY <2>2 DEF FieldCodes, Structural
<1>4. f \notin Findings(Configurations(r, p))
  <2>1. \A g \in Findings(Configurations(r, p)) : g.code \in ConfigurationCodes
    BY ConfigurationsSpeak DEF Speaks, Tells, Telling
  <2>. QED
    BY <2>1 DEF ConfigurationCodes, Structural
<1>5. f \notin Findings(IndexPart(r, p)) /\ f \notin Findings(WalkPart(r, p))
  <2>1. Locates(IndexPart(r, p), p, CodeCodes)
        /\ Tells(WalkPart(r, p), p, InertCodes, PointersTo(r.documents[p].json))
    BY ExecutablesAre
  <2>2. /\ \A g \in Findings(IndexPart(r, p)) : g.code \in CodeCodes
        /\ \A g \in Findings(WalkPart(r, p)) : g.code \in InertCodes
    BY <2>1, Located DEF Tells, Telling
  <2>. QED
    BY <2>2 DEF CodeCodes, InertCodes, Structural
<1>. QED
  BY <1>1, <1>2, <1>3, <1>4, <1>5 DEF InLists

\* What has the code of a finding about the root is one.
LEMMA RootOnly ==
    ASSUME IInv, IsDone, NEW f
    PROVE  f \in Findings(findings) /\ f.code \in RootCodes <=> f \in Findings(RootList(repository))
<1> DEFINE r == repository
<1>1. Constructed(r) /\ Heard(r, findings) /\ Findings(RootList(r)) \subseteq Findings(findings)
  BY DEF IInv, IsDone
<1>2. \A g \in Findings(RootList(r)) : g.code \in RootCodes
  BY RootTells DEF RootTelling
<1>3. ASSUME NEW i \in 1..4, NEW p \in DOMAIN r.documents, f \in Findings(PassList(r, i, p))
      PROVE  f.code \notin RootCodes
  <2>1. IsDocument(r, p)
    BY <1>1 DEF IsDocument
  <2>2. f.code \in PassCodes
    BY <1>3, <2>1, PassSpeaks DEF Speaks, Tells, Telling, PassList
  <2>3. PassCodes \cap RootCodes = {}
    BY DEF PassCodes, RootCodes, ReferenceCodes, ShardCodes, AdapterCodes, ShapeCodes, FieldCodes,
           ConfigurationCodes, CodeCodes
  <2>. QED
    BY <2>2, <2>3
<1>. QED
  BY <1>1, <1>2, <1>3 DEF Heard

\* The structural findings, by what the root is.
StructuralOf(f) ==
    \/ f \in Findings(RootList(repository))
    \/ /\ f.code \in Structural
       /\ RootPath(repository.documents) # None
       /\ f.document = RootPath(repository.documents)
       /\ f \in Findings(ShapeFindings(repository, RootOf(repository)))

LEMMA StructuralIs ==
    ASSUME IInv, IsDone
    PROVE  LET root == RootPath(repository.documents)
               structural == {i \in 1..Len(findings) :
                   \/ findings[i].code \in {"missing_root_config", "root_not_object", "missing_architecture"}
                   \/ /\ findings[i].code \in {"invalid_json", "duplicate_json_key"}
                      /\ root # None /\ findings[i].document = root}
               S == {f \in Findings(findings) : StructuralOf(f)}
           IN  /\ structural = {i \in 1..Len(findings) : findings[i] \in S}
               /\ \A f : StructuralOf(f) <=> f \in S
<1> DEFINE r == repository
           root == RootPath(r.documents)
           p == RootOf(r)
           S == {f \in Findings(findings) : StructuralOf(f)}
<1>1. root # None => p \in DOMAIN r.documents /\ root = Some(p)
  BY RootIs
<1>2. root # None => IsDocument(r, p)
  BY <1>1, Ended
<1>3. ASSUME NEW f
      PROVE  (/\ f \in Findings(findings) /\ f.code \in {"invalid_json", "duplicate_json_key"}
              /\ root # None /\ f.document = root)
             <=> (/\ f.code \in Structural /\ root # None /\ f.document = root
                  /\ f \in Findings(ShapeFindings(r, p)))
  <2>1. CASE f.code \in Structural /\ root # None /\ f.document = root
    <3>1. f \in Findings(findings) <=> InLists(r, p, f)
      BY <1>1, <2>1, ReportedIff
    <3>2. InLists(r, p, f) <=> f \in Findings(ShapeFindings(r, p))
      BY <1>1, <1>2, <2>1, ShapeOnly
    <3>. QED
      BY <2>1, <3>1, <3>2 DEF Structural
  <2>. QED
    BY <2>1 DEF Structural
<1>4. ASSUME NEW f
      PROVE  /\ StructuralOf(f) => f \in Findings(findings)
             /\ f \in Findings(findings) =>
                  (StructuralOf(f) <=>
                    \/ f.code \in {"missing_root_config", "root_not_object", "missing_architecture"}
                    \/ /\ f.code \in {"invalid_json", "duplicate_json_key"}
                       /\ root # None /\ f.document = root)
  <2>1. f \in Findings(findings) /\ f.code \in RootCodes <=> f \in Findings(RootList(r))
    BY RootOnly
  <2>2. RootCodes = {"missing_root_config", "root_not_object", "missing_architecture"}
    BY DEF RootCodes
  <2>. QED
    BY <1>3, <2>1, <2>2 DEF StructuralOf
<1>. QED
  BY <1>4 DEF Findings

\* What the shape of the root tells, of the codes that matter here.
LEMMA RootShape ==
    ASSUME NEW r, NEW p, IsDocument(r, p), p \in {ModelIndexPath, ConfigPath}, NEW f
    PROVE  f.code \in Structural /\ f \in Findings(ShapeFindings(r, p)) <=>
              \/ r.documents[p].json = <<"malformed">> /\ f = Error("invalid_json", p, None)
              \/ \E pointer \in r.documents[p].duplicates : f = DuplicateAt(p, pointer)
              \/ r.documents[p].truncated /\ f = Error("duplicate_json_key", p, None)
<1>1. Kind(p) # "ChatTemplate"
  BY RootKinds
<1>2. /\ f = Error("invalid_json", p, None) => f.code \in Structural
      /\ f = Error("duplicate_json_key", p, None) => f.code \in Structural
      /\ f = InvalidField(p, None) => f.code \notin Structural
      /\ \A pointer : f = DuplicateAt(p, pointer) => f.code \in Structural
  BY ErrorFacts DEF Structural, DuplicateAt
<1>. QED
  BY <1>1, <1>2, ShapeHas

LEMMA NormalizedOrReported == IInv => RootIsNormalizedOrReported
<1> SUFFICES ASSUME IInv, IsDone
             PROVE  LET root       == RootPath(repository.documents)
                        structural == {i \in 1..Len(findings) :
                            \/ findings[i].code \in {"missing_root_config", "root_not_object", "missing_architecture"}
                            \/ /\ findings[i].code \in {"invalid_json", "duplicate_json_key"}
                               /\ root # None /\ findings[i].document = root}
                    IN  /\ Normalize(repository.documents)[1] = "ok" <=> structural = {}
                        /\ root # None /\ repository.documents[root[1]].json = <<"malformed">>
                           => Cardinality(structural) = 1
                        /\ root # None /\ repository.documents[root[1]].repeated
                           => \A i \in structural : findings[i].code = "duplicate_json_key"
  BY DEF RootIsNormalizedOrReported
<1> DEFINE r == repository
           root == RootPath(r.documents)
           p == RootOf(r)
           document == r.documents[p]
           structural == {i \in 1..Len(findings) :
               \/ findings[i].code \in {"missing_root_config", "root_not_object", "missing_architecture"}
               \/ /\ findings[i].code \in {"invalid_json", "duplicate_json_key"}
                  /\ root # None /\ findings[i].document = root}
           S == {f \in Findings(findings) : StructuralOf(f)}
<1>1. /\ structural = {i \in 1..Len(findings) : findings[i] \in S}
      /\ \A f : StructuralOf(f) <=> f \in S
  BY StructuralIs
<1>2. structural # {} <=> S # {}
  BY <1>1 DEF Findings
<1>3. root # None => /\ p \in DOMAIN r.documents /\ root = Some(p) /\ root[1] = p
                     /\ p \in {ModelIndexPath, ConfigPath}
  BY RootIs, SomeIsNotNone
<1>4. root # None => IsDocument(r, p) /\ Readable(p, document)
  BY <1>3, Ended, DocumentIs
<1>5. ASSUME NEW f
      PROVE  f \in S <=>
                \/ f \in Findings(RootList(r))
                \/ /\ root # None
                   /\ \/ document.json = <<"malformed">> /\ f = Error("invalid_json", p, None)
                      \/ \E pointer \in document.duplicates : f = DuplicateAt(p, pointer)
                      \/ document.truncated /\ f = Error("duplicate_json_key", p, None)
  <2>1. \/ f = Error("invalid_json", p, None)
        \/ \E pointer \in document.duplicates : f = DuplicateAt(p, pointer)
        \/ f = Error("duplicate_json_key", p, None)
        => f.document = Some(p)
    BY ErrorFacts DEF DuplicateAt
  <2>. QED
    BY <1>1, <1>3, <1>4, <2>1, RootShape DEF StructuralOf
<1>6. Normalize(r.documents)[1] = "ok" <=> structural = {}
  <2>1. CASE Normalize(r.documents)[1] = "ok"
    <3>1. RootList(r) = <<>> /\ (root # None => Usable(document))
      BY <2>1 DEF RootList, Normalize, RootOf, Usable
    <3>2. root # None => document.duplicates = {} /\ ~document.truncated /\ document.json[1] = "object"
      BY <1>4, <3>1 DEF Usable, Readable
    <3>3. document.json[1] = "object" => document.json # <<"malformed">>
      OBVIOUS
    <3>4. S = {}
      BY <1>5, <3>1, <3>2, <3>3, NoneIs
    <3>. QED
      BY <1>2, <2>1, <3>4
  <2>2. CASE Normalize(r.documents)[1] # "ok"
    <3>1. ASSUME NEW g, RootList(r) = <<g>> PROVE S # {}
      <4>1. g \in Findings(RootList(r))
        BY <3>1, OneIs
      <4>. QED
        BY <1>5, <4>1
    <3>2. CASE root # None /\ document.repeated
      <4>1. document.duplicates # {} \/ document.truncated
        BY <1>4, <3>2 DEF Readable
      <4>. QED
        BY <1>2, <1>5, <2>2, <3>2, <4>1
    <3>3. CASE root # None /\ document.json = <<"malformed">>
      BY <1>2, <1>5, <2>2, <3>3
    <3>4. CASE ~(root # None /\ document.repeated) /\ ~(root # None /\ document.json = <<"malformed">>)
      <4>1. \E g : RootList(r) = <<g>>
        BY <2>2, <3>4, RootCases DEF When
      <4>. QED
        BY <1>2, <2>2, <3>1, <4>1
    <3>. QED
      BY <3>2, <3>3, <3>4
  <2>. QED
    BY <2>1, <2>2
<1>7. ASSUME root # None, document.json = <<"malformed">>
      PROVE  Cardinality(structural) = 1
  <2> DEFINE f == Error("invalid_json", p, None)
  <2>1. ~document.repeated /\ document.duplicates = {} /\ ~document.truncated
    <3>1. document.json[1] = "malformed"
      BY <1>7
    <3>2. ~document.repeated
      BY <1>4, <1>7, <3>1 DEF Readable
    <3>3. document.repeated = (document.duplicates # {} \/ document.truncated)
      BY <1>4, <1>7 DEF Readable
    <3> HIDE DEF document
    <3>. QED
      BY <3>2, <3>3
  <2>2. RootList(r) = <<>>
    BY <1>7, <2>1, RootCases DEF When, Usable
  <2>3. S = {f}
    BY <1>5, <1>7, <2>1, <2>2, NoneIs
  <2>4. IsDocument(r, p) /\ About(p, {f}) /\ p \in DOMAIN r.documents
    BY <1>3, <1>4, <1>7, ErrorFacts DEF About
  <2>5. Hits(findings, {f}) = Whole(r, p, {f})
    BY <2>4, Ended
  <2>6. Whole(r, p, {f}) = Hits(ShapeFindings(r, p), {f})
    <3>1. f.code = "invalid_json"
      BY ErrorFacts
    <3>2. /\ "invalid_json" \notin ReferenceCodes /\ "invalid_json" \notin FieldCodes
          /\ "invalid_json" \notin ConfigurationCodes /\ "invalid_json" \notin CodeCodes
          /\ "invalid_json" \notin InertCodes /\ "invalid_json" \notin RootCodes
      BY DEF ReferenceCodes, ShardCodes, AdapterCodes, FieldCodes, ConfigurationCodes, CodeCodes,
             InertCodes, RootCodes
    <3> HIDE DEF f, r
    <3>3. Hits(RootList(r), {f}) = 0
      BY <3>1, <3>2, RootUnspoken
    <3>4. Hits(References(r, p), {f}) = 0 /\ Hits(FieldFindings(r, p), {f}) = 0
      BY <2>4, <3>1, <3>2, ReferencesLocate, FieldsLocate, Unlocated
    <3>5. Hits(Configurations(r, p), {f}) = 0
      BY <2>4, <3>1, <3>2, ConfigurationsSpeak, Unspoken
    <3>6. Hits(IndexPart(r, p), {f}) = 0
      BY <2>4, <3>1, <3>2, ExecutablesAre, Unlocated
    <3>7. Hits(WalkPart(r, p), {f}) = 0
      <4>1. Speaks(WalkPart(r, p), p, InertCodes)
        BY <2>4, ExecutablesAre DEF Speaks
      <4>. QED
        BY <3>1, <3>2, <4>1, Unspoken
    <3>8. Hits(ShapeFindings(r, p), {f}) \in Nat
      BY <2>4, PartsAre
    <3>. QED
      BY ONLY <3>3, <3>4, <3>5, <3>6, <3>7, <3>8 DEF Whole
  <2>7. ShapeFindings(r, p) = <<f>>
    <3> DEFINE D == document.duplicates
               F == [pointer \in D |-> <<Error("duplicate_json_key", p, DuplicatePointer(pointer))>>]
    <3>1. Kind(p) # "ChatTemplate"
      BY <1>3, <1>7, RootKinds
    <3>2. PICK repeated :
            /\ ShapeFindings(r, p) =
                  When(document.json = <<"malformed">>, <<f>>) \o repeated
                  \o When(document.truncated, <<Error("duplicate_json_key", p, None)>>)
                  \o When(document.json[1] \notin {"malformed", "object"}, <<InvalidField(p, None)>>)
            /\ IsEach(repeated, D, F)
      BY <2>4, <3>1, ShapeParts
    <3>3. repeated = <<>>
      <4>1. Findings(repeated) = UNION {Findings(F[pointer]) : pointer \in D} /\ IsList(repeated)
        <5> HIDE DEF D, F
        <5>. QED
          BY <3>2, EachIs
      <4>2. Findings(repeated) = {} /\ Len(repeated) \in Nat
        BY <2>1, <4>1 DEF IsList
      <4>3. Len(repeated) = 0 /\ repeated \in Seq({})
        <5>1. Len(repeated) = 0
          BY <4>2 DEF Findings
        <5>2. repeated \in Seq(Findings(repeated))
          BY <4>1, ListIs
        <5>. QED
          BY <4>2, <5>1, <5>2
      <4>. QED
        BY <4>3
    <3>4. document.json[1] = "malformed"
      BY <1>7
    <3>5. ShapeFindings(r, p) = <<f>> \o <<>> \o <<>> \o <<>>
      BY <1>7, <2>1, <3>2, <3>3, <3>4 DEF When
    <3>. QED
      BY ONLY <3>5
  <2>8. Cardinality(structural) = Hits(findings, S)
    BY <1>1 DEF Hits
  <2>9. Hits(<<f>>, {f}) = 1
    BY OneIs
  <2>. QED
    BY <2>3, <2>5, <2>6, <2>7, <2>8, <2>9
<1>8. ASSUME root # None, document.repeated, NEW i \in structural
      PROVE  findings[i].code = "duplicate_json_key"
  <2>1. findings[i] \in S
    BY <1>1
  <2>2. RootList(r) = <<>>
    BY <1>8, RootCases DEF Usable
  <2>3. document.json # <<"malformed">>
    BY <1>4, <1>8 DEF Readable
  <2>. QED
    BY <1>5, <2>1, <2>2, <2>3, NoneIs, ErrorFacts DEF DuplicateAt
<1>. QED
  BY <1>3, <1>6, <1>7, <1>8
\* The findings about the fields, part by part.
LEMMA FieldsHave ==
    ASSUME NEW r, NEW path, IsDocument(r, path), Usable(r.documents[path]),
           NEW object, object = r.documents[path].json[2], NEW f
    PROVE  f \in Findings(FieldFindings(r, path)) <=>
              \/ f \in Findings(TableFindings(path, object)) \/ f \in Findings(SpecialPart(path, object))
              \/ f \in Findings(ArchitecturePart(path, object)) \/ f \in Findings(ComponentPart(path, object))
              \/ f \in Findings(InlinePart(path, object)) \/ f \in Findings(MetadataPart(path, object))
<1> DEFINE S == {f}
           t == Hits(TableFindings(path, object), S)
           a == Hits(SpecialPart(path, object), S)
           b == Hits(ArchitecturePart(path, object), S)
           c == Hits(ComponentPart(path, object), S)
           d == Hits(InlinePart(path, object), S)
           e == Hits(MetadataPart(path, object), S)
           all == Hits(FieldFindings(r, path), S)
<1>1. IsObject(object)
  BY ObjectIs
<1>2. all = t + a + b + c + d + e
  BY FieldsAre
<1>3. IsList(FieldFindings(r, path))
  BY FieldsLocate, Located
<1>4. /\ IsList(TableFindings(path, object)) /\ IsList(SpecialPart(path, object))
      /\ IsList(ArchitecturePart(path, object)) /\ IsList(ComponentPart(path, object))
      /\ IsList(InlinePart(path, object)) /\ IsList(MetadataPart(path, object))
  BY <1>1, PartsLocate, Located
<1>5. /\ all \in Nat /\ (all # 0 <=> f \in Findings(FieldFindings(r, path)))
      /\ t \in Nat /\ (t # 0 <=> f \in Findings(TableFindings(path, object)))
      /\ a \in Nat /\ (a # 0 <=> f \in Findings(SpecialPart(path, object)))
      /\ b \in Nat /\ (b # 0 <=> f \in Findings(ArchitecturePart(path, object)))
      /\ c \in Nat /\ (c # 0 <=> f \in Findings(ComponentPart(path, object)))
      /\ d \in Nat /\ (d # 0 <=> f \in Findings(InlinePart(path, object)))
      /\ e \in Nat /\ (e # 0 <=> f \in Findings(MetadataPart(path, object)))
  BY <1>3, <1>4, HasOne
<1> HIDE DEF all, t, a, b, c, d, e
<1>6. t \in Nat /\ a \in Nat /\ b \in Nat /\ c \in Nat /\ d \in Nat /\ e \in Nat
  BY <1>5
<1>7. t + a + b + c + d + e # 0 <=> t # 0 \/ a # 0 \/ b # 0 \/ c # 0 \/ d # 0 \/ e # 0
  BY ONLY <1>6
<1>8. all # 0 <=> t # 0 \/ a # 0 \/ b # 0 \/ c # 0 \/ d # 0 \/ e # 0
  BY ONLY <1>2, <1>7
<1>. QED
  BY ONLY <1>5, <1>8

LEMMA TableHas ==
    ASSUME NEW path, NEW object, IsFiniteSet(DOMAIN object), NEW f
    PROVE  f \in Findings(TableFindings(path, object)) <=>
              \E field \in MisshapenOf(path, object) : f = InvalidField(path, Some(<<field.name>>))
<1> DEFINE D == MisshapenOf(path, object)
           F == [field \in D |-> <<InvalidField(path, Some(<<field.name>>))>>]
<1>1. IsEach(TableFindings(path, object), D, F)
  BY TableEach
<1>2. \A field \in D : Findings(F[field]) = {InvalidField(path, Some(<<field.name>>))}
  BY OneIs
<1> HIDE DEF D, F
<1>3. Findings(TableFindings(path, object)) = UNION {Findings(F[field]) : field \in D}
  BY <1>1, EachIs
<1>4. f \in Findings(TableFindings(path, object)) <=> \E field \in D : f \in Findings(F[field])
  BY <1>3
<1>. QED
  BY <1>2, <1>4 DEF D

\* An error among the findings about the fields is an error.
LEMMA FieldError ==
    ASSUME IInv, IsDone, NEW p \in DOMAIN repository.documents, NEW pointer,
           InvalidField(p, pointer) \in Findings(FieldFindings(repository, p))
    PROVE  ErrorsAt(p, pointer) # {}
<1>1. /\ InvalidField(p, pointer).level = "error" /\ InvalidField(p, pointer).document = Some(p)
      /\ InvalidField(p, pointer).pointer = pointer
  BY ErrorFacts
<1>2. InvalidField(p, pointer) \in Findings(findings)
  BY <1>1, ReportedIff DEF InLists
<1>. QED
  BY <1>1, <1>2, ErrorsAtIs DEF WrongAt

LEMMA CandidateFields ==
    ASSUME NEW name \in Candidates(ConfigPath), name # <<"architectures">>
    PROVE  [name |-> name, type |-> "String"] \in FieldsOf("Config")
<1>1. \A w \in {"_name_or_path", "_class_name", "_diffusers_version", "model_type",
                "transformers_version", "pipeline_tag", "task", "torch_dtype"} :
          [name |-> <<w>>, type |-> "String"] \in ConfigFields
  BY DEF ConfigFields, Typed
<1>2. \E w \in {"_name_or_path", "_class_name", "_diffusers_version", "model_type",
                "transformers_version", "pipeline_tag", "task", "torch_dtype"} : name = <<w>>
  BY DEF Candidates
<1>3. [name |-> name, type |-> "String"] \in ConfigFields
  BY <1>1, <1>2
<1>. QED
  BY <1>3 DEF FieldsOf

LEMMA CandidatesDiagnosed == IInv => ConfigCandidatesAreDiagnosed
<1> SUFFICES ASSUME IInv, IsDone, ConfigPath \in DOMAIN repository.documents,
                    Usable(repository.documents[ConfigPath]), NEW name \in WrongTypes(ConfigPath)
             PROVE  ErrorsAt(ConfigPath, Some(<<name>>)) # {}
  BY DEF ConfigCandidatesAreDiagnosed
<1> DEFINE r == repository
           object == r.documents[ConfigPath].json[2]
           f == InvalidField(ConfigPath, Some(<<name>>))
<1>1. IsDocument(r, ConfigPath) /\ Kind(ConfigPath) = "Config" /\ IsObject(object)
  BY Ended, RootKinds, ObjectIs
<1>2. /\ name \in Candidates(ConfigPath) /\ name \in DOMAIN object /\ object[name] # Null
      /\ ~IF name = <<"architectures">> THEN object[name][1] = "list" ELSE IsText(object[name])
  BY DEF WrongTypes
<1>3. CASE name = <<"architectures">>
  <2>1. ArchitecturesFindings(ConfigPath, object) = <<f>>
    BY <1>2, <1>3 DEF ArchitecturesFindings
  <2>2. ArchitecturePart(ConfigPath, object) = <<f>>
    BY <1>1, <2>1 DEF ArchitecturePart, When
  <2>3. f \in Findings(ArchitecturePart(ConfigPath, object))
    BY <2>2, OneIs
  <2>4. f \in Findings(FieldFindings(r, ConfigPath))
    BY <1>1, <2>3, FieldsHave
  <2>. QED
    BY <2>4, FieldError
<1>4. CASE name # <<"architectures">>
  <2> DEFINE field == [name |-> name, type |-> "String"]
  <2>1. field \in FieldsOf(Kind(ConfigPath))
    BY <1>1, <1>2, <1>4, CandidateFields
  <2>2. Misshapen(object, field.name, field.type)
    BY <1>2, <1>4 DEF Misshapen, HasShape
  <2>3. field \in MisshapenOf(ConfigPath, object)
    BY <2>1, <2>2 DEF MisshapenOf
  <2>4. f = InvalidField(ConfigPath, Some(<<field.name>>))
    OBVIOUS
  <2> HIDE DEF field, f
  <2>5. f \in Findings(TableFindings(ConfigPath, object))
    BY <1>1, <2>3, <2>4, TableHas DEF IsObject
  <2>6. f \in Findings(FieldFindings(r, ConfigPath))
    BY <1>1, <2>5, FieldsHave
  <2>. QED
    BY <2>6, FieldError DEF f
<1>. QED
  BY <1>3, <1>4

\* That a repository has no normalized configuration is reported of its root,
\* and so is every member that normalization passes over because of its type.
THEOREM NormalizationExplained == Spec => []NormalizationIsExplained
<1>1. IInv => NormalizationIsExplained
  BY NormalizedOrReported, CandidatesDiagnosed DEF NormalizationIsExplained
<1>. QED
  BY <1>1, Invariance, PTL
-----------------------------------------------------------------------------
(***************************************************************************)
(* What a selection passes over is reported.                               *)
(***************************************************************************)
Mentions(p) == {i \in 1..Len(findings) : findings[i].document = Some(p)}

LEMMA Mentioned ==
    ASSUME IInv, IsDone, NEW p \in DOMAIN repository.documents, NEW f, f.document = Some(p),
           InLists(repository, p, f)
    PROVE  Mentions(p) # {}
<1>1. f \in Findings(findings)
  BY ListsHeard
<1>. QED
  BY <1>1 DEF Findings, Mentions

LEMMA UnusableIsTold ==
    ASSUME IInv, IsDone, NEW p \in DOMAIN repository.documents,
           ~Usable(repository.documents[p]), Kind(p) # "ChatTemplate"
    PROVE  Mentions(p) # {}
<1> DEFINE r == repository
           document == r.documents[p]
<1>1. IsDocument(r, p)
  BY Ended
<1>2. Readable(p, document)
  BY <1>1, DocumentIs
<1>3. SUFFICES \E f : f.document = Some(p) /\ f \in Findings(ShapeFindings(r, p))
  BY Mentioned DEF InLists
<1>4. CASE document.truncated
  <2>1. Error("duplicate_json_key", p, None) \in Findings(ShapeFindings(r, p))
    BY <1>1, <1>4, ShapeHas
  <2>. QED
    BY <2>1, ErrorFacts
<1>5. CASE document.duplicates # {}
  <2>1. PICK pointer \in document.duplicates : TRUE
    BY <1>5
  <2>2. DuplicateAt(p, pointer) \in Findings(ShapeFindings(r, p))
    BY <1>1, <2>1, ShapeHas
  <2>. QED
    BY <2>2, ErrorFacts DEF DuplicateAt
<1>6. CASE ~document.repeated /\ document.json[1] = "malformed"
  <2>1. document.json = <<"malformed">>
    BY <1>2, <1>6 DEF Readable
  <2>2. Error("invalid_json", p, None) \in Findings(ShapeFindings(r, p))
    BY <1>1, <2>1, ShapeHas
  <2>. QED
    BY <2>2, ErrorFacts
<1>7. CASE ~document.repeated /\ document.json[1] # "malformed"
  <2>1. document.json[1] \notin {"malformed", "object"}
    BY <1>7 DEF Usable
  <2>2. InvalidField(p, None) \in Findings(ShapeFindings(r, p))
    BY <1>1, <2>1, ShapeHas
  <2>. QED
    BY <2>2, ErrorFacts
<1>. QED
  BY <1>2, <1>4, <1>5, <1>6, <1>7 DEF Readable

LEMMA BytesAreTold ==
    ASSUME IInv, IsDone, NEW p \in DOMAIN repository.documents,
           Kind(p) = "ChatTemplate", repository.documents[p].json = <<"bytes">>
    PROVE  Mentions(p) # {}
<1> DEFINE f == Error("invalid_text_encoding", p, None)
<1>1. ShapeFindings(repository, p) = <<f>>
  BY DEF ShapeFindings, When
<1>2. f.document = Some(p)
  BY ErrorFacts
<1> HIDE DEF f
<1>3. f \in Findings(ShapeFindings(repository, p))
  BY <1>1, OneIs
<1>. QED
  BY <1>2, <1>3, Mentioned DEF InLists

LEMMA InlineIsTold ==
    ASSUME IInv, IsDone, NEW p \in DOMAIN repository.documents, Usable(repository.documents[p]),
           Kind(p) \in {"TokenizerConfig", "ProcessorConfig"},
           NEW object, object = repository.documents[p].json[2],
           <<"chat_template">> \in DOMAIN object, object[<<"chat_template">>] # Null,
           object[<<"chat_template">>][1] \notin {"text", "object", "list"}
    PROVE  Mentions(p) # {}
<1> DEFINE f == InvalidField(p, Some(<<<<"chat_template">>>>))
<1>1. InlinePart(p, object) = <<f>>
  BY DEF InlinePart, InlineTemplateFindings, When
<1>2. f.document = Some(p)
  BY ErrorFacts
<1>3. IsDocument(repository, p)
  BY Ended
<1> HIDE DEF f
<1>4. f \in Findings(InlinePart(p, object))
  BY <1>1, OneIs
<1>5. f \in Findings(FieldFindings(repository, p))
  BY <1>3, <1>4, FieldsHave
<1>. QED
  BY <1>2, <1>5, Mentioned DEF InLists

-----------------------------------------------------------------------------
\* A scope is where a document lies; what a name there is.
LEMMA ScopeIs ==
    ASSUME NEW r, NEW q, IsDocument(r, q), NEW scope, scope = Parent(q)
    PROVE  /\ scope = <<>> \/ Valid(scope)
           /\ \A name : Name(Scoped(scope, name)) = <<name>>
<1>1. q \in Paths /\ Valid(q)
  BY DocumentIs
<1>2. q \in Seq(Segments) /\ q # <<>>
  BY <1>1, PathsAssumption
<1>3. Len(q) \in Nat \ {0}
  BY <1>2
<1>4. scope \in Seq(Segments) /\ Len(scope) = Len(q) - 1 /\ \A i \in 1..Len(scope) : scope[i] = q[i]
  <2> DEFINE n == Len(q) - 1
  <2>1. n \in Nat /\ \A i \in 1..n : q[i] \in Segments
    BY <1>2, <1>3
  <2>2. /\ SubSeq(q, 1, n) \in Seq(Segments) /\ Len(SubSeq(q, 1, n)) = IF 1 <= n THEN n - 1 + 1 ELSE 0
        /\ \A i \in 1..n - 1 + 1 : SubSeq(q, 1, n)[i] = q[1 + i - 1]
    BY <2>1, SubSeqProperties
  <2>3. scope = SubSeq(q, 1, n)
    BY DEF Parent
  <2> HIDE DEF n
  <2>4. /\ Len(scope) = n /\ \A i \in 1..n : scope[i] = q[i]
    BY <2>1, <2>2, <2>3
  <2>. QED
    BY <2>2, <2>3, <2>4 DEF n
<1>5. scope = <<>> \/ scope \in Ancestors(q)
  BY <1>3, <1>4 DEF Parent, Ancestors
<1>6. scope = <<>> \/ Valid(scope)
  BY <1>1, <1>5, DocumentIs DEF IsDocument, Constructed
<1>7. ASSUME NEW name PROVE Name(Scoped(scope, name)) = <<name>>
  <2>1. /\ Len(Append(scope, <<name>>)) = Len(scope) + 1
        /\ Append(scope, <<name>>)[Len(scope) + 1] = <<name>>
    <3> DEFINE T == Segments \cup {<<name>>}
    <3>1. scope \in Seq(T) /\ <<name>> \in T
      BY <1>4
    <3> HIDE DEF T
    <3>. QED
      BY <3>1
  <2>. QED
    BY <2>1 DEF Name, Scoped
<1>. QED
  BY <1>6, <1>7

LEMMA ScopedKinds ==
    ASSUME NEW r, NEW q, IsDocument(r, q), NEW scope, scope = Parent(q)
    PROVE  /\ Kind(Scoped(scope, "generation_config.json")) = "GenerationConfig"
           /\ Kind(Scoped(scope, "config.json")) = "Config"
           /\ Kind(Scoped(scope, "chat_template.jinja")) = "ChatTemplate"
           /\ Kind(Scoped(scope, "tokenizer_config.json")) = "TokenizerConfig"
           /\ Kind(Scoped(scope, "processor_config.json")) = "ProcessorConfig"
<1>1. \A name : Name(Scoped(scope, name)) = <<name>>
  BY ScopeIs
<1>2. \A name : Name(Scoped(scope, name))[1] = name
  BY <1>1
<1>3. ASSUME NEW name
      PROVE  Kind(Scoped(scope, name)) = IF name \in DOMAIN Kinds THEN Kinds[name] ELSE "SafetensorsIndex"
  BY <1>2 DEF Kind
<1>4. /\ Kinds["generation_config.json"] = "GenerationConfig" /\ "generation_config.json" \in DOMAIN Kinds
      /\ Kinds["config.json"] = "Config" /\ "config.json" \in DOMAIN Kinds
      /\ Kinds["chat_template.jinja"] = "ChatTemplate" /\ "chat_template.jinja" \in DOMAIN Kinds
      /\ Kinds["tokenizer_config.json"] = "TokenizerConfig" /\ "tokenizer_config.json" \in DOMAIN Kinds
      /\ Kinds["processor_config.json"] = "ProcessorConfig" /\ "processor_config.json" \in DOMAIN Kinds
  BY DEF Kinds
<1>. QED
  BY <1>3, <1>4
-----------------------------------------------------------------------------
\* The fields of the generation view that a config may have instead, and what
\* validation expects of them there.
SoleConfigFields == {<<"_from_model_config">>, <<"transformers_version">>}

LEMMA LegacyFields ==
    ASSUME NEW field \in GenerationFields, field.name \notin SoleConfigFields
    PROVE  field.name \in LegacyGenerationFields
<1>1. \A w \in {
        "_from_model_config", "disable_compile", "do_sample", "is_assistant",
        "low_memory", "output_attentions", "output_hidden_states",
        "output_logits", "output_scores", "remove_invalid_values",
        "renormalize_logits", "return_dict_in_generate", "token_healing",
        "use_cache"} : w # "_from_model_config" => <<w>> \in LegacyGenerationFields
  BY DEF LegacyGenerationFields
<1>2. \A w \in {
        "assistant_confidence_threshold", "diversity_penalty",
        "encoder_repetition_penalty", "epsilon_cutoff", "eta_cutoff",
        "guidance_scale", "length_penalty", "max_time", "min_p",
        "penalty_alpha", "repetition_penalty", "temperature", "top_h", "top_p",
        "typical_p"} : <<w>> \in LegacyGenerationFields
  BY DEF LegacyGenerationFields
<1>3. \A w \in {
        "assistant_early_exit", "assistant_lookbehind",
        "encoder_no_repeat_ngram_size", "max_length",
        "max_matching_ngram_size", "max_new_tokens", "min_length",
        "min_new_tokens", "no_repeat_ngram_size", "num_assistant_tokens",
        "num_beam_groups", "num_beams", "num_return_sequences",
        "prefill_chunk_size", "prompt_lookup_num_tokens", "target_lookbehind"} :
          <<w>> \in LegacyGenerationFields
  BY DEF LegacyGenerationFields
<1>4. \A w \in {
        "bad_words_ids", "begin_suppress_tokens", "constraints",
        "exponential_decay_length_penalty", "force_words_ids",
        "forced_decoder_ids", "suppress_tokens",
        "bos_token_id", "forced_bos_token_id", "pad_token_id", "top_k",
        "cache_config", "compile_config", "continuous_batching_config",
        "sequence_bias", "watermarking_config"} : <<w>> \in LegacyGenerationFields
  BY DEF LegacyGenerationFields
<1>5. \A w \in {
        "cache_implementation", "num_assistant_tokens_schedule", "transformers_version",
        "decoder_start_token_id", "eos_token_id", "forced_eos_token_id",
        "dola_layers", "early_stopping", "stop_strings"} :
          w # "transformers_version" => <<w>> \in LegacyGenerationFields
  BY DEF LegacyGenerationFields
<1>6. \A type, words : \A f \in Typed(type, words) : \E w \in words : f.name = <<w>>
  BY DEF Typed
<1>7. CASE field \in Typed("Bool", {
        "_from_model_config", "disable_compile", "do_sample", "is_assistant",
        "low_memory", "output_attentions", "output_hidden_states",
        "output_logits", "output_scores", "remove_invalid_values",
        "renormalize_logits", "return_dict_in_generate", "token_healing",
        "use_cache"})
  BY <1>1, <1>6, <1>7 DEF SoleConfigFields
<1>8. CASE field \in Typed("F64", {
        "assistant_confidence_threshold", "diversity_penalty",
        "encoder_repetition_penalty", "epsilon_cutoff", "eta_cutoff",
        "guidance_scale", "length_penalty", "max_time", "min_p",
        "penalty_alpha", "repetition_penalty", "temperature", "top_h", "top_p",
        "typical_p"})
  BY <1>2, <1>6, <1>8
<1>9. CASE field \in Typed("U64", {
        "assistant_early_exit", "assistant_lookbehind",
        "encoder_no_repeat_ngram_size", "max_length",
        "max_matching_ngram_size", "max_new_tokens", "min_length",
        "min_new_tokens", "no_repeat_ngram_size", "num_assistant_tokens",
        "num_beam_groups", "num_beams", "num_return_sequences",
        "prefill_chunk_size", "prompt_lookup_num_tokens", "target_lookbehind"})
  BY <1>3, <1>6, <1>9
<1>10. CASE \/ field \in Typed("Array", {
                "bad_words_ids", "begin_suppress_tokens", "constraints",
                "exponential_decay_length_penalty", "force_words_ids",
                "forced_decoder_ids", "suppress_tokens"})
            \/ field \in Typed("I64", {
                "bos_token_id", "forced_bos_token_id", "pad_token_id", "top_k"})
            \/ field \in Typed("Object", {
                "cache_config", "compile_config", "continuous_batching_config",
                "sequence_bias", "watermarking_config"})
  BY <1>4, <1>6, <1>10
<1>11. CASE \/ field \in Typed("String", {
                "cache_implementation", "num_assistant_tokens_schedule",
                "transformers_version"})
            \/ field \in Typed("I64OrI64Array", {
                "decoder_start_token_id", "eos_token_id", "forced_eos_token_id"})
            \/ field \in Typed("StringOrI64Array", {"dola_layers"})
            \/ field \in Typed("BoolOrString", {"early_stopping"})
            \/ field \in Typed("StringOrStringArray", {"stop_strings"})
  BY <1>5, <1>6, <1>11 DEF SoleConfigFields
<1>. QED
  BY <1>7, <1>8, <1>9, <1>10, <1>11 DEF GenerationFields

LEMMA NoSoleField == SoleConfigFields \cap LegacyGenerationFields = {}
<1>1. /\ <<"_from_model_config">> \notin LegacyGenerationFields
      /\ <<"transformers_version">> \notin LegacyGenerationFields
  BY DEF LegacyGenerationFields
<1>. QED
  BY <1>1 DEF SoleConfigFields

\* What the view does not take at once, the table of the document has.
LEMMA ViewFields ==
    ASSUME NEW field \in GenerationConfigView
    PROVE  field.type = "Raw" \/ field \in GenerationFields
<1>1. \A type, small, large : small \subseteq large => Typed(type, small) \subseteq Typed(type, large)
  BY DEF Typed
<1>2. \A type, words : \A f \in Typed(type, words) : f.type = type
  BY DEF Typed
<1>3. Typed("Bool", {
        "_from_model_config", "do_sample", "use_cache", "output_scores",
        "return_dict_in_generate"}) \subseteq GenerationFields
  <2>1. Typed("Bool", {
        "_from_model_config", "do_sample", "use_cache", "output_scores",
        "return_dict_in_generate"}) \subseteq Typed("Bool", {
        "_from_model_config", "disable_compile", "do_sample", "is_assistant",
        "low_memory", "output_attentions", "output_hidden_states",
        "output_logits", "output_scores", "remove_invalid_values",
        "renormalize_logits", "return_dict_in_generate", "token_healing",
        "use_cache"})
    BY <1>1
  <2>. QED
    BY <2>1 DEF GenerationFields
<1>4. Typed("String", {
        "transformers_version", "cache_implementation",
        "num_assistant_tokens_schedule"}) \subseteq GenerationFields
  <2>1. Typed("String", {
        "transformers_version", "cache_implementation",
        "num_assistant_tokens_schedule"}) \subseteq Typed("String", {
        "cache_implementation", "num_assistant_tokens_schedule",
        "transformers_version"})
    BY <1>1
  <2>. QED
    BY <2>1 DEF GenerationFields
<1>5. Typed("U64", {
        "max_length", "max_new_tokens", "min_length", "min_new_tokens",
        "num_beams", "no_repeat_ngram_size", "encoder_no_repeat_ngram_size",
        "num_assistant_tokens", "assistant_lookbehind", "target_lookbehind"}) \subseteq GenerationFields
  <2>1. Typed("U64", {
        "max_length", "max_new_tokens", "min_length", "min_new_tokens",
        "num_beams", "no_repeat_ngram_size", "encoder_no_repeat_ngram_size",
        "num_assistant_tokens", "assistant_lookbehind", "target_lookbehind"}) \subseteq Typed("U64", {
        "assistant_early_exit", "assistant_lookbehind",
        "encoder_no_repeat_ngram_size", "max_length",
        "max_matching_ngram_size", "max_new_tokens", "min_length",
        "min_new_tokens", "no_repeat_ngram_size", "num_assistant_tokens",
        "num_beam_groups", "num_beams", "num_return_sequences",
        "prefill_chunk_size", "prompt_lookup_num_tokens", "target_lookbehind"})
    BY <1>1
  <2>. QED
    BY <2>1 DEF GenerationFields
<1>6. Typed("F64", {
        "temperature", "top_p", "typical_p", "repetition_penalty",
        "encoder_repetition_penalty", "length_penalty",
        "assistant_confidence_threshold"}) \subseteq GenerationFields
  <2>1. Typed("F64", {
        "temperature", "top_p", "typical_p", "repetition_penalty",
        "encoder_repetition_penalty", "length_penalty",
        "assistant_confidence_threshold"}) \subseteq Typed("F64", {
        "assistant_confidence_threshold", "diversity_penalty",
        "encoder_repetition_penalty", "epsilon_cutoff", "eta_cutoff",
        "guidance_scale", "length_penalty", "max_time", "min_p",
        "penalty_alpha", "repetition_penalty", "temperature", "top_h", "top_p",
        "typical_p"})
    BY <1>1
  <2>. QED
    BY <2>1 DEF GenerationFields
<1>7. Typed("I64", {"top_k"}) \subseteq GenerationFields
  <2>1. Typed("I64", {"top_k"}) \subseteq Typed("I64", {
        "bos_token_id", "forced_bos_token_id", "pad_token_id", "top_k"})
    BY <1>1
  <2>. QED
    BY <2>1 DEF GenerationFields
<1>. QED
  BY <1>2, <1>3, <1>4, <1>5, <1>6, <1>7 DEF GenerationConfigView

LEMMA ViewTypes ==
    ASSUME NEW field \in GenerationConfigView
    PROVE  field.type \in {"Raw", "String", "Bool", "U64", "I64", "F64"}
<1>1. \A type, words : \A f \in Typed(type, words) : f.type = type
  BY DEF Typed
<1>. QED
  BY <1>1 DEF GenerationConfigView

\* A field that the view refuses is one that validation reports.
LEMMA LegacyMisshapen ==
    ASSUME NEW object, NEW field \in GenerationConfigView, field.name \in LegacyGenerationFields,
           SourceField(object, field.name, field.type) = "Invalid"
    PROVE  field \in FieldsOf("Config") /\ Misshapen(object, field.name, field.type)
<1>1. /\ field.name \in DOMAIN object /\ object[field.name] # Null
      /\ ~Accepts(field.type, object[field.name])
  BY DEF SourceField
<1>2. field.type # "Raw"
  BY <1>1 DEF Accepts
<1>3. field \in GenerationFields
  BY <1>2, ViewFields
<1>4. field \in FieldsOf("Config")
  BY <1>3, NoSoleField DEF FieldsOf, SoleConfigFields
<1>5. field.type \in {"String", "Bool", "U64", "I64", "F64"}
  BY <1>2, ViewTypes
<1>6. ~HasShape(field.type, object[field.name])
  BY <1>1, <1>5 DEF Accepts, HasShape
<1>. QED
  BY <1>1, <1>4, <1>6 DEF Misshapen
-----------------------------------------------------------------------------
\* What is said of one scope.
ScopeOf(scope) == \E q \in DOMAIN repository.documents : scope = Parent(q)

LEMMA ScopeFacts ==
    ASSUME IInv, IsDone, NEW scope, ScopeOf(scope)
    PROVE  /\ \A inline : (IF scope = <<>> THEN ChatTemplate(repository.documents, scope, inline)
                           ELSE ChatTemplateIn(repository.documents, scope, inline))
                          = ChatTemplate(repository.documents, scope, inline)
           /\ (IF scope = <<>> THEN GenerationSource(repository.documents, scope)
               ELSE GenerationSourceIn(repository.documents, scope))
              = GenerationSource(repository.documents, scope)
           /\ Kind(Scoped(scope, "generation_config.json")) = "GenerationConfig"
           /\ Kind(Scoped(scope, "config.json")) = "Config"
           /\ Kind(Scoped(scope, "chat_template.jinja")) = "ChatTemplate"
           /\ Kind(Scoped(scope, "tokenizer_config.json")) = "TokenizerConfig"
           /\ Kind(Scoped(scope, "processor_config.json")) = "ProcessorConfig"
<1>1. PICK q \in DOMAIN repository.documents : scope = Parent(q)
  BY DEF ScopeOf
<1>2. IsDocument(repository, q)
  BY Ended
<1>3. scope = <<>> \/ Valid(scope)
  BY <1>1, <1>2, ScopeIs
<1>4. \A inline : scope # <<>> => ChatTemplateIn(repository.documents, scope, inline)
                                    = ChatTemplate(repository.documents, scope, inline)
  BY <1>3 DEF ChatTemplateIn
<1>5. scope # <<>> => GenerationSourceIn(repository.documents, scope)
                        = GenerationSource(repository.documents, scope)
  BY <1>3 DEF GenerationSourceIn
<1>. QED
  BY <1>1, <1>2, <1>4, <1>5, ScopedKinds

LEMMA SelectedIs ==
    /\ \A p, q : Selected(p) = Selected(q) => p = q
    /\ \A p : Selected(p) # Nothing
    /\ \A e : Refused(e) # Nothing
  BY DEF Selected, Nothing, Refused

\* The generation settings: the legacy source.
LEMMA LegacySource ==
    ASSUME NEW documents, NEW scope,
           Kind(Scoped(scope, "generation_config.json")) # Kind(Scoped(scope, "config.json"))
    PROVE  LET dedicated == Scoped(scope, "generation_config.json")
               legacy    == Scoped(scope, "config.json")
               generation == GenerationSource(documents, scope)
           IN  /\ dedicated \in DOMAIN documents => generation = Selected(dedicated)
               /\ generation = Selected(legacy) => legacy \in DOMAIN documents /\ Usable(documents[legacy])
               /\ generation = Nothing /\ legacy \in DOMAIN documents /\ Usable(documents[legacy]) =>
                     DOMAIN documents[legacy].json[2] \cap LegacyGenerationFields = {}
<1> DEFINE dedicated == Scoped(scope, "generation_config.json")
           legacy    == Scoped(scope, "config.json")
<1>1. dedicated # legacy
  OBVIOUS
<1> HIDE DEF dedicated, legacy
<1>2. GenerationSource(documents, scope) =
         IF dedicated \in DOMAIN documents THEN Selected(dedicated)
         ELSE IF /\ legacy \in DOMAIN documents /\ Usable(documents[legacy])
                 /\ DOMAIN documents[legacy].json[2] \cap LegacyGenerationFields # {}
         THEN Selected(legacy)
         ELSE Nothing
  BY DEF GenerationSource, dedicated, legacy
<1>3. CASE dedicated \in DOMAIN documents
  <2>1. GenerationSource(documents, scope) = Selected(dedicated)
    BY <1>2, <1>3
  <2>. QED
    BY <1>1, <2>1, SelectedIs DEF dedicated, legacy
<1>4. CASE dedicated \notin DOMAIN documents
  BY <1>2, <1>4, SelectedIs DEF dedicated, legacy
<1>. QED
  BY <1>3, <1>4

LEMMA LegacyReported ==
    ASSUME IInv, IsDone, NEW legacy \in DOMAIN repository.documents, Kind(legacy) = "Config",
           Usable(repository.documents[legacy]), NEW field \in GenerationConfigView,
           field.name \in LegacyGenerationFields,
           SourceField(repository.documents[legacy].json[2], field.name, field.type) = "Invalid"
    PROVE  ErrorsAt(legacy, Some(<<field.name>>)) # {}
<1> DEFINE object == repository.documents[legacy].json[2]
           f == InvalidField(legacy, Some(<<field.name>>))
<1>1. IsDocument(repository, legacy) /\ IsObject(object)
  BY Ended, ObjectIs
<1>2. field \in MisshapenOf(legacy, object)
  BY LegacyMisshapen DEF MisshapenOf
<1>3. f \in Findings(TableFindings(legacy, object))
  BY <1>1, <1>2, TableHas DEF IsObject
<1>4. f \in Findings(FieldFindings(repository, legacy))
  BY <1>1, <1>3, FieldsHave
<1>. QED
  BY <1>4, FieldError

LEMMA NoLegacyField ==
    ASSUME NEW name, name \notin LegacyGenerationFields
    PROVE  name \notin NamesOf(FieldsOf("Config")) \ NamesOf(ConfigFields)
<1> SUFFICES ASSUME name \in NamesOf(FieldsOf("Config")), name \notin NamesOf(ConfigFields)
             PROVE  FALSE
  OBVIOUS
<1>1. PICK field \in FieldsOf("Config") : name = field.name
  BY DEF NamesOf
<1>2. field \notin ConfigFields
  BY <1>1 DEF NamesOf
<1>3. field \in GenerationFields /\ field.name \notin SoleConfigFields
  BY <1>1, <1>2 DEF FieldsOf, SoleConfigFields
<1>. QED
  BY <1>1, <1>3, LegacyFields

GenerationToldIn(scope) ==
    LET documents == repository.documents
        generation == IF scope = <<>> THEN GenerationSource(documents, scope)
                      ELSE GenerationSourceIn(documents, scope)
        dedicated == Scoped(scope, "generation_config.json")
        legacy    == Scoped(scope, "config.json")
    IN  /\ dedicated \in DOMAIN documents =>
              /\ generation = Selected(dedicated)
              /\ ~Usable(documents[dedicated]) => Mentions(dedicated) # {}
        /\ generation = Selected(legacy) =>
              \A field \in GenerationConfigView :
                 /\ field.name \in LegacyGenerationFields
                 /\ SourceField(documents[legacy].json[2], field.name, field.type) = "Invalid"
                 => ErrorsAt(legacy, Some(<<field.name>>)) # {}
        /\ generation = Nothing /\ legacy \in DOMAIN documents =>
              \/ Mentions(legacy) # {}
              \/ \A name \in DOMAIN documents[legacy].json[2] :
                    name \notin NamesOf(FieldsOf("Config")) \ NamesOf(ConfigFields)

LEMMA GenerationTold ==
    ASSUME IInv, IsDone, NEW scope, ScopeOf(scope)
    PROVE  GenerationToldIn(scope)
<1> DEFINE documents  == repository.documents
           generation == GenerationSource(documents, scope)
           dedicated  == Scoped(scope, "generation_config.json")
           legacy     == Scoped(scope, "config.json")
<1>1. /\ Kind(dedicated) = "GenerationConfig" /\ Kind(legacy) = "Config"
      /\ generation = IF scope = <<>> THEN generation ELSE GenerationSourceIn(documents, scope)
  BY ScopeFacts
<1>2. /\ dedicated \in DOMAIN documents => generation = Selected(dedicated)
      /\ generation = Selected(legacy) => legacy \in DOMAIN documents /\ Usable(documents[legacy])
      /\ generation = Nothing /\ legacy \in DOMAIN documents /\ Usable(documents[legacy]) =>
            DOMAIN documents[legacy].json[2] \cap LegacyGenerationFields = {}
  BY <1>1, LegacySource
<1>3. dedicated \in DOMAIN documents /\ ~Usable(documents[dedicated]) => Mentions(dedicated) # {}
  BY <1>1, UnusableIsTold
<1>4. generation = Selected(legacy) =>
          \A field \in GenerationConfigView :
             /\ field.name \in LegacyGenerationFields
             /\ SourceField(documents[legacy].json[2], field.name, field.type) = "Invalid"
             => ErrorsAt(legacy, Some(<<field.name>>)) # {}
  BY <1>1, <1>2, LegacyReported
<1>5. legacy \in DOMAIN documents /\ ~Usable(documents[legacy]) => Mentions(legacy) # {}
  BY <1>1, UnusableIsTold
<1>6. generation = Nothing /\ legacy \in DOMAIN documents /\ Usable(documents[legacy]) =>
          \A name \in DOMAIN documents[legacy].json[2] :
              name \notin NamesOf(FieldsOf("Config")) \ NamesOf(ConfigFields)
  BY <1>2, NoLegacyField
<1>7. generation = IF scope = <<>> THEN GenerationSource(documents, scope)
                   ELSE GenerationSourceIn(documents, scope)
  BY <1>1
<1> HIDE DEF generation, dedicated, legacy, documents
<1>8. /\ dedicated \in DOMAIN documents =>
            /\ generation = Selected(dedicated)
            /\ ~Usable(documents[dedicated]) => Mentions(dedicated) # {}
      /\ generation = Selected(legacy) =>
            \A field \in GenerationConfigView :
               /\ field.name \in LegacyGenerationFields
               /\ SourceField(documents[legacy].json[2], field.name, field.type) = "Invalid"
               => ErrorsAt(legacy, Some(<<field.name>>)) # {}
      /\ generation = Nothing /\ legacy \in DOMAIN documents =>
            \/ Mentions(legacy) # {}
            \/ \A name \in DOMAIN documents[legacy].json[2] :
                  name \notin NamesOf(FieldsOf("Config")) \ NamesOf(ConfigFields)
  BY ONLY <1>2, <1>3, <1>4, <1>5, <1>6
<1>. QED
  BY ONLY <1>7, <1>8 DEF GenerationToldIn, documents, dedicated, legacy

TemplateToldIn(scope, inline) ==
    LET documents == repository.documents
        document  == Scoped(scope, inline)
        template  == Scoped(scope, "chat_template.jinja")
        chosen    == IF scope = <<>> THEN ChatTemplate(documents, scope, inline)
                     ELSE ChatTemplateIn(documents, scope, inline)
    IN  /\ template \in DOMAIN documents =>
              \/ chosen = Selected(template)
              \/ Mentions(template) # {} /\ chosen = Refused("InvalidUtf8")
        /\ chosen = Nothing /\ document \in DOMAIN documents =>
              \/ Mentions(document) # {}
              \/ <<"chat_template">> \notin DOMAIN documents[document].json[2]
              \/ documents[document].json[2][<<"chat_template">>] = Null

LEMMA TemplateTold ==
    ASSUME IInv, IsDone, NEW scope, ScopeOf(scope),
           NEW inline \in {"tokenizer_config.json", "processor_config.json"}
    PROVE  TemplateToldIn(scope, inline)
<1> DEFINE documents == repository.documents
           document  == Scoped(scope, inline)
           template  == Scoped(scope, "chat_template.jinja")
           chosen    == ChatTemplate(documents, scope, inline)
           member    == documents[document].json[2][<<"chat_template">>]
<1>1. /\ Kind(template) = "ChatTemplate" /\ Kind(document) \in {"TokenizerConfig", "ProcessorConfig"}
      /\ chosen = IF scope = <<>> THEN ChatTemplate(documents, scope, inline)
                  ELSE ChatTemplateIn(documents, scope, inline)
  BY ScopeFacts
<1>2. chosen =
         IF template \in DOMAIN documents
         THEN IF documents[template].json = <<"source">> THEN Selected(template) ELSE Refused("InvalidUtf8")
         ELSE IF document \in DOMAIN documents /\ InlineTemplate(documents[document])
         THEN Selected(document)
         ELSE Nothing
  BY DEF ChatTemplate
<1>3. ASSUME template \in DOMAIN documents
      PROVE  \/ documents[template].json = <<"source">>
             \/ documents[template].json = <<"bytes">> /\ Mentions(template) # {}
  <2>1. IsDocument(repository, template)
    BY <1>3, Ended
  <2>2. documents[template].json \in {<<"source">>, <<"bytes">>}
    BY <1>1, <2>1, DocumentIs DEF Readable
  <2>3. documents[template].json = <<"bytes">> => Mentions(template) # {}
    BY <1>1, <1>3, BytesAreTold
  <2>. QED
    BY <2>2, <2>3
<1>4. ASSUME document \in DOMAIN documents, ~InlineTemplate(documents[document])
      PROVE  \/ Mentions(document) # {}
             \/ <<"chat_template">> \notin DOMAIN documents[document].json[2]
             \/ member = Null
  <2>1. CASE ~Usable(documents[document])
    BY <1>1, <1>4, <2>1, UnusableIsTold
  <2>2. CASE /\ Usable(documents[document]) /\ <<"chat_template">> \in DOMAIN documents[document].json[2]
             /\ member # Null
    <3>1. member[1] \notin {"text", "object", "list"}
      BY <1>4, <2>2 DEF InlineTemplate
    <3>. QED
      BY <1>1, <1>4, <2>2, <3>1, InlineIsTold
  <2>. QED
    BY <2>1, <2>2
<1>5. \A p : Selected(p) # Nothing
  BY SelectedIs
<1>6. Refused("InvalidUtf8") # Nothing
  BY SelectedIs
<1> HIDE DEF chosen, document, template, member, documents
<1>7. /\ template \in DOMAIN documents =>
            \/ chosen = Selected(template)
            \/ Mentions(template) # {} /\ chosen = Refused("InvalidUtf8")
      /\ chosen = Nothing /\ document \in DOMAIN documents =>
            \/ Mentions(document) # {}
            \/ <<"chat_template">> \notin DOMAIN documents[document].json[2]
            \/ member = Null
  <2>1. CASE template \in DOMAIN documents
    BY ONLY <1>2, <1>3, <1>5, <1>6, <2>1
  <2>2. CASE template \notin DOMAIN documents
    BY ONLY <1>2, <1>4, <1>5, <2>2
  <2>. QED
    BY ONLY <2>1, <2>2
<1>. QED
  BY ONLY <1>1, <1>7 DEF TemplateToldIn, documents, document, template, member

\* A document that is not selected, or is but cannot be used, and a member that
\* a selection passes over, are told by a finding about it.
THEOREM SelectionTold == Spec => []SelectionIsNeverSilent
<1>1. IInv => SelectionIsNeverSilent
  <2> SUFFICES ASSUME IInv, IsDone, NEW scope \in {Parent(p) : p \in DOMAIN repository.documents}
               PROVE  /\ GenerationToldIn(scope)
                      /\ \A inline \in {"tokenizer_config.json", "processor_config.json"} :
                            TemplateToldIn(scope, inline)
    BY DEF SelectionIsNeverSilent, GenerationToldIn, TemplateToldIn, Mentions
  <2>1. ScopeOf(scope)
    BY DEF ScopeOf
  <2>. QED
    BY <2>1, GenerationTold, TemplateTold
<1>. QED
  BY <1>1, Invariance, PTL
-----------------------------------------------------------------------------
(***************************************************************************)
(* Broken references.                                                      *)
(***************************************************************************)
LEMMA TypesAre == IInv => TypeOK
<1> SUFFICES ASSUME IInv PROVE TypeOK
  OBVIOUS
<1> DEFINE r == repository
<1>1. Constructed(r) /\ left \subseteq DOMAIN r.documents /\ pass \in {"normalization", "done"} \cup Stages
  BY DEF IInv
<1>2. DOMAIN r.documents \subseteq r.files
  BY <1>1 DEF Constructed
<1>3. pass \in {"normalization", "done"} \cup ToSet(Passes)
  BY <1>1, StagesAre
<1>4. ASSUME NEW f \in Findings(findings)
      PROVE  /\ f.level \in {"error", "warning"}
             /\ IF f.code = "missing_root_config" THEN f.document = None
                ELSE f.document[1] \in DOMAIN r.documents
             /\ f.related # None => Valid(f.related[1])
  <2>1. CASE f \in Findings(RootList(r))
    <3>1. RootTelling(r, f)
      BY <2>1, RootTells
    <3>2. f.code # "missing_root_config" => f.document = Some(RootOf(r)) /\ RootOf(r) \in DOMAIN r.documents
      BY <3>1, RootIs DEF RootTelling
    <3>. QED
      BY <3>1, <3>2, SomeIsNotNone DEF RootTelling
  <2>2. CASE \E i \in 1..4 : \E p \in DOMAIN r.documents : f \in Findings(PassList(r, i, p))
    <3>1. PICK i \in 1..4, p \in DOMAIN r.documents : f \in Findings(PassList(r, i, p))
      BY <2>2
    <3>2. IsDocument(r, p)
      BY <1>1 DEF IsDocument
    <3>3. \E pointers : Telling(f, p, PassCodes, pointers)
      BY <3>1, <3>2, PassSpeaks DEF Speaks, Tells, PassList
    <3>4. /\ f.document = Some(p) /\ f.code \in PassCodes /\ f.level \in {"error", "warning"}
          /\ f.related # None => Valid(f.related[1])
      BY <3>3 DEF Telling
    <3>5. "missing_root_config" \notin PassCodes
      BY DEF PassCodes, ReferenceCodes, ShardCodes, AdapterCodes, ShapeCodes, FieldCodes,
             ConfigurationCodes, CodeCodes
    <3>. QED
      BY <3>4, <3>5, SomeIsNotNone
  <2>3. Heard(r, findings)
    BY DEF IInv
  <2>. QED
    BY <2>1, <2>2, <2>3 DEF Heard
<1>5. \A i \in 1..Len(findings) : findings[i] \in Findings(findings)
  BY DEF Findings
<1>. QED
  BY <1>1, <1>2, <1>3, <1>4, <1>5 DEF TypeOK

\* Of a usable document the parser has nothing to tell.
LEMMA UsableShape ==
    ASSUME NEW r, NEW p, IsDocument(r, p), Usable(r.documents[p])
    PROVE  /\ Kind(p) # "ChatTemplate" /\ Findings(ShapeFindings(r, p)) = {}
           /\ \A S : Hits(ShapeFindings(r, p), S) = 0
<1>1. Readable(p, r.documents[p])
  BY DocumentIs
<1>2. Kind(p) # "ChatTemplate" /\ r.documents[p].duplicates = {} /\ ~r.documents[p].truncated
      /\ r.documents[p].json # <<"malformed">> /\ r.documents[p].json[1] = "object"
  <2> DEFINE document == r.documents[p]
  <2>1. ~document.repeated /\ document.json[1] = "object"
    BY DEF Usable
  <2>2. /\ document.json \in {<<"source">>, <<"bytes">>} <=> Kind(p) = "ChatTemplate"
        /\ document.repeated = (document.duplicates # {} \/ document.truncated)
    BY <1>1 DEF Readable
  <2> HIDE DEF document
  <2>3. document.json \notin {<<"source">>, <<"bytes">>, <<"malformed">>}
    BY <2>1
  <2>4. document.duplicates = {} /\ ~document.truncated
    BY <2>1, <2>2
  <2>. QED
    BY <2>1, <2>2, <2>3, <2>4 DEF document
<1>3. Findings(ShapeFindings(r, p)) = {}
  BY <1>2, ShapeHas
<1>. QED
  BY <1>2, <1>3, ListsAre, NoHits

\* Warnings are no errors.
LEMMA NoErrors ==
    ASSUME NEW path, NEW codes, codes \subseteq Warnings, NEW list, Speaks(list, path, codes),
           NEW S, \A f \in S : f.level = "error"
    PROVE  Hits(list, S) = 0
  BY Untold DEF Speaks, Telling

LEMMA LocatesSpeaks ==
    ASSUME NEW path, NEW codes, NEW list, Locates(list, path, codes)
    PROVE  Speaks(list, path, codes)
  BY DEF Speaks, Locates

\* The errors at a pointer into a usable document.
LEMMA ErrorsOf ==
    ASSUME IInv, IsDone, NEW p \in DOMAIN repository.documents, Usable(repository.documents[p]),
           NEW pointer, pointer # None, NEW S, WrongOf(S, p, pointer)
    PROVE  /\ Cardinality(ErrorsAt(p, pointer)) =
                 Hits(References(repository, p), S) + Hits(FieldFindings(repository, p), S)
           /\ Hits(References(repository, p), S) \in Nat /\ Hits(FieldFindings(repository, p), S) \in Nat
<1> DEFINE r == repository
<1>1. IsDocument(r, p) /\ Cardinality(ErrorsAt(p, pointer)) = Whole(r, p, S)
  BY Ended, ErrorCount
<1>2. \A f \in S : f.level = "error" /\ f.pointer = pointer
  BY DEF WrongOf
<1>3. Hits(RootList(r), S) = 0
  BY <1>2, RootUnspoken
<1>4. Hits(ShapeFindings(r, p), S) = 0
  BY <1>1, UsableShape
<1>5. ConfigurationCodes \subseteq Warnings /\ CodeCodes \subseteq Warnings /\ InertCodes \subseteq Warnings
  BY DEF ConfigurationCodes, CodeCodes, InertCodes, Warnings
<1>6. Hits(Configurations(r, p), S) = 0
  BY <1>1, <1>2, <1>5, ConfigurationsSpeak, NoErrors
<1>7. Hits(IndexPart(r, p), S) = 0
  BY <1>1, <1>2, <1>5, ExecutablesAre, LocatesSpeaks, NoErrors
<1>8. Hits(WalkPart(r, p), S) = 0
  <2>1. Speaks(WalkPart(r, p), p, InertCodes)
    BY <1>1, ExecutablesAre DEF Speaks
  <2>. QED
    BY <1>2, <1>5, <2>1, NoErrors
<1>9. Hits(References(r, p), S) \in Nat /\ Hits(FieldFindings(r, p), S) \in Nat
  BY <1>1, PartsAre
<1>. QED
  BY ONLY <1>1, <1>3, <1>4, <1>6, <1>7, <1>8, <1>9 DEF Whole

-----------------------------------------------------------------------------
\* Where a path leads from a document.
LEMMA PartIsValid ==
    ASSUME NEW T, NEW base \in Seq(T), NEW child \in Seq(T), child # <<>>, Valid(base \o child)
    PROVE  Valid(child)
<1> DEFINE w == base \o child
           C == Among(child, Wide)
           W == Among(w, Wide)
<1>1. /\ Len(child) \in Nat /\ Len(w) \in Nat /\ Len(child) <= Len(w)
      /\ \A i \in 1..Len(child) : \E j \in 1..Len(w) : w[j] = child[i]
      /\ Cardinality(C) \in Nat /\ Cardinality(W) \in Nat /\ Cardinality(C) <= Cardinality(W)
  BY PartOccurs
<1>2. w # <<>> /\ Portable(w) /\ Size(w) <= MaxPath
  BY DEF Valid
<1>3. Portable(child)
  BY <1>1, <1>2 DEF Portable
<1>4. Size(child) = Len(child) + 2 * Cardinality(C) /\ Size(w) = Len(w) + 2 * Cardinality(W)
  BY DEF Size, Among
<1> HIDE DEF w, C, W
<1>5. Size(child) <= MaxPath
  <2>1. MaxPath \in Nat
    BY ValidationAssumption
  <2>. QED
    BY <1>1, <1>2, <1>4, <2>1
<1>. QED
  BY <1>3, <1>5 DEF Valid

LEMMA BaseIs ==
    ASSUME NEW r, NEW p, IsDocument(r, p)
    PROVE  /\ Parent(p) \in Seq(Segments)
           /\ Parent(p) = <<>> \/ Valid(Parent(p))
           /\ Len(p) \in Nat \ {0} /\ p \in Seq(Segments) /\ p = Append(Parent(p), Name(p))
<1>1. p \in Paths /\ p \in r.files /\ Constructed(r)
  BY DocumentIs DEF IsDocument
<1>2. p \in Seq(Segments) /\ p # <<>>
  BY <1>1, PathsAssumption
<1>3. /\ Len(p) \in Nat \ {0} /\ Parent(p) \in Seq(Segments)
      /\ p = Append(Parent(p), Name(p))
      /\ Parent(p) = <<>> \/ Len(p) - 1 \in 1..Len(p) - 1
  BY <1>2, BeforeLast DEF Parent, Name
<1>4. Parent(p) = <<>> \/ Parent(p) \in Ancestors(p)
  BY <1>3 DEF Parent, Ancestors
<1>5. Parent(p) = <<>> \/ Valid(Parent(p))
  BY <1>1, <1>4 DEF Constructed
<1>. QED
  BY <1>2, <1>3, <1>5

\* A path that leads to something that is there is a valid one, and is joined.
LEMMA LeadsTo ==
    ASSUME NEW r, NEW base \in Seq(Segments), base = <<>> \/ Valid(base), Constructed(r),
           NEW child, child \in Seq(ToSet(child)),
           NEW set, set \subseteq r.files \cup r.directories
    PROVE  LET related == Join(base, child)
           IN  /\ child # <<>> /\ base \o child \in set <=> related # None /\ related[1] \in set
               /\ related # None => related = Some(base \o child) /\ Valid(child)
<1> DEFINE related == Join(base, child)
<1>1. ASSUME child # <<>>, base \o child \in set PROVE related = Some(base \o child)
  <2>1. Valid(base \o child)
    BY <1>1 DEF Constructed
  <2> DEFINE T == Segments \cup ToSet(child)
  <2>2. base \in Seq(T) /\ child \in Seq(T)
    OBVIOUS
  <2> HIDE DEF T
  <2>3. Valid(child)
    BY <1>1, <2>1, <2>2, PartIsValid
  <2>. QED
    BY <2>1, <2>3 DEF Join
<1>2. related # None => related = Some(base \o child) /\ Valid(child)
  BY DEF Join
<1>3. Valid(child) => child # <<>>
  BY DEF Valid
<1> HIDE DEF related
<1>4. Some(base \o child) # None /\ Some(base \o child)[1] = base \o child
  BY SomeIsNotNone
<1>. QED
  BY <1>1, <1>2, <1>3, <1>4 DEF related
-----------------------------------------------------------------------------
\* The findings there may be about a component.
UnsafeName(p, name) == Error("unsafe_reference_path", p, Top(name))
NoDirectory(p, name) ==
    Report("error", "missing_component_directory", Some(p), Top(name), Join(Parent(p), <<name>>))
NoConfiguration(p, name) ==
    Report("warning", "missing_component_config", Some(p), Top(name), Join(Parent(p), <<name>>))

LEMMA ComponentFindings ==
    ASSUME NEW p, NEW name
    PROVE  /\ Top(name) = Some(<<name>>) /\ Top(name) # None
           /\ UnsafeName(p, name).level = "error" /\ UnsafeName(p, name).document = Some(p)
           /\ UnsafeName(p, name).pointer = Top(name) /\ UnsafeName(p, name).code = "unsafe_reference_path"
           /\ NoDirectory(p, name).level = "error" /\ NoDirectory(p, name).document = Some(p)
           /\ NoDirectory(p, name).pointer = Top(name)
           /\ NoDirectory(p, name).code = "missing_component_directory"
           /\ NoConfiguration(p, name).document = Some(p) /\ NoConfiguration(p, name).pointer = Top(name)
           /\ NoConfiguration(p, name).code = "missing_component_config"
           /\ InvalidField(p, Top(name)).level = "error" /\ InvalidField(p, Top(name)).document = Some(p)
           /\ InvalidField(p, Top(name)).pointer = Top(name)
           /\ InvalidField(p, Top(name)).code = "invalid_document_shape"
  BY PointersAre, SomeIsNotNone DEF UnsafeName, NoDirectory, NoConfiguration, InvalidField, Error, Report

DirectoryOf(p, name) == Append(Parent(p), name)

\* Where a component's directory is.
LEMMA DirectoryIs ==
    ASSUME NEW r, NEW p, IsDocument(r, p), NEW name
    PROVE  LET related == Join(Parent(p), <<name>>)
           IN  /\ DirectoryOf(p, name) = Parent(p) \o <<name>>
               /\ DirectoryOf(p, name) \in r.directories <=> related # None /\ related[1] \in r.directories
               /\ related # None => related = Some(DirectoryOf(p, name))
               /\ DirectoryOf(p, name) \in r.directories => name \notin UnsafeNames
<1> DEFINE base == Parent(p)
           child == <<name>>
           related == Join(base, child)
<1>1. base \in Seq(Segments) /\ (base = <<>> \/ Valid(base)) /\ Constructed(r)
  BY BaseIs DEF IsDocument
<1>2. child \in Seq(ToSet(child)) /\ child # <<>>
  <2>1. ToSet(child) = {name}
    BY DEF ToSet
  <2>. QED
    BY <2>1
<1>3. r.directories \subseteq r.files \cup r.directories
  OBVIOUS
<1>4. Append(base, name) = base \o child
  <2> DEFINE T == Segments \cup {name}
  <2>1. base \in Seq(T) /\ name \in T
    BY <1>1
  <2> HIDE DEF T, base
  <2>. QED
    BY <2>1, AppendIsConcat
<1> HIDE DEF base, child
<1>5. /\ child # <<>> /\ base \o child \in r.directories <=> related # None /\ related[1] \in r.directories
      /\ related # None => related = Some(base \o child) /\ Valid(child)
  BY <1>1, <1>2, <1>3, LeadsTo
<1>6. Valid(child) => name \notin UnsafeNames
  BY DEF Valid, Portable, child
<1> HIDE DEF related
<1>. QED
  BY <1>2, <1>4, <1>5, <1>6 DEF DirectoryOf, base, child, related

LEMMA ReferenceCounts ==
    ASSUME NEW r, NEW p, IsDocument(r, p), NEW name, NEW S
    PROVE  /\ UnsafeName(p, name) \in S /\ NoDirectory(p, name) \in S =>
                 Hits(ComponentReference(r, p, name), S) =
                    IF SafeName(name) /\ DirectoryOf(p, name) \notin r.directories THEN 1 ELSE 0
           /\ UnsafeName(p, name) \in S /\ NoDirectory(p, name) \notin S =>
                 Hits(ComponentReference(r, p, name), S) =
                    IF SafeName(name) /\ Join(Parent(p), <<name>>) = None THEN 1 ELSE 0
           /\ UnsafeName(p, name) \notin S /\ NoDirectory(p, name) \in S =>
                 Hits(ComponentReference(r, p, name), S) =
                    IF SafeName(name) /\ Join(Parent(p), <<name>>) # None
                       /\ DirectoryOf(p, name) \notin r.directories THEN 1 ELSE 0
<1> DEFINE related == Join(Parent(p), <<name>>)
           there == DirectoryOf(p, name) \in r.directories
           list == ComponentReference(r, p, name)
<1>1. list = IF ~SafeName(name) THEN <<>>
             ELSE IF related = None THEN <<UnsafeName(p, name)>>
             ELSE When(related[1] \notin r.directories, <<NoDirectory(p, name)>>)
  BY DEF ComponentReference, UnsafeName, NoDirectory
<1>2. there <=> related # None /\ related[1] \in r.directories
  BY DirectoryIs
<1> HIDE DEF list, related, there
<1>3. CASE ~SafeName(name)
  BY <1>1, <1>3, NoneIs DEF list, related, there
<1>4. CASE SafeName(name) /\ related = None
  <2>1. list = <<UnsafeName(p, name)>> /\ ~there
    BY <1>1, <1>2, <1>4
  <2>2. \A T : Hits(list, T) = IF UnsafeName(p, name) \in T THEN 1 ELSE 0
    BY <2>1, OneIs
  <2>. QED
    BY <1>4, <2>1, <2>2 DEF list, related, there
<1>5. CASE SafeName(name) /\ related # None
  <2>1. list = When(~there, <<NoDirectory(p, name)>>)
    BY <1>1, <1>2, <1>5
  <2>2. (~there) \in BOOLEAN
    BY DEF there
  <2>3. \A T : Hits(list, T) = IF ~there /\ NoDirectory(p, name) \in T THEN 1 ELSE 0
    BY <2>1, <2>2, WhenIs
  <2>. QED
    BY <1>5, <2>3 DEF list, related, there
<1>. QED
  BY <1>3, <1>4, <1>5

\* The table of an index is about its metadata only.
LEMMA IndexTable ==
    ASSUME NEW field \in FieldsOf("ModelIndex")
    PROVE  Metadata(field.name)
<1>1. \E w \in {"_class_name", "_diffusers_version", "_name_or_path", "pipeline_tag", "task"} :
          field.name = <<w>>
  BY DEF FieldsOf, ModelIndexFields, Typed
<1>2. {"_class_name", "_diffusers_version", "_name_or_path"} \subseteq Underscored
  BY UnderscoredAssumption
<1>. QED
  BY <1>1, <1>2 DEF Metadata

LEMMA TablePointers ==
    ASSUME NEW path, NEW object, IsFiniteSet(DOMAIN object), NEW S,
           \A field \in MisshapenOf(path, object) : InvalidField(path, Some(<<field.name>>)) \notin S
    PROVE  Hits(TableFindings(path, object), S) = 0
<1>1. ASSUME NEW f \in Findings(TableFindings(path, object)) PROVE f \notin S
  <2>1. \E field \in MisshapenOf(path, object) : f = InvalidField(path, Some(<<field.name>>))
    BY TableHas
  <2>. QED
    BY <2>1
<1>2. IsList(TableFindings(path, object))
  <2> DEFINE D == MisshapenOf(path, object)
             F == [field \in D |-> <<InvalidField(path, Some(<<field.name>>))>>]
  <2>1. IsEach(TableFindings(path, object), D, F)
    BY TableEach
  <2> HIDE DEF D, F
  <2>. QED
    BY <2>1, EachIs
<1>. QED
  BY <1>1, <1>2, NoHits

\* What is found of one component, in the two passes that look at it.
AtComponent(S, p, name) == \A f \in S : f.document = Some(p) /\ f.pointer = Top(name)

LEMMA ComponentHits ==
    ASSUME NEW r, NEW p, IsDocument(r, p), IsIndex(r, p), NEW object, object = r.documents[p].json[2],
           NEW name \in Declared(object), NEW S, AtComponent(S, p, name)
    PROVE  /\ Hits(References(r, p), S) =
                 IF name \in PresentNames(object) THEN Hits(ComponentReference(r, p, name), S) ELSE 0
           /\ Hits(FieldFindings(r, p), S) = Hits(ComponentField(p, object, name), S)
           /\ Hits(Configurations(r, p), S) =
                 IF name \in PresentNames(object) THEN Hits(ComponentConfiguration(r, p, name), S) ELSE 0
           /\ Hits(IndexPart(r, p), S) =
                 IF name \in PresentNames(object) THEN Hits(ComponentCode(p, object, name), S) ELSE 0
<1> DEFINE names == PresentNames(object)
<1>1. Kind(p) = "ModelIndex" /\ Usable(r.documents[p]) /\ IsObject(object)
  BY ObjectIs DEF IsIndex
<1>2. \A other : other # name => Top(other) # Top(name)
  BY PointersAre DEF Some
<1>3. ASSUME NEW list, NEW codes, NEW other, other # name, Tells(list, p, codes, {Top(other)})
      PROVE  Hits(list, S) = 0
  BY <1>2, <1>3, Untold DEF AtComponent, Telling
<1>4. Hits(References(r, p), S) =
         IF name \in names THEN Hits(ComponentReference(r, p, name), S) ELSE 0
  <2> DEFINE F == [other \in names |-> ComponentReference(r, p, other)]
  <2>1. References(r, p) = IndexReferences(r, p)
    BY <1>1 DEF References
  <2>2. IsEach(IndexReferences(r, p), names, F)
    BY <1>1, IndexReferencesEach
  <2>3. \A other \in names : other # name => Hits(F[other], S) = 0
    BY <1>3, ReferenceTells
  <2>4. name \in names => F[name] = ComponentReference(r, p, name)
    OBVIOUS
  <2> HIDE DEF names, F
  <2>5. CASE name \in names
    BY <2>1, <2>2, <2>3, <2>4, <2>5, EachOnly
  <2>6. CASE name \notin names
    BY <2>1, <2>2, <2>3, <2>6, EachNone
  <2>. QED
    BY <2>5, <2>6
<1>5. Hits(Configurations(r, p), S) =
         IF name \in names THEN Hits(ComponentConfiguration(r, p, name), S) ELSE 0
  <2> DEFINE F == [other \in names |-> ComponentConfiguration(r, p, other)]
  <2>1. Configurations(r, p) = IndexConfigurations(r, p)
    BY <1>1 DEF Configurations
  <2>2. IsEach(IndexConfigurations(r, p), names, F)
    BY <1>1, IndexConfigurationsEach
  <2>3. \A other \in names : other # name => Hits(F[other], S) = 0
    BY <1>3, ConfigurationTells
  <2>4. name \in names => F[name] = ComponentConfiguration(r, p, name)
    OBVIOUS
  <2> HIDE DEF names, F
  <2>5. CASE name \in names
    BY <2>1, <2>2, <2>3, <2>4, <2>5, EachOnly
  <2>6. CASE name \notin names
    BY <2>1, <2>2, <2>3, <2>6, EachNone
  <2>. QED
    BY <2>5, <2>6
<1>6. Hits(IndexPart(r, p), S) =
         IF name \in names THEN Hits(ComponentCode(p, object, name), S) ELSE 0
  <2> DEFINE F == [other \in names |-> ComponentCode(p, object, other)]
  <2>1. IndexPart(r, p) = IndexExecutables(r, p)
    BY <1>1 DEF IndexPart, When
  <2>2. IsEach(IndexExecutables(r, p), names, F)
    BY <1>1, IndexExecutablesEach
  <2>3. \A other \in names : other # name => Hits(F[other], S) = 0
    BY <1>3, CodeTells
  <2>4. name \in names => F[name] = ComponentCode(p, object, name)
    OBVIOUS
  <2> HIDE DEF names, F
  <2>5. CASE name \in names
    BY <2>1, <2>2, <2>3, <2>4, <2>5, EachOnly
  <2>6. CASE name \notin names
    BY <2>1, <2>2, <2>3, <2>6, EachNone
  <2>. QED
    BY <2>5, <2>6
<1>7. Hits(IndexComponents(p, object), S) = Hits(ComponentField(p, object, name), S)
  <2> DEFINE D == Declared(object)
             F == [other \in D |-> ComponentField(p, object, other)]
  <2>1. IsEach(IndexComponents(p, object), D, F)
    BY <1>1, IndexComponentsEach DEF ComponentsEach
  <2>2. \A other \in D : other # name => Hits(F[other], S) = 0
    BY <1>3, ComponentFieldTells
  <2>3. F[name] = ComponentField(p, object, name) /\ name \in D
    OBVIOUS
  <2> HIDE DEF D, F
  <2>. QED
    BY <2>1, <2>2, <2>3, EachOnly
<1>8. Hits(TableFindings(p, object), S) = 0
  <2>1. ~Metadata(name)
    BY DEF Declared
  <2>2. ASSUME NEW field \in MisshapenOf(p, object) PROVE InvalidField(p, Some(<<field.name>>)) \notin S
    <3>1. field.name # name
      BY <1>1, <2>1, IndexTable DEF MisshapenOf
    <3>2. InvalidField(p, Some(<<field.name>>)).pointer = Some(<<field.name>>)
      BY ErrorFacts
    <3>3. Some(<<field.name>>) # Top(name)
      BY <1>2, <3>1, PointersAre
    <3>. QED
      BY <3>2, <3>3 DEF AtComponent
  <2>. QED
    BY <1>1, <2>2, TablePointers DEF IsObject
<1>9. /\ SpecialPart(p, object) = <<>> /\ ArchitecturePart(p, object) = <<>>
      /\ InlinePart(p, object) = <<>> /\ MetadataPart(p, object) = <<>>
      /\ ComponentPart(p, object) = IndexComponents(p, object)
  BY <1>1 DEF SpecialPart, ArchitecturePart, InlinePart, MetadataPart, ComponentPart, When
<1>10. Hits(FieldFindings(r, p), S) =
          Hits(TableFindings(p, object), S) + Hits(SpecialPart(p, object), S)
          + Hits(ArchitecturePart(p, object), S) + Hits(ComponentPart(p, object), S)
          + Hits(InlinePart(p, object), S) + Hits(MetadataPart(p, object), S)
  BY <1>1, FieldsAre
<1>11. Hits(<<>>, S) = 0
  BY NoneIs
<1>12. Hits(IndexComponents(p, object), S) \in Nat
  <2>1. IsList(ComponentField(p, object, name))
    BY ComponentFieldTells DEF Tells
  <2>. QED
    BY <1>7, <2>1, HitsAre
<1>13. Hits(FieldFindings(r, p), S) = Hits(IndexComponents(p, object), S)
  BY ONLY <1>8, <1>9, <1>10, <1>11, <1>12
<1>. QED
  BY <1>4, <1>5, <1>6, <1>7, <1>13
-----------------------------------------------------------------------------
\* The errors about a component.
ErrorsOfComponent(p, name) ==
    WrongAt(p, Top(name)) \cup {InvalidField(p, Top(name)), UnsafeName(p, name), NoDirectory(p, name)}

LEMMA FieldCounts ==
    ASSUME NEW p, NEW object, NEW name, NEW S, IsPair(object[name])
    PROVE  /\ InvalidField(p, Top(name)) \in S /\ UnsafeName(p, name) \in S =>
                 Hits(ComponentField(p, object, name), S) =
                    IF ~ComponentTuple(object[name]) \/ (PresentTuple(object[name]) /\ ~SafeName(name))
                    THEN 1 ELSE 0
           /\ InvalidField(p, Top(name)) \notin S /\ UnsafeName(p, name) \in S =>
                 Hits(ComponentField(p, object, name), S) =
                    IF PresentTuple(object[name]) /\ ~SafeName(name) THEN 1 ELSE 0
<1> DEFINE list == ComponentField(p, object, name)
           unsafe == PresentTuple(object[name]) /\ ~SafeName(name)
<1>1. list = IF ~ComponentTuple(object[name]) THEN <<InvalidField(p, Top(name))>>
             ELSE When(unsafe, <<UnsafeName(p, name)>>)
  BY DEF ComponentField, UnsafeName
<1>2. PresentTuple(object[name]) => ComponentTuple(object[name])
  BY DEF PresentTuple, ComponentTuple
<1>3. unsafe \in BOOLEAN
  OBVIOUS
<1> HIDE DEF list, unsafe
<1>4. CASE ~ComponentTuple(object[name])
  <2>1. \A T : Hits(list, T) = IF InvalidField(p, Top(name)) \in T THEN 1 ELSE 0
    BY <1>1, <1>4, OneIs
  <2>. QED
    BY <1>2, <1>4, <2>1 DEF list
<1>5. CASE ComponentTuple(object[name])
  <2>1. \A T : Hits(list, T) = IF unsafe /\ UnsafeName(p, name) \in T THEN 1 ELSE 0
    BY <1>1, <1>3, <1>5, WhenIs
  <2>. QED
    BY <1>5, <2>1 DEF list, unsafe
<1>. QED
  BY <1>4, <1>5

LEMMA TupleIs ==
    ASSUME NEW object, NEW name \in Declared(object)
    PROVE  LET value == object[name]
           IN  /\ IsPair(value) /\ name \in DOMAIN object /\ ~Metadata(name)
               /\ name \in PresentNames(object) <=> PresentTuple(value)
               /\ PresentTuple(value) <=> value[2][2] # Null
               /\ ComponentTuple(value) <=> value[2][2] # Null \/ value[2][1] = Null
<1> DEFINE value == object[name]
<1>1. name \in DOMAIN object /\ ~Metadata(name) /\ TupleShaped(value)
  BY DEF Declared
<1>2. IsPair(value)
  BY <1>1 DEF TupleShaped
<1>3. (value[2][1] = Null \/ IsText(value[2][1])) /\ (value[2][2] = Null \/ IsText(value[2][2]))
  BY <1>1 DEF TupleShaped
<1>4. name \in PresentNames(object) <=> PresentTuple(value)
  BY <1>1 DEF PresentNames
<1>5. ~IsText(Null)
  BY DEF IsText, Null
<1> HIDE DEF value
<1>6. PresentTuple(value) <=> value[2][2] # Null
  BY <1>2, <1>3, <1>5 DEF PresentTuple
<1>7. ComponentTuple(value) <=> value[2][2] # Null \/ value[2][1] = Null
  BY <1>2, <1>3, <1>5 DEF ComponentTuple
<1>. QED
  BY <1>1, <1>2, <1>4, <1>6, <1>7 DEF value

LEMMA ComponentErrors ==
    ASSUME IInv, IsDone, NEW p \in IndexDocuments, NEW object, object = repository.documents[p].json[2],
           NEW name \in Declared(object)
    PROVE  ReportedOnce(ErrorsAt(p, Some(<<name>>)),
              IF object[name][2][2] = Null THEN object[name][2][1] # Null
              ELSE ~(Usual(name) /\ DirectoryOf(p, name) \in repository.directories))
<1> DEFINE r == repository
           S == ErrorsOfComponent(p, name)
           there == DirectoryOf(p, name) \in r.directories
           present == PresentTuple(object[name])
<1>1. p \in DOMAIN r.documents /\ IsIndex(r, p) /\ Usable(r.documents[p])
  BY DEF IndexDocuments, IsIndex
<1>2. IsDocument(r, p)
  BY <1>1, Ended
<1>3. Top(name) = Some(<<name>>) /\ Top(name) # None
  BY ComponentFindings
<1>4. WrongOf(S, p, Top(name)) /\ AtComponent(S, p, name)
  <2>1. ASSUME NEW f \in S PROVE f.level = "error" /\ f.document = Some(p) /\ f.pointer = Top(name)
    <3>1. CASE f \in WrongAt(p, Top(name))
      BY <3>1 DEF WrongAt
    <3>2. CASE f = InvalidField(p, Top(name))
      BY <3>2, ComponentFindings
    <3>3. CASE f = UnsafeName(p, name)
      BY <3>3, ComponentFindings
    <3>4. CASE f = NoDirectory(p, name)
      BY <3>4, ComponentFindings
    <3>. QED
      BY <3>1, <3>2, <3>3, <3>4 DEF ErrorsOfComponent
  <2>2. WrongAt(p, Top(name)) \subseteq S
    BY DEF ErrorsOfComponent
  <2> HIDE DEF S
  <2>. QED
    BY <2>1, <2>2 DEF WrongOf, AtComponent
<1>5. InvalidField(p, Top(name)) \in S /\ UnsafeName(p, name) \in S /\ NoDirectory(p, name) \in S
  BY DEF ErrorsOfComponent
<1> HIDE DEF S, r
<1>6. Cardinality(ErrorsAt(p, Top(name))) = Hits(References(r, p), S) + Hits(FieldFindings(r, p), S)
  BY <1>1, <1>3, <1>4, ErrorsOf DEF r
<1>7. /\ Hits(References(r, p), S) = IF name \in PresentNames(object) THEN Hits(ComponentReference(r, p, name), S) ELSE 0
      /\ Hits(FieldFindings(r, p), S) = Hits(ComponentField(p, object, name), S)
  BY <1>1, <1>2, <1>4, ComponentHits DEF r
<1>8. Hits(ComponentReference(r, p, name), S) = IF SafeName(name) /\ ~there THEN 1 ELSE 0
  BY <1>2, <1>5, ReferenceCounts
<1>9. /\ IsPair(object[name]) /\ (name \in PresentNames(object) <=> present)
      /\ present <=> object[name][2][2] # Null
      /\ ComponentTuple(object[name]) <=> object[name][2][2] # Null \/ object[name][2][1] = Null
  BY TupleIs
<1>10. Hits(ComponentField(p, object, name), S) =
          IF ~ComponentTuple(object[name]) \/ (present /\ ~SafeName(name)) THEN 1 ELSE 0
  BY <1>5, <1>9, FieldCounts
<1>11. SafeName(name) <=> Usual(name)
  BY DEF SafeName, Usual
<1> HIDE DEF there, present
<1>12. Cardinality(ErrorsAt(p, Top(name))) =
          IF IF object[name][2][2] = Null THEN object[name][2][1] # Null ELSE ~(Usual(name) /\ there)
          THEN 1 ELSE 0
  <2>1. CASE object[name][2][2] = Null
    BY ONLY <1>6, <1>7, <1>9, <1>10, <2>1
  <2>2. CASE object[name][2][2] # Null
    BY ONLY <1>6, <1>7, <1>8, <1>9, <1>10, <1>11, <2>2
  <2>. QED
    BY ONLY <2>1, <2>2
<1>. QED
  BY <1>3, <1>12 DEF ReportedOnce, there, r

-----------------------------------------------------------------------------
\* The configuration of a component's directory.
Unconfigurable == {"GenerationConfig", "SpecialTokensMap", "ChatTemplate", "SafetensorsIndex"}
Configurable ==
    {"config.json", "tokenizer_config.json", "preprocessor_config.json", "processor_config.json",
     "scheduler_config.json", "model_index.json", "adapter_config.json", "quantization_config.json"}

LEMMA KindsAre ==
    /\ Configurable \subseteq DOMAIN Kinds
    /\ \A name \in DOMAIN Kinds : Kinds[name] \notin Unconfigurable <=> name \in Configurable
  BY DEF Kinds, Configurable, Unconfigurable

LEMMA ConfiguredIs ==
    ASSUME NEW r, Constructed(r), NEW directory \in r.directories
    PROVE  HasConfiguration(r, directory) <=>
              \E d \in DOMAIN r.documents : Parent(d) = directory /\ Kind(d) \notin Unconfigurable
<1>1. directory \in Seq(Segments) /\ Valid(directory)
  BY PathsAssumption DEF Constructed
<1>2. ASSUME NEW name \in Configurable, HasDocument(r, directory, name)
      PROVE  \E d \in DOMAIN r.documents : Parent(d) = directory /\ Kind(d) \notin Unconfigurable
  <2> DEFINE d == directory \o <<<<name>>>>
  <2>1. d \in DOMAIN r.documents
    BY <1>2, JoinIs DEF HasDocument
  <2>2. IsDocument(r, d)
    BY <2>1 DEF IsDocument
  <2>3. Append(directory, <<name>>) = d
    <3> DEFINE T == Segments \cup {<<name>>}
    <3>1. directory \in Seq(T) /\ <<name>> \in T
      BY <1>1
    <3> HIDE DEF T
    <3>. QED
      BY <3>1, AppendIsConcat
  <2>4. d = Append(Parent(d), Name(d)) /\ Parent(d) \in Seq(Segments) /\ d \in Seq(Segments)
    BY <2>2, BaseIs
  <2>5. Parent(d) = directory /\ Name(d) = <<name>>
    <3> DEFINE T == Segments \cup {<<name>>, Name(d)}
    <3>1. directory \in Seq(T) /\ Parent(d) \in Seq(T) /\ <<name>> \in T /\ Name(d) \in T
      BY <1>1, <2>4
    <3> HIDE DEF T, d
    <3>2. /\ Len(d) = Len(directory) + 1 /\ d[Len(directory) + 1] = <<name>>
          /\ \A i \in 1..Len(directory) : d[i] = directory[i]
      BY <2>3, <3>1, AppendProperties
    <3>3. /\ Len(d) = Len(Parent(d)) + 1 /\ d[Len(Parent(d)) + 1] = Name(d)
          /\ \A i \in 1..Len(Parent(d)) : d[i] = Parent(d)[i]
      BY <2>4, <3>1, AppendProperties
    <3>4. Len(directory) \in Nat /\ Len(Parent(d)) \in Nat
      BY <1>1, <2>4
    <3>5. Len(directory) = Len(Parent(d))
      BY <3>2, <3>3, <3>4
    <3>6. Parent(d) = directory
      BY <1>1, <2>4, <3>2, <3>3, <3>5, SeqEqual
    <3>. QED
      BY <3>2, <3>3, <3>5, <3>6
  <2>6. Kind(d) = Kinds[name]
    BY <2>5, KindsAre DEF Kind
  <2>7. Kind(d) \notin Unconfigurable
    BY <2>6, KindsAre
  <2> HIDE DEF d
  <2>. QED
    BY <2>1, <2>5, <2>7
<1>3. ASSUME NEW d \in DOMAIN r.documents, Parent(d) = directory, Kind(d) \notin Unconfigurable
      PROVE  \E name \in Configurable : HasDocument(r, directory, name)
  <2> DEFINE name == Name(d)[1]
             child == <<<<name>>>>
  <2>1. IsDocument(r, d)
    BY <1>3 DEF IsDocument
  <2>2. name \in DOMAIN Kinds /\ Kind(d) = Kinds[name]
    BY <1>3 DEF Kind, Unconfigurable
  <2>3. name \in Configurable
    BY <1>3, <2>2, KindsAre
  <2>4. Name(d) = <<name>>
    BY <2>1, <2>2, DocumentIs DEF Readable
  <2>5. d = Append(directory, <<name>>) /\ d \in r.files
    BY <1>3, <2>1, <2>4, BaseIs, DocumentIs
  <2>6. d = directory \o child
    <3> DEFINE T == Segments \cup {<<name>>}
    <3>1. directory \in Seq(T) /\ <<name>> \in T
      BY <1>1
    <3> HIDE DEF T, name
    <3>. QED
      BY <2>5, <3>1, AppendIsConcat
  <2>7. child \in Seq(ToSet(child)) /\ child # <<>>
    <3>1. ToSet(child) = {<<name>>}
      BY DEF ToSet
    <3>. QED
      BY <3>1
  <2>8. r.files \subseteq r.files \cup r.directories
    OBVIOUS
  <2> HIDE DEF name, child
  <2>9. Join(directory, child) # None /\ Join(directory, child)[1] = d
    BY <1>1, <2>5, <2>6, <2>7, <2>8, LeadsTo, JoinIs
  <2>10. HasDocument(r, directory, name)
    BY <1>3, <2>9 DEF HasDocument, child
  <2>. QED
    BY <2>3, <2>10
<1>4. HasConfiguration(r, directory) <=> \E name \in Configurable : HasDocument(r, directory, name)
  BY DEF HasConfiguration, Configurable
<1>. QED
  BY <1>2, <1>3, <1>4
-----------------------------------------------------------------------------
\* A code of which only one list of a document may have findings.
OfCode(S, code) == \A f \in S : f.code = code /\ f.pointer # None

LEMMA WholeOf ==
    ASSUME NEW r, NEW p, IsDocument(r, p), NEW code, NEW S, OfCode(S, code)
    PROVE  /\ code \in ConfigurationCodes => Whole(r, p, S) = Hits(Configurations(r, p), S)
           /\ code = "missing_component_directory" => Whole(r, p, S) = Hits(References(r, p), S)
           /\ code = "custom_component_requires_code" => Whole(r, p, S) = Hits(IndexPart(r, p), S)
           /\ code = "unsafe_reference_path" =>
                 Whole(r, p, S) = Hits(References(r, p), S) + Hits(FieldFindings(r, p), S)
<1>1. Hits(RootList(r), S) = 0
  BY RootUnspoken DEF OfCode
<1>2. code \notin ReferenceCodes => Hits(References(r, p), S) = 0
  BY ReferencesLocate, Unlocated DEF OfCode
<1>3. code \notin ShapeCodes => Hits(ShapeFindings(r, p), S) = 0
  BY ShapeUnspoken DEF OfCode
<1>4. code \notin FieldCodes => Hits(FieldFindings(r, p), S) = 0
  BY FieldsLocate, Unlocated DEF OfCode
<1>5. code \notin ConfigurationCodes => Hits(Configurations(r, p), S) = 0
  BY ConfigurationsSpeak, Unspoken DEF OfCode
<1>6. code \notin CodeCodes => Hits(IndexPart(r, p), S) = 0
  BY ExecutablesAre, Unlocated DEF OfCode
<1>7. code \notin InertCodes => Hits(WalkPart(r, p), S) = 0
  <2>1. Speaks(WalkPart(r, p), p, InertCodes)
    BY ExecutablesAre DEF Speaks
  <2>. QED
    BY <2>1, Unspoken DEF OfCode
<1>8. /\ Hits(References(r, p), S) \in Nat /\ Hits(ShapeFindings(r, p), S) \in Nat
      /\ Hits(FieldFindings(r, p), S) \in Nat /\ Hits(Configurations(r, p), S) \in Nat
      /\ Hits(IndexPart(r, p), S) \in Nat /\ Hits(WalkPart(r, p), S) \in Nat
  BY PartsAre
<1>9. CASE code \in ConfigurationCodes
  <2>1. code \notin ReferenceCodes /\ code \notin ShapeCodes /\ code \notin FieldCodes
        /\ code \notin CodeCodes /\ code \notin InertCodes
    BY <1>9 DEF ReferenceCodes, ShardCodes, AdapterCodes, ShapeCodes, FieldCodes, ConfigurationCodes,
                CodeCodes, InertCodes
  <2>2. Whole(r, p, S) = Hits(Configurations(r, p), S)
    BY ONLY <1>1, <1>2, <1>3, <1>4, <1>6, <1>7, <1>8, <2>1 DEF Whole
  <2>. QED
    BY <1>9, <2>2 DEF ConfigurationCodes
<1>10. CASE code = "missing_component_directory"
  <2>1. code \notin ConfigurationCodes /\ code \notin ShapeCodes /\ code \notin FieldCodes
        /\ code \notin CodeCodes /\ code \notin InertCodes
    BY <1>10 DEF ShapeCodes, FieldCodes, ConfigurationCodes, CodeCodes, InertCodes
  <2>2. Whole(r, p, S) = Hits(References(r, p), S)
    BY ONLY <1>1, <1>3, <1>4, <1>5, <1>6, <1>7, <1>8, <2>1 DEF Whole
  <2>. QED
    BY <1>10, <2>1, <2>2
<1>11. CASE code = "custom_component_requires_code"
  <2>1. code \notin ConfigurationCodes /\ code \notin ShapeCodes /\ code \notin FieldCodes
        /\ code \notin ReferenceCodes /\ code \notin InertCodes
    BY <1>11 DEF ShapeCodes, FieldCodes, ConfigurationCodes, ReferenceCodes, ShardCodes, AdapterCodes, InertCodes
  <2>2. Whole(r, p, S) = Hits(IndexPart(r, p), S)
    BY ONLY <1>1, <1>2, <1>3, <1>4, <1>5, <1>7, <1>8, <2>1 DEF Whole
  <2>. QED
    BY <1>11, <2>1, <2>2
<1>12. CASE code = "unsafe_reference_path"
  <2>1. code \notin ConfigurationCodes /\ code \notin ShapeCodes /\ code \notin CodeCodes /\ code \notin InertCodes
    BY <1>12 DEF ShapeCodes, ConfigurationCodes, CodeCodes, InertCodes
  <2>2. Whole(r, p, S) = Hits(References(r, p), S) + Hits(FieldFindings(r, p), S)
    BY ONLY <1>1, <1>3, <1>5, <1>6, <1>7, <1>8, <2>1 DEF Whole
  <2>. QED
    BY <1>12, <2>1, <2>2
<1>. QED
  BY <1>9, <1>10, <1>11, <1>12

LEMMA SortIs ==
    ASSUME NEW p, NEW code, NEW name, NEW f,
           f.code = code, f.document = Some(p), f.pointer = Top(name)
    PROVE  LET S == CodedAt(code, p, Top(name)) \cup {f}
           IN  SortOf(S, code, p, Top(name)) /\ AtComponent(S, p, name) /\ OfCode(S, code) /\ f \in S
<1> DEFINE S == CodedAt(code, p, Top(name)) \cup {f}
<1>1. \A g \in S : g.code = code /\ g.document = Some(p) /\ g.pointer = Top(name)
  BY DEF CodedAt
<1>2. Top(name) # None
  BY ComponentFindings
<1>3. CodedAt(code, p, Top(name)) \subseteq S /\ f \in S
  OBVIOUS
<1> HIDE DEF S
<1>4. SortOf(S, code, p, Top(name)) /\ AtComponent(S, p, name) /\ OfCode(S, code)
  BY <1>1, <1>2, <1>3 DEF SortOf, AtComponent, OfCode
<1>. QED
  BY <1>3, <1>4 DEF S

LEMMA ComponentWarnings ==
    ASSUME IInv, IsDone, NEW p \in IndexDocuments, NEW object, object = repository.documents[p].json[2],
           NEW name \in Declared(object)
    PROVE  ReportedOnce(ReportedAt("missing_component_config", p, Some(<<name>>)),
              /\ object[name][2][2] # Null
              /\ Usual(name) /\ DirectoryOf(p, name) \in repository.directories
              /\ ~\E d \in DOMAIN repository.documents :
                    Parent(d) = DirectoryOf(p, name) /\ Kind(d) \notin Unconfigurable)
<1> DEFINE r == repository
           f == NoConfiguration(p, name)
           code == "missing_component_config"
           S == CodedAt(code, p, Top(name)) \cup {f}
           directory == DirectoryOf(p, name)
           there == directory \in r.directories
           present == PresentTuple(object[name])
           configured == \E d \in DOMAIN r.documents : Parent(d) = directory /\ Kind(d) \notin Unconfigurable
           related == Join(Parent(p), <<name>>)
           list == ComponentConfiguration(r, p, name)
<1>1. p \in DOMAIN r.documents /\ IsIndex(r, p) /\ Usable(r.documents[p])
  BY DEF IndexDocuments, IsIndex
<1>2. IsDocument(r, p) /\ Constructed(r)
  BY <1>1, Ended DEF IsDocument
<1>3. Top(name) = Some(<<name>>) /\ f.code = code /\ f.document = Some(p) /\ f.pointer = Top(name)
  BY ComponentFindings
<1>4. SortOf(S, code, p, Top(name)) /\ AtComponent(S, p, name) /\ OfCode(S, code) /\ f \in S
  <2> HIDE DEF f
  <2>. QED
    BY <1>3, SortIs
<1>5. code \in ConfigurationCodes
  BY DEF ConfigurationCodes
<1>6. list = IF ~SafeName(name) \/ related = None THEN <<>>
             ELSE When(related[1] \in r.directories /\ ~HasConfiguration(r, related[1]), <<f>>)
  BY DEF ComponentConfiguration, NoConfiguration
<1> HIDE DEF S, f, code
<1>7. Cardinality(ReportedAt(code, p, Top(name))) = Whole(r, p, S)
  BY <1>1, <1>4, ReportedCount
<1>8. Whole(r, p, S) = Hits(Configurations(r, p), S)
  BY <1>2, <1>4, <1>5, WholeOf
<1>9. Hits(Configurations(r, p), S) = IF name \in PresentNames(object) THEN Hits(list, S) ELSE 0
  BY <1>1, <1>2, <1>4, ComponentHits
<1>10. /\ name \in PresentNames(object) <=> present
       /\ present <=> object[name][2][2] # Null
  BY TupleIs
<1>11. /\ there <=> related # None /\ related[1] \in r.directories
       /\ related # None => related[1] = directory
  BY <1>2, DirectoryIs, SomeIsNotNone
<1>12. there => (HasConfiguration(r, directory) <=> configured)
  BY <1>2, ConfiguredIs
<1>13. SafeName(name) <=> Usual(name)
  BY DEF SafeName, Usual
<1>14. configured \in BOOLEAN /\ there \in BOOLEAN /\ HasConfiguration(r, directory) \in BOOLEAN
  BY DEF HasConfiguration
<1> HIDE DEF list, related, there, configured, present, directory
<1>15. Hits(list, S) = IF Usual(name) /\ there /\ ~configured THEN 1 ELSE 0
  <2>1. CASE ~SafeName(name) \/ related = None
    <3>1. list = <<>> /\ ~(Usual(name) /\ there)
      BY <1>6, <1>11, <1>13, <2>1
    <3>. QED
      BY <3>1, NoneIs
  <2>2. CASE SafeName(name) /\ related # None
    <3>1. list = When(there /\ ~configured, <<f>>)
      BY <1>6, <1>11, <1>12, <1>14, <2>2 DEF When
    <3>2. (there /\ ~configured) \in BOOLEAN
      BY <1>14
    <3>. QED
      BY <1>4, <1>13, <2>2, <3>1, <3>2, WhenIs
  <2>. QED
    BY <2>1, <2>2
<1>16. Cardinality(ReportedAt(code, p, Top(name))) =
          IF object[name][2][2] # Null /\ Usual(name) /\ there /\ ~configured THEN 1 ELSE 0
  BY ONLY <1>7, <1>8, <1>9, <1>10, <1>15
<1>. QED
  BY <1>3, <1>16 DEF ReportedOnce, there, configured, directory, code

LEMMA ComponentsReported == IInv => BrokenComponentsAreReportedOnce
<1> SUFFICES ASSUME IInv, IsDone, NEW p \in IndexDocuments,
                    NEW name \in Declared(repository.documents[p].json[2])
             PROVE  LET value     == repository.documents[p].json[2][name][2]
                        directory == Append(Parent(p), name)
                        there     == Usual(name) /\ directory \in repository.directories
                        configured == \E d \in DOMAIN repository.documents :
                                         /\ Parent(d) = directory
                                         /\ Kind(d) \notin {"GenerationConfig", "SpecialTokensMap",
                                                            "ChatTemplate", "SafetensorsIndex"}
                    IN  /\ ReportedOnce(ErrorsAt(p, Some(<<name>>)),
                                        IF value[2] = Null THEN value[1] # Null ELSE ~there)
                        /\ ReportedOnce(ReportedAt("missing_component_config", p, Some(<<name>>)),
                                        value[2] # Null /\ there /\ ~configured)
  BY DEF BrokenComponentsAreReportedOnce
<1> DEFINE object == repository.documents[p].json[2]
<1>1. ReportedOnce(ErrorsAt(p, Some(<<name>>)),
              IF object[name][2][2] = Null THEN object[name][2][1] # Null
              ELSE ~(Usual(name) /\ DirectoryOf(p, name) \in repository.directories))
  BY ComponentErrors
<1>2. ReportedOnce(ReportedAt("missing_component_config", p, Some(<<name>>)),
              /\ object[name][2][2] # Null
              /\ Usual(name) /\ DirectoryOf(p, name) \in repository.directories
              /\ ~\E d \in DOMAIN repository.documents :
                    Parent(d) = DirectoryOf(p, name) /\ Kind(d) \notin Unconfigurable)
  BY ComponentWarnings
<1> HIDE DEF object
<1>. QED
  BY <1>1, <1>2 DEF ReportedOnce, DirectoryOf, Unconfigurable, object
-----------------------------------------------------------------------------
\* The shards and the tensors of a weight map.
Map  == <<"weight_map">>
Meta == <<"metadata">>

MetaPointers == {Some(<<Meta>>), Some(<<Meta, <<"total_size">>>>)}

LEMMA MetaTells ==
    ASSUME NEW path, NEW object
    PROVE  Tells(MetadataFindings(path, object), path, Shape, MetaPointers)
<1> DEFINE size == <<"total_size">>
           condition == Misshapen(object[Meta][2], size, "U64")
           list == MetadataFindings(path, object)
<1>1. Tells(<<InvalidField(path, Some(<<Meta>>))>>, path, Shape, MetaPointers)
  BY InvalidTells DEF MetaPointers
<1>2. Tells(<<InvalidField(path, Some(<<Meta, size>>))>>, path, Shape, MetaPointers)
  BY InvalidTells DEF MetaPointers
<1>3. CASE Meta \notin DOMAIN object \/ object[Meta] = Null
  <2>1. list = <<>>
    BY <1>3 DEF MetadataFindings, Meta
  <2>. QED
    BY <2>1, TellsNone
<1>4. CASE Meta \in DOMAIN object /\ object[Meta] # Null /\ object[Meta][1] # "object"
  <2>1. list = <<InvalidField(path, Some(<<Meta>>))>>
    BY <1>4 DEF MetadataFindings, Meta
  <2>. QED
    BY <1>1, <2>1
<1>5. CASE Meta \in DOMAIN object /\ object[Meta] # Null /\ object[Meta][1] = "object"
  <2>1. list = When(condition, <<InvalidField(path, Some(<<Meta, size>>))>>)
    BY <1>5 DEF MetadataFindings, Meta
  <2>2. condition \in BOOLEAN
    BY DEF Misshapen
  <2> HIDE DEF condition, list
  <2>3. Tells(list, path, Shape, MetaPointers)
    BY <1>2, <2>1, <2>2, TellsWhen
  <2>. QED
    BY <2>3 DEF list
<1>. QED
  BY <1>3, <1>4, <1>5

\* What the pass over the fields finds of an index of checkpoint shards.
LEMMA MapFields ==
    ASSUME NEW r, NEW p, IsDocument(r, p), Kind(p) = "SafetensorsIndex", Usable(r.documents[p]), NEW S
    PROVE  Hits(FieldFindings(r, p), S) = Hits(MetadataFindings(p, r.documents[p].json[2]), S)
<1> DEFINE object == r.documents[p].json[2]
<1>1. IsObject(object)
  BY ObjectIs
<1>2. MisshapenOf(p, object) = {}
  BY DEF MisshapenOf, FieldsOf
<1>3. Hits(TableFindings(p, object), S) = 0
  BY <1>1, <1>2, TablePointers DEF IsObject
<1>4. /\ SpecialPart(p, object) = <<>> /\ ArchitecturePart(p, object) = <<>>
      /\ InlinePart(p, object) = <<>> /\ ComponentPart(p, object) = <<>>
      /\ MetadataPart(p, object) = MetadataFindings(p, object)
  BY DEF SpecialPart, ArchitecturePart, InlinePart, MetadataPart, ComponentPart, When
<1>5. Hits(FieldFindings(r, p), S) =
          Hits(TableFindings(p, object), S) + Hits(SpecialPart(p, object), S)
          + Hits(ArchitecturePart(p, object), S) + Hits(ComponentPart(p, object), S)
          + Hits(InlinePart(p, object), S) + Hits(MetadataPart(p, object), S)
  BY FieldsAre
<1>6. Hits(<<>>, S) = 0
  BY NoneIs
<1>7. Hits(MetadataFindings(p, object), S) \in Nat
  <2>1. IsList(MetadataFindings(p, object))
    BY MetaTells DEF Tells
  <2>. QED
    BY <2>1, HitsAre
<1> HIDE DEF object
<1>8. Hits(FieldFindings(r, p), S) = Hits(MetadataFindings(p, object), S)
  BY ONLY <1>3, <1>4, <1>5, <1>6, <1>7
<1>. QED
  BY <1>8 DEF object

\* At or beneath the weight map.
InMap(pointer) == pointer = Some(<<Map>>) \/ \E tensor : pointer = Some(<<Map, tensor>>)

LEMMA MapErrors ==
    ASSUME IInv, IsDone, NEW p \in DOMAIN repository.documents, Usable(repository.documents[p]),
           Kind(p) = "SafetensorsIndex", NEW pointer, InMap(pointer), NEW S, WrongOf(S, p, pointer)
    PROVE  Cardinality(ErrorsAt(p, pointer)) = Hits(SafetensorsReferences(repository, p), S)
<1> DEFINE r == repository
<1>1. IsDocument(r, p)
  BY Ended
<1>2. pointer # None /\ pointer \notin MetaPointers
  <2>1. \A a : Some(<<Map>>) # Some(<<Meta, a>>) /\ Some(<<Map>>) # Some(<<Meta>>)
    BY DEF Some, Map, Meta
  <2>2. \A t, a : Some(<<Map, t>>) # Some(<<Meta, a>>) /\ Some(<<Map, t>>) # Some(<<Meta>>)
    BY DEF Some, Map, Meta
  <2>. QED
    BY <2>1, <2>2, SomeIsNotNone DEF InMap, MetaPointers
<1>3. /\ Cardinality(ErrorsAt(p, pointer)) = Hits(References(r, p), S) + Hits(FieldFindings(r, p), S)
      /\ Hits(References(r, p), S) \in Nat
  BY <1>2, ErrorsOf
<1>4. Hits(MetadataFindings(p, r.documents[p].json[2]), S) = 0
  BY <1>2, MetaTells, Untold DEF WrongOf, Telling
<1>5. Hits(FieldFindings(r, p), S) = 0
  BY <1>1, <1>4, MapFields
<1>6. References(r, p) = SafetensorsReferences(r, p)
  BY DEF References
<1>. QED
  BY ONLY <1>3, <1>5, <1>6

LEMMA SpelledIs ==
    ASSUME NEW string
    PROVE  PathSpelled(string) \in Seq(ToSet(PathSpelled(string)))
<1>1. CASE string \in DOMAIN Spelled
  BY <1>1, ValidationAssumption DEF PathSpelled
<1>2. CASE string \notin DOMAIN Spelled /\ string = <<>>
  BY <1>2 DEF PathSpelled
<1>3. CASE string \notin DOMAIN Spelled /\ string # <<>>
  <2>1. PathSpelled(string) = <<string>>
    BY <1>3 DEF PathSpelled
  <2>2. ToSet(<<string>>) = {string}
    BY DEF ToSet
  <2>. QED
    BY <2>1, <2>2
<1>. QED
  BY <1>1, <1>2, <1>3

\* What is there, from a document, by the path that a string spells.
ThereIs(p, string, set) == PathSpelled(string) # <<>> /\ Parent(p) \o PathSpelled(string) \in set

LEMMA ThereIsIs ==
    ASSUME NEW r, NEW p, IsDocument(r, p), NEW string, NEW set, set \subseteq r.files \cup r.directories
    PROVE  LET related == Join(Parent(p), PathSpelled(string))
           IN  /\ ThereIs(p, string, set) <=> related # None /\ related[1] \in set
               /\ related # None => Valid(PathSpelled(string))
<1> DEFINE base == Parent(p)
           child == PathSpelled(string)
<1>1. base \in Seq(Segments) /\ (base = <<>> \/ Valid(base)) /\ Constructed(r)
  BY BaseIs DEF IsDocument
<1>2. child \in Seq(ToSet(child))
  BY SpelledIs
<1> HIDE DEF base, child
<1>3. LET related == Join(base, child)
      IN  /\ child # <<>> /\ base \o child \in set <=> related # None /\ related[1] \in set
          /\ related # None => related = Some(base \o child) /\ Valid(child)
  BY <1>1, <1>2, LeadsTo
<1>. QED
  BY <1>3 DEF ThereIs, base, child

UnsafeShard(p) == Error("unsafe_checkpoint_shard_path", p, WeightMap)
NoShard(p, shard) ==
    Report("error", "missing_checkpoint_shard", Some(p), WeightMap, Join(Parent(p), PathSpelled(shard)))

LEMMA ShardCounts ==
    ASSUME NEW r, NEW p, IsDocument(r, p), NEW shard, NEW S,
           UnsafeShard(p) \in S, NoShard(p, shard) \in S
    PROVE  Hits(ShardFindings(r, p, shard), S) = IF ThereIs(p, shard, r.files) THEN 0 ELSE 1
<1> DEFINE related == Join(Parent(p), PathSpelled(shard))
           there == ThereIs(p, shard, r.files)
           list == ShardFindings(r, p, shard)
<1>1. r.files \subseteq r.files \cup r.directories
  OBVIOUS
<1>2. /\ there <=> related # None /\ related[1] \in r.files
      /\ related # None => Valid(PathSpelled(shard))
  BY <1>1, ThereIsIs
<1>3. list = IF ~Valid(PathSpelled(shard)) THEN <<UnsafeShard(p)>>
             ELSE IF related = None THEN <<UnsafeShard(p)>>
             ELSE When(related[1] \notin r.files, <<NoShard(p, shard)>>)
  BY DEF ShardFindings, UnsafeShard, NoShard
<1> HIDE DEF related, there, list
<1>4. CASE related = None
  <2>1. list = <<UnsafeShard(p)>> /\ ~there
    BY <1>2, <1>3, <1>4
  <2>2. Hits(list, S) = 1
    BY <2>1, OneIs
  <2>. QED
    BY <2>1, <2>2 DEF list, there
<1>5. CASE related # None
  <2>1. list = When(related[1] \notin r.files, <<NoShard(p, shard)>>)
    BY <1>2, <1>3, <1>5
  <2>2. (related[1] \notin r.files) \in BOOLEAN
    OBVIOUS
  <2>3. Hits(list, S) = IF related[1] \notin r.files /\ NoShard(p, shard) \in S THEN 1 ELSE 0
    BY <2>1, <2>2, WhenIs
  <2>. QED
    BY <1>2, <1>5, <2>3 DEF list, there
<1>. QED
  BY <1>4, <1>5
-----------------------------------------------------------------------------
EmptyMap(p) == Error("empty_checkpoint_weight_map", p, WeightMap)

Lost(p, map, files) == {shard \in ShardsOf(map) : ~ThereIs(p, shard, files)}

LEMMA ChildIs ==
    ASSUME NEW t, NEW u, Child(WeightMap, t) = Child(WeightMap, u)
    PROVE  t = u
<1>1. Some(<<Map, t>>) = Some(<<Map, u>>)
  BY MapPointers DEF Map
<1>2. <<Map, t>> = <<Map, u>>
  <2> DEFINE a == <<Map, t>>
             b == <<Map, u>>
  <2>1. Some(a) = Some(b)
    BY <1>1
  <2> HIDE DEF a, b
  <2>2. Some(a)[1] = a /\ Some(b)[1] = b
    BY DEF Some
  <2>3. a = b
    BY <2>1, <2>2
  <2>. QED
    BY <2>3 DEF a, b
<1>. QED
  BY <1>2

LEMMA ChildIsNot == ASSUME NEW t PROVE Child(WeightMap, t) # WeightMap
  BY MapPointers DEF Some

\* The two parts of what is found of a weight map that is not empty.
LEMMA MapParts ==
    ASSUME NEW r, NEW p, IsDocument(r, p), Usable(r.documents[p]), NEW object, object = r.documents[p].json[2],
           Map \in DOMAIN object, object[Map][1] = "object", NEW map, map = object[Map][2], DOMAIN map # {},
           NEW S
    PROVE  \E nameless, shards :
              /\ Hits(SafetensorsReferences(r, p), S) = Hits(nameless, S) + Hits(shards, S)
              /\ Hits(nameless, S) \in Nat /\ Hits(shards, S) \in Nat
              /\ IsEach(nameless, NamelessOf(map),
                        [tensor \in NamelessOf(map) |-> <<InvalidField(p, Child(WeightMap, tensor))>>])
              /\ Tells(nameless, p, ShardCodes, {Child(WeightMap, tensor) : tensor \in NamelessOf(map)})
              /\ IsEach(shards, ShardsOf(map), [shard \in ShardsOf(map) |-> ShardFindings(r, p, shard)])
              /\ Tells(shards, p, ShardCodes, {WeightMap})
<1>1. map = r.documents[p].json[2][<<"weight_map">>][2]
  BY DEF Map
<1>2. IsFiniteSet(DOMAIN map)
  BY ObjectIs, MapIs
<1>3. SafetensorsReferences(r, p) = ShardReferences(r, p)
  BY <1>1 DEF SafetensorsReferences, Map
<1> DEFINE N == NamelessOf(map)
           Z == ShardsOf(map)
           F == [tensor \in N |-> <<InvalidField(p, Child(WeightMap, tensor))>>]
           G == [shard \in Z |-> ShardFindings(r, p, shard)]
           P == {Child(WeightMap, t) : t \in N}
<1>4. PICK nameless, shards :
         /\ ShardReferences(r, p) = nameless \o shards
         /\ IsEach(nameless, N, F) /\ Tells(nameless, p, ShardCodes, P)
         /\ IsEach(shards, Z, G) /\ Tells(shards, p, ShardCodes, {WeightMap})
  BY <1>1, <1>2, ShardsAre
<1>5. IsList(nameless) /\ IsList(shards)
  BY <1>4 DEF Tells
<1>6. Hits(nameless \o shards, S) = Hits(nameless, S) + Hits(shards, S)
  BY <1>5, BothAre
<1>7. Hits(nameless, S) \in Nat /\ Hits(shards, S) \in Nat
  BY <1>5, HitsAre
<1>8. SafetensorsReferences(r, p) = nameless \o shards
  BY <1>3, <1>4
<1>9. Hits(SafetensorsReferences(r, p), S) = Hits(nameless, S) + Hits(shards, S)
  BY <1>6, <1>8
<1>. QED
  BY <1>4, <1>7, <1>9

\* The findings there may be at a weight map.
AtMap(S, p, map) ==
    /\ UnsafeShard(p) \in S /\ EmptyMap(p) \in S /\ \A shard \in ShardsOf(map) : NoShard(p, shard) \in S
    /\ \A f \in S : f.pointer = WeightMap

\* Every shard that is lost is counted once.
LEMMA ShardsCounted ==
    ASSUME NEW r, NEW p, IsDocument(r, p), Usable(r.documents[p]), NEW object, object = r.documents[p].json[2],
           Map \in DOMAIN object, object[Map][1] = "object", NEW map, map = object[Map][2], NEW S,
           AtMap(S, p, map)
    PROVE  Hits(SafetensorsReferences(r, p), S) =
              IF DOMAIN map = {} THEN 1 ELSE Cardinality(Lost(p, map, r.files))
<1>1. map = r.documents[p].json[2][<<"weight_map">>][2]
  BY DEF Map
<1>2. CASE DOMAIN map = {}
  <2>1. SafetensorsReferences(r, p) = <<EmptyMap(p)>>
    BY <1>1, <1>2 DEF SafetensorsReferences, EmptyMap, Map
  <2>2. Hits(SafetensorsReferences(r, p), S) = IF EmptyMap(p) \in S THEN 1 ELSE 0
    BY <2>1, OneIs
  <2>. QED
    BY <1>2, <2>2 DEF AtMap
<1>3. CASE DOMAIN map # {}
  <2> DEFINE Z == ShardsOf(map)
             G == [shard \in Z |-> ShardFindings(r, p, shard)]
             P == {Child(WeightMap, t) : t \in NamelessOf(map)}
             some == Lost(p, map, r.files)
  <2>1. PICK nameless, shards :
           /\ Hits(SafetensorsReferences(r, p), S) = Hits(nameless, S) + Hits(shards, S)
           /\ Hits(nameless, S) \in Nat /\ Hits(shards, S) \in Nat
           /\ Tells(nameless, p, ShardCodes, P)
           /\ IsEach(shards, Z, G)
    BY <1>3, MapParts
  <2>2. \A f \in S : ~Telling(f, p, ShardCodes, P)
    BY ChildIsNot DEF Telling, AtMap
  <2>3. Hits(nameless, S) = 0
    <3> HIDE DEF P
    <3>. QED
      BY <2>1, <2>2, Untold
  <2>4. some \subseteq Z
    BY DEF Lost
  <2>5. ASSUME NEW shard \in Z PROVE Hits(G[shard], S) = IF shard \in some THEN 1 ELSE 0
    <3>1. Hits(ShardFindings(r, p, shard), S) = IF ThereIs(p, shard, r.files) THEN 0 ELSE 1
      BY ShardCounts DEF AtMap
    <3>2. G[shard] = ShardFindings(r, p, shard)
      OBVIOUS
    <3>3. shard \in some <=> ~ThereIs(p, shard, r.files)
      BY DEF Lost
    <3>. QED
      BY <3>1, <3>2, <3>3
  <2> HIDE DEF some, Z, G
  <2>6. Hits(shards, S) = Cardinality(some)
    BY <2>1, <2>4, <2>5, EachOf
  <2>7. Hits(SafetensorsReferences(r, p), S) = Cardinality(some)
    BY ONLY <2>1, <2>3, <2>6
  <2>. QED
    BY <1>3, <2>7 DEF some
<1>. QED
  BY <1>2, <1>3

\* A tensor is found wrong once, exactly if it names no shard.
LEMMA TensorCounted ==
    ASSUME NEW r, NEW p, IsDocument(r, p), Usable(r.documents[p]), NEW object, object = r.documents[p].json[2],
           Map \in DOMAIN object, object[Map][1] = "object", NEW map, map = object[Map][2], NEW S,
           NEW tensor \in DOMAIN map, InvalidField(p, Child(WeightMap, tensor)) \in S,
           \A f \in S : f.pointer = Child(WeightMap, tensor)
    PROVE  Hits(SafetensorsReferences(r, p), S) = IF tensor \in NamelessOf(map) THEN 1 ELSE 0
<1> DEFINE N == NamelessOf(map)
           F == [t \in N |-> <<InvalidField(p, Child(WeightMap, t))>>]
           Z == ShardsOf(map)
           G == [shard \in Z |-> ShardFindings(r, p, shard)]
           P == {Child(WeightMap, t) : t \in N}
<1>1. PICK nameless, shards :
         /\ Hits(SafetensorsReferences(r, p), S) = Hits(nameless, S) + Hits(shards, S)
         /\ Hits(nameless, S) \in Nat /\ Hits(shards, S) \in Nat
         /\ IsEach(nameless, N, F) /\ Tells(nameless, p, ShardCodes, P)
         /\ IsEach(shards, Z, G) /\ Tells(shards, p, ShardCodes, {WeightMap})
  <2>1. DOMAIN map # {}
    OBVIOUS
  <2>. QED
    BY <2>1, MapParts
<1> HIDE DEF Z, G, P
<1>2. \A f \in S : ~Telling(f, p, ShardCodes, {WeightMap})
  BY ChildIsNot DEF Telling
<1>3. Hits(shards, S) = 0
  BY <1>1, <1>2, Untold
<1>4. ASSUME NEW t \in N PROVE Hits(F[t], S) = IF t = tensor THEN 1 ELSE 0
  <2>1. F[t] = <<InvalidField(p, Child(WeightMap, t))>>
    OBVIOUS
  <2>2. InvalidField(p, Child(WeightMap, t)).pointer = Child(WeightMap, t)
    BY ErrorFacts
  <2>3. InvalidField(p, Child(WeightMap, t)) \in S <=> t = tensor
    BY <2>2, ChildIs
  <2> HIDE DEF F
  <2>4. Hits(F[t], S) = IF InvalidField(p, Child(WeightMap, t)) \in S THEN 1 ELSE 0
    BY <2>1, OneIs
  <2>. QED
    BY <2>3, <2>4
<1> HIDE DEF F
<1>5. CASE tensor \in N
  <2>1. \A t \in N : t # tensor => Hits(F[t], S) = 0
    BY <1>4
  <2>2. IsEach(nameless, N, F)
    BY <1>1
  <2>3. Hits(F[tensor], S) = 1
    BY <1>4, <1>5
  <2> HIDE DEF N
  <2>4. Hits(nameless, S) = Hits(F[tensor], S)
    BY ONLY <1>5, <2>1, <2>2, EachOnly
  <2>. QED
    BY <1>1, <1>3, <1>5, <2>3, <2>4 DEF N
<1>6. CASE tensor \notin N
  <2>1. \A t \in N : Hits(F[t], S) = 0
    BY <1>4, <1>6
  <2> HIDE DEF N
  <2>2. Hits(nameless, S) = 0
    BY <1>1, <2>1, EachNone
  <2>. QED
    BY <1>1, <1>3, <1>6, <2>2 DEF N
<1>. QED
  BY <1>5, <1>6

\* Errors at a pointer and a few findings that may be among them.
LEMMA WrongWith ==
    ASSUME NEW p, NEW pointer, NEW more,
           \A f \in more : f.level = "error" /\ f.document = Some(p) /\ f.pointer = pointer
    PROVE  LET S == WrongAt(p, pointer) \cup more
           IN  WrongOf(S, p, pointer) /\ more \subseteq S /\ \A f \in S : f.pointer = pointer
<1> DEFINE S == WrongAt(p, pointer) \cup more
<1>1. \A f \in WrongAt(p, pointer) : f.level = "error" /\ f.document = Some(p) /\ f.pointer = pointer
  BY DEF WrongAt
<1>2. \A f \in S : f.level = "error" /\ f.document = Some(p) /\ f.pointer = pointer
  BY <1>1
<1>3. WrongAt(p, pointer) \subseteq S /\ more \subseteq S
  OBVIOUS
<1> HIDE DEF S
<1>4. WrongOf(S, p, pointer)
  BY <1>2, <1>3 DEF WrongOf
<1>. QED
  BY <1>2, <1>3, <1>4 DEF S

LEMMA ShardsReported ==
    ASSUME IInv, IsDone, NEW p \in DOMAIN repository.documents, Usable(repository.documents[p]),
           Kind(p) = "SafetensorsIndex", NEW object, object = repository.documents[p].json[2],
           Map \in DOMAIN object, object[Map][1] = "object", NEW map, map = object[Map][2]
    PROVE  /\ Cardinality(ErrorsAt(p, Some(<<Map>>))) =
                 IF DOMAIN map = {} THEN 1 ELSE Cardinality(Lost(p, map, repository.files))
           /\ \A tensor \in DOMAIN map :
                 ReportedOnce(ErrorsAt(p, Some(<<Map, tensor>>)), tensor \in NamelessOf(map))
<1> DEFINE r == repository
<1>1. IsDocument(r, p)
  BY Ended
<1>2. WeightMap = Some(<<Map>>) /\ \A tensor : Child(WeightMap, tensor) = Some(<<Map, tensor>>)
  BY MapPointers DEF Map
<1>3. Cardinality(ErrorsAt(p, WeightMap)) =
         IF DOMAIN map = {} THEN 1 ELSE Cardinality(Lost(p, map, r.files))
  <2> DEFINE more == {UnsafeShard(p), EmptyMap(p)} \cup {NoShard(p, shard) : shard \in ShardsOf(map)}
             S == WrongAt(p, WeightMap) \cup more
  <2>1. ASSUME NEW f \in more
        PROVE  f.level = "error" /\ f.document = Some(p) /\ f.pointer = WeightMap
    BY DEF UnsafeShard, EmptyMap, NoShard, Error, Report
  <2>2. UnsafeShard(p) \in more /\ EmptyMap(p) \in more /\ \A shard \in ShardsOf(map) : NoShard(p, shard) \in more
    OBVIOUS
  <2> HIDE DEF more
  <2>3. WrongOf(S, p, WeightMap) /\ more \subseteq S /\ \A f \in S : f.pointer = WeightMap
    BY <2>1, WrongWith
  <2> HIDE DEF S
  <2>4. AtMap(S, p, map)
    BY <2>2, <2>3 DEF AtMap
  <2>5. Hits(SafetensorsReferences(r, p), S) =
           IF DOMAIN map = {} THEN 1 ELSE Cardinality(Lost(p, map, r.files))
    BY <1>1, <2>4, ShardsCounted
  <2>6. InMap(WeightMap)
    BY <1>2 DEF InMap
  <2>. QED
    BY <2>3, <2>5, <2>6, MapErrors
<1>4. ASSUME NEW tensor \in DOMAIN map
      PROVE  Cardinality(ErrorsAt(p, Child(WeightMap, tensor))) = IF tensor \in NamelessOf(map) THEN 1 ELSE 0
  <2> DEFINE pointer == Child(WeightMap, tensor)
             more == {InvalidField(p, pointer)}
             S == WrongAt(p, pointer) \cup more
  <2>1. ASSUME NEW f \in more
        PROVE  f.level = "error" /\ f.document = Some(p) /\ f.pointer = pointer
    BY ErrorFacts
  <2>2. InvalidField(p, pointer) \in more
    OBVIOUS
  <2> HIDE DEF more
  <2>3. WrongOf(S, p, pointer) /\ more \subseteq S /\ \A f \in S : f.pointer = pointer
    BY <2>1, WrongWith
  <2> HIDE DEF S
  <2>4. Hits(SafetensorsReferences(r, p), S) = IF tensor \in NamelessOf(map) THEN 1 ELSE 0
    BY <1>1, <2>2, <2>3, TensorCounted
  <2>5. InMap(pointer)
    BY <1>2 DEF InMap
  <2>. QED
    BY <2>3, <2>4, <2>5, MapErrors
<1>. QED
  BY <1>2, <1>3, <1>4 DEF ReportedOnce
-----------------------------------------------------------------------------
\* The base of an adapter.
UnsafeBase(p) == Error("unsafe_adapter_base_path", p, Top(BaseName))
NoBase(p, string) ==
    Report("error", "missing_adapter_base_path", Some(p), Top(BaseName), Join(Parent(p), PathSpelled(string)))

\* A base that is text is not misshapen.
LEMMA BaseField ==
    ASSUME NEW object, BaseName \in DOMAIN object, IsText(object[BaseName]),
           NEW field \in FieldsOf("AdapterConfig"), Misshapen(object, field.name, field.type)
    PROVE  field.name # BaseName
<1> SUFFICES ASSUME field.name = BaseName PROVE FALSE
  OBVIOUS
<1>1. field.type = "String"
  BY DEF FieldsOf, AdapterFields, Typed, BaseName
<1>. QED
  BY <1>1 DEF Misshapen, HasShape, IsText

LEMMA BaseCounts ==
    ASSUME NEW r, NEW p, IsDocument(r, p), Usable(r.documents[p]), NEW object, object = r.documents[p].json[2],
           BaseName \in DOMAIN object, IsText(object[BaseName]),
           NEW local, local = LocalPath(object[BaseName][2]),
           NEW S, UnsafeBase(p) \in S, NoBase(p, local[1]) \in S
    PROVE  Hits(AdapterReference(r, p), S) =
              IF /\ local # None
                 /\ local[1] \in Tildes \/ ~ThereIs(p, local[1], r.files \cup r.directories)
              THEN 1 ELSE 0
<1> DEFINE related == Join(Parent(p), PathSpelled(local[1]))
           set == r.files \cup r.directories
           there == ThereIs(p, local[1], set)
           list == AdapterReference(r, p)
           condition == related[1] \notin set
<1>1. /\ there <=> related # None /\ related[1] \in set
      /\ related # None => Valid(PathSpelled(local[1]))
  BY ThereIsIs
<1>2. there \in BOOLEAN /\ condition \in BOOLEAN
  BY DEF ThereIs
<1>3. /\ local = None => list = <<>>
      /\ local # None =>
            list = IF local[1] \in Tildes \/ ~Valid(PathSpelled(local[1])) \/ related = None
                   THEN <<UnsafeBase(p)>> ELSE When(condition, <<NoBase(p, local[1])>>)
  BY DEF AdapterReference, UnsafeBase, NoBase
<1> HIDE DEF related, set, there, list, condition
<1>4. CASE local = None
  BY <1>3, <1>4, NoneIs DEF list
<1>5. CASE local # None /\ (local[1] \in Tildes \/ ~Valid(PathSpelled(local[1])) \/ related = None)
  <2>1. list = <<UnsafeBase(p)>>
    BY <1>3, <1>5
  <2>2. Hits(list, S) = 1
    BY <2>1, OneIs
  <2>3. local[1] \in Tildes \/ ~there
    BY <1>1, <1>5
  <2>. QED
    BY <1>5, <2>2, <2>3 DEF list, there, set
<1>6. CASE local # None /\ ~(local[1] \in Tildes \/ ~Valid(PathSpelled(local[1])) \/ related = None)
  <2>1. list = When(condition, <<NoBase(p, local[1])>>)
    BY <1>3, <1>6
  <2>2. Hits(list, S) = IF condition THEN 1 ELSE 0
    <3> DEFINE f == NoBase(p, local[1])
    <3>1. list = When(condition, <<f>>) /\ f \in S
      BY <2>1
    <3> HIDE DEF f
    <3>2. Hits(When(condition, <<f>>), S) = IF condition /\ f \in S THEN 1 ELSE 0
      BY <1>2, WhenIs
    <3>. QED
      BY <3>1, <3>2
  <2>3. condition <=> ~there
    BY <1>1, <1>2, <1>6 DEF condition
  <2>4. Hits(list, S) = IF ~there THEN 1 ELSE 0
    BY <1>2, <2>2, <2>3
  <2>. QED
    BY <1>6, <2>4 DEF list, there, set
<1>. QED
  BY <1>4, <1>5, <1>6

LEMMA BaseReported ==
    ASSUME IInv, IsDone, NEW p \in DOMAIN repository.documents, Usable(repository.documents[p]),
           Kind(p) = "AdapterConfig", NEW object, object = repository.documents[p].json[2],
           BaseName \in DOMAIN object, IsText(object[BaseName]),
           NEW local, local = LocalPath(object[BaseName][2])
    PROVE  ReportedOnce(ErrorsAt(p, Some(<<BaseName>>)),
              /\ local # None
              /\ \/ local[1] \in Tildes
                 \/ ~ThereIs(p, local[1], repository.files \cup repository.directories))
<1> DEFINE r == repository
           pointer == Some(<<BaseName>>)
           more == {UnsafeBase(p), NoBase(p, local[1])}
           S == WrongAt(p, pointer) \cup more
<1>1. IsDocument(r, p) /\ IsObject(object)
  <2>1. IsDocument(r, p)
    BY Ended
  <2>. QED
    BY <2>1, ObjectIs
<1>2. Top(BaseName) = pointer /\ pointer # None
  BY ComponentFindings
<1>3. ASSUME NEW f \in more
      PROVE  f.level = "error" /\ f.document = Some(p) /\ f.pointer = pointer
  BY <1>2 DEF UnsafeBase, NoBase, Error, Report
<1>4. UnsafeBase(p) \in more /\ NoBase(p, local[1]) \in more
  OBVIOUS
<1> HIDE DEF more
<1>5. WrongOf(S, p, pointer) /\ more \subseteq S /\ \A f \in S : f.pointer = pointer
  BY <1>3, WrongWith
<1> HIDE DEF S
<1>6. \A field \in MisshapenOf(p, object) : InvalidField(p, Some(<<field.name>>)) \notin S
  <2>1. ASSUME NEW field \in MisshapenOf(p, object) PROVE InvalidField(p, Some(<<field.name>>)) \notin S
    <3>1. field.name # BaseName
      BY BaseField DEF MisshapenOf
    <3>2. Some(<<field.name>>) # Some(<<BaseName>>)
      BY <3>1 DEF Some
    <3>3. InvalidField(p, Some(<<field.name>>)).pointer = Some(<<field.name>>)
      BY ErrorFacts
    <3>. QED
      BY <1>5, <3>2, <3>3
  <2>. QED
    BY <2>1
<1>7. Hits(TableFindings(p, object), S) = 0
  <2>1. IsFiniteSet(DOMAIN object)
    BY <1>1 DEF IsObject
  <2>. QED
    BY <1>6, <2>1, TablePointers
<1>8. Hits(FieldFindings(r, p), S) = 0
  <2>1. /\ SpecialPart(p, object) = <<>> /\ ArchitecturePart(p, object) = <<>>
        /\ InlinePart(p, object) = <<>> /\ ComponentPart(p, object) = <<>>
        /\ MetadataPart(p, object) = <<>>
    BY DEF SpecialPart, ArchitecturePart, InlinePart, MetadataPart, ComponentPart, When
  <2>2. Hits(FieldFindings(r, p), S) =
            Hits(TableFindings(p, object), S) + Hits(SpecialPart(p, object), S)
            + Hits(ArchitecturePart(p, object), S) + Hits(ComponentPart(p, object), S)
            + Hits(InlinePart(p, object), S) + Hits(MetadataPart(p, object), S)
    BY <1>1, FieldsAre
  <2>3. Hits(<<>>, S) = 0
    BY NoneIs
  <2>. QED
    BY ONLY <1>7, <2>1, <2>2, <2>3
<1>9. /\ Cardinality(ErrorsAt(p, pointer)) = Hits(References(r, p), S) + Hits(FieldFindings(r, p), S)
      /\ Hits(References(r, p), S) \in Nat
  BY <1>2, <1>5, ErrorsOf
<1>10. References(r, p) = AdapterReference(r, p)
  BY DEF References
<1>11. Hits(AdapterReference(r, p), S) =
          IF /\ local # None
             /\ local[1] \in Tildes \/ ~ThereIs(p, local[1], r.files \cup r.directories)
          THEN 1 ELSE 0
  BY <1>1, <1>4, <1>5, BaseCounts
<1>12. Cardinality(ErrorsAt(p, pointer)) = Hits(AdapterReference(r, p), S)
  BY ONLY <1>8, <1>9, <1>10
<1>. QED
  BY <1>11, <1>12 DEF ReportedOnce

-----------------------------------------------------------------------------
\* The shards of a map, as an index is read by a view.
LEMMA EntriesAre ==
    ASSUME NEW map
    PROVE  /\ ShardsOf(map) = {map[t][2] : t \in {u \in DOMAIN map : Given(map, u)}}
           /\ \A tensor \in DOMAIN map :
                 tensor \in NamelessOf(map) <=> ShardEntry(map[tensor]) # "Value" \/ map[tensor][2] = <<>>
<1>1. \A t \in DOMAIN map : t \notin NamelessOf(map) <=> Given(map, t)
  BY DEF NamelessOf, Given
<1>2. ASSUME NEW tensor \in DOMAIN map
      PROVE  tensor \in NamelessOf(map) <=> ShardEntry(map[tensor]) # "Value" \/ map[tensor][2] = <<>>
  <2>1. IsText(map[tensor]) => map[tensor] # Null
    BY DEF IsText, Null
  <2>2. CASE map[tensor] = Null
    <3>1. ShardEntry(map[tensor]) = "Null" /\ ~IsText(map[tensor])
      BY <2>1, <2>2 DEF ShardEntry
    <3>. QED
      BY <3>1 DEF NamelessOf
  <2>3. CASE map[tensor] # Null /\ IsText(map[tensor])
    <3>1. ShardEntry(map[tensor]) = "Value"
      BY <2>3 DEF ShardEntry
    <3>. QED
      BY <2>3, <3>1 DEF NamelessOf
  <2>4. CASE map[tensor] # Null /\ ~IsText(map[tensor])
    <3>1. ShardEntry(map[tensor]) = "Invalid"
      BY <2>4 DEF ShardEntry
    <3>. QED
      BY <2>4, <3>1 DEF NamelessOf
  <2>. QED
    BY <2>2, <2>3, <2>4
<1>. QED
  BY <1>1, <1>2 DEF ShardsOf

LEMMA FilesReported == IInv => BrokenFilesAreReportedOnce
<1> SUFFICES ASSUME IInv, IsDone, NEW p \in DOMAIN repository.documents
             PROVE  LET object == repository.documents[p].json[2]
                        there(string, set) ==
                            PathSpelled(string) # <<>> /\ Parent(p) \o PathSpelled(string) \in set
                        named(map) == {map[t][2] : t \in {u \in DOMAIN map : Given(map, u)}}
                    IN  /\ /\ Kind(p) = "SafetensorsIndex" /\ Usable(repository.documents[p])
                           /\ <<"weight_map">> \in DOMAIN object /\ object[<<"weight_map">>][1] = "object"
                           => LET map == object[<<"weight_map">>][2]
                              IN  /\ Cardinality(ErrorsAt(p, Some(<<<<"weight_map">>>>))) =
                                        IF DOMAIN map = {} THEN 1
                                        ELSE Cardinality({s \in named(map) : ~there(s, repository.files)})
                                  /\ \A tensor \in DOMAIN map :
                                        ReportedOnce(ErrorsAt(p, Some(<<<<"weight_map">>, tensor>>)),
                                                     \/ ShardEntry(map[tensor]) # "Value"
                                                     \/ map[tensor][2] = <<>>)
                        /\ /\ Kind(p) = "AdapterConfig" /\ Usable(repository.documents[p])
                           /\ BaseName \in DOMAIN object /\ IsText(object[BaseName])
                           => ReportedOnce(ErrorsAt(p, Some(<<BaseName>>)),
                                 LET local == LocalPath(object[BaseName][2])
                                 IN  /\ local # None
                                     /\ \/ local[1] \in Tildes
                                        \/ ~there(local[1], repository.files \cup repository.directories))
  BY DEF BrokenFilesAreReportedOnce
<1> DEFINE object == repository.documents[p].json[2]
<1>1. ASSUME Kind(p) = "SafetensorsIndex", Usable(repository.documents[p]),
             Map \in DOMAIN object, object[Map][1] = "object"
      PROVE  LET map == object[Map][2]
             IN  /\ Cardinality(ErrorsAt(p, Some(<<Map>>))) =
                       IF DOMAIN map = {} THEN 1
                       ELSE Cardinality({s \in {map[t][2] : t \in {u \in DOMAIN map : Given(map, u)}} :
                               ~(PathSpelled(s) # <<>> /\ Parent(p) \o PathSpelled(s) \in repository.files)})
                 /\ \A tensor \in DOMAIN map :
                       ReportedOnce(ErrorsAt(p, Some(<<Map, tensor>>)),
                                    ShardEntry(map[tensor]) # "Value" \/ map[tensor][2] = <<>>)
  <2> DEFINE map == object[Map][2]
  <2>1. /\ Cardinality(ErrorsAt(p, Some(<<Map>>))) =
              IF DOMAIN map = {} THEN 1 ELSE Cardinality(Lost(p, map, repository.files))
        /\ \A tensor \in DOMAIN map :
              ReportedOnce(ErrorsAt(p, Some(<<Map, tensor>>)), tensor \in NamelessOf(map))
    BY <1>1, ShardsReported
  <2> HIDE DEF map
  <2>2. Lost(p, map, repository.files) =
           {s \in {map[t][2] : t \in {u \in DOMAIN map : Given(map, u)}} :
               ~(PathSpelled(s) # <<>> /\ Parent(p) \o PathSpelled(s) \in repository.files)}
    BY EntriesAre DEF Lost, ThereIs
  <2>3. ASSUME NEW tensor \in DOMAIN map
        PROVE  ReportedOnce(ErrorsAt(p, Some(<<Map, tensor>>)),
                            ShardEntry(map[tensor]) # "Value" \/ map[tensor][2] = <<>>)
    BY <2>1, EntriesAre DEF ReportedOnce
  <2>. QED
    BY <2>1, <2>2, <2>3 DEF map
<1>2. ASSUME Kind(p) = "AdapterConfig", Usable(repository.documents[p]),
             BaseName \in DOMAIN object, IsText(object[BaseName])
      PROVE  LET local == LocalPath(object[BaseName][2])
             IN  ReportedOnce(ErrorsAt(p, Some(<<BaseName>>)),
                    /\ local # None
                    /\ \/ local[1] \in Tildes
                       \/ ~(/\ PathSpelled(local[1]) # <<>>
                            /\ Parent(p) \o PathSpelled(local[1])
                                  \in repository.files \cup repository.directories))
  BY <1>2, BaseReported DEF ThereIs
<1> HIDE DEF object
<1>. QED
  BY <1>1, <1>2 DEF Map, object

\* What a component, a shard or an adapter's base names and is not there is
\* reported, once and where it is named, and nothing that is there is:
\* validate_model_index, validate_safetensors_index and validate_adapter, with
\* the passes before and after them that could report at the same place.
THEOREM ReferencesReported == Spec => []BrokenReferencesAreReportedOnce
<1>1. IInv => BrokenReferencesAreReportedOnce
  BY TypesAre, ComponentsReported, FilesReported DEF BrokenReferencesAreReportedOnce
<1>. QED
  BY <1>1, Invariance, PTL
-----------------------------------------------------------------------------
(***************************************************************************)
(* What the views call invalid.                                            *)
(***************************************************************************)

Accessors == {"String", "Bool", "U64", "I64", "F64", "Object"}

\* The members of a view that no table has.
Apart(kind, field) ==
    \/ field.type = "Token" /\ kind \in {"TokenizerConfig", "SpecialTokensMap"} /\ field.name \in SpecialTokenFields
    \/ field.type = "Tokens" /\ kind \in {"TokenizerConfig", "SpecialTokensMap"} /\ field.name = Additional
    \/ field.type = "TokensById" /\ kind = "TokenizerConfig" /\ field.name = ById
    \/ field.type = "Object" /\ kind = "SafetensorsIndex" /\ field.name \in {Map, Meta}

\* Every member that a view has a type for is in a table, or is one of these.
LEMMA ViewTables ==
    ASSUME NEW kind, NEW field \in ViewOf(kind), field.type # "Raw"
    PROVE  (field \in FieldsOf(kind) /\ field.type \in Accessors) \/ Apart(kind, field)
<1>1. ASSUME NEW f \in ConfigView, f.type # "Raw" PROVE f \in ConfigFields /\ f.type \in Accessors
  BY <1>1 DEF ConfigView, ConfigFields, Typed, Accessors
<1>2. ASSUME NEW f \in GenerationConfigView, f.type # "Raw" PROVE f \in GenerationFields /\ f.type \in Accessors
  BY <1>2, ViewFields, ViewTypes DEF Accessors
<1>3. ASSUME NEW f \in TokenizerConfigView, f.type # "Raw"
      PROVE  (f \in TokenizerFields /\ f.type \in Accessors) \/ Apart("TokenizerConfig", f)
  BY <1>3 DEF TokenizerConfigView, TokenizerFields, Typed, Accessors, Apart, SpecialTokenFields, Additional, ById
<1>4. ASSUME NEW f \in SpecialTokensMapView PROVE Apart("SpecialTokensMap", f)
  BY DEF SpecialTokensMapView, Typed, Apart, SpecialTokenFields, Additional
<1>5. ASSUME NEW f \in PreprocessorConfigView, f.type # "Raw" PROVE f \in PreprocessorFields /\ f.type \in Accessors
  BY <1>5 DEF PreprocessorConfigView, PreprocessorFields, Typed, Accessors
<1>6. ASSUME NEW f \in ProcessorConfigView, f.type # "Raw" PROVE f \in ProcessorFields /\ f.type \in Accessors
  BY <1>6 DEF ProcessorConfigView, ProcessorFields, Typed, Accessors
<1>7. ASSUME NEW f \in SchedulerConfigView, f.type # "Raw" PROVE f \in SchedulerFields /\ f.type \in Accessors
  BY <1>7 DEF SchedulerConfigView, SchedulerFields, Typed, Accessors
<1>8. ASSUME NEW f \in AdapterConfigView, f.type # "Raw" PROVE f \in AdapterFields /\ f.type \in Accessors
  BY <1>8 DEF AdapterConfigView, AdapterFields, Typed, Accessors
<1>9. ASSUME NEW f \in QuantizationConfigView, f.type # "Raw" PROVE f \in QuantizationFields /\ f.type \in Accessors
  BY <1>9 DEF QuantizationConfigView, QuantizationFields, Typed, Accessors
<1>10. ASSUME NEW f \in ModelIndexView PROVE f \in ModelIndexFields /\ f.type \in Accessors
  BY DEF ModelIndexView, ModelIndexFields, Typed, Accessors
<1>11. ASSUME NEW f \in SafetensorsIndexView PROVE Apart("SafetensorsIndex", f)
  BY DEF SafetensorsIndexView, Typed, Apart, Map, Meta
<1>. QED
  BY <1>1, <1>2, <1>3, <1>4, <1>5, <1>6, <1>7, <1>8, <1>9, <1>10, <1>11 DEF ViewOf, FieldsOf

\* No table has two types for one member.
OneType(table) == \A f \in table, g \in table : f.name = g.name => f.type = g.type

LEMMA TablesAreSimple ==
    ASSUME NEW kind, NEW f \in FieldsOf(kind), NEW g \in FieldsOf(kind), f.name = g.name
    PROVE  f.type = g.type
<1>1. OneType(GenerationFields)
  BY DEF OneType, GenerationFields, Typed
<1>2. OneType(ConfigFields)
  BY DEF OneType, ConfigFields, Typed
<1>3. OneType(TokenizerFields) /\ OneType(PreprocessorFields) /\ OneType(ProcessorFields)
  BY DEF OneType, TokenizerFields, PreprocessorFields, ProcessorFields, Typed
<1>4. OneType(SchedulerFields) /\ OneType(AdapterFields)
  BY DEF OneType, SchedulerFields, AdapterFields, Typed
<1>5. OneType(QuantizationFields) /\ OneType(ModelIndexFields)
  BY DEF OneType, QuantizationFields, ModelIndexFields, Typed
<1>6. \A c \in ConfigFields, x \in GenerationFields :
         x.name \notin {<<"_from_model_config">>, <<"transformers_version">>} => c.name # x.name
  BY DEF ConfigFields, GenerationFields, Typed
<1>7. OneType(FieldsOf("Config"))
  BY <1>1, <1>2, <1>6 DEF OneType, FieldsOf
<1>. QED
  BY <1>1, <1>3, <1>4, <1>5, <1>7 DEF FieldsOf, OneType

\* The members that are apart are in no table.
LEMMA ApartFromTables ==
    ASSUME NEW kind, NEW field, Apart(kind, field), NEW other \in FieldsOf(kind)
    PROVE  other.name # field.name
<1>1. \A f \in TokenizerFields : f.name \notin SpecialTokenFields \cup {Additional, ById}
  BY DEF TokenizerFields, Typed, SpecialTokenFields, Additional, ById
<1>. QED
  BY <1>1 DEF Apart, FieldsOf
-----------------------------------------------------------------------------
\* Whether a list has a finding at a pointer.
Finds(list, pointer) == \E f \in Findings(list) : f.pointer = pointer

LEMMA FindsNone == ASSUME NEW pointer PROVE ~Finds(<<>>, pointer)
  BY NoneIs DEF Finds

LEMMA FindsInvalid ==
    ASSUME NEW path, NEW at, NEW pointer
    PROVE  Finds(<<InvalidField(path, at)>>, pointer) <=> at = pointer
  BY OneIs, ErrorFacts DEF Finds

LEMMA FindsWhen ==
    ASSUME NEW condition \in BOOLEAN, NEW list, NEW pointer
    PROVE  Finds(When(condition, list), pointer) <=> condition /\ Finds(list, pointer)
  BY FindsNone DEF When

LEMMA FindsBoth ==
    ASSUME NEW a, IsList(a), NEW b, IsList(b), NEW pointer
    PROVE  IsList(a \o b) /\ (Finds(a \o b, pointer) <=> Finds(a, pointer) \/ Finds(b, pointer))
  BY BothAre DEF Finds

LEMMA FindsEach ==
    ASSUME NEW set, NEW F, NEW list, IsEach(list, set, F), NEW pointer
    PROVE  Finds(list, pointer) <=> \E x \in set : Finds(F[x], pointer)
  BY EachIs DEF Finds

LEMMA FindsTold ==
    ASSUME NEW path, NEW codes, NEW pointers, NEW list, Tells(list, path, codes, pointers),
           NEW pointer, pointer \notin pointers
    PROVE  ~Finds(list, pointer)
  BY DEF Finds, Tells, Telling

\* Pointers of different lengths.
LEMMA Lengths ==
    ASSUME NEW name, NEW a
    PROVE  /\ Some(<<a>>) = Some(<<name>>) => a = name
           /\ \A b : Child(Some(<<a>>), b) = Some(<<a, b>>) /\ Some(<<a, b>>) # Some(<<name>>)
<1>1. ASSUME Some(<<a>>) = Some(<<name>>) PROVE a = name
  <2>1. <<a>> = <<name>>
    BY <1>1, SomeIsNotNone
  <2>. QED
    BY <2>1
<1>2. ASSUME NEW b PROVE Child(Some(<<a>>), b) = Some(<<a, b>>) /\ Some(<<a, b>>) # Some(<<name>>)
  <2>1. Child(Some(<<a>>), b) = Some(<<a, b>>)
    BY PointersAre
  <2>2. <<a, b>> # <<name>>
    OBVIOUS
  <2>. QED
    BY <2>1, <2>2, SomeIsNotNone
<1>. QED
  BY <1>1, <1>2

\* The pointers of a token, at a member or at an entry of one.
LEMMA PointersApart ==
    ASSUME NEW name, NEW a
    PROVE  /\ Some(<<name>>) \in TokenPointers(Some(<<a>>)) <=> a = name
           /\ \A b : Some(<<name>>) \notin TokenPointers(Some(<<a, b>>))
           /\ \A n : Child(Some(<<a>>), n) # Some(<<name>>)
<1>1. ASSUME NEW n PROVE Child(Some(<<a>>), n) # Some(<<name>>)
  <2>1. Child(Some(<<a>>), n) = Some(<<a, n>>) /\ Some(<<a, n>>) # Some(<<name>>)
    BY Lengths
  <2>. QED
    BY <2>1
<1>2. Some(<<name>>) \in TokenPointers(Some(<<a>>)) <=> a = name
  <2>1. Some(<<name>>) \in TokenPointers(Some(<<a>>)) <=> Some(<<name>>) = Some(<<a>>)
    BY <1>1 DEF TokenPointers
  <2>. QED
    BY <2>1, Lengths
<1>3. ASSUME NEW b PROVE Some(<<name>>) \notin TokenPointers(Some(<<a, b>>))
  <2>1. Some(<<a, b>>) # Some(<<name>>)
    BY Lengths
  <2>2. ASSUME NEW c PROVE Child(Some(<<a, b>>), c) # Some(<<name>>)
    <3>1. Child(Some(<<a, b>>), c) = Some(<<a, b, c>>)
      BY PointersAre
    <3>2. <<a, b, c>> # <<name>>
      OBVIOUS
    <3>. QED
      BY <3>1, <3>2, SomeIsNotNone
  <2>. QED
    BY <2>1, <2>2 DEF TokenPointers
<1>. QED
  BY <1>1, <1>2, <1>3

\* A token is found wrong as a whole exactly if the view calls it invalid.
LEMMA TokenFinds ==
    ASSUME NEW path, NEW value, IsValue(value), NEW pointer, \A n : Child(pointer, n) # pointer
    PROVE  Finds(TokenFindings(path, value, pointer), pointer) <=> InvalidToken(value)
<1> DEFINE list == TokenFindings(path, value, pointer)
<1>1. CASE value[1] = "text"
  <2>1. list = <<>> /\ ~InvalidToken(value)
    BY <1>1 DEF TokenFindings, InvalidToken, IsText
  <2>. QED
    BY <2>1, FindsNone
<1>2. CASE value[1] = "object"
  <2>1. list = AddedToken(path, value[2], pointer) /\ ~InvalidToken(value)
    BY <1>2 DEF TokenFindings, InvalidToken
  <2> DEFINE P == {Child(pointer, n) : n \in TokenFieldNames}
  <2>2. Tells(AddedToken(path, value[2], pointer), path, Shape, P)
    BY <1>2, AddedTokenTells DEF IsValue
  <2>3. pointer \notin P
    OBVIOUS
  <2> HIDE DEF P
  <2>4. ~Finds(AddedToken(path, value[2], pointer), pointer)
    BY <2>2, <2>3, FindsTold
  <2>. QED
    BY <2>1, <2>4
<1>3. CASE value[1] # "text" /\ value[1] # "object"
  <2>1. list = <<InvalidField(path, pointer)>> /\ InvalidToken(value)
    BY <1>3 DEF TokenFindings, InvalidToken, IsText
  <2>. QED
    BY <2>1, FindsInvalid
<1>. QED
  BY <1>1, <1>2, <1>3

\* A member of another type than one that is due, and not null.
NotOf(object, name, type) == name \in DOMAIN object /\ object[name] # Null /\ object[name][1] # type

LEMMA TokensFind ==
    ASSUME NEW path, NEW object, IsObject(object), NEW of, NEW type \in {"object", "list"}, NEW name
    PROVE  Finds(TokensFindings(path, object, of, type), Some(<<name>>)) <=>
              name = of /\ NotOf(object, of, type)
<1> DEFINE list == TokensFindings(path, object, of, type)
<1>1. CASE of \notin DOMAIN object \/ object[of] = Null
  <2>1. list = <<>> /\ ~NotOf(object, of, type)
    BY <1>1 DEF TokensFindings, NotOf
  <2>. QED
    BY <2>1, FindsNone
<1>2. CASE NotOf(object, of, type)
  <2>1. list = <<InvalidField(path, Some(<<of>>))>>
    BY <1>2 DEF TokensFindings, NotOf
  <2>2. Finds(list, Some(<<name>>)) <=> Some(<<of>>) = Some(<<name>>)
    BY <2>1, FindsInvalid
  <2>3. Some(<<of>>) = Some(<<name>>) <=> of = name
    BY Lengths
  <2>. QED
    BY <1>2, <2>2, <2>3
<1>3. CASE of \in DOMAIN object /\ object[of] # Null /\ object[of][1] = type
  <2>1. Tells(list, path, Shape, EntryPointers(object, of))
    BY <1>3, TokensEach
  <2>2. Some(<<name>>) \notin EntryPointers(object, of)
    <3>1. \A key : Some(<<name>>) \notin TokenPointers(Some(<<of, key>>))
      BY PointersApart
    <3>. QED
      BY <3>1 DEF EntryPointers
  <2>3. ~NotOf(object, of, type)
    BY <1>3 DEF NotOf
  <2>. QED
    BY <2>1, <2>2, <2>3, FindsTold
<1>. QED
  BY <1>1, <1>2, <1>3 DEF NotOf

\* The members that a single token is.
WrongToken(object, name) ==
    name \in SpecialTokenFields /\ name \in DOMAIN object /\ object[name] # Null /\ InvalidToken(object[name])

LEMMA SpecialFinds ==
    ASSUME NEW path, NEW object, IsObject(object), NEW name
    PROVE  Finds(SpecialTokenFindings(path, object), Some(<<name>>)) <=>
              \/ WrongToken(object, name)
              \/ name = Additional /\ NotOf(object, Additional, "list")
              \/ Kind(path) = "TokenizerConfig" /\ name = ById /\ NotOf(object, ById, "object")
<1> DEFINE at == Some(<<name>>)
           D == SpecialTokenFields \cap DOMAIN object
           F == [n \in D |-> SpecialOf(path, object, n)]
           two == TokensFindings(path, object, Additional, "list")
           by == TokensFindings(path, object, ById, "object")
           three == When(Kind(path) = "TokenizerConfig", by)
<1>1. PICK single :
         /\ SpecialTokenFindings(path, object) = single \o two \o three
         /\ IsEach(single, D, F) /\ Tells(single, path, Shape, SinglePointers(object))
  BY SpecialParts
<1>2. IsList(single) /\ IsList(two) /\ IsList(three)
  <2>1. IsList(two) /\ IsList(by)
    BY TokensTell DEF Tells
  <2>. QED
    BY <1>1, <2>1, NoneIs DEF Tells, When
<1>3. Finds(two, at) <=> name = Additional /\ NotOf(object, Additional, "list")
  BY TokensFind
<1>4. Finds(three, at) <=>
         Kind(path) = "TokenizerConfig" /\ name = ById /\ NotOf(object, ById, "object")
  <2>1. Finds(by, at) <=> name = ById /\ NotOf(object, ById, "object")
    BY TokensFind
  <2>2. (Kind(path) = "TokenizerConfig") \in BOOLEAN
    OBVIOUS
  <2> HIDE DEF by, at
  <2>. QED
    BY <2>1, <2>2, FindsWhen
<1>5. ASSUME NEW n \in D PROVE Finds(F[n], at) <=> n = name /\ WrongToken(object, name)
  <2>1. F[n] = When(object[n] # Null, TokenFindings(path, object[n], Some(<<n>>)))
    BY DEF SpecialOf
  <2>2. IsValue(object[n])
    BY DEF IsObject
  <2>3. (object[n] # Null) \in BOOLEAN
    OBVIOUS
  <2>4. Finds(F[n], at) <=> object[n] # Null /\ Finds(TokenFindings(path, object[n], Some(<<n>>)), at)
    <3> DEFINE c == object[n] # Null
               l == TokenFindings(path, object[n], Some(<<n>>))
    <3>1. F[n] = When(c, l) /\ c \in BOOLEAN
      BY <2>1
    <3> HIDE DEF c, l, F
    <3>2. Finds(F[n], at) <=> c /\ Finds(l, at)
      BY <3>1, FindsWhen
    <3>. QED
      BY <3>2 DEF c, l
  <2>5. CASE n = name
    <3>1. \A m : Child(Some(<<n>>), m) # Some(<<n>>)
      BY PointersApart
    <3>2. Finds(TokenFindings(path, object[n], Some(<<n>>)), Some(<<n>>)) <=> InvalidToken(object[n])
      BY <2>2, <3>1, TokenFinds
    <3>. QED
      BY <2>4, <2>5, <3>2 DEF WrongToken
  <2>6. CASE n # name
    <3>1. at \notin TokenPointers(Some(<<n>>))
      BY <2>6, PointersApart
    <3>2. Tells(TokenFindings(path, object[n], Some(<<n>>)), path, Shape, TokenPointers(Some(<<n>>)))
      BY <2>2, TokenTells
    <3>3. ~Finds(TokenFindings(path, object[n], Some(<<n>>)), at)
      BY <3>1, <3>2, FindsTold
    <3>. QED
      BY <2>4, <2>6, <3>3
  <2>. QED
    BY <2>5, <2>6
<1>6. WrongToken(object, name) => name \in D
  BY DEF WrongToken
<1> HIDE DEF at, D, F, two, by, three
<1>7. Finds(single, at) <=> WrongToken(object, name)
  <2>1. Finds(single, at) <=> \E n \in D : Finds(F[n], at)
    BY <1>1, FindsEach
  <2>. QED
    BY <1>5, <1>6, <2>1
<1>8. IsList(single \o two) /\ (Finds(single \o two, at) <=> Finds(single, at) \/ Finds(two, at))
  BY <1>2, FindsBoth
<1>9. Finds(single \o two \o three, at) <=> Finds(single \o two, at) \/ Finds(three, at)
  BY <1>2, <1>8, FindsBoth
<1>. QED
  BY <1>1, <1>3, <1>4, <1>7, <1>8, <1>9 DEF at
-----------------------------------------------------------------------------
\* What it takes for a member to be found wrong, as a whole.
MemberIsWrong(kind, object, name) ==
    \/ \E field \in FieldsOf(kind) : field.name = name /\ Misshapen(object, name, field.type)
    \/ kind \in {"TokenizerConfig", "SpecialTokensMap"} /\ WrongToken(object, name)
    \/ kind \in {"TokenizerConfig", "SpecialTokensMap"} /\ name = Additional /\ NotOf(object, Additional, "list")
    \/ kind = "TokenizerConfig" /\ name = ById /\ NotOf(object, ById, "object")
    \/ kind = "Config" /\ name = <<"architectures">>
    \/ kind = "ModelIndex" /\ ~Metadata(name)
    \/ kind \in {"TokenizerConfig", "ProcessorConfig"} /\ name = <<"chat_template">>
    \/ kind = "SafetensorsIndex" /\ name = Meta /\ NotOf(object, Meta, "object")
    \/ kind = "SafetensorsIndex" /\ name = Map /\ (Map \notin DOMAIN object \/ object[Map][1] # "object")

LEMMA TableFinds ==
    ASSUME NEW path, NEW object, IsObject(object), NEW name
    PROVE  Finds(TableFindings(path, object), Some(<<name>>)) <=>
              \E field \in FieldsOf(Kind(path)) : field.name = name /\ Misshapen(object, name, field.type)
<1>1. IsFiniteSet(DOMAIN object)
  BY DEF IsObject
<1>2. \A f : f \in Findings(TableFindings(path, object)) <=>
                \E field \in MisshapenOf(path, object) : f = InvalidField(path, Some(<<field.name>>))
  BY <1>1, TableHas
<1>3. Finds(TableFindings(path, object), Some(<<name>>)) <=>
         \E field \in MisshapenOf(path, object) :
            InvalidField(path, Some(<<field.name>>)).pointer = Some(<<name>>)
  BY <1>2 DEF Finds
<1>4. \A a : InvalidField(path, Some(<<a>>)).pointer = Some(<<name>>) <=> a = name
  <2> SUFFICES ASSUME NEW a PROVE InvalidField(path, Some(<<a>>)).pointer = Some(<<name>>) <=> a = name
    OBVIOUS
  <2>1. InvalidField(path, Some(<<a>>)).pointer = Some(<<a>>)
    BY ErrorFacts
  <2>2. Some(<<a>>) = Some(<<name>>) <=> a = name
    BY Lengths
  <2>. QED
    BY <2>1, <2>2
<1>. QED
  BY <1>3, <1>4 DEF MisshapenOf

LEMMA ArchitectureFinds ==
    ASSUME NEW path, NEW object, IsObject(object), NEW name,
           Finds(ArchitecturesFindings(path, object), Some(<<name>>))
    PROVE  name = <<"architectures">>
<1> DEFINE member == <<"architectures">>
           value == object[member]
           list == ArchitecturesFindings(path, object)
           at == Some(<<name>>)
<1>1. CASE member \notin DOMAIN object \/ value = Null
  <2>1. list = <<>>
    BY <1>1 DEF ArchitecturesFindings
  <2>. QED
    BY <2>1, FindsNone
<1>2. CASE member \in DOMAIN object /\ value # Null /\ value[1] # "list"
  <2>1. list = <<InvalidField(path, Some(<<member>>))>>
    BY <1>2 DEF ArchitecturesFindings
  <2>2. Some(<<member>>) = Some(<<name>>)
    BY <2>1, FindsInvalid
  <2>3. member = name
    BY <2>2, Lengths
  <2>. QED
    BY <2>3
<1>3. CASE member \in DOMAIN object /\ value # Null /\ value[1] = "list"
  <2> DEFINE D == 1..Len(value[2])
             F == [i \in D |-> ArchitectureIs(path, value, i)]
  <2>1. IsEach(list, D, F) /\ \A i \in D : Tells(F[i], path, Shape, {Some(<<member, i>>)})
    BY <1>3, ArchitecturesAre DEF ArchitecturesEach
  <2>2. \A i : at \notin {Some(<<member, i>>)}
    BY Lengths
  <2> HIDE DEF D, F, at, list
  <2>3. \A i \in D : ~Finds(F[i], at)
    BY <2>1, <2>2, FindsTold
  <2>4. ~Finds(list, at)
    BY <2>1, <2>3, FindsEach
  <2>. QED
    BY <2>4 DEF at, list
<1>. QED
  BY <1>1, <1>2, <1>3

LEMMA ComponentsFind ==
    ASSUME NEW path, NEW object, IsObject(object), NEW name,
           Finds(IndexComponents(path, object), Some(<<name>>))
    PROVE  ~Metadata(name)
<1> DEFINE D == Declared(object)
           F == [n \in D |-> ComponentField(path, object, n)]
           at == Some(<<name>>)
<1>1. IsEach(IndexComponents(path, object), D, F)
  BY IndexComponentsEach DEF ComponentsEach
<1>2. \A n \in D : Tells(F[n], path, FieldCodes, {Some(<<n>>)})
  BY ComponentFieldTells, PointersAre
<1>3. \A n : at \in {Some(<<n>>)} => n = name
  BY Lengths
<1>4. \A n \in D : ~Metadata(n)
  BY DEF Declared
<1> HIDE DEF D, F
<1>5. PICK n \in D : Finds(F[n], at)
  BY <1>1, FindsEach
<1>6. n = name
  <2> SUFFICES ASSUME n # name PROVE FALSE
    OBVIOUS
  <2>1. at \notin {Some(<<n>>)}
    BY <1>3
  <2>2. Tells(F[n], path, FieldCodes, {Some(<<n>>)})
    BY <1>2
  <2>3. ~Finds(F[n], at)
    BY <2>1, <2>2, FindsTold
  <2>. QED
    BY <1>5, <2>3
<1>. QED
  BY <1>4, <1>6

LEMMA InlineFinds ==
    ASSUME NEW path, NEW object, NEW name, Finds(InlineTemplateFindings(path, object), Some(<<name>>))
    PROVE  name = <<"chat_template">>
<1> DEFINE member == <<"chat_template">>
           condition == /\ member \in DOMAIN object /\ object[member] # Null
                        /\ object[member][1] \notin {"text", "object", "list"}
           l == <<InvalidField(path, Some(<<member>>))>>
<1>1. InlineTemplateFindings(path, object) = When(condition, l) /\ condition \in BOOLEAN
  BY DEF InlineTemplateFindings
<1> HIDE DEF condition
<1>2. Finds(l, Some(<<name>>))
  <2> HIDE DEF l
  <2>. QED
    BY <1>1, FindsWhen
<1>. QED
  BY <1>2, FindsInvalid, Lengths

LEMMA MetadataFinds ==
    ASSUME NEW path, NEW object, NEW name
    PROVE  Finds(MetadataFindings(path, object), Some(<<name>>)) <=> name = Meta /\ NotOf(object, Meta, "object")
<1> DEFINE size == <<"total_size">>
           condition == Misshapen(object[Meta][2], size, "U64")
           list == MetadataFindings(path, object)
           l == <<InvalidField(path, Some(<<Meta, size>>))>>
<1>1. CASE Meta \notin DOMAIN object \/ object[Meta] = Null
  <2>1. list = <<>> /\ ~NotOf(object, Meta, "object")
    BY <1>1 DEF MetadataFindings, Meta, NotOf
  <2>. QED
    BY <2>1, FindsNone
<1>2. CASE NotOf(object, Meta, "object")
  <2>1. list = <<InvalidField(path, Some(<<Meta>>))>>
    BY <1>2 DEF MetadataFindings, Meta, NotOf
  <2>2. Finds(list, Some(<<name>>)) <=> Some(<<Meta>>) = Some(<<name>>)
    BY <2>1, FindsInvalid
  <2>3. Some(<<Meta>>) = Some(<<name>>) <=> Meta = name
    BY Lengths
  <2>. QED
    BY <1>2, <2>2, <2>3
<1>3. CASE Meta \in DOMAIN object /\ object[Meta] # Null /\ object[Meta][1] = "object"
  <2>1. list = When(condition, l)
    BY <1>3 DEF MetadataFindings, Meta
  <2>2. condition \in BOOLEAN
    BY DEF Misshapen
  <2>3. ~Finds(l, Some(<<name>>))
    <3>1. Finds(l, Some(<<name>>)) <=> Some(<<Meta, size>>) = Some(<<name>>)
      BY FindsInvalid
    <3>2. Some(<<Meta, size>>) # Some(<<name>>)
      BY Lengths
    <3>. QED
      BY <3>1, <3>2
  <2>4. ~NotOf(object, Meta, "object")
    BY <1>3 DEF NotOf
  <2> HIDE DEF condition, l, list
  <2>5. ~Finds(list, Some(<<name>>))
    BY <2>1, <2>2, <2>3, FindsWhen
  <2>. QED
    BY <2>4, <2>5 DEF list
<1>. QED
  BY <1>1, <1>2, <1>3 DEF NotOf

\* What the pass over the fields finds of a member, part by part.
LEMMA FieldsFind ==
    ASSUME NEW r, NEW p, IsDocument(r, p), Usable(r.documents[p]), NEW object, object = r.documents[p].json[2],
           NEW name
    PROVE  /\ Finds(FieldFindings(r, p), Some(<<name>>)) => MemberIsWrong(Kind(p), object, name)
           /\ Finds(TableFindings(p, object), Some(<<name>>)) \/ Finds(SpecialPart(p, object), Some(<<name>>))
              \/ Finds(MetadataPart(p, object), Some(<<name>>))
              => Finds(FieldFindings(r, p), Some(<<name>>))
<1> DEFINE at == Some(<<name>>)
           kind == Kind(p)
<1>1. IsObject(object)
  BY ObjectIs
<1>2. \A f : f \in Findings(FieldFindings(r, p)) <=>
            \/ f \in Findings(TableFindings(p, object)) \/ f \in Findings(SpecialPart(p, object))
            \/ f \in Findings(ArchitecturePart(p, object)) \/ f \in Findings(ComponentPart(p, object))
            \/ f \in Findings(InlinePart(p, object)) \/ f \in Findings(MetadataPart(p, object))
  BY FieldsHave
<1>3. Finds(FieldFindings(r, p), at) <=>
            \/ Finds(TableFindings(p, object), at) \/ Finds(SpecialPart(p, object), at)
            \/ Finds(ArchitecturePart(p, object), at) \/ Finds(ComponentPart(p, object), at)
            \/ Finds(InlinePart(p, object), at) \/ Finds(MetadataPart(p, object), at)
  BY <1>2 DEF Finds
<1>4. Finds(TableFindings(p, object), at) => MemberIsWrong(kind, object, name)
  BY <1>1, TableFinds DEF MemberIsWrong
<1>5. /\ (kind \in {"TokenizerConfig", "SpecialTokensMap"}) \in BOOLEAN /\ (kind = "Config") \in BOOLEAN
      /\ (kind = "ModelIndex") \in BOOLEAN /\ (kind \in {"TokenizerConfig", "ProcessorConfig"}) \in BOOLEAN
      /\ (kind = "SafetensorsIndex") \in BOOLEAN
  OBVIOUS
<1>6. Finds(SpecialPart(p, object), at) => MemberIsWrong(kind, object, name)
  <2>1. Finds(SpecialPart(p, object), at) =>
           kind \in {"TokenizerConfig", "SpecialTokensMap"} /\ Finds(SpecialTokenFindings(p, object), at)
    BY <1>5, FindsWhen DEF SpecialPart
  <2>. QED
    BY <1>1, <2>1, SpecialFinds DEF MemberIsWrong
<1>7. Finds(ArchitecturePart(p, object), at) => MemberIsWrong(kind, object, name)
  <2>1. Finds(ArchitecturePart(p, object), at) => kind = "Config" /\ Finds(ArchitecturesFindings(p, object), at)
    BY <1>5, FindsWhen DEF ArchitecturePart
  <2>. QED
    BY <1>1, <2>1, ArchitectureFinds DEF MemberIsWrong
<1>8. Finds(ComponentPart(p, object), at) => MemberIsWrong(kind, object, name)
  <2>1. Finds(ComponentPart(p, object), at) => kind = "ModelIndex" /\ Finds(IndexComponents(p, object), at)
    BY <1>5, FindsWhen DEF ComponentPart
  <2>. QED
    BY <1>1, <2>1, ComponentsFind DEF MemberIsWrong
<1>9. Finds(InlinePart(p, object), at) => MemberIsWrong(kind, object, name)
  <2>1. Finds(InlinePart(p, object), at) =>
           kind \in {"TokenizerConfig", "ProcessorConfig"} /\ Finds(InlineTemplateFindings(p, object), at)
    BY <1>5, FindsWhen DEF InlinePart
  <2>. QED
    BY <2>1, InlineFinds DEF MemberIsWrong
<1>10. Finds(MetadataPart(p, object), at) => MemberIsWrong(kind, object, name)
  <2>1. Finds(MetadataPart(p, object), at) => kind = "SafetensorsIndex" /\ Finds(MetadataFindings(p, object), at)
    BY <1>5, FindsWhen DEF MetadataPart
  <2>. QED
    BY <2>1, MetadataFinds DEF MemberIsWrong
<1>. QED
  BY <1>3, <1>4, <1>6, <1>7, <1>8, <1>9, <1>10
-----------------------------------------------------------------------------
\* An invalid member among the references: there is no map of shards.
LEMMA ReferencesFind ==
    ASSUME NEW r, NEW p, IsDocument(r, p), Usable(r.documents[p]), NEW object, object = r.documents[p].json[2],
           NEW f \in Findings(References(r, p)), f.code = "invalid_document_shape",
           NEW name, f.pointer = Some(<<name>>)
    PROVE  Kind(p) = "SafetensorsIndex" /\ name = Map /\ (Map \notin DOMAIN object \/ object[Map][1] # "object")
<1>1. Kind(p) = "SafetensorsIndex"
  <2>1. Kind(p) = "AdapterConfig" => References(r, p) = AdapterReference(r, p)
    BY DEF References
  <2>2. Kind(p) = "ModelIndex" => References(r, p) = IndexReferences(r, p)
    BY DEF References
  <2>3. \/ Kind(p) \in {"SafetensorsIndex", "AdapterConfig", "ModelIndex"} \/ References(r, p) = <<>>
    BY DEF References
  <2>4. \A g \in Findings(AdapterReference(r, p)) : g.code \in AdapterCodes
    BY AdapterTells DEF Tells, Telling
  <2>5. \A g \in Findings(IndexReferences(r, p)) :
           g.code \in {"unsafe_reference_path", "missing_component_directory"}
    BY IndexReferencesTell DEF Tells, Telling
  <2>6. f.code \notin AdapterCodes \cup {"unsafe_reference_path", "missing_component_directory"}
    BY DEF AdapterCodes
  <2>. QED
    BY <2>1, <2>2, <2>3, <2>4, <2>5, <2>6, NoneIs
<1>2. f \in Findings(SafetensorsReferences(r, p))
  BY <1>1 DEF References
<1>3. CASE ~HasMap(r, p)
  <2>1. CASE SafetensorsReferences(r, p) = <<>>
    BY <1>2, <2>1, NoneIs
  <2>2. CASE /\ SafetensorsReferences(r, p) = <<InvalidField(p, WeightMap)>>
             /\ \/ <<"weight_map">> \notin DOMAIN object
                \/ object[<<"weight_map">>][1] # "object"
    <3>1. f = InvalidField(p, WeightMap)
      BY <1>2, <2>2, OneIs
    <3>2. f.pointer = WeightMap
      BY <3>1, ErrorFacts
    <3>3. Some(<<Map>>) = Some(<<name>>)
      BY <3>2, MapPointers DEF Map
    <3>4. Map = name
      BY <3>3, Lengths
    <3>. QED
      BY <1>1, <2>2, <3>4 DEF Map
  <2>3. CASE SafetensorsReferences(r, p) = <<Error("empty_checkpoint_weight_map", p, WeightMap)>>
    <3>1. f = Error("empty_checkpoint_weight_map", p, WeightMap)
      BY <1>2, <2>3, OneIs
    <3>. QED
      BY <3>1, ErrorFacts
  <2>. QED
    BY <1>3, <2>1, <2>2, <2>3, SafetensorsCases
<1>4. CASE HasMap(r, p)
  <2> DEFINE map == object[<<"weight_map">>][2]
             N == NamelessOf(map)
             Z == ShardsOf(map)
             F == [tensor \in N |-> <<InvalidField(p, Child(WeightMap, tensor))>>]
             G == [shard \in Z |-> ShardFindings(r, p, shard)]
             P == {Child(WeightMap, t) : t \in N}
  <2>1. SafetensorsReferences(r, p) = ShardReferences(r, p)
    BY <1>4 DEF HasMap, SafetensorsReferences
  <2>2. IsFiniteSet(DOMAIN map)
    BY <1>4, ObjectIs, MapIs DEF HasMap
  <2>3. PICK nameless, shards :
           /\ ShardReferences(r, p) = nameless \o shards
           /\ IsEach(nameless, N, F) /\ Tells(nameless, p, ShardCodes, P)
           /\ IsEach(shards, Z, G) /\ Tells(shards, p, ShardCodes, {WeightMap})
    BY <2>2, ShardsAre
  <2>4. Some(<<name>>) \notin P
    <3>1. \A t : Child(WeightMap, t) = Some(<<Map, t>>)
      BY MapPointers DEF Map
    <3>2. \A t : Some(<<Map, t>>) # Some(<<name>>)
      BY Lengths
    <3>. QED
      BY <3>1, <3>2
  <2>5. \A shard \in Z : G[shard] = ShardFindings(r, p, shard)
    OBVIOUS
  <2> HIDE DEF N, Z, F, G, P
  <2>6. f \notin Findings(nameless)
    BY <2>3, <2>4 DEF Tells, Telling
  <2>7. Findings(nameless \o shards) = Findings(nameless) \cup Findings(shards)
    BY <2>3, BothAre DEF Tells
  <2>8. f \in Findings(shards)
    BY <1>2, <2>1, <2>3, <2>6, <2>7
  <2>9. Findings(shards) = UNION {Findings(G[x]) : x \in Z}
    BY <2>3, EachIs
  <2>10. PICK shard \in Z : f \in Findings(G[shard])
    BY <2>8, <2>9
  <2>11. f.code # "invalid_document_shape"
    <3> DEFINE related == Join(Parent(p), PathSpelled(shard))
    <3>1. f \in Findings(ShardFindings(r, p, shard))
      BY <2>5, <2>10
    <3>2. \/ ShardFindings(r, p, shard) = <<UnsafeShard(p)>>
          \/ ShardFindings(r, p, shard) = When(related[1] \notin r.files, <<NoShard(p, shard)>>)
      BY DEF ShardFindings, UnsafeShard, NoShard
    <3>3. (related[1] \notin r.files) \in BOOLEAN
      OBVIOUS
    <3> HIDE DEF related
    <3>4. f = UnsafeShard(p) \/ f = NoShard(p, shard)
      <4>1. CASE ShardFindings(r, p, shard) = <<UnsafeShard(p)>>
        BY <3>1, <4>1, OneIs
      <4>2. CASE ShardFindings(r, p, shard) = When(related[1] \notin r.files, <<NoShard(p, shard)>>)
        <5> DEFINE c == related[1] \notin r.files
                   g == NoShard(p, shard)
        <5>1. c \in BOOLEAN /\ f \in Findings(When(c, <<g>>))
          BY <3>1, <4>2
        <5> HIDE DEF c, g
        <5>2. Findings(When(c, <<g>>)) = IF c THEN {g} ELSE {}
          BY <5>1, WhenIs
        <5>3. f = g
          BY <5>1, <5>2
        <5>. QED
          BY <5>3 DEF g
      <4>. QED
        BY <3>2, <4>1, <4>2
    <3>. QED
      BY <3>4 DEF UnsafeShard, NoShard, Error, Report
  <2>. QED
    BY <2>11
<1>. QED
  BY <1>3, <1>4

\* A member that is reported as one of the wrong shape is one.
LEMMA MemberReported ==
    ASSUME IInv, IsDone, NEW p \in DOMAIN repository.documents, Usable(repository.documents[p]), NEW name,
           ReportedAt("invalid_document_shape", p, Some(<<name>>)) # {}
    PROVE  MemberIsWrong(Kind(p), repository.documents[p].json[2], name)
<1> DEFINE r == repository
           code == "invalid_document_shape"
<1>1. PICK f \in CodedAt(code, p, Some(<<name>>)) : TRUE
  BY ReportedAtIs
<1>2. /\ f \in Findings(findings) /\ f.code = code /\ f.document = Some(p) /\ f.pointer = Some(<<name>>)
      /\ f.pointer # None
  BY <1>1, SomeIsNotNone DEF CodedAt
<1>3. IsDocument(r, p) /\ InLists(r, p, f)
  BY <1>2, Ended, ReportedIff
<1>4. f \notin Findings(RootList(r))
  BY <1>2, RootTells DEF RootTelling
<1>5. f \notin Findings(ShapeFindings(r, p))
  BY <1>3, UsableShape
<1>6. f \notin Findings(Configurations(r, p))
  BY <1>2, <1>3, ConfigurationsSpeak DEF Speaks, Tells, Telling, ConfigurationCodes
<1>7. f \notin Findings(IndexPart(r, p)) /\ f \notin Findings(WalkPart(r, p))
  BY <1>2, <1>3, ExecutablesAre, Located DEF Tells, Telling, CodeCodes, InertCodes
<1>8. CASE f \in Findings(References(r, p))
  BY <1>2, <1>3, <1>8, ReferencesFind DEF MemberIsWrong
<1>9. CASE f \in Findings(FieldFindings(r, p))
  <2>1. Finds(FieldFindings(r, p), Some(<<name>>))
    BY <1>2, <1>9 DEF Finds
  <2>. QED
    BY <1>3, <2>1, FieldsFind
<1>. QED
  BY <1>3, <1>4, <1>5, <1>6, <1>7, <1>8, <1>9 DEF InLists

\* What the pass over the fields finds is an error.
LEMMA FieldsErr ==
    ASSUME IInv, IsDone, NEW p \in DOMAIN repository.documents, NEW pointer,
           Finds(FieldFindings(repository, p), pointer)
    PROVE  ErrorsAt(p, pointer) # {}
<1>1. PICK f \in Findings(FieldFindings(repository, p)) : f.pointer = pointer
  BY DEF Finds
<1>2. IsDocument(repository, p)
  BY Ended
<1>3. f.document = Some(p) /\ f.code \in FieldCodes /\ f.level = IF f.code \in Warnings THEN "warning" ELSE "error"
  BY <1>2, FieldsLocate, Located
<1>4. f.level = "error"
  BY <1>3 DEF FieldCodes, Warnings
<1>5. f \in Findings(findings)
  BY <1>3, ReportedIff DEF InLists
<1>. QED
  BY <1>1, <1>3, <1>4, <1>5, ErrorsAtIs DEF WrongAt
-----------------------------------------------------------------------------
\* What an accessor does not take, of a member that is there.
LEMMA NotTaken ==
    ASSUME NEW object, NEW name, NEW type, SourceField(object, name, type) = "Invalid"
    PROVE  name \in DOMAIN object /\ object[name] # Null /\ ~Accepts(type, object[name])
<1>1. CASE name \notin DOMAIN object
  BY <1>1 DEF SourceField
<1>2. CASE name \in DOMAIN object /\ object[name] = Null
  BY <1>2 DEF SourceField
<1>3. CASE name \in DOMAIN object /\ object[name] # Null /\ Accepts(type, object[name])
  BY <1>3 DEF SourceField
<1>. QED
  BY <1>1, <1>2, <1>3

LEMMA AcceptsAre ==
    ASSUME NEW type \in Accessors, NEW value
    PROVE  Accepts(type, value) <=> HasShape(type, value)
<1>1. CASE type = "String"
  BY <1>1 DEF Accepts, HasShape
<1>2. CASE type = "Bool"
  BY <1>2 DEF Accepts, HasShape
<1>3. CASE type = "U64"
  BY <1>3 DEF Accepts, HasShape
<1>4. CASE type = "I64"
  BY <1>4 DEF Accepts, HasShape
<1>5. CASE type = "F64"
  BY <1>5 DEF Accepts, HasShape
<1>6. CASE type = "Object"
  BY <1>6 DEF Accepts, HasShape
<1>. QED
  BY <1>1, <1>2, <1>3, <1>4, <1>5, <1>6 DEF Accessors

\* What a view calls invalid is reported.
LEMMA RefusedIsReported ==
    ASSUME IInv, IsDone, NEW p \in DOMAIN repository.documents, Usable(repository.documents[p]),
           NEW field \in ViewOf(Kind(p)), field.type # "Raw",
           SourceField(repository.documents[p].json[2], field.name, field.type) = "Invalid"
    PROVE  ErrorsAt(p, Some(<<field.name>>)) # {}
<1> DEFINE r == repository
           kind == Kind(p)
           object == r.documents[p].json[2]
           name == field.name
           at == Some(<<name>>)
<1>1. IsDocument(r, p) /\ IsObject(object)
  <2>1. IsDocument(r, p)
    BY Ended
  <2>. QED
    BY <2>1, ObjectIs
<1>2. /\ name \in DOMAIN object /\ object[name] # Null
      /\ ~Accepts(field.type, object[name])
  BY NotTaken
<1>3. /\ Finds(TableFindings(p, object), at) => ErrorsAt(p, at) # {}
      /\ Finds(SpecialPart(p, object), at) => ErrorsAt(p, at) # {}
      /\ Finds(MetadataPart(p, object), at) => ErrorsAt(p, at) # {}
  <2>1. Finds(TableFindings(p, object), at) \/ Finds(SpecialPart(p, object), at)
           \/ Finds(MetadataPart(p, object), at) => Finds(FieldFindings(r, p), at)
    BY <1>1, FieldsFind
  <2>2. Finds(FieldFindings(r, p), at) => ErrorsAt(p, at) # {}
    BY FieldsErr
  <2>. QED
    BY <2>1, <2>2
<1>4. CASE field \in FieldsOf(kind) /\ field.type \in Accessors
  <2>1. ~HasShape(field.type, object[name])
    BY <1>2, <1>4, AcceptsAre
  <2>2. Misshapen(object, name, field.type)
    BY <1>2, <2>1 DEF Misshapen
  <2>3. Finds(TableFindings(p, object), at)
    BY <1>1, <1>4, <2>2, TableFinds
  <2>. QED
    BY <1>3, <2>3
<1>5. CASE Apart(kind, field)
  <2>1. (kind \in {"TokenizerConfig", "SpecialTokensMap"}) \in BOOLEAN /\ (kind = "SafetensorsIndex") \in BOOLEAN
    OBVIOUS
  <2>2. kind \in {"TokenizerConfig", "SpecialTokensMap"} /\ Finds(SpecialTokenFindings(p, object), at)
        => ErrorsAt(p, at) # {}
    BY <1>3, <2>1, FindsWhen DEF SpecialPart
  <2>3. CASE field.type = "Token" /\ kind \in {"TokenizerConfig", "SpecialTokensMap"} /\ name \in SpecialTokenFields
    <3>1. InvalidToken(object[name])
      BY <1>2, <2>3 DEF Accepts, InvalidToken
    <3>2. WrongToken(object, name)
      BY <1>2, <2>3, <3>1 DEF WrongToken
    <3>. QED
      BY <1>1, <2>2, <2>3, <3>2, SpecialFinds
  <2>4. CASE field.type = "Tokens" /\ kind \in {"TokenizerConfig", "SpecialTokensMap"} /\ name = Additional
    <3>1. NotOf(object, Additional, "list")
      BY <1>2, <2>4 DEF Accepts, NotOf
    <3>. QED
      BY <1>1, <2>2, <2>4, <3>1, SpecialFinds
  <2>5. CASE field.type = "TokensById" /\ kind = "TokenizerConfig" /\ name = ById
    <3>1. NotOf(object, ById, "object")
      BY <1>2, <2>5 DEF Accepts, NotOf
    <3>. QED
      BY <1>1, <2>2, <2>5, <3>1, SpecialFinds
  <2>6. CASE field.type = "Object" /\ kind = "SafetensorsIndex" /\ name = Meta
    <3>1. NotOf(object, Meta, "object")
      BY <1>2, <2>6 DEF Accepts, NotOf
    <3>2. Finds(MetadataFindings(p, object), at)
      BY <2>6, <3>1, MetadataFinds
    <3>3. Finds(MetadataPart(p, object), at)
      BY <2>1, <2>6, <3>2, FindsWhen DEF MetadataPart
    <3>. QED
      BY <1>3, <3>3
  <2>7. CASE field.type = "Object" /\ kind = "SafetensorsIndex" /\ name = Map
    <3> DEFINE f == InvalidField(p, WeightMap)
    <3>1. object[Map][1] # "object"
      BY <1>2, <2>7 DEF Accepts
    <3>2. SafetensorsReferences(r, p) = <<f>>
      BY <1>2, <2>7, <3>1 DEF SafetensorsReferences, Map
    <3>3. f \in Findings(References(r, p))
      BY <2>7, <3>2, OneIs DEF References
    <3>0. WeightMap = at
      BY <2>7, MapPointers DEF Map
    <3>4. f.document = Some(p) /\ f.level = "error" /\ f.pointer = at
      <4>1. f.document = Some(p) /\ f.level = "error" /\ f.pointer = WeightMap
        BY ErrorFacts
      <4>. QED
        BY <3>0, <4>1
    <3> HIDE DEF f
    <3>5. f \in Findings(findings)
      BY <3>3, <3>4, ReportedIff DEF InLists
    <3>6. f \in WrongAt(p, at)
      BY <3>4, <3>5 DEF WrongAt
    <3>. QED
      BY <3>6, ErrorsAtIs
  <2>. QED
    BY <1>5, <2>3, <2>4, <2>5, <2>6, <2>7 DEF Apart
<1>. QED
  BY <1>4, <1>5, ViewTables

\* A member that is reported and that a view has a type for is invalid to it.
LEMMA ReportedIsRefused ==
    ASSUME NEW kind, NEW object, NEW field \in ViewOf(kind), field.type # "Raw", field.name \in DOMAIN object,
           MemberIsWrong(kind, object, field.name)
    PROVE  \/ SourceField(object, field.name, field.type) = "Invalid"
           \/ kind = "SafetensorsIndex" /\ object[field.name] = Null
<1> DEFINE name == field.name
           value == object[name]
<1>1. value # Null /\ ~Accepts(field.type, value) => SourceField(object, name, field.type) = "Invalid"
  BY DEF SourceField
<1>2. CASE field \in FieldsOf(kind) /\ field.type \in Accessors
  <2>2. ASSUME NEW g \in FieldsOf(kind), g.name = name, Misshapen(object, name, g.type)
        PROVE  SourceField(object, name, field.type) = "Invalid"
    <3>1. g.type = field.type
      BY <1>2, <2>2, TablesAreSimple
    <3>2. value # Null /\ ~HasShape(field.type, value)
      BY <2>2, <3>1 DEF Misshapen
    <3>. QED
      BY <1>1, <1>2, <3>2, AcceptsAre
  <2>3. \A f \in TokenizerFields : f.name \notin SpecialTokenFields \cup {Additional, ById, <<"chat_template">>}
    BY DEF TokenizerFields, Typed, SpecialTokenFields, Additional, ById
  <2>4. \A f \in ProcessorFields : f.name # <<"chat_template">>
    BY DEF ProcessorFields, Typed
  <2>5. \A f \in FieldsOf("Config") : f.name # <<"architectures">>
    BY DEF FieldsOf, ConfigFields, GenerationFields, Typed
  <2>6. \A f \in FieldsOf("ModelIndex") : Metadata(f.name)
    BY IndexTable
  <2>7. FieldsOf("TokenizerConfig") = TokenizerFields /\ FieldsOf("ProcessorConfig") = ProcessorFields
        /\ FieldsOf("SpecialTokensMap") = {} /\ FieldsOf("SafetensorsIndex") = {}
    BY DEF FieldsOf
  <2>. QED
    BY <1>2, <2>2, <2>3, <2>4, <2>5, <2>6, <2>7 DEF MemberIsWrong, WrongToken
<1>3. CASE Apart(kind, field)
  <2>1. \A g \in FieldsOf(kind) : g.name # name
    BY <1>3, ApartFromTables
  <2>2. /\ Additional \notin SpecialTokenFields /\ ById \notin SpecialTokenFields /\ Additional # ById
        /\ <<"chat_template">> \notin SpecialTokenFields \cup {Additional, ById} /\ Map # Meta
    BY DEF Additional, ById, SpecialTokenFields, Map, Meta
  <2>3. CASE field.type = "Token" /\ kind \in {"TokenizerConfig", "SpecialTokensMap"} /\ name \in SpecialTokenFields
    <3>1. WrongToken(object, name)
      BY <2>1, <2>2, <2>3 DEF MemberIsWrong
    <3>. QED
      BY <1>1, <2>3, <3>1 DEF WrongToken, InvalidToken, Accepts
  <2>4. CASE field.type = "Tokens" /\ kind \in {"TokenizerConfig", "SpecialTokensMap"} /\ name = Additional
    <3>1. NotOf(object, Additional, "list")
      BY <2>1, <2>2, <2>4 DEF MemberIsWrong, WrongToken
    <3>. QED
      BY <1>1, <2>4, <3>1 DEF NotOf, Accepts
  <2>5. CASE field.type = "TokensById" /\ kind = "TokenizerConfig" /\ name = ById
    <3>1. NotOf(object, ById, "object")
      BY <2>1, <2>2, <2>5 DEF MemberIsWrong, WrongToken
    <3>. QED
      BY <1>1, <2>5, <3>1 DEF NotOf, Accepts
  <2>6. CASE field.type = "Object" /\ kind = "SafetensorsIndex" /\ name = Meta
    <3>1. NotOf(object, Meta, "object")
      BY <2>1, <2>2, <2>6 DEF MemberIsWrong
    <3>. QED
      BY <1>1, <2>6, <3>1 DEF NotOf, Accepts
  <2>7. CASE field.type = "Object" /\ kind = "SafetensorsIndex" /\ name = Map
    <3>1. value[1] # "object"
      BY <2>1, <2>2, <2>7 DEF MemberIsWrong
    <3>. QED
      BY <1>1, <2>7, <3>1 DEF Accepts
  <2>. QED
    BY <1>3, <2>3, <2>4, <2>5, <2>6, <2>7 DEF Apart
<1>. QED
  BY <1>2, <1>3, ViewTables
-----------------------------------------------------------------------------
\* What a view has an accessor for is known to it.
LEMMA KnownIfViewed ==
    ASSUME NEW kind, NEW field, field \in ViewOf(kind)
    PROVE  field.name \in Known(kind)
<1>1. field.name \in NamesOf(ViewOf(kind))
  BY DEF NamesOf
<1>. QED
  BY <1>1 DEF Known

LEMMA KnownWord ==
    ASSUME NEW kind, NEW name, NEW type, [name |-> name, type |-> type] \in ViewOf(kind)
    PROVE  name \in Known(kind)
<1>1. [name |-> name, type |-> type].name \in Known(kind)
  BY KnownIfViewed
<1>. QED
  BY <1>1

\* The generation parameters that have no accessor of their own.
ByParameter ==
    {<<w>> : w \in {
        "assistant_early_exit", "begin_suppress_tokens", "cache_config",
        "compile_config", "constraints", "continuous_batching_config",
        "disable_compile", "diversity_penalty", "dola_layers",
        "epsilon_cutoff", "eta_cutoff", "exponential_decay_length_penalty",
        "force_words_ids", "forced_decoder_ids", "guidance_scale",
        "is_assistant", "low_memory", "max_matching_ngram_size", "max_time",
        "min_p", "num_beam_groups", "num_return_sequences",
        "output_attentions", "output_hidden_states", "output_logits",
        "penalty_alpha", "prefill_chunk_size", "prompt_lookup_num_tokens",
        "remove_invalid_values", "renormalize_logits", "sequence_bias",
        "suppress_tokens", "token_healing", "top_h", "watermarking_config"}}

\* Whatever a table checks has an accessor, or is known to its view.
LEMMA TablesAreKnown ==
    ASSUME NEW kind, kind # "Config", NEW field \in FieldsOf(kind)
    PROVE  field.name \in Known(kind)
<1>1. CASE kind = "GenerationConfig"
  <2>1. field \in GenerationFields
    BY <1>1 DEF FieldsOf
  <2>2. ASSUME NEW type PROVE [name |-> field.name, type |-> type] \in GenerationConfigView => field.name \in Known(kind)
    BY <1>1, KnownIfViewed DEF ViewOf
  <2>3. \/ [name |-> field.name, type |-> "Raw"] \in GenerationConfigView
        \/ [name |-> field.name, type |-> field.type] \in GenerationConfigView
        \/ field.name \in ByParameter
    BY <2>1 DEF GenerationFields, GenerationConfigView, Typed, ByParameter
  <2>4. ByParameter \subseteq Known(kind)
    BY <1>1 DEF Known, ByParameter
  <2>. QED
    BY <2>2, <2>3, <2>4
<1>2. CASE kind = "TokenizerConfig"
  <2>1. field \in ViewOf(kind)
    BY <1>2 DEF FieldsOf, TokenizerFields, ViewOf, TokenizerConfigView, Typed
  <2>. QED
    BY <2>1, KnownIfViewed
<1>3. CASE kind = "PreprocessorConfig"
  <2>1. field \in ViewOf(kind)
    BY <1>3 DEF FieldsOf, PreprocessorFields, ViewOf, PreprocessorConfigView, Typed
  <2>. QED
    BY <2>1, KnownIfViewed
<1>4. CASE kind = "ProcessorConfig"
  <2>1. field \in ViewOf(kind)
    BY <1>4 DEF FieldsOf, ProcessorFields, ViewOf, ProcessorConfigView, Typed
  <2>. QED
    BY <2>1, KnownIfViewed
<1>5. CASE kind = "SchedulerConfig"
  <2>1. field \in ViewOf(kind)
    BY <1>5 DEF FieldsOf, SchedulerFields, ViewOf, SchedulerConfigView, Typed
  <2>. QED
    BY <2>1, KnownIfViewed
<1>6. CASE kind = "AdapterConfig"
  <2>1. field \in ViewOf(kind)
    BY <1>6 DEF FieldsOf, AdapterFields, ViewOf, AdapterConfigView, Typed
  <2>. QED
    BY <2>1, KnownIfViewed
<1>7. CASE kind = "QuantizationConfig"
  <2>1. field \in ViewOf(kind)
    BY <1>7 DEF FieldsOf, QuantizationFields, ViewOf, QuantizationConfigView, Typed
  <2>. QED
    BY <2>1, KnownIfViewed
<1>8. CASE kind = "ModelIndex"
  <2>1. field \in ViewOf(kind)
    BY <1>8 DEF FieldsOf, ModelIndexFields, ViewOf, ModelIndexView, Typed
  <2>. QED
    BY <2>1, KnownIfViewed
<1>. QED
  BY <1>1, <1>2, <1>3, <1>4, <1>5, <1>6, <1>7, <1>8 DEF FieldsOf

\* What only `extra` shows is not checked.
LEMMA ExtraIsUnchecked ==
    ASSUME NEW kind, kind \notin {"Config", "ModelIndex"}, NEW object, NEW name \in Extra(kind, object)
    PROVE  ~MemberIsWrong(kind, object, name)
<1>1. name \in DOMAIN object /\ name \notin Known(kind)
  BY DEF Extra
<1>2. \A n, type : [name |-> n, type |-> type] \in ViewOf(kind) => n # name
  BY <1>1, KnownWord
<1>3. \A field \in FieldsOf(kind) : field.name # name
  BY <1>1, TablesAreKnown
<1>4. ASSUME kind \in {"TokenizerConfig", "SpecialTokensMap"}
      PROVE  name \notin SpecialTokenFields /\ name # Additional
  <2>1. /\ \A n \in SpecialTokenFields :
              /\ [name |-> n, type |-> "Token"] \in TokenizerConfigView
              /\ [name |-> n, type |-> "Token"] \in SpecialTokensMapView
        /\ [name |-> Additional, type |-> "Tokens"] \in TokenizerConfigView
        /\ [name |-> Additional, type |-> "Tokens"] \in SpecialTokensMapView
    BY DEF TokenizerConfigView, SpecialTokensMapView, Typed, SpecialTokenFields, Additional
  <2>2. ViewOf(kind) = TokenizerConfigView \/ ViewOf(kind) = SpecialTokensMapView
    BY <1>4 DEF ViewOf
  <2>3. \A n \in SpecialTokenFields : [name |-> n, type |-> "Token"] \in ViewOf(kind)
    BY <2>1, <2>2
  <2>4. [name |-> Additional, type |-> "Tokens"] \in ViewOf(kind)
    BY <2>1, <2>2
  <2>5. \A n \in SpecialTokenFields : n # name
    BY <1>2, <2>3
  <2>6. name # Additional
    BY <1>2, <2>4
  <2>. QED
    BY <2>5, <2>6
<1>5. ASSUME kind = "TokenizerConfig" PROVE name # ById
  <2>1. [name |-> ById, type |-> "TokensById"] \in TokenizerConfigView
    BY DEF TokenizerConfigView, Typed, ById
  <2>. QED
    BY <1>2, <1>5, <2>1 DEF ViewOf
<1>6. ASSUME kind \in {"TokenizerConfig", "ProcessorConfig"} PROVE name # <<"chat_template">>
  <2>1. /\ [name |-> <<"chat_template">>, type |-> "Raw"] \in TokenizerConfigView
        /\ [name |-> <<"chat_template">>, type |-> "Raw"] \in ProcessorConfigView
    BY DEF TokenizerConfigView, ProcessorConfigView, Typed
  <2>2. ViewOf(kind) \in {TokenizerConfigView, ProcessorConfigView}
    BY <1>6 DEF ViewOf
  <2>. QED
    BY <1>2, <2>1, <2>2
<1>7. ASSUME kind = "SafetensorsIndex" PROVE name # Map /\ name # Meta
  <2>1. /\ [name |-> Map, type |-> "Object"] \in SafetensorsIndexView
        /\ [name |-> Meta, type |-> "Object"] \in SafetensorsIndexView
    BY DEF SafetensorsIndexView, Typed, Map, Meta
  <2>. QED
    BY <1>2, <1>7, <2>1 DEF ViewOf
<1>. QED
  BY <1>3, <1>4, <1>5, <1>6, <1>7 DEF MemberIsWrong, WrongToken

\* Of members.
LEMMA InvalidReported == IInv => InvalidIffReported
<1> SUFFICES ASSUME IInv, IsDone, NEW p \in DOMAIN repository.documents, Kind(p) # "ChatTemplate",
                    ViewError(repository.documents[p]) = {}
             PROVE  LET object == repository.documents[p].json[2]
                    IN  /\ \A field \in ViewOf(Kind(p)) : field.type # "Raw" =>
                              (SourceField(object, field.name, field.type) = "Invalid"
                                  => ErrorsAt(p, Some(<<field.name>>)) # {})
                        /\ \A field \in ViewOf(Kind(p)) :
                              /\ ReportedAt("invalid_document_shape", p, Some(<<field.name>>)) # {}
                              /\ field.name \in DOMAIN object
                              /\ field.type # "Raw"
                              => \/ SourceField(object, field.name, field.type) = "Invalid"
                                 \/ Kind(p) = "SafetensorsIndex" /\ object[field.name] = Null
                        /\ Kind(p) \notin {"Config", "ModelIndex"} =>
                              \A name \in Extra(Kind(p), object) :
                                 ReportedAt("invalid_document_shape", p, Some(<<name>>)) = {}
  BY DEF InvalidIffReported
<1> DEFINE object == repository.documents[p].json[2]
<1>1. Usable(repository.documents[p])
  BY DEF ViewError, Usable
<1>2. ASSUME NEW field \in ViewOf(Kind(p)), field.type # "Raw",
             SourceField(object, field.name, field.type) = "Invalid"
      PROVE  ErrorsAt(p, Some(<<field.name>>)) # {}
  BY <1>1, <1>2, RefusedIsReported
<1>3. ASSUME NEW field \in ViewOf(Kind(p)), field.type # "Raw", field.name \in DOMAIN object,
             ReportedAt("invalid_document_shape", p, Some(<<field.name>>)) # {}
      PROVE  \/ SourceField(object, field.name, field.type) = "Invalid"
             \/ Kind(p) = "SafetensorsIndex" /\ object[field.name] = Null
  <2>1. MemberIsWrong(Kind(p), object, field.name)
    BY <1>1, <1>3, MemberReported
  <2>. QED
    BY <1>3, <2>1, ReportedIsRefused
<1>4. ASSUME Kind(p) \notin {"Config", "ModelIndex"}, NEW name \in Extra(Kind(p), object)
      PROVE  ReportedAt("invalid_document_shape", p, Some(<<name>>)) = {}
  <2>1. ~MemberIsWrong(Kind(p), object, name)
    BY <1>4, ExtraIsUnchecked
  <2>. QED
    BY <1>1, <2>1, MemberReported
<1>. QED
  BY <1>2, <1>3, <1>4
-----------------------------------------------------------------------------
\* At an entry of a list or map of tokens, or at a field of that.
Entry(pointer, of, key) == pointer = Some(<<of, key>>) \/ \E n : pointer = Some(<<of, key, n>>)

LEMMA EntryFacts ==
    ASSUME NEW pointer, NEW of, NEW key, Entry(pointer, of, key)
    PROVE  /\ pointer # None /\ pointer[1][1] = of /\ pointer[1][2] = key
           /\ \A a : pointer # Some(<<a>>)
<1>1. CASE pointer = Some(<<of, key>>)
  <2>1. pointer # None /\ pointer[1] = <<of, key>>
    BY <1>1, SomeIsNotNone
  <2>2. \A a : Some(<<a>>)[1] = <<a>> /\ <<a>> # <<of, key>>
    BY SomeIsNotNone
  <2>. QED
    BY <2>1, <2>2
<1>2. CASE \E n : pointer = Some(<<of, key, n>>)
  <2>0. PICK n : pointer = Some(<<of, key, n>>)
    BY <1>2
  <2>1. pointer # None /\ pointer[1] = <<of, key, n>>
    BY <2>0, SomeIsNotNone
  <2>2. \A a : Some(<<a>>)[1] = <<a>> /\ <<a>> # <<of, key, n>>
    BY SomeIsNotNone
  <2>. QED
    BY <2>1, <2>2
<1>. QED
  BY <1>1, <1>2 DEF Entry

LEMMA TokenEntry ==
    ASSUME NEW of, NEW key, NEW pointer \in TokenPointers(Some(<<of, key>>))
    PROVE  Entry(pointer, of, key)
<1>1. \A n : Child(Some(<<of, key>>), n) = Some(<<of, key, n>>)
  BY PointersAre
<1>. QED
  BY <1>1 DEF TokenPointers, Entry

\* The member that a finding about tokens is in.
LEMMA SingleMember ==
    ASSUME NEW object, NEW pointer \in SinglePointers(object)
    PROVE  pointer[1][1] \in SpecialTokenFields
<1>1. PICK name \in SpecialTokenFields : pointer \in TokenPointers(Some(<<name>>))
  BY DEF SinglePointers
<1>2. \A n : Child(Some(<<name>>), n) = Some(<<name, n>>)
  BY PointersAre
<1>3. Some(<<name>>)[1] = <<name>> /\ \A n : Some(<<name, n>>)[1] = <<name, n>>
  BY SomeIsNotNone
<1>4. pointer[1] = <<name>> \/ \E n : pointer[1] = <<name, n>>
  BY <1>1, <1>2, <1>3 DEF TokenPointers
<1>5. <<name>>[1] = name /\ \A n : <<name, n>>[1] = name
  OBVIOUS
<1>. QED
  BY <1>1, <1>4, <1>5

LEMMA TokensMember ==
    ASSUME NEW object, NEW name, NEW pointer \in TokensPointers(object, name)
    PROVE  pointer[1][1] = name
<1>1. CASE pointer = Some(<<name>>)
  <2>1. pointer[1] = <<name>>
    BY <1>1, SomeIsNotNone
  <2>. QED
    BY <2>1
<1>2. CASE pointer \in EntryPointers(object, name)
  <2>1. PICK key : pointer \in TokenPointers(Some(<<name, key>>))
    BY <1>2 DEF EntryPointers
  <2>2. Entry(pointer, name, key)
    BY <2>1, TokenEntry
  <2>. QED
    BY <2>2, EntryFacts
<1>. QED
  BY <1>1, <1>2 DEF TokensPointers

\* A token that is none is one finding, where it is.
LEMMA TokenCounts ==
    ASSUME NEW path, NEW value, IsValue(value), NEW pointer, \A n : Child(pointer, n) # pointer,
           NEW S, InvalidField(path, pointer) \in S, \A f \in S : f.pointer = pointer
    PROVE  Hits(TokenFindings(path, value, pointer), S) = IF InvalidToken(value) THEN 1 ELSE 0
<1> DEFINE list == TokenFindings(path, value, pointer)
<1>1. CASE value[1] = "text"
  <2>1. list = <<>> /\ ~InvalidToken(value)
    BY <1>1 DEF TokenFindings, InvalidToken, IsText
  <2>. QED
    BY <2>1, NoneIs
<1>2. CASE value[1] = "object"
  <2>1. list = AddedToken(path, value[2], pointer) /\ ~InvalidToken(value)
    BY <1>2 DEF TokenFindings, InvalidToken
  <2> DEFINE P == {Child(pointer, n) : n \in TokenFieldNames}
  <2>2. Tells(AddedToken(path, value[2], pointer), path, Shape, P)
    BY <1>2, AddedTokenTells DEF IsValue
  <2>3. pointer \notin P
    OBVIOUS
  <2> HIDE DEF P
  <2>4. \A f \in S : ~Telling(f, path, Shape, P)
    BY <2>3 DEF Telling
  <2>5. Hits(AddedToken(path, value[2], pointer), S) = 0
    BY <2>2, <2>4, Untold
  <2>. QED
    BY <2>1, <2>5
<1>3. CASE value[1] # "text" /\ value[1] # "object"
  <2>1. list = <<InvalidField(path, pointer)>> /\ InvalidToken(value)
    BY <1>3 DEF TokenFindings, InvalidToken, IsText
  <2>. QED
    BY <2>1, OneIs
<1>. QED
  BY <1>1, <1>2, <1>3

\* What is wrong with a field of a token that is an object.
WrongField(token, name) ==
    \/ name = Content /\ Content \notin DOMAIN token
    \/ name \in WrongContent(token)
    \/ name \in WrongFlags(token)

LEMMA TokenFieldCounts ==
    ASSUME NEW path, NEW value, IsValue(value), value[1] = "object", NEW of, NEW key, NEW name,
           NEW S, InvalidField(path, Some(<<of, key, name>>)) \in S,
           \A f \in S : f.pointer = Some(<<of, key, name>>)
    PROVE  Hits(TokenFindings(path, value, Some(<<of, key>>)), S) = IF WrongField(value[2], name) THEN 1 ELSE 0
<1> DEFINE at == Some(<<of, key>>)
           token == value[2]
           absent == Content \notin DOMAIN token
           missing == When(absent, <<InvalidField(path, Child(at, Content))>>)
<1>1. TokenFindings(path, value, at) = AddedToken(path, token, at)
  BY DEF TokenFindings
<1>2. ASSUME NEW n PROVE InvalidField(path, Child(at, n)) \in S <=> n = name
  <2>1. InvalidField(path, Child(at, n)).pointer = Some(<<of, key, n>>)
    <3>1. Child(at, n) = Some(<<of, key, n>>)
      BY PointersAre
    <3>2. InvalidField(path, Child(at, n)).pointer = Child(at, n)
      BY ErrorFacts
    <3>. QED
      BY <3>1, <3>2
  <2>2. Some(<<of, key, n>>) = Some(<<of, key, name>>) => n = name
    <3>1. Some(<<of, key, n>>)[1] = <<of, key, n>> /\ Some(<<of, key, name>>)[1] = <<of, key, name>>
      BY SomeIsNotNone
    <3>2. <<of, key, n>> = <<of, key, name>> => n = name
      OBVIOUS
    <3>. QED
      BY <3>1, <3>2
  <2>3. Child(at, name) = Some(<<of, key, name>>)
    BY PointersAre
  <2>. QED
    BY <2>1, <2>2, <2>3
<1>3. IsFiniteSet(DOMAIN token)
  BY DEF IsValue
<1>4. PICK content, flags : AddedTokenTold(path, token, at, content, flags)
  BY <1>3, AddedTokenParts
<1>4a. IsList(content) /\ IsList(flags) /\ AddedToken(path, token, at) = missing \o content \o flags
  BY <1>4 DEF AddedTokenTold, Tells
<1>4b. /\ Hits(content, S) = Cardinality({n \in WrongContent(token) : InvalidField(path, Child(at, n)) \in S})
       /\ Hits(flags, S) = Cardinality({n \in WrongFlags(token) : InvalidField(path, Child(at, n)) \in S})
  BY <1>4 DEF AddedTokenTold
<1>5. /\ {n \in WrongContent(token) : InvalidField(path, Child(at, n)) \in S} =
            IF name \in WrongContent(token) THEN {name} ELSE {}
      /\ {n \in WrongFlags(token) : InvalidField(path, Child(at, n)) \in S} =
            IF name \in WrongFlags(token) THEN {name} ELSE {}
  BY <1>2
<1>6. Cardinality({name}) = 1 /\ Cardinality({}) = 0
  BY FS_Singleton, FS_EmptySet
<1>7. /\ Hits(content, S) = IF name \in WrongContent(token) THEN 1 ELSE 0
      /\ Hits(flags, S) = IF name \in WrongFlags(token) THEN 1 ELSE 0
  BY <1>4b, <1>5, <1>6
<1>8. IsList(missing) /\ Hits(missing, S) = IF name = Content /\ absent THEN 1 ELSE 0
  <2> DEFINE g == InvalidField(path, Child(at, Content))
  <2>1. g \in S <=> Content = name
    BY <1>2
  <2>2. absent \in BOOLEAN
    OBVIOUS
  <2> HIDE DEF g, absent
  <2>3. IsList(When(absent, <<g>>)) /\ Hits(When(absent, <<g>>), S) = IF absent /\ g \in S THEN 1 ELSE 0
    BY <2>2, WhenIs
  <2>. QED
    BY <2>1, <2>3 DEF g
<1> HIDE DEF missing
<1>9. IsList(missing \o content) /\ Hits(missing \o content, S) = Hits(missing, S) + Hits(content, S)
  BY <1>4a, <1>8, BothAre
<1>10. Hits((missing \o content) \o flags, S) = Hits(missing \o content, S) + Hits(flags, S)
  BY <1>4a, <1>9, BothAre
<1>11. Hits(TokenFindings(path, value, at), S) = Hits(missing, S) + Hits(content, S) + Hits(flags, S)
  BY ONLY <1>1, <1>4a, <1>9, <1>10
<1>12. name \in WrongContent(token) => name = Content /\ ~absent /\ name \notin WrongFlags(token)
  BY DEF WrongContent, WrongFlags, Content, AddedTokenFlags
<1>13. name \in WrongFlags(token) => name # Content
  BY DEF WrongFlags, Content, AddedTokenFlags
<1> HIDE DEF absent
<1>14. Hits(TokenFindings(path, value, at), S) =
          IF (name = Content /\ absent) \/ name \in WrongContent(token) \/ name \in WrongFlags(token) THEN 1 ELSE 0
  BY ONLY <1>7, <1>8, <1>11, <1>12, <1>13
<1>. QED
  BY <1>14 DEF WrongField, absent

\* It is what the accessor of the field calls invalid, and content that is not there.
LEMMA WrongFieldIs ==
    ASSUME NEW token, NEW field \in AddedTokenView
    PROVE  LET source == SourceField(token, field.name, field.type)
           IN  WrongField(token, field.name) <=> source = "Invalid" \/ (field.name = Content /\ source # "Value")
<1> DEFINE name == field.name
           value == token[name]
           source == SourceField(token, name, field.type)
<1>1. \/ name = Content /\ field.type = "String" /\ name \notin AddedTokenFlags
      \/ name \in AddedTokenFlags /\ field.type = "Bool" /\ name # Content
  BY DEF AddedTokenView, Typed, Content, AddedTokenFlags
<1>2. /\ name \notin DOMAIN token => source = "Missing"
      /\ name \in DOMAIN token /\ value = Null => source = "Null"
      /\ name \in DOMAIN token /\ value # Null /\ Accepts(field.type, value) => source = "Value"
      /\ name \in DOMAIN token /\ value # Null /\ ~Accepts(field.type, value) => source = "Invalid"
  BY DEF SourceField
<1>3. ~IsText(Null)
  BY DEF IsText, Null
<1>4. /\ field.type = "String" => (Accepts(field.type, value) <=> IsText(value))
      /\ field.type = "Bool" => (Accepts(field.type, value) <=> value[1] = "bool")
  BY DEF Accepts
<1> HIDE DEF source
<1>5. CASE name = Content /\ field.type = "String" /\ name \notin AddedTokenFlags
  <2>1. WrongField(token, name) <=> name \notin DOMAIN token \/ ~IsText(value)
    BY <1>5 DEF WrongField, WrongContent, WrongFlags
  <2>. QED
    BY <1>2, <1>3, <1>4, <1>5, <2>1 DEF source
<1>6. CASE name \in AddedTokenFlags /\ field.type = "Bool" /\ name # Content
  <2>1. WrongField(token, name) <=> name \in DOMAIN token /\ value # Null /\ value[1] # "bool"
    BY <1>6 DEF WrongField, WrongContent, WrongFlags
  <2>. QED
    BY <1>2, <1>4, <1>6, <2>1 DEF source
<1>. QED
  BY <1>1, <1>5, <1>6

\* What an accessor takes is there.
LEMMA Taken ==
    ASSUME NEW object, NEW name, NEW type, SourceField(object, name, type) = "Value"
    PROVE  name \in DOMAIN object /\ object[name] # Null /\ Accepts(type, object[name])
<1>1. CASE name \notin DOMAIN object
  BY <1>1 DEF SourceField
<1>2. CASE name \in DOMAIN object /\ object[name] = Null
  BY <1>2 DEF SourceField
<1>3. CASE name \in DOMAIN object /\ object[name] # Null /\ ~Accepts(type, object[name])
  BY <1>3 DEF SourceField
<1>. QED
  BY <1>1, <1>2, <1>3

LEMMA AppendThird == ASSUME NEW a, NEW b, NEW c PROVE Append(<<a, b>>, c) = <<a, b, c>>
<1>1. Child(Some(<<a, b>>), c) = Some(<<a, b, c>>)
  BY PointersAre
<1>2. Child(Some(<<a, b>>), c) \in {None, Some(Append(<<a, b>>, c))}
  <2>1. Some(<<a, b>>)[1] = <<a, b>>
    BY SomeIsNotNone
  <2>. QED
    BY <2>1 DEF Child
<1>3. Some(<<a, b, c>>) # None /\ Some(<<a, b, c>>)[1] = <<a, b, c>> /\ Some(Append(<<a, b>>, c))[1] = Append(<<a, b>>, c)
  BY SomeIsNotNone
<1>. QED
  BY <1>1, <1>2, <1>3
-----------------------------------------------------------------------------
\* A list or a map of tokens that a document may have.
TokensIn(path, of, type) ==
    \/ of = Additional /\ type = "list" /\ Kind(path) \in {"TokenizerConfig", "SpecialTokensMap"}
    \/ of = ById /\ type = "object" /\ Kind(path) = "TokenizerConfig"

\* What is found at an entry of it is what is found of the entry.
LEMMA EntriesCounted ==
    ASSUME NEW path, NEW object, IsObject(object), NEW of \in DOMAIN object, NEW type \in {"object", "list"},
           object[of] # Null, object[of][1] = type, NEW key \in DOMAIN object[of][2],
           NEW pointer, Entry(pointer, of, key), NEW S, \A f \in S : f.pointer = pointer
    PROVE  Hits(TokensFindings(path, object, of, type), S) =
              Hits(TokenFindings(path, object[of][2][key], Some(<<of, key>>)), S)
<1> DEFINE D == DOMAIN object[of][2]
           F == [k \in D |-> EntryOf(path, object, of, k)]
           list == TokensFindings(path, object, of, type)
<1>1. IsEach(list, D, F)
  BY TokensEach DEF EntriesEach
<1>2. ASSUME NEW k \in D PROVE F[k] = TokenFindings(path, object[of][2][k], Some(<<of, k>>))
  <2>1. Child(Some(<<of>>), k) = Some(<<of, k>>)
    BY PointersAre
  <2>. QED
    BY <2>1 DEF EntryOf
<1>3. ASSUME NEW k \in D, k # key PROVE Hits(F[k], S) = 0
  <2>1. IsValue(object[of][2][k])
    BY DEF IsObject
  <2>2. Tells(F[k], path, Shape, TokenPointers(Some(<<of, k>>)))
    BY <1>2, <2>1, TokenTells
  <2>3. pointer \notin TokenPointers(Some(<<of, k>>))
    <3>1. pointer[1][2] = key
      BY EntryFacts
    <3>2. pointer \in TokenPointers(Some(<<of, k>>)) => Entry(pointer, of, k)
      BY TokenEntry
    <3>3. Entry(pointer, of, k) => pointer[1][2] = k
      BY EntryFacts
    <3>. QED
      BY <1>3, <3>1, <3>2, <3>3
  <2>4. \A f \in S : ~Telling(f, path, Shape, TokenPointers(Some(<<of, k>>)))
    BY <2>3 DEF Telling
  <2> HIDE DEF D, F
  <2>. QED
    BY <2>2, <2>4, Untold
<1>4. key \in D
  OBVIOUS
<1>5. F[key] = TokenFindings(path, object[of][2][key], Some(<<of, key>>))
  BY <1>2
<1> HIDE DEF D, F, list
<1>6. Hits(list, S) = Hits(F[key], S)
  BY <1>1, <1>3, <1>4, EachOnly
<1>. QED
  BY <1>5, <1>6 DEF list

\* The special tokens that are no entry of it are other findings.
LEMMA SpecialCounted ==
    ASSUME NEW path, NEW object, IsObject(object), NEW of, NEW type, TokensIn(path, of, type),
           NEW pointer, pointer[1][1] = of, NEW S, \A f \in S : f.pointer = pointer
    PROVE  Hits(SpecialTokenFindings(path, object), S) = Hits(TokensFindings(path, object, of, type), S)
<1> DEFINE two == TokensFindings(path, object, Additional, "list")
           by == TokensFindings(path, object, ById, "object")
           three == When(Kind(path) = "TokenizerConfig", by)
<1>1. PICK single : /\ SpecialTokenFindings(path, object) = single \o two \o three
                    /\ Tells(single, path, Shape, SinglePointers(object))
  BY SpecialParts
<1>2. /\ Tells(two, path, Shape, TokensPointers(object, Additional))
      /\ Tells(by, path, Shape, TokensPointers(object, ById))
  BY TokensTell
<1>3. of \notin SpecialTokenFields /\ Additional # ById
  BY DEF TokensIn, SpecialTokenFields, Additional, ById
<1>4. pointer \notin SinglePointers(object)
  BY <1>3, SingleMember
<1>5. /\ of # Additional => pointer \notin TokensPointers(object, Additional)
      /\ of # ById => pointer \notin TokensPointers(object, ById)
  BY TokensMember
<1>6. IsList(single) /\ IsList(two) /\ IsList(three)
  BY <1>1, <1>2, NoneIs DEF Tells, When
<1>7. Hits(single, S) = 0
  <2>1. \A f \in S : ~Telling(f, path, Shape, SinglePointers(object))
    BY <1>4 DEF Telling
  <2>. QED
    BY <1>1, <2>1, Untold
<1>8. ASSUME of # Additional PROVE Hits(two, S) = 0
  <2>1. \A f \in S : ~Telling(f, path, Shape, TokensPointers(object, Additional))
    BY <1>5, <1>8 DEF Telling
  <2> HIDE DEF two
  <2>. QED
    BY <1>2, <2>1, Untold
<1>9. ASSUME of # ById PROVE Hits(three, S) = 0
  <2>1. \A f \in S : ~Telling(f, path, Shape, TokensPointers(object, ById))
    BY <1>5, <1>9 DEF Telling
  <2>2. Hits(by, S) = 0
    <3> HIDE DEF by
    <3>. QED
      BY <1>2, <2>1, Untold
  <2>. QED
    BY <2>2, NoneIs DEF When
<1>10. Hits(two, S) \in Nat /\ Hits(three, S) \in Nat
  BY <1>6, HitsAre
<1>11. /\ of = Additional => Hits(TokensFindings(path, object, of, type), S) = Hits(two, S)
       /\ of = ById => Hits(TokensFindings(path, object, of, type), S) = Hits(three, S)
  BY <1>3 DEF TokensIn, When
<1>12. of = Additional \/ of = ById
  BY DEF TokensIn
<1> HIDE DEF two, three
<1>13. IsList(single \o two) /\ Hits(single \o two, S) = Hits(single, S) + Hits(two, S)
  BY <1>6, BothAre
<1>14. Hits((single \o two) \o three, S) = Hits(single \o two, S) + Hits(three, S)
  BY <1>6, <1>13, BothAre
<1>15. Hits(SpecialTokenFindings(path, object), S) = Hits(two, S) + Hits(three, S)
  BY ONLY <1>1, <1>7, <1>10, <1>13, <1>14
<1>. QED
  BY <1>3, <1>8, <1>9, <1>10, <1>11, <1>12, <1>15

\* The errors at an entry, or at a field of it.
LEMMA EntryErrors ==
    ASSUME IInv, IsDone, NEW p \in DOMAIN repository.documents, Usable(repository.documents[p]),
           NEW object, object = repository.documents[p].json[2], NEW of \in DOMAIN object, NEW type,
           TokensIn(p, of, type), object[of] # Null, object[of][1] = type, NEW key \in DOMAIN object[of][2],
           NEW pointer, Entry(pointer, of, key), NEW S, WrongOf(S, p, pointer)
    PROVE  Cardinality(ErrorsAt(p, pointer)) = Hits(TokenFindings(p, object[of][2][key], Some(<<of, key>>)), S)
<1> DEFINE r == repository
<1>1. IsDocument(r, p) /\ IsObject(object)
  <2>1. IsDocument(r, p)
    BY Ended
  <2>. QED
    BY <2>1, ObjectIs
<1>2. /\ pointer # None /\ pointer[1][1] = of /\ \A a : pointer # Some(<<a>>)
  BY EntryFacts
<1>3. \A f \in S : f.pointer = pointer
  BY DEF WrongOf
<1>4. /\ Cardinality(ErrorsAt(p, pointer)) = Hits(References(r, p), S) + Hits(FieldFindings(r, p), S)
      /\ Hits(References(r, p), S) \in Nat /\ Hits(FieldFindings(r, p), S) \in Nat
  BY <1>2, ErrorsOf
<1>5. Kind(p) \in {"TokenizerConfig", "SpecialTokensMap"}
  BY DEF TokensIn
<1>6. Hits(References(r, p), S) = 0
  <2>1. References(r, p) = <<>>
    BY <1>5 DEF References
  <2>. QED
    BY <2>1, NoneIs
<1>7. Hits(TableFindings(p, object), S) = 0
  <2>1. ASSUME NEW field \in MisshapenOf(p, object) PROVE InvalidField(p, Some(<<field.name>>)) \notin S
    <3>1. InvalidField(p, Some(<<field.name>>)).pointer = Some(<<field.name>>)
      BY ErrorFacts
    <3>. QED
      BY <1>2, <1>3, <3>1
  <2>2. IsFiniteSet(DOMAIN object)
    BY <1>1 DEF IsObject
  <2>. QED
    BY <2>1, <2>2, TablePointers
<1>8. Hits(InlinePart(p, object), S) = 0
  <2> DEFINE member == <<"chat_template">>
             condition == /\ member \in DOMAIN object /\ object[member] # Null
                          /\ object[member][1] \notin {"text", "object", "list"}
             g == InvalidField(p, Some(<<member>>))
  <2>1. InlineTemplateFindings(p, object) = When(condition, <<g>>) /\ condition \in BOOLEAN
    BY DEF InlineTemplateFindings
  <2>2. g \notin S
    <3>1. g.pointer = Some(<<member>>)
      BY ErrorFacts
    <3>. QED
      BY <1>2, <1>3, <3>1
  <2> HIDE DEF condition, g
  <2>3. Hits(When(condition, <<g>>), S) = IF condition /\ g \in S THEN 1 ELSE 0
    <3>1. condition \in BOOLEAN
      BY <2>1
    <3>. QED
      BY ONLY <3>1, WhenIs
  <2>4. Hits(InlineTemplateFindings(p, object), S) = 0
    BY <2>1, <2>2, <2>3
  <2>. QED
    BY <2>4, NoneIs DEF InlinePart, When
<1>9. /\ ArchitecturePart(p, object) = <<>> /\ ComponentPart(p, object) = <<>> /\ MetadataPart(p, object) = <<>>
      /\ SpecialPart(p, object) = SpecialTokenFindings(p, object)
  BY <1>5 DEF ArchitecturePart, ComponentPart, MetadataPart, SpecialPart, When
<1>10. Hits(FieldFindings(r, p), S) =
            Hits(TableFindings(p, object), S) + Hits(SpecialPart(p, object), S)
            + Hits(ArchitecturePart(p, object), S) + Hits(ComponentPart(p, object), S)
            + Hits(InlinePart(p, object), S) + Hits(MetadataPart(p, object), S)
  BY <1>1, FieldsAre
<1>11. Hits(<<>>, S) = 0
  BY NoneIs
<1>12. Hits(SpecialTokenFindings(p, object), S) = Hits(TokensFindings(p, object, of, type), S)
  BY <1>1, <1>2, <1>3, SpecialCounted
<1>13. Hits(TokensFindings(p, object, of, type), S) =
          Hits(TokenFindings(p, object[of][2][key], Some(<<of, key>>)), S)
  <2>1. type \in {"object", "list"}
    BY DEF TokensIn
  <2>. QED
    BY <1>1, <1>3, <2>1, EntriesCounted
<1>14. Hits(SpecialPart(p, object), S) \in Nat
  <2>1. IsList(SpecialPart(p, object))
    BY <1>1, PartsLocate, Located
  <2>. QED
    BY <2>1, HitsAre
<1>. QED
  BY ONLY <1>4, <1>6, <1>7, <1>8, <1>9, <1>10, <1>11, <1>12, <1>13, <1>14
-----------------------------------------------------------------------------
\* Of tokens.
LEMMA TokensReported == IInv => InvalidTokensAreReported
<1> SUFFICES ASSUME IInv, IsDone, NEW p \in DOMAIN repository.documents,
                    Kind(p) \in {"TokenizerConfig", "SpecialTokensMap"}, Usable(repository.documents[p]),
                    NEW list \in ViewOf(Kind(p)), list.type \in {"Tokens", "TokensById"},
                    SourceField(repository.documents[p].json[2], list.name, list.type) = "Value",
                    NEW key \in DOMAIN repository.documents[p].json[2][list.name][2]
             PROVE  LET token == repository.documents[p].json[2][list.name][2][key]
                        at    == <<list.name, key>>
                    IN  /\ ReportedOnce(ErrorsAt(p, Some(at)), InvalidToken(token))
                        /\ token[1] = "object" => \A field \in AddedTokenView :
                              ReportedOnce(ErrorsAt(p, Some(Append(at, field.name))),
                                  LET source == SourceField(token[2], field.name, field.type)
                                  IN  \/ source = "Invalid"
                                      \/ field.name = <<"content">> /\ source # "Value")
  BY DEF InvalidTokensAreReported
<1> DEFINE object == repository.documents[p].json[2]
           of == list.name
           token == object[of][2][key]
           at == <<of, key>>
           type == IF of = Additional THEN "list" ELSE "object"
<1>1. IsObject(object)
  <2>1. IsDocument(repository, p)
    BY Ended
  <2>. QED
    BY <2>1, ObjectIs
<1>2. TokensIn(p, of, type) /\ list.type = (IF of = Additional THEN "Tokens" ELSE "TokensById")
  <2>1. Apart(Kind(p), list)
    BY ViewTables DEF Accessors
  <2>2. Additional # ById
    BY DEF Additional, ById
  <2>. QED
    BY <2>1, <2>2 DEF Apart, TokensIn
<1>3. of \in DOMAIN object /\ object[of] # Null /\ object[of][1] = type
  <2>1. of \in DOMAIN object /\ object[of] # Null /\ Accepts(list.type, object[of])
    BY Taken
  <2>. QED
    BY <1>2, <2>1 DEF Accepts
<1>4. IsValue(token)
  BY <1>1, <1>2, <1>3 DEF IsObject
<1>5. ReportedOnce(ErrorsAt(p, Some(at)), InvalidToken(token))
  <2> DEFINE pointer == Some(at)
             more == {InvalidField(p, pointer)}
             S == WrongAt(p, pointer) \cup more
  <2>1. ASSUME NEW f \in more PROVE f.level = "error" /\ f.document = Some(p) /\ f.pointer = pointer
    BY ErrorFacts
  <2>2. InvalidField(p, pointer) \in more
    OBVIOUS
  <2>3. \A n : Child(pointer, n) # pointer
    <3>1. \A n : Child(pointer, n) = Some(<<of, key, n>>)
      BY PointersAre
    <3>2. \A n : Some(<<of, key, n>>)[1] = <<of, key, n>> /\ Some(<<of, key>>)[1] = <<of, key>>
      BY SomeIsNotNone
    <3>3. \A n : <<of, key, n>> # <<of, key>>
      OBVIOUS
    <3>. QED
      BY <3>1, <3>2, <3>3
  <2>4. Entry(pointer, of, key)
    BY DEF Entry
  <2> HIDE DEF more, pointer
  <2>5. WrongOf(S, p, pointer) /\ more \subseteq S /\ \A f \in S : f.pointer = pointer
    BY <2>1, WrongWith
  <2> HIDE DEF S, type
  <2>6. Cardinality(ErrorsAt(p, pointer)) = Hits(TokenFindings(p, token, Some(<<of, key>>)), S)
    BY <1>2, <1>3, <2>4, <2>5, EntryErrors
  <2> HIDE DEF token, object
  <2>7. Hits(TokenFindings(p, token, pointer), S) = IF InvalidToken(token) THEN 1 ELSE 0
    BY <1>4, <2>2, <2>3, <2>5, TokenCounts
  <2>. QED
    BY <2>6, <2>7 DEF ReportedOnce, pointer
<1>6. ASSUME token[1] = "object", NEW field \in AddedTokenView
      PROVE  ReportedOnce(ErrorsAt(p, Some(Append(at, field.name))),
                LET source == SourceField(token[2], field.name, field.type)
                IN  \/ source = "Invalid"
                    \/ field.name = <<"content">> /\ source # "Value")
  <2> DEFINE name == field.name
             pointer == Some(<<of, key, name>>)
             more == {InvalidField(p, pointer)}
             S == WrongAt(p, pointer) \cup more
             source == SourceField(token[2], name, field.type)
  <2>1. ASSUME NEW f \in more PROVE f.level = "error" /\ f.document = Some(p) /\ f.pointer = pointer
    BY ErrorFacts
  <2>2. InvalidField(p, pointer) \in more
    OBVIOUS
  <2>3. Append(at, name) = <<of, key, name>>
    BY AppendThird
  <2>4. Entry(pointer, of, key)
    BY DEF Entry
  <2> HIDE DEF more, pointer
  <2>5. WrongOf(S, p, pointer) /\ more \subseteq S /\ \A f \in S : f.pointer = pointer
    BY <2>1, WrongWith
  <2> HIDE DEF S, type
  <2>6. Cardinality(ErrorsAt(p, pointer)) = Hits(TokenFindings(p, token, Some(<<of, key>>)), S)
    BY <1>2, <1>3, <2>4, <2>5, EntryErrors
  <2>7. WrongField(token[2], name) <=> source = "Invalid" \/ (name = Content /\ source # "Value")
    BY WrongFieldIs
  <2> HIDE DEF token, object
  <2>8. Hits(TokenFindings(p, token, Some(<<of, key>>)), S) = IF WrongField(token[2], name) THEN 1 ELSE 0
    BY <1>4, <1>6, <2>2, <2>5, TokenFieldCounts DEF pointer
  <2>9. Cardinality(ErrorsAt(p, Some(Append(at, name)))) =
           IF source = "Invalid" \/ (name = Content /\ source # "Value") THEN 1 ELSE 0
    <3> HIDE DEF source
    <3>. QED
      BY <2>3, <2>6, <2>7, <2>8 DEF pointer
  <2>. QED
    BY <2>9 DEF ReportedOnce, Content
<1>. QED
  BY <1>5, <1>6

\* A member, an entry of it or a field of that is invalid to an accessor of a
\* view exactly if it is reported where it is, and an entry or a field once
\* (views.rs and validate_semantic_fields).
THEOREM InvalidValuesReported == Spec => []InvalidValuesAreReported
<1>1. IInv => InvalidValuesAreReported
  BY InvalidReported, TokensReported DEF InvalidValuesAreReported
<1>. QED
  BY <1>1, Invariance, PTL
-----------------------------------------------------------------------------
(***************************************************************************)
(* What is a component: to normalization, to the validators, to the views. *)
(***************************************************************************)

\* The order loses no component.
LEMMA SortedNames ==
    ASSUME NEW S, IsFiniteSet(S), \A c \in S : Bytes(c.name) \in Seq(Nat),
           \A c, d \in S : c # d => Bytes(c.name) # Bytes(d.name)
    PROVE  ToSet(InOrder(S, ByName)) = S
<1> DEFINE R        == {p \in S \X S : ByName(p[1], p[2])}
           s        == InOrder(S, ByName)
           place(x) == Cardinality({y \in S : ByName(y, x)})
           n        == Cardinality(S)
<1>1. \A c, d \in S : <<c, d>> \in R <=> Before(Bytes(c.name), Bytes(d.name))
  BY DEF ByName
<1>2. s = [i \in 1..n |-> CHOOSE x \in S : place(x) = i - 1]
  BY DEF InOrder
<1>3. \A x \in S : place(x) = Cardinality(Preceding(x, R, S))
  <2>1. \A x \in S : {y \in S : ByName(y, x)} = Preceding(x, R, S)
    BY DEF Preceding
  <2>. QED
    BY <2>1
<1> HIDE DEF R, place, s, n
<1>4. Orders(R, S)
  <2>1. \A c \in S : <<c, c>> \notin R
    BY <1>1, BeforeOrders
  <2>2. \A c, d \in S : c # d => <<c, d>> \in R \/ <<d, c>> \in R
    BY <1>1, BeforeOrders
  <2>3. \A b, c, d \in S : <<b, c>> \in R /\ <<c, d>> \in R => <<b, d>> \in R
    BY <1>1, BeforeOrders
  <2>. QED
    BY <2>1, <2>2, <2>3 DEF Orders
<1>5. \A i \in 1..n : \E x \in S : place(x) = i - 1
  <2>1. \A i \in 1..Cardinality(S) : \E x \in S : Cardinality(Preceding(x, R, S)) = i - 1
    BY <1>4, PlacesInOrder
  <2>. QED
    BY <1>3, <2>1 DEF n
<1>6. \A i \in 1..n : s[i] \in S /\ place(s[i]) = i - 1
  BY <1>2, <1>5
<1>7. /\ s \in [1..Cardinality(S) -> S]
      /\ \A i \in 1..Cardinality(S) : Cardinality(Preceding(s[i], R, S)) = i - 1
  BY <1>2, <1>3, <1>6 DEF n
<1>8. /\ s \in Seq(S) /\ Len(s) = Cardinality(S)
      /\ \A x \in S : \E i \in 1..Len(s) : s[i] = x
      /\ \A i, j \in 1..Len(s) : i < j => <<s[i], s[j]>> \in R
  <2>1. IsFiniteSet(S)
    OBVIOUS
  <2>. QED
    BY ONLY <1>4, <1>7, <2>1, Ordered, Zenon
<1>9. DOMAIN s = 1..Len(s)
  BY <1>8
<1>. QED
  BY <1>7, <1>8, <1>9 DEF ToSet, s

LEMMA NormalizedIs ==
    ASSUME NEW documents, Normalize(documents)[1] = "ok"
    PROVE  LET root         == RootPath(documents)[1]
               object       == documents[root].json[2]
               architecture == TakeArchitecture(object, root)
           IN  /\ RootPath(documents) = Some(root) /\ root \in DOMAIN documents
               /\ root \in {ModelIndexPath, ConfigPath} /\ Usable(documents[root])
               /\ architecture # None
               /\ Normalize(documents)[2] = Configuration(object, root, architecture[1])
<1> DEFINE root         == RootPath(documents)[1]
           document     == documents[root]
           architecture == TakeArchitecture(document.json[2], root)
<1>1. /\ RootPath(documents) # None /\ ~document.repeated /\ document.json[1] = "object"
      /\ architecture # None
      /\ Normalize(documents) = <<"ok", Configuration(document.json[2], root, architecture[1])>>
  <2> HIDE DEF architecture, document
  <2>. QED
    BY DEF Normalize, architecture, document
<1>2. /\ RootPath(documents) = Some(root) /\ root \in DOMAIN documents
      /\ root \in {ModelIndexPath, ConfigPath}
  BY <1>1 DEF RootPath, Some, None
<1>. QED
  BY <1>1, <1>2 DEF Usable

ShownIn(object) == {Component(name, object[name]) : name \in ComponentNames(object)}

LEMMA ComponentsShown ==
    ASSUME NEW r, Constructed(r), NamesApart(r), Normalize(r.documents)[1] = "ok",
           RootPath(r.documents)[1] = ModelIndexPath, NEW object,
           object = r.documents[ModelIndexPath].json[2]
    PROVE  ToSet(Normalize(r.documents)[2].components) = ShownIn(object)
<1> DEFINE N == ComponentNames(object)
           S == {Component(name, object[name]) : name \in N}
<1>1. /\ ModelIndexPath \in DOMAIN r.documents /\ Usable(r.documents[ModelIndexPath])
      /\ Normalize(r.documents)[2].components = Components(object)
  <2>1. /\ ModelIndexPath \in DOMAIN r.documents /\ Usable(r.documents[ModelIndexPath])
        /\ \E architecture :
              Normalize(r.documents)[2] = Configuration(object, ModelIndexPath, architecture)
    BY NormalizedIs
  <2>. QED
    BY <2>1 DEF Configuration
<1>2. IsFiniteSet(N)
  <2>1. IsDocument(r, ModelIndexPath)
    BY <1>1 DEF IsDocument
  <2>2. IsFiniteSet(DOMAIN object)
    BY <1>1, <2>1, DocumentIs
  <2>3. N \subseteq DOMAIN object
    BY DEF ComponentNames
  <2>. QED
    BY <2>2, <2>3, FS_Subset
<1>3. /\ \A name \in N : Bytes(name) \in Seq(Nat)
      /\ \A a, b \in N : Bytes(a) = Bytes(b) => a = b
  BY <1>1 DEF NamesApart
<1>4. \A name : Component(name, object[name]).name = name
  BY DEF Component
<1>5. IsFiniteSet(S)
  <2> DEFINE f == [name \in N |-> Component(name, object[name])]
  <2>1. DOMAIN f = N /\ {f[name] : name \in DOMAIN f} = S
    OBVIOUS
  <2> HIDE DEF f, S, N
  <2>. QED
    BY <1>2, <2>1, ImageIsFinite
<1>6. \A c \in S : c.name \in N /\ c = Component(c.name, object[c.name])
  BY <1>4
<1>7. /\ \A c \in S : Bytes(c.name) \in Seq(Nat)
      /\ \A c, d \in S : c # d => Bytes(c.name) # Bytes(d.name)
  <2> HIDE DEF S, N
  <2>. QED
    BY <1>3, <1>6
<1>8. Components(object) = InOrder(S, ByName)
  BY DEF Components
<1> HIDE DEF S
<1>9. ToSet(InOrder(S, ByName)) = S
  BY <1>5, <1>7, SortedNames
<1>. QED
  BY <1>1, <1>8, <1>9 DEF S, ShownIn

-----------------------------------------------------------------------------
\* A safe name leads to a directory of the root.
LEMMA AtRoot ==
    ASSUME NEW name
    PROVE  /\ DirectoryOf(ModelIndexPath, name) = <<name>>
           /\ SafeName(name) => Join(Parent(ModelIndexPath), <<name>>) # None
<1>1. Parent(ModelIndexPath) = <<>>
  <2> DEFINE front == SubSeq(ModelIndexPath, 1, 0)
  <2>1. Len(ModelIndexPath) = 1 /\ ModelIndexPath \in Seq({ModelIndexPath[1]})
    BY DEF ModelIndexPath
  <2>2. \A i \in 1..0 : ModelIndexPath[i] \in {ModelIndexPath[1]}
    OBVIOUS
  <2>3. front \in Seq({ModelIndexPath[1]}) /\ Len(front) = 0
    BY <2>2, SubSeqProperties
  <2> HIDE DEF front
  <2>4. front = <<>>
    BY <2>3
  <2>. QED
    BY <2>1, <2>4 DEF Parent, front
<1>2. Append(<<>>, name) = <<name>> /\ <<>> \o <<name>> = <<name>>
  <2>1. <<name>> \in Seq({name}) /\ <<>> \in Seq({name})
    OBVIOUS
  <2>. QED
    BY <2>1
<1>3. ASSUME SafeName(name) PROVE Valid(<<name>>)
  <2>1. Portable(<<name>>) /\ <<name>> # <<>>
    BY <1>3 DEF SafeName, Portable
  <2> DEFINE wide == {i \in 1..Len(<<name>>) : <<name>>[i] \in Wide}
  <2>2. IsFiniteSet({1}) /\ Cardinality({1}) = 1 /\ wide \subseteq {1}
    BY FS_Singleton
  <2>3. Cardinality(wide) \in Nat /\ Cardinality(wide) <= 1
    <3> HIDE DEF wide
    <3>. QED
      BY <2>2, FS_Subset, FS_CardinalityType
  <2>4. Size(<<name>>) = 1 + 2 * Cardinality(wide)
    BY DEF Size
  <2>5. Size(<<name>>) <= MaxPath
    <3> HIDE DEF wide
    <3>. QED
      BY <2>3, <2>4, ValidationAssumption
  <2>. QED
    BY <2>1, <2>5 DEF Valid
<1>4. Some(<<name>>) # None
  BY SomeIsNotNone
<1>. QED
  BY <1>1, <1>2, <1>3, <1>4 DEF DirectoryOf, Join

\* The finding that a component needs code.
Custom(p, name) == Warning("custom_component_requires_code", p, Top(name))

LEMMA CustomIs ==
    ASSUME NEW p, NEW name
    PROVE  /\ Custom(p, name).code = "custom_component_requires_code"
           /\ Custom(p, name).document = Some(p) /\ Custom(p, name).pointer = Top(name)
  BY DEF Custom, Warning, Report

\* What the three passes report of a component normalization shows.
LEMMA ComponentCounted ==
    ASSUME IInv, IsDone, NEW p, p = ModelIndexPath, p \in IndexDocuments, NEW object,
           object = repository.documents[p].json[2], NEW name \in ComponentNames(object)
    PROVE  LET c  == Component(name, object[name])
               at == Some(<<name>>)
           IN  /\ ReportedOnce(ReportedAt("custom_component_requires_code", p, at), c.requires_code)
               /\ ReportedOnce(ReportedAt("unsafe_reference_path", p, at), c.path = None /\ ~c.optional)
               /\ ReportedOnce(ReportedAt("missing_component_directory", p, at),
                               c.path # None /\ c.path[1] \notin repository.directories)
<1> DEFINE r       == repository
           c       == Component(name, object[name])
           library == object[name][2][1]
           class   == object[name][2][2]
           S(f)    == CodedAt(f.code, p, Top(name)) \cup {f}
<1>1. /\ p \in DOMAIN r.documents /\ IsIndex(r, p) /\ IsDocument(r, p)
      /\ Top(name) = Some(<<name>>)
  BY Ended, ComponentFindings DEF IndexDocuments, IsIndex
<1>2. /\ name \in Declared(object)
      /\ class = Null => library = Null
      /\ class # Null => IsText(class) /\ (library = Null \/ IsText(library))
  <2>1. name \in DOMAIN object /\ ~Metadata(name) /\ ComponentTuple(object[name])
    BY DEF ComponentNames
  <2>2. ~IsText(Null)
    BY DEF IsText, Null
  <2>3. /\ IsPair(object[name])
        /\ \/ IsText(class) /\ (IsText(library) \/ library = Null)
           \/ library = Null /\ class = Null
    BY <2>1 DEF ComponentTuple
  <2>4. TupleShaped(object[name])
    <3>1. \A i \in 1..2 : i = 1 \/ i = 2
      OBVIOUS
    <3>. QED
      BY <2>3, <3>1 DEF TupleShaped
  <2> HIDE DEF library, class
  <2>. QED
    BY <2>1, <2>2, <2>3, <2>4 DEF Declared
<1>3. /\ name \in PresentNames(object) <=> class # Null
      /\ PresentTuple(object[name]) <=> class # Null
      /\ ComponentTuple(object[name]) /\ IsPair(object[name])
  <2>1. ComponentTuple(object[name])
    BY DEF ComponentNames
  <2>. QED
    BY <1>2, <2>1, TupleIs
<1>4. /\ c.path = IF class # Null /\ SafeName(name) THEN Some(<<name>>) ELSE None
      /\ c.optional <=> class = Null
      /\ c.requires_code <=> class # Null /\ library = Null
  BY DEF Component, PathOf
<1>5. Some(<<name>>) # None /\ Some(<<name>>)[1] = <<name>>
  BY SomeIsNotNone
<1>6. /\ DirectoryOf(p, name) = <<name>>
      /\ SafeName(name) => Join(Parent(p), <<name>>) # None
  BY AtRoot
<1>7. ASSUME NEW f, f.document = Some(p), f.pointer = Top(name)
      PROVE  /\ SortOf(S(f), f.code, p, Top(name)) /\ AtComponent(S(f), p, name) /\ OfCode(S(f), f.code)
             /\ f \in S(f) /\ \A g \in S(f) : g.code = f.code
             /\ Cardinality(ReportedAt(f.code, p, Top(name))) = Whole(r, p, S(f))
  <2>1. SortOf(S(f), f.code, p, Top(name)) /\ AtComponent(S(f), p, name) /\ OfCode(S(f), f.code) /\ f \in S(f)
    BY <1>7, SortIs
  <2>2. \A g \in S(f) : g.code = f.code
    BY <2>1 DEF SortOf
  <2> DEFINE T == S(f)
  <2> HIDE DEF T
  <2>3. SortOf(T, f.code, p, Top(name))
    BY <2>1 DEF T
  <2>4. Cardinality(ReportedAt(f.code, p, Top(name))) = Whole(r, p, T)
    BY <1>1, <2>3, ReportedCount
  <2>. QED
    BY <2>1, <2>2, <2>4 DEF T
<1> DEFINE custom  == Custom(p, name)
           unsafe  == UnsafeName(p, name)
           missing == NoDirectory(p, name)
<1>8. /\ custom.code = "custom_component_requires_code" /\ custom.document = Some(p) /\ custom.pointer = Top(name)
      /\ unsafe.code = "unsafe_reference_path" /\ unsafe.document = Some(p) /\ unsafe.pointer = Top(name)
      /\ missing.code = "missing_component_directory" /\ missing.document = Some(p) /\ missing.pointer = Top(name)
      /\ InvalidField(p, Top(name)).code = "invalid_document_shape"
  <2>1. custom.code = "custom_component_requires_code" /\ custom.document = Some(p) /\ custom.pointer = Top(name)
    BY CustomIs
  <2>2. unsafe.code = "unsafe_reference_path" /\ unsafe.document = Some(p) /\ unsafe.pointer = Top(name)
    BY ComponentFindings
  <2>3. missing.code = "missing_component_directory" /\ missing.document = Some(p) /\ missing.pointer = Top(name)
    BY ComponentFindings
  <2>4. InvalidField(p, Top(name)).code = "invalid_document_shape"
    BY ComponentFindings
  <2>. QED
    BY <2>1, <2>2, <2>3, <2>4
<1> HIDE DEF S, custom, unsafe, missing, c, library, class, r
<1>9. Cardinality(ReportedAt("custom_component_requires_code", p, Top(name))) = IF c.requires_code THEN 1 ELSE 0
  <2> DEFINE T == S(custom)
  <2>1. /\ AtComponent(T, p, name) /\ OfCode(T, "custom_component_requires_code") /\ custom \in T
        /\ \A g \in T : g.code = "custom_component_requires_code"
        /\ Cardinality(ReportedAt("custom_component_requires_code", p, Top(name))) = Whole(r, p, T)
    BY <1>7, <1>8
  <2> HIDE DEF T
  <2>2. Whole(r, p, T) = Hits(IndexPart(r, p), T)
    BY <1>1, <2>1, WholeOf
  <2>3. Hits(IndexPart(r, p), T) =
           IF name \in PresentNames(object) THEN Hits(ComponentCode(p, object, name), T) ELSE 0
    BY <1>1, <1>2, <2>1, ComponentHits DEF r
  <2>4. ComponentCode(p, object, name) =
           IF library = Null THEN <<custom>> ELSE When(library[2] \notin KnownLibraries, <<Inert(p, Top(name))>>)
    BY DEF ComponentCode, library, custom, Custom
  <2>5. Inert(p, Top(name)) \notin T
    <3>1. Inert(p, Top(name)).code = "executable_reference_inert"
      BY InertHas DEF InertFacts
    <3>. QED
      BY <2>1, <3>1
  <2>6. Hits(ComponentCode(p, object, name), T) = IF library = Null THEN 1 ELSE 0
    <3>1. CASE library = Null
      BY <2>1, <2>4, <3>1, OneIs
    <3>2. CASE library # Null
      BY <2>4, <2>5, <3>2, OneIs, NoneIs DEF When
    <3>. QED
      BY <3>1, <3>2
  <2>. QED
    BY <1>3, <1>4, <2>1, <2>2, <2>3, <2>6
<1>10. Cardinality(ReportedAt("unsafe_reference_path", p, Top(name))) =
          IF c.path = None /\ ~c.optional THEN 1 ELSE 0
  <2> DEFINE T == S(unsafe)
  <2>1. /\ AtComponent(T, p, name) /\ OfCode(T, "unsafe_reference_path") /\ unsafe \in T
        /\ \A g \in T : g.code = "unsafe_reference_path"
        /\ Cardinality(ReportedAt("unsafe_reference_path", p, Top(name))) = Whole(r, p, T)
    BY <1>7, <1>8
  <2> HIDE DEF T
  <2>2. Whole(r, p, T) = Hits(References(r, p), T) + Hits(FieldFindings(r, p), T)
    BY <1>1, <2>1, WholeOf
  <2>3. /\ Hits(References(r, p), T) =
              IF name \in PresentNames(object) THEN Hits(ComponentReference(r, p, name), T) ELSE 0
        /\ Hits(FieldFindings(r, p), T) = Hits(ComponentField(p, object, name), T)
    BY <1>1, <1>2, <2>1, ComponentHits DEF r
  <2>4. missing \notin T /\ InvalidField(p, Top(name)) \notin T
    BY <1>8, <2>1
  <2>5. Hits(ComponentReference(r, p, name), T) =
           IF SafeName(name) /\ Join(Parent(p), <<name>>) = None THEN 1 ELSE 0
    BY <1>1, <2>1, <2>4, ReferenceCounts DEF unsafe, missing
  <2>6. Hits(ComponentField(p, object, name), T) =
           IF PresentTuple(object[name]) /\ ~SafeName(name) THEN 1 ELSE 0
    BY <1>3, <2>1, <2>4, FieldCounts DEF unsafe
  <2>7. Whole(r, p, T) = IF class # Null /\ ~SafeName(name) THEN 1 ELSE 0
    BY ONLY <1>3, <1>6, <2>2, <2>3, <2>5, <2>6
  <2>. QED
    BY <1>4, <1>5, <2>1, <2>7
<1>11. Cardinality(ReportedAt("missing_component_directory", p, Top(name))) =
          IF c.path # None /\ c.path[1] \notin r.directories THEN 1 ELSE 0
  <2> DEFINE T == S(missing)
  <2>1. /\ AtComponent(T, p, name) /\ OfCode(T, "missing_component_directory") /\ missing \in T
        /\ \A g \in T : g.code = "missing_component_directory"
        /\ Cardinality(ReportedAt("missing_component_directory", p, Top(name))) = Whole(r, p, T)
    BY <1>7, <1>8
  <2> HIDE DEF T
  <2>2. Whole(r, p, T) = Hits(References(r, p), T)
    BY <1>1, <2>1, WholeOf
  <2>3. Hits(References(r, p), T) =
           IF name \in PresentNames(object) THEN Hits(ComponentReference(r, p, name), T) ELSE 0
    BY <1>1, <1>2, <2>1, ComponentHits DEF r
  <2>4. unsafe \notin T
    BY <1>8, <2>1
  <2>5. Hits(ComponentReference(r, p, name), T) =
           IF SafeName(name) /\ Join(Parent(p), <<name>>) # None
              /\ DirectoryOf(p, name) \notin r.directories THEN 1 ELSE 0
    BY <1>1, <2>1, <2>4, ReferenceCounts DEF unsafe, missing
  <2>6. Whole(r, p, T) = IF class # Null /\ SafeName(name) /\ <<name>> \notin r.directories THEN 1 ELSE 0
    BY ONLY <1>3, <1>6, <2>2, <2>3, <2>5
  <2>7. c.path # None /\ c.path[1] \notin r.directories
           <=> class # Null /\ SafeName(name) /\ <<name>> \notin r.directories
    BY <1>4, <1>5
  <2>. QED
    BY <2>1, <2>6, <2>7
<1>. QED
  BY <1>1, <1>9, <1>10, <1>11 DEF ReportedOnce, c, r

\* What is reported of the components normalization shows.
LEMMA ComponentsChecked ==
    ASSUME IInv, NamesApart(repository)
    PROVE  NormalizedComponentsAreChecked
<1> SUFFICES ASSUME IsDone, RootPath(repository.documents) = Some(ModelIndexPath),
                    Normalize(repository.documents)[1] = "ok",
                    NEW c \in ToSet(Normalize(repository.documents)[2].components)
             PROVE  LET at == Some(<<c.name>>)
                    IN  /\ ReportedOnce(ReportedAt("custom_component_requires_code", ModelIndexPath, at),
                                        c.requires_code)
                        /\ ReportedOnce(ReportedAt("unsafe_reference_path", ModelIndexPath, at),
                                        c.path = None /\ ~c.optional)
                        /\ ReportedOnce(ReportedAt("missing_component_directory", ModelIndexPath, at),
                                        c.path # None /\ c.path[1] \notin repository.directories)
  BY DEF NormalizedComponentsAreChecked
<1> DEFINE object == repository.documents[ModelIndexPath].json[2]
<1>1. RootPath(repository.documents)[1] = ModelIndexPath
  BY SomeIsNotNone
<1>2. ModelIndexPath \in DOMAIN repository.documents /\ Usable(repository.documents[ModelIndexPath])
  BY <1>1, NormalizedIs
<1>3. ModelIndexPath \in IndexDocuments
  BY <1>2, RootKinds DEF IndexDocuments
<1>4. PICK name \in ComponentNames(object) : c = Component(name, object[name])
  <2>1. Constructed(repository)
    BY DEF IInv
  <2>2. object = repository.documents[ModelIndexPath].json[2]
    OBVIOUS
  <2> HIDE DEF object
  <2>3. ToSet(Normalize(repository.documents)[2].components) = ShownIn(object)
    BY <1>1, <2>1, <2>2, ComponentsShown
  <2>. QED
    BY <2>3 DEF ShownIn
<1>5. c.name = name
  BY <1>4 DEF Component
<1> HIDE DEF object
<1>. QED
  BY <1>3, <1>4, <1>5, ComponentCounted DEF object

-----------------------------------------------------------------------------
\* The three readings of a tuple.
LEMMA ReadingIs ==
    ASSUME NEW value, TupleShaped(value)
    PROVE  LET library == value[2][1]
               class   == value[2][2]
           IN  /\ ComponentValue(value) = "Reference" <=> class # Null
               /\ ComponentValue(value) = "Optional" <=> class = Null /\ library = Null
               /\ ComponentTuple(value) <=> class # Null \/ library = Null
<1> DEFINE library == value[2][1]
           class   == value[2][2]
<1>1. 1 \in 1..2 /\ 2 \in 1..2
  OBVIOUS
<1>2. IsPair(value) /\ value[1] = "list" /\ (library = Null \/ IsText(library)) /\ (class = Null \/ IsText(class))
  BY <1>1 DEF TupleShaped, IsPair
<1>3. ~IsText(Null)
  BY DEF IsText, Null
<1> HIDE DEF library, class
<1>4. ComponentValue(value) =
         CASE IsText(class) /\ IsText(library)    -> "Reference"
           [] IsText(class) /\ library = Null     -> "Reference"
           [] library = Null /\ class = Null      -> "Optional"
           [] OTHER                               -> "Invalid"
  BY <1>2 DEF ComponentValue, library, class
<1>5. ComponentTuple(value) <=> \/ IsText(class) /\ (IsText(library) \/ library = Null)
                                \/ library = Null /\ class = Null
  BY <1>2 DEF ComponentTuple, library, class
<1>6. ComponentTuple(value) <=> class # Null \/ library = Null
  BY <1>2, <1>3, <1>5
<1>7. CASE class # Null
  <2>1. ComponentValue(value) = "Reference"
    BY <1>2, <1>3, <1>4, <1>7
  <2>. QED
    BY <1>6, <1>7, <2>1 DEF library, class
<1>8. CASE class = Null /\ library = Null
  <2>1. ComponentValue(value) = "Optional"
    BY <1>3, <1>4, <1>8
  <2>. QED
    BY <1>6, <1>8, <2>1 DEF library, class
<1>9. CASE class = Null /\ library # Null
  <2>1. ComponentValue(value) = "Invalid"
    BY <1>2, <1>3, <1>4, <1>9
  <2>. QED
    BY <1>6, <1>9, <2>1 DEF library, class
<1>. QED
  BY <1>7, <1>8, <1>9

\* What an index keeps for extra.
LEMMA KeptAsExtra ==
    ASSUME NEW object, NEW architecture, TakeArchitecture(object, ModelIndexPath) = Some(architecture),
           NEW name \in DOMAIN object, ~Metadata(name), ~ComponentTuple(object[name]),
           name \notin {<<"model_type">>, <<"transformers_version">>}
    PROVE  name \in DOMAIN Configuration(object, ModelIndexPath, architecture).extra
<1> DEFINE texts == {<<"model_type">>, <<"transformers_version">>, <<"_diffusers_version">>}
           used  == (UNION {Used(object, n) : n \in texts}) \cup TaskName(object) \cup ComponentNames(object)
<1>1. /\ Metadata(<<"_class_name">>) /\ Metadata(<<"_diffusers_version">>)
      /\ Metadata(<<"pipeline_tag">>) /\ Metadata(<<"task">>)
  BY UnderscoredAssumption DEF Metadata
<1>2. architecture.used = {<<"_class_name">>}
  BY SomeIsNotNone DEF TakeArchitecture
<1>3. name \notin UNION {Used(object, n) : n \in texts}
  BY <1>1 DEF Used
<1>4. name \notin TaskName(object)
  BY <1>1 DEF TaskName
<1>5. name \notin ComponentNames(object)
  BY DEF ComponentNames
<1>6. Configuration(object, ModelIndexPath, architecture).extra
         = Restrict(object, (DOMAIN object \ architecture.used) \ used)
  BY DEF Configuration
<1>7. name \in (DOMAIN object \ architecture.used) \ used
  BY <1>1, <1>2, <1>3, <1>4, <1>5
<1> HIDE DEF used
<1>. QED
  BY <1>6, <1>7 DEF Restrict

\* Where the architecture of a config comes from.
LEMMA SourceIs ==
    ASSUME NEW object, NEW architecture, TakeArchitecture(object, ConfigPath) = Some(architecture)
    PROVE  FirstArchitecture(object) = "Value" <=> architecture.source = "config_architectures"
<1> DEFINE name   == <<"architectures">>
           usable == UsableArchitectures(object)
<1>1. ConfigPath # ModelIndexPath
  BY DEF ConfigPath, ModelIndexPath
<1>2. FirstArchitecture(object) = "Value" <=>
         /\ name \in DOMAIN object /\ object[name] # Null /\ object[name][1] = "list"
         /\ \E i \in 1..Len(object[name][2]) : IsText(object[name][2][i]) /\ object[name][2][i][2] # <<>>
  BY DEF FirstArchitecture
<1>3. usable # {} <=>
         /\ name \in DOMAIN object /\ object[name][1] = "list"
         /\ \E i \in 1..Len(object[name][2]) : IsText(object[name][2][i]) /\ object[name][2][i][2] # <<>>
  <2>1. Len(<<>>) = 0 /\ 1..0 = {}
    OBVIOUS
  <2>. QED
    BY <2>1 DEF UsableArchitectures, Architectures
<1>4. Null[1] # "list"
  BY DEF Null
<1> HIDE DEF usable, name
<1>5. architecture.source = "config_architectures" <=> usable # {}
  BY <1>1, SomeIsNotNone DEF TakeArchitecture, usable
<1>. QED
  BY <1>2, <1>3, <1>4, <1>5

\* The names that the view shows with a value, and that normalization took.
Viewed(object, value) == {name \in Declared(object) : ComponentValue(object[name]) = value}
TakenOf(set, absent)  == {c.name : c \in {d \in set : d.optional = absent}}

LEMMA ViewedAreTaken ==
    ASSUME NEW object
    PROVE  /\ Viewed(object, "Reference") = TakenOf(ShownIn(object), FALSE)
           /\ Viewed(object, "Optional") = TakenOf(ShownIn(object), TRUE)
<1>1. \A name : /\ Component(name, object[name]).name = name
                /\ Component(name, object[name]).optional = (object[name][2][2] = Null)
  BY DEF Component
<1>2. \A absent : TakenOf(ShownIn(object), absent) =
                     {name \in ComponentNames(object) : (object[name][2][2] = Null) = absent}
  BY <1>1 DEF TakenOf, ShownIn
<1>3. \A name \in DOMAIN object : ComponentTuple(object[name]) => TupleShaped(object[name])
  <2>1. SUFFICES ASSUME NEW name \in DOMAIN object, ComponentTuple(object[name])
                 PROVE  TupleShaped(object[name])
    OBVIOUS
  <2>2. \A i \in 1..2 : i = 1 \/ i = 2
    OBVIOUS
  <2>. QED
    BY <2>1, <2>2 DEF TupleShaped, ComponentTuple
<1>4. \A name : name \in ComponentNames(object) <=>
                   /\ name \in Declared(object)
                   /\ object[name][2][2] # Null \/ object[name][2][1] = Null
  BY <1>3, ReadingIs DEF ComponentNames, Declared
<1>5. \A name \in Declared(object) :
         /\ ComponentValue(object[name]) = "Reference" <=> object[name][2][2] # Null
         /\ ComponentValue(object[name]) = "Optional" <=> object[name][2][2] = Null /\ object[name][2][1] = Null
  BY ReadingIs DEF Declared
<1>6. \A name : name \in Viewed(object, "Reference") <=> name \in TakenOf(ShownIn(object), FALSE)
  BY <1>2, <1>4, <1>5 DEF Viewed
<1>7. \A name : name \in Viewed(object, "Optional") <=> name \in TakenOf(ShownIn(object), TRUE)
  <2>1. \A name : name \in TakenOf(ShownIn(object), TRUE) <=>
                    name \in ComponentNames(object) /\ object[name][2][2] = Null
    BY <1>2
  <2>2. \A name : name \in Viewed(object, "Optional") <=>
                    name \in Declared(object) /\ object[name][2][2] = Null /\ object[name][2][1] = Null
    BY <1>5 DEF Viewed
  <2>. QED
    BY ONLY <1>4, <2>1, <2>2
<1>. QED
  BY <1>6, <1>7

\* Where the view calls a member invalid or unknown, it is no component.
LEMMA InvalidAreExtra ==
    ASSUME NEW object, NEW architecture, TakeArchitecture(object, ModelIndexPath) = Some(architecture)
    PROVE  Viewed(object, "Invalid") \cup Unknown(object) \subseteq
              DOMAIN Configuration(object, ModelIndexPath, architecture).extra
                 \cup {<<"model_type">>, <<"transformers_version">>}
<1> SUFFICES ASSUME NEW name \in Viewed(object, "Invalid") \cup Unknown(object),
                    name \notin {<<"model_type">>, <<"transformers_version">>}
             PROVE  name \in DOMAIN Configuration(object, ModelIndexPath, architecture).extra
  OBVIOUS
<1>1. name \in DOMAIN object /\ ~Metadata(name)
  BY DEF Viewed, Declared, Unknown
<1>2. ~ComponentTuple(object[name])
  <2>1. CASE name \in Viewed(object, "Invalid")
    <3>1. TupleShaped(object[name]) /\ ComponentValue(object[name]) = "Invalid"
      BY <2>1 DEF Viewed, Declared
    <3>. QED
      BY <3>1, ReadingIs
  <2>2. CASE name \in Unknown(object)
    <3>1. ~TupleShaped(object[name])
      BY <2>2 DEF Unknown
    <3>2. \A i \in 1..2 : i = 1 \/ i = 2
      OBVIOUS
    <3>. QED
      BY <3>1, <3>2 DEF TupleShaped, ComponentTuple
  <2>. QED
    BY <2>1, <2>2
<1>. QED
  BY <1>1, <1>2, KeptAsExtra

LEMMA ViewsAgree ==
    ASSUME IInv, NamesApart(repository)
    PROVE  ViewsAgreeWithNormalization
<1> SUFFICES ASSUME IsDone, Normalize(repository.documents)[1] = "ok"
             PROVE  LET root       == RootPath(repository.documents)[1]
                        object     == repository.documents[root].json[2]
                        normalized == Normalize(repository.documents)[2]
                    IN  IF root = ModelIndexPath
                        THEN /\ Viewed(object, "Reference") = TakenOf(ToSet(normalized.components), FALSE)
                             /\ Viewed(object, "Optional") = TakenOf(ToSet(normalized.components), TRUE)
                             /\ Viewed(object, "Invalid") \cup Unknown(object) \subseteq
                                   DOMAIN normalized.extra \cup {<<"model_type">>, <<"transformers_version">>}
                        ELSE FirstArchitecture(object) = "Value"
                                <=> normalized.architecture_source = "config_architectures"
  BY DEF ViewsAgreeWithNormalization, Viewed, TakenOf
<1> DEFINE root         == RootPath(repository.documents)[1]
           object       == repository.documents[root].json[2]
           normalized   == Normalize(repository.documents)[2]
           taken        == TakeArchitecture(object, root)
           architecture == taken[1]
<1>1. /\ root \in {ModelIndexPath, ConfigPath} /\ taken # None
      /\ normalized = Configuration(object, root, architecture)
  BY NormalizedIs
<1>2. taken = Some(architecture)
  <2>1. \/ taken = None
        \/ \E found : taken = Some(found)
    BY DEF TakeArchitecture
  <2> HIDE DEF taken
  <2>. QED
    BY <1>1, <2>1, SomeIsNotNone
<1>3. CASE root = ModelIndexPath
  <2>1. ToSet(normalized.components) = ShownIn(object)
    <3>1. object = repository.documents[ModelIndexPath].json[2] /\ Constructed(repository)
      BY <1>3 DEF IInv
    <3> HIDE DEF object
    <3>. QED
      BY <1>3, <3>1, ComponentsShown
  <2> HIDE DEF object, normalized, architecture, taken, root
  <2>2. /\ Viewed(object, "Reference") = TakenOf(ToSet(normalized.components), FALSE)
        /\ Viewed(object, "Optional") = TakenOf(ToSet(normalized.components), TRUE)
    BY <2>1, ViewedAreTaken
  <2>3. TakeArchitecture(object, ModelIndexPath) = Some(architecture)
    BY <1>2, <1>3 DEF taken
  <2>4. Viewed(object, "Invalid") \cup Unknown(object) \subseteq
           DOMAIN Configuration(object, ModelIndexPath, architecture).extra
              \cup {<<"model_type">>, <<"transformers_version">>}
    BY <2>3, InvalidAreExtra
  <2>5. Viewed(object, "Invalid") \cup Unknown(object) \subseteq
           DOMAIN normalized.extra \cup {<<"model_type">>, <<"transformers_version">>}
    BY <1>1, <1>3, <2>4
  <2>. QED
    BY <1>3, <2>2, <2>5 DEF object, normalized, root
<1>4. CASE root # ModelIndexPath
  <2> HIDE DEF object, normalized, architecture, taken, root
  <2>1. TakeArchitecture(object, ConfigPath) = Some(architecture)
    BY <1>1, <1>2, <1>4 DEF taken
  <2>2. FirstArchitecture(object) = "Value" <=> architecture.source = "config_architectures"
    BY <2>1, SourceIs
  <2>3. normalized.architecture_source = architecture.source
    BY <1>1 DEF Configuration
  <2>. QED
    BY <1>4, <2>2, <2>3 DEF object, normalized, root
<1>. QED
  BY <1>3, <1>4

\* Validation keeps the repository it was given.
LEMMA Chosen == Spec => [](repository \in Repositories)
<1>1. Init => repository \in Repositories
  BY DEF Init
<1>2. repository \in Repositories /\ [Next]_vars => (repository \in Repositories)'
  BY DEF Next, vars, ValidateRoot, ValidateDocument, EndPass, Done
<1>. QED
  BY <1>1, <1>2, PTL DEF Spec

\* Normalization, the validators and the views mean the same by a component:
\* what one shows is what the others looked up, reported, or left to extra.
THEOREM ReadingsAgree == Spec => []ComponentReadingsAgree
<1>1. IInv /\ repository \in Repositories => ComponentReadingsAgree
  <2>1. repository \in Repositories => NamesApart(repository)
    BY ValidationAssumption
  <2>. QED
    BY <2>1, ComponentsChecked, ViewsAgree DEF ComponentReadingsAgree
<1>. QED
  BY <1>1, Invariance, Chosen, PTL
=============================================================================
