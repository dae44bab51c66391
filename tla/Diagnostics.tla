---------------------------- MODULE Diagnostics ----------------------------
(***************************************************************************)
(* How the findings about one repository are collected, bounded and merged *)
(* (diagnostic.rs, validation.rs, repository.rs, manifest.rs).  The         *)
(* directory scan reports skipped links into one bounded list; validation  *)
(* reports into a second one, pass after pass; `diagnostics` merges the     *)
(* two, keeping a share for the scan; the manifest writer finally pushes   *)
(* one finding of its own that must survive a full list.                   *)
(*                                                                         *)
(* A finding is <<the part that reports it, its number there>>.  Its       *)
(* text and location are abstracted, and so is the place a finding takes   *)
(* in a sorted list: sort_diagnostics permutes a list by severity first,   *)
(* and the one reader of that order, push_priority_diagnostic, takes the    *)
(* last finding, which here is any finding of the greatest severity.       *)
(***************************************************************************)
EXTENDS Integers, Sequences

CONSTANTS
    MaxDiagnostics,  \* MAX_REPOSITORY_DIAGNOSTICS: entries in one list
    Counts           \* how many findings one part may have to report

ASSUME MaxDiagnosticsAssumption == MaxDiagnostics \in Nat /\ MaxDiagnostics >= 2
ASSUME CountsAssumption == Counts \subseteq Nat

VARIABLES
    stage,      \* the part that is running
    findings,   \* what each part would report of this repository
    raised,     \* how many of those it has reported so far
    scan,       \* ModelRepository::scan_diagnostics
    content,    \* the list validate_repository builds
    result,     \* the list `diagnostics` returns, then the manifest's
    sensitive   \* does the normalized identity hold source-sensitive text?

vars == <<stage, findings, raised, scan, content, result, sensitive>>

(***************************************************************************)
(* Parts that report, in the order they run.  The four passes over the     *)
(* documents are `references`, `shape`, `configuration` and `executable`;  *)
(* the first two report errors only and the last two warnings only.        *)
(***************************************************************************)
ContentErrors   == {"normalization", "references", "shape"}
ContentWarnings == {"configuration", "executable"}
Passes          == {"references", "shape", "configuration", "executable"}
ContentSources  == ContentErrors \cup ContentWarnings
Sources         == ContentSources \cup {"scan"}
Stages          == Sources \cup {"merge", "manifest", "done"}

\* Mutant of NextStage: a pass that warns runs before one that reports errors.
WarningsBeforeShape ==
    [s \in Sources |->
        CASE s = "scan"          -> "normalization"
          [] s = "normalization" -> "references"
          [] s = "references"    -> "configuration"
          [] s = "configuration" -> "shape"
          [] s = "shape"         -> "executable"
          [] s = "executable"    -> "merge"]

NextStage ==
    [s \in Sources |->
        CASE s = "scan"          -> "normalization"
          [] s = "normalization" -> "references"
          [] s = "references"    -> "shape"
          [] s = "shape"         -> "configuration"
          [] s = "configuration" -> "executable"
          [] s = "executable"    -> "merge"]

Finding(s, n) == <<s, n>>
LimitMarker   == Finding("limit", 0)     \* limit_diagnostic()
Identity      == Finding("identity", 1)  \* ManifestSensitiveDataOmitted

Entries == ((Sources \cup {"identity"}) \X (Nat \ {0})) \cup {LimitMarker}

IsError(f)           == f[1] \in ContentErrors
Contains(list, f)    == \E i \in 1..Len(list) : list[i] = f
Smaller(m, n)        == IF m <= n THEN m ELSE n

-----------------------------------------------------------------------------

LimitReached(list) == Len(list) >= MaxDiagnostics

\* Mutant of PushBounded: the marker comes on top of a full list.
PushPastLimit(list, f) ==
    IF Len(list) < MaxDiagnostics THEN Append(list, f)
    ELSE IF Len(list) = MaxDiagnostics THEN Append(list, LimitMarker)
    ELSE list

\* push_bounded: the entry that would fill the last slot becomes the marker,
\* and nothing enters a full list.
PushBounded(list, f) ==
    IF Len(list) < MaxDiagnostics - 1 THEN Append(list, f)
    ELSE IF Len(list) = MaxDiagnostics - 1 THEN Append(list, LimitMarker)
    ELSE list

HasMarker(list) == Contains(list, LimitMarker)

\* merge_diagnostics filters the markers out of both lists.  A list built by
\* PushBounded holds one at its end or none.
Unmarked(list) ==
    IF Len(list) > 0 /\ list[Len(list)] = LimitMarker
    THEN SubSeq(list, 1, Len(list) - 1)
    ELSE list

ScanReserve  == MaxDiagnostics \div 4
FindingLimit == MaxDiagnostics - 1

\* Mutant of ContentTake: nothing is reserved for the scan.
ContentTakeAll(c, s) == Smaller(Len(c), FindingLimit)

ContentTake(c, s) ==
    Smaller(Len(c), FindingLimit - Smaller(Len(s), ScanReserve))

ScanTake(c, s) == Smaller(Len(s), FindingLimit - ContentTake(c, s))

\* Mutant of MergeDiagnostics: that the scan's own list was full is forgotten.
MergeForgettingScan(contentList, scanList) ==
    LET c == Unmarked(contentList)
        s == Unmarked(scanList)
        kept == SubSeq(c, 1, ContentTake(c, s)) \o SubSeq(s, 1, ScanTake(c, s))
        truncated == \/ HasMarker(contentList)
                     \/ ContentTake(c, s) < Len(c)
                     \/ ScanTake(c, s) < Len(s)
    IN  IF truncated THEN Append(kept, LimitMarker) ELSE kept

MergeDiagnostics(contentList, scanList) ==
    LET c == Unmarked(contentList)
        s == Unmarked(scanList)
        kept == SubSeq(c, 1, ContentTake(c, s)) \o SubSeq(s, 1, ScanTake(c, s))
        truncated == \/ HasMarker(contentList)
                     \/ HasMarker(scanList)
                     \/ ContentTake(c, s) < Len(c)
                     \/ ScanTake(c, s) < Len(s)
    IN  IF truncated THEN Append(kept, LimitMarker) ELSE kept

\* Mutant of LastInOrder: the marker may be the finding that makes room.
LastOfAll(list) == {Len(list)}

\* Where rposition may find the last finding of a sorted list: at a finding
\* that no other one exceeds in severity.
LastInOrder(list) ==
    {i \in 1..Len(list) :
        /\ list[i] # LimitMarker
        /\ (\E j \in 1..Len(list) : IsError(list[j])) => IsError(list[i])}

-----------------------------------------------------------------------------

Init ==
    /\ stage = "scan"
    /\ findings \in [Sources -> Counts]
    /\ findings["normalization"] <= 1
    /\ raised = [s \in Sources |-> 0]
    /\ scan = <<>>
    /\ content = <<>>
    /\ result = <<>>
    /\ sensitive \in BOOLEAN

\* A part reports its next finding.  The parts check the limit between
\* documents and between items, not before every report, so a report may
\* well meet a full list.
Report(s) ==
    /\ stage = s
    /\ raised[s] < findings[s]
    /\ raised' = [raised EXCEPT ![s] = @ + 1]
    /\ IF s = "scan"
       THEN /\ scan' = PushBounded(scan, Finding(s, raised[s] + 1))
            /\ UNCHANGED content
       ELSE /\ content' = PushBounded(content, Finding(s, raised[s] + 1))
            /\ UNCHANGED scan
    /\ UNCHANGED <<stage, findings, result, sensitive>>

\* A part ends when it has nothing left to report.
Finish(s) ==
    /\ stage = s
    /\ raised[s] = findings[s]
    /\ stage' = NextStage[s]
    /\ UNCHANGED <<findings, raised, scan, content, result, sensitive>>

\* A pass over the documents stops early when the list is full.
Stop(s) ==
    /\ stage = s
    /\ s \in Passes
    /\ raised[s] < findings[s]
    /\ LimitReached(content)
    /\ stage' = NextStage[s]
    /\ UNCHANGED <<findings, raised, scan, content, result, sensitive>>

Merge ==
    /\ stage = "merge"
    /\ result' = MergeDiagnostics(content, scan)
    /\ stage' = "manifest"
    /\ UNCHANGED <<findings, raised, scan, content, sensitive>>

\* The manifest of a repository whose identity is presentable adds nothing.
ManifestPlain ==
    /\ stage = "manifest"
    /\ ~sensitive
    /\ stage' = "done"
    /\ UNCHANGED <<findings, raised, scan, content, result, sensitive>>

\* push_priority_diagnostic, the list having room for the finding.
ManifestIdentityFits ==
    /\ stage = "manifest"
    /\ sensitive
    /\ Len(result) < MaxDiagnostics - 1
    /\ result' = PushBounded(result, Identity)
    /\ stage' = "done"
    /\ UNCHANGED <<findings, raised, scan, content, sensitive>>

\* Mutant of ManifestIdentityReplaces: an ordinary push.
IdentityPushed ==
    /\ stage = "manifest"
    /\ sensitive
    /\ Len(result) >= MaxDiagnostics - 1
    /\ result' = PushBounded(result, Identity)
    /\ stage' = "done"
    /\ UNCHANGED <<findings, raised, scan, content, sensitive>>

\* push_priority_diagnostic on a full list: the push fails, leaving a marker
\* behind if there was none, and the finding replaces the last other one.
ManifestIdentityReplaces ==
    /\ stage = "manifest"
    /\ sensitive
    /\ Len(result) >= MaxDiagnostics - 1
    /\ LET pushed == PushBounded(result, Identity)
       IN  \E i \in LastInOrder(pushed) : result' = [pushed EXCEPT ![i] = Identity]
    /\ stage' = "done"
    /\ UNCHANGED <<findings, raised, scan, content, sensitive>>

\* The list is delivered and nothing more happens.
Delivered ==
    /\ stage = "done"
    /\ UNCHANGED vars

Next ==
    \/ \E s \in Sources : Report(s) \/ Finish(s) \/ Stop(s)
    \/ Merge
    \/ ManifestPlain
    \/ ManifestIdentityFits
    \/ ManifestIdentityReplaces
    \/ Delivered

Spec == Init /\ [][Next]_vars

-----------------------------------------------------------------------------

\* The variables have their types.
TypeOK ==
    /\ stage \in Stages
    /\ findings \in [Sources -> Nat]
    /\ raised \in [Sources -> Nat]
    /\ scan \in Seq(Entries)
    /\ content \in Seq(Entries)
    /\ result \in Seq(Entries)
    /\ sensitive \in BOOLEAN

\* No list ever holds more than MAX_REPOSITORY_DIAGNOSTICS entries, through
\* the merge and the manifest's own push as well (diagnostic.rs:6).
DiagnosticsBounded ==
    /\ Len(scan) <= MaxDiagnostics
    /\ Len(content) <= MaxDiagnostics
    /\ Len(result) <= MaxDiagnostics

\* The findings `diagnostics` returns carry the limit marker exactly when a
\* finding of the repository is missing from them: early stops, full lists
\* and the merge never lose one silently, and never cry wolf (RFC 0001,
\* "a stable truncation diagnostic").
MarkerIffOmitted ==
    stage \in {"manifest", "done"} =>
        (HasMarker(result) <=>
            \E s \in Sources : \E n \in 1..findings[s] :
                ~Contains(result, Finding(s, n)))

\* A content warning is retained only when every content error is: a
\* saturated list never spends an entry on a warning while it leaves an
\* error out (tests/validation.rs, executable_warning_saturation_cannot_hide_
\* reference_errors), until the manifest's own finding takes an entry.
ErrorsOutrankWarnings ==
    \A list \in {content} \cup (IF stage = "manifest" THEN {result} ELSE {}) :
        (\E s \in ContentWarnings : \E n \in 1..findings[s] :
            Contains(list, Finding(s, n)))
        => \A s \in ContentErrors : \A n \in 1..findings[s] :
                Contains(list, Finding(s, n))

\* A flood of content findings leaves the scan its reserve, and a flood of
\* skipped links never takes more than the reserve while a content finding
\* is left out (repository.rs:345).
ScanShare ==
    stage = "manifest" =>
        /\ \A n \in 1..Smaller(findings["scan"], ScanReserve) :
              Contains(result, Finding("scan", n))
        /\ (\E s \in ContentSources : \E n \in 1..findings[s] :
               ~Contains(result, Finding(s, n)))
           => \A n \in 1..findings["scan"] :
                 n > ScanReserve => ~Contains(result, Finding("scan", n))

\* The manifest of a repository whose identity was withheld says so, however
\* full the list was (tests/manifest.rs, sensitive_identity_reason_survives_
\* diagnostic_saturation).
IdentityReported ==
    stage = "done" /\ sensitive => Contains(result, Identity)

\* The manifest's push costs at most one finding and never the marker.
PriorityCostsOne ==
    [][stage = "manifest" =>
          /\ HasMarker(result) => HasMarker(result')
          /\ \A i, j \in 1..Len(result) :
                ~Contains(result', result[i]) /\ ~Contains(result', result[j])
                    => result[i] = result[j]]_vars
=============================================================================
