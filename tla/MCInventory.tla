---------------------------- MODULE MCInventory ----------------------------
(* Inventory over three directories and two file names.  "d" and "D" fold    *)
(* together, "c" is config.json and "w" a weight file, ".." is no segment.   *)
(* Four entries fit, two documents, three bytes.                             *)
EXTENDS Inventory

\* In the order of the slash-separated strings.
MCListed == << <<"..">>, <<"..", "c">>, <<"D">>, <<"D", "c">>, <<"c">>, <<"d">>,
               <<"d", "c">>, <<"d", "w">>, <<"d", "w", "c">> >>

MCPaths == {MCListed[i] : i \in 1..Len(MCListed)}
MCOrder == [p \in MCPaths |-> CHOOSE i \in 1..Len(MCListed) : MCListed[i] = p]
MCFold  == [n \in {"..", "D", "c", "d", "w"} |-> IF n = "D" THEN "d" ELSE n]

MCRequests == MCPaths \ {<<"..">>}

MCDocuments == [path : {<<"c">>, <<"d", "c">>, <<"D", "c">>}, size : {1, 2}]
MCBatches   == UNION {[1..n -> MCDocuments] : n \in 0..3}
=============================================================================
