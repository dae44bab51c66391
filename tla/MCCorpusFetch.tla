--------------------------- MODULE MCCorpusFetch ---------------------------
(* CorpusFetch with one repository asked for in two spellings, and another *)
(* one; the first has two documents, which change at its second revision.  *)
EXTENDS CorpusFetch

MCIds   == {"Ann/x", "ann/x", "bob/y"}
MCKey   == [id \in MCIds |-> IF id = "bob/y" THEN "bob/y" ELSE "ann/x"]
MCOrder == [id \in MCIds |-> CASE id = "Ann/x" -> 1 [] id = "ann/x" -> 2 [] id = "bob/y" -> 3]

MCFiles     == {"config", "model_index"}
MCFileOrder == [f \in MCFiles |-> IF f = "config" THEN 1 ELSE 2]

MCHub ==
    [k \in {"ann/x", "bob/y"} |->
        IF k = "ann/x"
        THEN << [f \in MCFiles |-> IF f = "config" THEN "a1" ELSE "m1"],
                [f \in MCFiles |-> IF f = "config" THEN "a2" ELSE "m1"] >>
        ELSE << [f \in {"config"} |-> "b1"] >>]

MCLookupErrors ==
    [id \in MCIds |-> IF id = "bob/y" THEN {"not_found"} ELSE {"network_error"}]

MCFileErrors ==
    [id \in MCIds |-> CASE id = "Ann/x" -> {"http_503", "unsafe_filesystem_path"}
                        [] id = "ann/x" -> {"error"}
                        [] id = "bob/y" -> {}]

MCRequests == {MCIds, {"ann/x"}}
AllIds     == {MCIds}
=============================================================================
