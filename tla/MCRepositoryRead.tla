-------------------------- MODULE MCRepositoryRead --------------------------
(* RepositoryRead on two sorts of directories: those with an entry of every *)
(* sort, which stand still, and smaller ones that change while they are read. *)
EXTENDS RepositoryRead

\* "c" is config.json, "w" a weight file, "aux" a name Windows reserves, "?"
\* a name that is not UTF-8, "d" and "D" fold together.
Listing0 ==
    << << <<".git">>, "dir" >>, << <<".git", "w">>, "file" >>, << <<"?">>, "file" >>,
       << <<"D">>, "file" >>, << <<"aux">>, "file" >>, << <<"c">>, "file" >>,
       << <<"d">>, "dir" >>, << <<"d", "c">>, "file" >>, << <<"d", "e">>, "dir" >>,
       << <<"d", "e", "c">>, "file" >>, << <<"d", "l">>, "link" >>, << <<"d", "w">>, "file" >>,
       << <<"l">>, "link" >>, << <<"s", "aux">>, "other" >>, << <<"s">>, "dir" >> >>

MCPaths == {Listing0[i][1] : i \in 1..Len(Listing0)}
MCOrder == [p \in MCPaths |-> CHOOSE i \in 1..Len(Listing0) : Listing0[i][1] = p]
MCKind  == [p \in MCPaths |-> Listing0[MCOrder[p]][2]]
MCFold  == [n \in UNION {{p[i] : i \in 1..Len(p)} : p \in MCPaths} |-> IF n = "D" THEN "d" ELSE n]

MCMalformed == {<<"d", "e", "c">>}

MCVolatile ==
    {<<"D">>, <<"c">>, <<"d">>, <<"d", "c">>, <<"d", "l">>, <<"d", "w">>}

\* Six paths are more than the limit allows, with room for hidden ones.
Trees(P) == {T \in SUBSET P : Cardinality(T) <= 6 /\ \A p \in T : Ancestors(p) \subseteq T}

\* The length of a document that does not come up is fixed.
StartsIn(P, Sized) ==
    {[present |-> T, size |-> [p \in {q \in MCPaths : MCKind[q] = "file" /\ Recognized(q)} |->
                                  IF p \in Sized THEN n[p] ELSE 1]] :
        T \in Trees(P), n \in [Sized -> {1, 2, 3}]}

MCStarts ==
    StartsIn(MCPaths \ {<<"d", "l">>, <<"d", "w">>}, {<<"c">>, <<"d", "c">>, <<"d", "e", "c">>})
    \cup StartsIn(MCVolatile, {<<"c">>, <<"d", "c">>})
=============================================================================
