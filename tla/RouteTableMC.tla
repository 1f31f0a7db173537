---------------------------- MODULE RouteTableMC ----------------------------
(* RouteTable over two methods, three ROUTE lines and paths of at most two   *)
(* pieces, one of which names the same parameter twice; the query of every   *)
(* request gives two values for that parameter, and none for the other.      *)
(* "red" is a literal no route names: only a wildcard matches it.            *)
EXTENDS RouteTable

MCNames == {<<"a">>, <<"get", "a">>}
MCPaths == {<<"">>, <<"", "a", ":p">>, <<"", ":p", "", "a">>, <<"", ":p", ":p">>,
            <<"", "*", ":q", "">>}
MCUrls == UNION {[1..n -> {"a", "red"}] : n \in 0..2}
MCGiven == {[NoParams EXCEPT ![":p"] = <<"zz", "a">>]}
=============================================================================
