------------------------------- MODULE MCRpc --------------------------------
EXTENDS Rpc, TLC

Q(proc, types, args, ret, r) ==
    [proc |-> proc, types |-> types, args |-> args, ret |-> ret, r |-> r]

\* Call sites with the types of the method, with variables used before, and with
\* other types: of the same size, too short, too long, with a wrong result.
MCRequests == {
    Q("get", <<"ull">>, <<17>>, "string", <<1>>),
    Q("put", <<"ull", "string">>, <<1, <<1, 0>> >>, "int", 7),
    Q("getattr", <<"ull">>, <<2>>, "attr", << >>),
    Q("list", <<"vector", "map">>, << <<9, 1>>, 3 :> 4 >>, "vector", <<5>>),
    Q("table", <<"int">>, <<6>>, "map", 1 :> 2),
    Q("getattr", <<"int", "int">>, <<1, 2>>, "attr", << >>),
    Q("remove", <<"ull", "int">>, <<1, 0>>, "int", 7),
    Q("put", <<"ull">>, <<0>>, "int", 7),
    Q("remove", <<"ull">>, <<1>>, "string", <<1>>)}

MCResults ==
    [int |-> {0, 1}, string |-> {<< >>, <<0, 1>>}, attr |-> {<<1, 0, 0, 0, 8>>},
     vector |-> {<< >>, <<3>>}, map |-> {[k \in {} |-> 0], 2 :> 2}]
=============================================================================
