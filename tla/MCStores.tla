------------------------------ MODULE MCStores ------------------------------
(* Constants of the model-checking instances of Stores.                    *)
EXTENDS Stores

CONSTANTS o1, o2, o3, a, b, k, dots

\* The calls are alike: no property tells which is which.
OpSymmetry == Permutations(Ops)

\* Namespaces "", "a", "a:b" and "..", keys "k" and "b:k": in Redis the entry
\* "b:k" of "a" and the entry "k" of "a:b" would be one.
SomeEntries == {<<<<>>, <<k>>>>, <<<<a>>, <<k>>>>, <<<<a>>, <<b, Colon, k>>>>,
                <<<<a, Colon, b>>, <<k>>>>, <<<<dots>>, <<k>>>>}
UnsafeNames == {<<dots>>}

Request(kind, e, json) == [kind |-> kind, entry |-> e, json |-> json]
SomeRequests ==
    {Request(kind, e, TRUE) : kind \in {"put", "get"}, e \in SomeEntries}
        \cup {Request("list", <<n, <<k>>>>, TRUE) : n \in {<<>>, <<a>>, <<a, Colon, b>>, <<dots>>}}
        \cup {Request("put", <<<<a>>, <<k>>>>, FALSE)}
=============================================================================
