------------------------------ MODULE MCCClient ------------------------------
\* CClient on a small instance: each way of making a call, of handlers it fits and of
\* handlers it does not.
EXTENDS CClient

Use(how, handler, arg, len) == [how |-> how, handler |-> handler, arg |-> arg, len |-> len]

First ==
    {Use("call", h, 0, 1) : h \in {"any", "stream", "client", "bidi", "missing"}}
    \cup {Use("ints", "any", 2, 1)}
    \cup {Use("ints", "int2", k, 1) : k \in {1, 3}}
    \cup {Use("cobol_ints", "int2", k, 1) : k \in {-1, 2, 3}}
    \cup {Use("cobol_str", "any", <<"a">>, 3)}
    \cup {Use("cobol_str", "str1", s, len) :
             s \in {<<>>, <<" ", "a">>, <<"a", " ">>, <<"a", "b", "c">>}, len \in {1, 2, 4}}
    \cup {Use("str", h, <<"a">>, 2) : h \in {"any", "str1"}}
    \cup {Use("stream", h, 0, 1) : h \in {"stream", "any"}}
    \cup {Use("export", h, 0, 1) : h \in {"client", "stream", "bidi"}}
    \cup {Use("bidi", h, 0, 1) : h \in {"bidi", "client"}}

\* The second call may read what the first has left.
Second == {Use("call", "any", 0, 1), Use("stream", "stream", 0, 1)}

MCUses == <<First, Second>>
=============================================================================
