------------------------------ MODULE MCCWire ------------------------------
(***************************************************************************)
(* CFraming for TLC.  The jobs are what the encoders of codec.c produce,   *)
(* and what the encoders of the other SDKs may: the same map with its      *)
(* entries in another order, with fields this decoder does not know, of    *)
(* types it does not expect, under keys that are not strings, with its     *)
(* integers under other tags, or cut off.                                  *)
(***************************************************************************)
EXTENDS CFraming

CONSTANTS w1, w2

Args == <<Array(<<Num(1), Nil>>), Map(<<<<Str("k"), Array(<<>>)>>>>)>>

\* What each encoder's message is, for the decoder of the other side.
Ours ==
    {[payload |-> encode_request_fn2(1, "f", Args, FALSE),
      means |-> [NoMessage EXCEPT !.id = Num(1), !.type = Str("request"), !.func = Str("f"), !.args = Args]],
     [payload |-> encode_request_fn2(2, "f", <<>>, TRUE),
      means |-> [NoMessage EXCEPT !.id = Num(2), !.type = Str("request"),
                                  !.func = Str("f"), !.stream = Bool(TRUE)]],
     [payload |-> encode_response_fn(3, Args[2]),
      means |-> [NoMessage EXCEPT !.id = Num(3), !.type = Str("response"), !.result = Args[2]]],
     [payload |-> encode_error_fn(4, "Error", "bad"),
      means |-> [NoMessage EXCEPT !.id = Num(4), !.type = Str("error"),
                                  !.error_type = Str("Error"), !.message = Str("bad")]],
     [payload |-> encode_stream_chunk_fn(5, Num(7)),
      means |-> [NoMessage EXCEPT !.id = Num(5), !.type = Str("stream_chunk"), !.result = Num(7)]],
     \* the least int64, and the greatest uint64 for an id
     [payload |-> encode_response_fn(2^Word - 1, Num(-(2^(Word - 1)))),
      means |-> [NoMessage EXCEPT !.id = Num(2^Word - 1), !.type = Str("response"),
                                  !.result = Num(-(2^(Word - 1)))]],
     [payload |-> encode_id_only_fn(6, "stream_end"),
      means |-> [NoMessage EXCEPT !.id = Num(6), !.type = Str("stream_end")]],
     \* over MaxFrame: encoded, then refused
     [payload |-> encode_response_fn(8, Array([i \in 1..MaxFrame |-> Nil])), means |-> Malformed],
     \* over MaxBuf: not even encoded
     [payload |-> encode_response_fn(9, Array([i \in 1..MaxBuf |-> Nil])), means |-> Malformed]}

\* Integers as other encoders may write them, under whichever tag: a number is its token.
Ints == {IntToken(TRUE, Word, 3), IntToken(TRUE, 2, 3), IntToken(FALSE, 2, 3),
         IntToken(FALSE, Word, 2^(Word - 1) + 8)}
IsToken(v) == v[1] = "int" /\ Len(v) = 4
Number(token) == IF token[2] THEN Signed(token[4], token[3]) ELSE token[4]

Encoded(v) == IF IsToken(v) THEN <<v>> ELSE encode_value(v)

\* A map of another encoder: its entries, each a key and a value.
Foreign(entries) ==
    <<MapHeader(Len(entries))>>
        \o FlattenSeq([i \in DOMAIN entries |-> Encoded(entries[i][1]) \o Encoded(entries[i][2])])

\* A field as its writer meant it: an id is a uint64_t, any other integer an int64_t, which
\* is the number written unless that is 2^63 or more.
Meant(key, v) ==
    CASE IsToken(v) -> Num(IF key = "id" THEN uint64_t(Number(v)) ELSE int64_t(uint64_t(Number(v))))
      [] key = "args" -> v[2]
      [] OTHER -> v

Fits(key, v) == CASE key \in DOMAIN Kinds -> v[1] = Kinds[key]
                  [] key = "args" -> v[1] = "array"
                  [] key = "result" -> TRUE

\* The message such a map means: each field has the value of the last entry for it that has
\* its type, and its cleared value when there is none.
Meaning(entries) ==
    [key \in DOMAIN NoMessage |->
       LET at == {i \in DOMAIN entries : entries[i][1] = Str(key) /\ Fits(key, entries[i][2])}
           v == entries[CHOOSE i \in at : \A j \in at : j <= i][2]
       IN IF at = {} THEN NoMessage[key] ELSE Meant(key, v)]

Basic == <<<<Str("type"), Str("response")>>, <<Str("result"), Num(7)>>, <<Str("id"), Num(3)>>>>

Extra == {<<Str("deadline"), Args[1]>>,            \* an unknown field
          <<Args[1], Args[2]>>,                    \* a key that is not a string
          <<Str("id"), Str("x")>>,                 \* a known field of another type
          <<Str("args"), Map(<<>>)>>}

ForeignEntries ==
    {Basic, Reverse(Basic)} \cup {InsertAt(Basic, i, e) : i \in {1, 4}, e \in Extra}
    \cup {Append(Basic, <<Str(key), n>>) : key \in {"id", "result"}, n \in Ints}

Whole == {[payload |-> Foreign(e), means |-> Meaning(e)] : e \in ForeignEntries}

\* Cut off inside the map, or holding a tag the decoder does not know.
Broken ==
    {[payload |-> SubSeq(Foreign(Basic), 1, n), means |-> Malformed] : n \in 0..(Len(Foreign(Basic)) - 1)}
    \cup {[payload |-> Append(Front(Foreign(Basic)), Unsupported), means |-> Malformed]}

MCJobs == <<Ours \cup Whole \cup Broken,
            {j \in Ours : j.means.type \in {Str("stream_end")}}>>
MCWriters == {w1, w2}
=============================================================================
