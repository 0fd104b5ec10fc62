------------------------------- MODULE CCodec -------------------------------
(***************************************************************************)
(* c/src/codec.c and c/third_party/mpack_stub.h: messages to MessagePack   *)
(* and back.  A payload is a sequence of tokens: a tag with its length or  *)
(* number, and the data of a string or binary.  Integers keep the widths   *)
(* of their tags; the size classes of the other tags are left out, and so  *)
(* is running out of memory.                                               *)
(***************************************************************************)
EXTENDS Integers, Sequences, SequencesExt

CONSTANTS
    InitCap,     \* CALLWIRE_BUF_INITIAL_SIZE, in tokens
    MaxBuf,      \* the 64 MB cap of encode_with_growth, in tokens
    IntWidths    \* the bits of an integer after its tag: 8, 16, 32 and 64; fixints are with the first

ASSUME CCodecAssumption ==
    InitCap \in Nat \ {0} /\ MaxBuf \in Nat /\ IntWidths # {} /\ IntWidths \subseteq Nat \ {0}

\* callwire_value_t: its type, then its content.  Scalars but integers are tokens as they stand.
Nil == <<"nil">>
Bool(b) == <<"bool", b>>
Num(n) == <<"int", n>>
Str(s) == <<"str", s>>
Array(items) == <<"array", items>>
Map(pairs) == <<"map", pairs>>
ArrayHeader(n) == <<"arrhdr", n>>
MapHeader(n) == <<"maphdr", n>>
Unsupported == <<"ext">>        \* a tag mpack_stub.h does not know
NoStr == <<"null">>             \* a string field that is NULL

\* The bits of int64_t and uint64_t.
Word == Max(IntWidths)

\* A tag of an int or a uint, and the bits after it.
IntToken(signed, w, bits) == <<"int", signed, w, bits>>

\* Bits of the given width as a two's complement number, and (int64_t) of a uint64_t.
Signed(bits, w) == IF bits >= 2^(w - 1) THEN bits - 2^w ELSE bits
int64_t(n) == Signed(n, Word)
uint64_t(n) == n % 2^Word

-----------------------------------------------------------------------------
\* Encoding.

\* The narrowest uint tag for what is not negative, the narrowest int tag for what is.
mpack_write_int64(n) ==
    LET Fits(w) == IF n >= 0 THEN n < 2^w ELSE -n <= 2^(w - 1)
        w == Min({x \in IntWidths : Fits(x)})
    IN IntToken(n < 0, w, n % 2^w)

RECURSIVE encode_value(_)
encode_value(v) ==
    CASE v[1] = "array" -> <<ArrayHeader(Len(v[2]))>>
                           \o FlattenSeq([i \in DOMAIN v[2] |-> encode_value(v[2][i])])
      [] v[1] = "map"   -> <<MapHeader(Len(v[2]))>>
                           \o FlattenSeq([i \in DOMAIN v[2] |->
                                            encode_value(v[2][i][1]) \o encode_value(v[2][i][2])])
      [] v[1] = "int"   -> <<mpack_write_int64(v[2])>>
      [] OTHER          -> <<v>>

encode_request_fn2(id, func, args, stream) ==
    <<MapHeader(IF stream THEN 5 ELSE 4), Str("id"), mpack_write_int64(int64_t(id)), Str("type"), Str("request"),
      Str("func"), Str(func), Str("args"), ArrayHeader(Len(args))>>
    \o FlattenSeq([i \in DOMAIN args |-> encode_value(args[i])])
    \o (IF stream THEN <<Str("stream"), Bool(TRUE)>> ELSE <<>>)

encode_response_fn(id, result) ==
    <<MapHeader(3), Str("id"), mpack_write_int64(int64_t(id)), Str("type"), Str("response"), Str("result")>> \o encode_value(result)

encode_error_fn(id, error_type, message) ==
    <<MapHeader(4), Str("id"), mpack_write_int64(int64_t(id)), Str("type"), Str("error"),
      Str("error_type"), Str(error_type), Str("message"), Str(message)>>

encode_stream_chunk_fn(id, result) ==
    <<MapHeader(3), Str("id"), mpack_write_int64(int64_t(id)), Str("type"), Str("stream_chunk"), Str("result")>>
        \o encode_value(result)

\* stream_end and stream_close.
encode_id_only_fn(id, type) == <<MapHeader(2), Str("id"), mpack_write_int64(int64_t(id)), Str("type"), Str(type)>>

\* A buffer that overflows is thrown away and one of twice the size is tried, up to MaxBuf.
RECURSIVE GrowsTo(_, _)
GrowsTo(n, cap) == n <= cap \/ (2 * cap <= MaxBuf /\ GrowsTo(n, 2 * cap))
encode_with_growth(payload) == GrowsTo(Len(payload), InitCap)

-----------------------------------------------------------------------------
\* Decoding.  A reader is its position and its error flag.

AtEnd(t, r) == r.pos > Len(t)
Next1(r) == [r EXCEPT !.pos = @ + 1]
Fail(r) == [r EXCEPT !.error = TRUE]
IsA(t, r, kind) == ~AtEnd(t, r) /\ t[r.pos][1] = kind

RECURSIVE mpack_skip_value(_, _), mpack_skip_values(_, _, _)
mpack_skip_value(t, r) ==
    CASE r.error \/ AtEnd(t, r)  -> Fail(r)
      [] IsA(t, r, "ext")        -> Fail(r)
      [] IsA(t, r, "arrhdr")     -> mpack_skip_values(t, Next1(r), t[r.pos][2])
      [] IsA(t, r, "maphdr")     -> mpack_skip_values(t, Next1(r), 2 * t[r.pos][2])
      [] OTHER                   -> Next1(r)
mpack_skip_values(t, r, n) ==
    IF n = 0 \/ r.error THEN r ELSE mpack_skip_values(t, mpack_skip_value(t, r), n - 1)

\* Any integer tag into an int64_t: a uint64 of half the range or more comes out negative.
mpack_try_read_int64(token) ==
    LET w == token[3] IN IF token[2] \/ w = Word THEN Signed(token[4], w) ELSE token[4]

Pairs(vs) == [i \in 1..(Len(vs) \div 2) |-> <<vs[2 * i - 1], vs[2 * i]>>]

\* The rc, the value and the reader after it.  At the end of the payload the tag reads as 0,
\* which is taken for the integer 0, with the error flag set.
RECURSIVE decode_value(_, _), decode_values(_, _, _)
decode_value(t, r) ==
    CASE r.error             -> [rc |-> -1, v |-> Nil, r |-> r]
      [] AtEnd(t, r)         -> [rc |-> 0, v |-> Num(0), r |-> Fail(Next1(r))]
      [] IsA(t, r, "ext")    -> [rc |-> -1, v |-> Nil, r |-> Fail(r)]
      [] IsA(t, r, "arrhdr") -> LET d == decode_values(t, Next1(r), t[r.pos][2])
                                IN [rc |-> d.rc, v |-> Array(d.v), r |-> d.r]
      [] IsA(t, r, "maphdr") -> LET d == decode_values(t, Next1(r), 2 * t[r.pos][2])
                                IN [rc |-> d.rc, v |-> Map(Pairs(d.v)), r |-> d.r]
      [] IsA(t, r, "int")    -> [rc |-> 0, v |-> Num(mpack_try_read_int64(t[r.pos])), r |-> Next1(r)]
      [] OTHER               -> [rc |-> 0, v |-> t[r.pos], r |-> Next1(r)]
decode_values(t, r, n) ==
    IF n = 0 THEN [rc |-> 0, v |-> <<>>, r |-> r]
    ELSE LET d == decode_value(t, r)
             e == decode_values(t, d.r, n - 1)
         IN IF d.rc # 0 THEN [rc |-> -1, v |-> <<>>, r |-> d.r]
            ELSE [rc |-> e.rc, v |-> <<d.v>> \o e.v, r |-> e.r]

\* callwire_wire_message_t, cleared.
NoMessage == [id |-> Num(0), type |-> NoStr, func |-> NoStr, args |-> <<>>, stream |-> Bool(FALSE),
              result |-> Nil, error_type |-> NoStr, message |-> NoStr]

\* The fields with a tag of their own; "args" and "result" are read by decode_value.
Kinds == [id |-> "int", type |-> "str", func |-> "str", stream |-> "bool",
          error_type |-> "str", message |-> "str"]

\* What a field of the right type is set to.
FieldValue(key, token) ==
    IF key = "id" THEN Num(uint64_t(mpack_try_read_int64(token))) ELSE token

\* Mutant of decode_field: a field of an unexpected type is not skipped.
decode_field_no_skip(t, r, msg, key) ==
    IF IsA(t, r, Kinds[key])
      THEN [msg |-> [msg EXCEPT ![key] = FieldValue(key, t[r.pos])], r |-> Next1(r)]
      ELSE [msg |-> msg, r |-> r]

\* One field: of the right type it is taken (an id missing at the end reads as 0), any
\* other value is skipped.
decode_field(t, r, msg, key) ==
    CASE IsA(t, r, Kinds[key])        -> [msg |-> [msg EXCEPT ![key] = FieldValue(key, t[r.pos])],
                                          r |-> Next1(r)]
      [] key = "id" /\ AtEnd(t, r)    -> [msg |-> [msg EXCEPT !.id = Num(0)], r |-> Fail(Next1(r))]
      [] OTHER                        -> [msg |-> msg, r |-> mpack_skip_value(t, r)]

\* "args": an array header and that many values, whose return codes are not looked at.
decode_args(t, r, msg) ==
    IF IsA(t, r, "arrhdr")
      THEN LET d == decode_values(t, Next1(r), t[r.pos][2])
           IN [msg |-> [msg EXCEPT !.args = d.v], r |-> d.r]
      ELSE [msg |-> msg, r |-> mpack_skip_value(t, r)]

\* One entry of the map: a key that is not a string is skipped with its value.
decode_entry(t, r, msg) ==
    IF ~IsA(t, r, "str")
      THEN [msg |-> msg, r |-> mpack_skip_value(t, mpack_skip_value(t, IF AtEnd(t, r) THEN Fail(r) ELSE r))]
      ELSE LET key == t[r.pos][2] IN
           CASE key = "args"         -> decode_args(t, Next1(r), msg)
             [] key = "result"       -> LET d == decode_value(t, Next1(r))
                                        IN [msg |-> [msg EXCEPT !.result = d.v], r |-> d.r]
             [] key \in DOMAIN Kinds -> decode_field(t, Next1(r), msg, key)
             [] OTHER                -> [msg |-> msg, r |-> mpack_skip_value(t, Next1(r))]

Malformed == [NoMessage EXCEPT !.type = <<"malformed">>]

RECURSIVE decode_entries(_, _, _, _)
decode_entries(t, r, msg, n) ==
    IF r.error THEN Malformed
    ELSE IF n = 0 THEN msg
    ELSE LET e == decode_entry(t, r, msg) IN decode_entries(t, e.r, e.msg, n - 1)

\* callwire_codec_decode; Malformed stands for -1.
callwire_codec_decode(t) ==
    LET r == [pos |-> 1, error |-> FALSE]
    IN IF ~IsA(t, r, "maphdr") THEN Malformed ELSE decode_entries(t, Next1(r), NoMessage, t[1][2])
=============================================================================
