------------------------------ MODULE CFraming ------------------------------
(***************************************************************************)
(* c/src/framing.c under conn_write_frame of c/src/server.c: dispatch      *)
(* threads that share one connection write length-prefixed frames under    *)
(* its write_mu, in as many send() calls as the kernel wants, and the peer *)
(* reads them back in as many recv() calls.  The connection carries units: *)
(* the four header bytes of a frame, then the tokens of its payload.       *)
(***************************************************************************)
EXTENDS CCodec, Integers, FiniteSets

CONSTANTS
    Writers,     \* the threads that write on the connection
    Jobs,        \* what they may write as their first frame, second frame, ...: a sequence of
                 \* sets of [payload, means], means the message a reader must see
    MaxFrame,    \* CALLWIRE_MAX_FRAME_SIZE, in tokens
    NoWriter     \* write_mu is free

ASSUME CFramingAssumption == MaxFrame \in Nat /\ NoWriter \notin Writers

VARIABLES
    write_mu,    \* who holds the connection's write lock
    pending,     \* per writer, the buffers send_all still has to send, of its current frame
    net,         \* units in flight
    reader,      \* callwire_framing_read_frame of the peer: phase, what it has, how much it needs
    link,        \* "up" or "lost"
    written,     \* the jobs whose frames were begun, in that order
    received,    \* the payloads read_frame returned, each given to callwire_codec_decode
    torn         \* a send or recv failed inside a frame while the connection stayed up; the
                 \* rest of the stream means nothing, and is not followed

vars == <<write_mu, pending, net, reader, link, written, received, torn>>

Byte(n) == <<"byte", n>>
AtHeader == [phase |-> "header", got |-> <<>>, need |-> 4]
Stopped == [phase |-> "stopped", got |-> <<>>, need |-> 0]
Refused == [phase |-> "refused", got |-> <<>>, need |-> 0]

\* The length as four bytes, most significant first.
Header(len) == [i \in 1..4 |-> Byte((len \div 256^(4 - i)) % 256)]

\* The length the four bytes stand for.
Length(h) == 256^3 * h[1][2] + 256^2 * h[2][2] + 256 * h[3][2] + h[4][2]

Init ==
    /\ write_mu = NoWriter
    /\ pending = [w \in Writers |-> <<>>]
    /\ net = <<>>
    /\ reader = AtHeader
    /\ link = "up"
    /\ written = <<>>
    /\ received = <<>>
    /\ torn = FALSE

\* Mutant of Locks: the frame is written without write_mu.
LocksNot(w) == pending[w] = <<>> /\ write_mu' = w

\* pthread_mutex_lock of conn_write_frame.
Locks(w) == write_mu = NoWriter /\ write_mu' = w

\* Mutant of Accepts: no limit on what is written.
AcceptsAll(payload) == encode_with_growth(payload)

\* The encoder grew its buffer far enough, and write_frame takes the length.
Accepts(payload) == encode_with_growth(payload) /\ Len(payload) <= MaxFrame

\* An encoder of codec.c, then conn_write_frame up to its first send().
StartFrame(w, job) ==
    /\ Accepts(job.payload)
    /\ Locks(w)
    /\ pending' = [pending EXCEPT ![w] =
           <<Header(Len(job.payload))>> \o (IF job.payload = <<>> THEN <<>> ELSE <<job.payload>>)]
    /\ written' = Append(written, job)
    /\ UNCHANGED <<net, reader, link, received, torn>>

Release(w) == write_mu' = NoWriter

\* One send() of send_all takes n units of the buffer; the buffer is left when it is empty.
SendOnce(w, n) ==
    LET buf == Head(pending[w])
    IN pending' = [pending EXCEPT ![w] =
           IF n = Len(buf) THEN Tail(@) ELSE <<SubSeq(buf, n + 1, Len(buf))>> \o Tail(@)]

Send(w) ==
    /\ pending[w] # <<>> /\ link = "up"
    /\ \E n \in 1..Len(Head(pending[w])) :
         /\ net' = net \o SubSeq(Head(pending[w]), 1, n)
         /\ SendOnce(w, n)
    /\ IF pending'[w] = <<>> THEN Release(w) ELSE UNCHANGED write_mu
    /\ UNCHANGED <<reader, link, written, received, torn>>

\* Nothing of the frame has been sent: the whole header is pending.
Untouched(w) == Len(Head(pending[w])) = 4 /\ Head(pending[w])[1][1] = "byte"

\* send() fails: the rest of the frame is not sent, the lock is released, and the threads of
\* server.c go on to their next frame.  On a connection that is still up (an interrupted
\* call, no buffers) this leaves half a frame in the stream, unless nothing had been sent.
SendFails(w) ==
    /\ pending[w] # <<>>
    /\ pending' = [pending EXCEPT ![w] = <<>>]
    /\ Release(w)
    /\ IF link = "up" /\ Untouched(w)
         THEN written' = Front(written) /\ UNCHANGED torn
         ELSE torn' = (link = "up") /\ UNCHANGED written
    /\ UNCHANGED <<net, reader, link, received>>

\* What recv_all still asks for.
Room == reader.need - Len(reader.got)

\* One recv() of recv_all.
Recv ==
    /\ reader.phase \notin {"stopped", "refused"} /\ Len(reader.got) < reader.need
    /\ \E n \in 1..Room :
         /\ n <= Len(net)
         /\ reader' = [reader EXCEPT !.got = @ \o SubSeq(net, 1, n)]
         /\ net' = SubSeq(net, n + 1, Len(net))
    /\ UNCHANGED <<write_mu, pending, link, written, received, torn>>

Delivered(payload) ==
    /\ received' = Append(received, payload)
    /\ reader' = AtHeader

\* The header is complete: a length over the limit ends the connection's reader.
ReadLength ==
    /\ reader.phase = "header" /\ Len(reader.got) = reader.need
    /\ LET len == Length(reader.got) IN
         IF len = 0 THEN Delivered(<<>>)
         ELSE /\ reader' = IF len > MaxFrame THEN Refused
                           ELSE [phase |-> "payload", got |-> <<>>, need |-> len]
              /\ UNCHANGED received
    /\ UNCHANGED <<write_mu, pending, net, link, written, torn>>

\* The payload is complete.
ReadPayload ==
    /\ reader.phase = "payload" /\ Len(reader.got) = reader.need
    /\ Delivered(reader.got)
    /\ UNCHANGED <<write_mu, pending, net, link, written, torn>>

\* recv() returns 0 at the end of a lost connection, or fails on one that is up.  The server's
\* read loop ends; a client's next call reads on wherever the stream is.
RecvFails ==
    /\ reader.phase \notin {"stopped", "refused"} /\ Len(reader.got) < reader.need
    /\ link = "lost" => net = <<>>
    /\ \/ reader' = Stopped /\ UNCHANGED torn
       \/ link = "up" /\ reader' = AtHeader /\ torn' = (reader # AtHeader)
    /\ UNCHANGED <<write_mu, pending, net, link, written, received>>

\* The connection breaks and some of what is in flight never arrives.
Lose ==
    /\ link = "up" /\ link' = "lost"
    /\ \E n \in 0..Len(net) : net' = SubSeq(net, 1, n)
    /\ UNCHANGED <<write_mu, pending, reader, written, received, torn>>

Next ==
    /\ ~torn
    /\ \/ \E w \in Writers, n \in {Len(written) + 1} \cap DOMAIN Jobs : \E job \in Jobs[n] : StartFrame(w, job)
       \/ \E w \in Writers : Send(w) \/ SendFails(w)
       \/ Recv \/ ReadLength \/ ReadPayload \/ RecvFails \/ Lose

\* A thread inside send_all, and the reader, go on while the connection lets them.
Fairness ==
    /\ \A w \in Writers : WF_vars(~torn /\ Send(w))
    /\ WF_vars(~torn /\ (Recv \/ ReadLength \/ ReadPayload))

Spec == Init /\ [][Next]_vars /\ Fairness

-----------------------------------------------------------------------------
(* Properties *)

\* Locks, readers and buffers have their shapes.
TypeOK ==
    /\ write_mu \in Writers \cup {NoWriter}
    /\ \A w \in Writers : Len(pending[w]) \in 0..2
    /\ reader.phase \in {"header", "payload", "stopped", "refused"}
    /\ Len(reader.got) <= reader.need /\ reader.need <= (IF MaxFrame < 4 THEN 4 ELSE MaxFrame)
    /\ link \in {"up", "lost"} /\ torn \in BOOLEAN

\* As long as no send or recv failed inside a frame on a live connection, the payloads the
\* peer reads are those the writers began, in the order they got write_mu (framing.c,
\* conn_write_frame): however sends and receives are split, whichever threads share the
\* socket, wherever the connection breaks.  The threads are those of one connection; one of
\* an old connection whose descriptor was handed out again is the subject of CServer.
FramesIntact ==
    ~torn => IsPrefix(received, [k \in DOMAIN written |-> written[k].payload])

\* What the decoder makes of a payload is what its writer meant (codec.c): the round trip of
\* every encoder of this library, and for the maps of other encoders the last well-typed
\* entry of each field, whatever the order of the entries and whatever else they carry.
\* Integers keep their number across all tags and widths: an id up to 2^64 - 1, a value up
\* to 2^63 - 1 (mpack_stub.h:251 casts the uint64 tag to int64_t, so a greater value of
\* another encoder is meant and read modulo 2^64, as a negative number).
\* A payload that is cut off or holds an unknown tag is refused, never half understood.
DecodedAsMeant ==
    ~torn => \A k \in DOMAIN received \cap DOMAIN written :
                 callwire_codec_decode(received[k]) = written[k].means

\* Every frame begun is eventually given to the peer's decoder, unless the connection breaks
\* or a send or recv fails.  The peer never refuses its length: write_frame has refused it
\* before the first byte (framing.c:77 and :50), though the encoder allows four times as much.
FramesArrive ==
    \A n \in DOMAIN Jobs :
        Len(written) = n ~> (Len(received) >= n \/ Len(written) < n \/ torn
                               \/ link = "lost" \/ reader.phase = "stopped")
=============================================================================
