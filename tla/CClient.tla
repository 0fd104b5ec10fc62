------------------------------- MODULE CClient -------------------------------
(***************************************************************************)
(* c/src/client.c: one connection of a C program, which makes unary calls, *)
(* streams, uploads and bidirectional calls on it, one after the other or  *)
(* not; and the threads of the server at its other end.  The client reads  *)
(* frames in the order they come and never looks at their ids: whose they  *)
(* are follows from how the program uses it.  C++ and COBOL programs use   *)
(* this code through callwire.hpp and cobol_shim.c.  Frames arrive whole   *)
(* and in order (CFraming); the server's queues are in CServer.            *)
(***************************************************************************)
EXTENDS CBindings

CONSTANTS
    MaxCalls,    \* bound on the calls begun
    MaxIn,       \* bound on the chunks a call sends
    MaxOut,      \* bound on the chunks a handler emits
    Uses         \* Uses[i]: what call i may be, a set of records [how, handler, arg, len]

Waiting == {"call", "ints", "str", "cobol_ints", "cobol_str"}
Hows == Waiting \cup {"stream", "export", "bidi"}
AllHandlers == {"any", "int2", "str1", "stream", "client", "bidi", "missing"}

ASSUME CClientAssumption ==
    /\ MaxCalls \in Nat \ {0} /\ MaxIn \in Nat /\ MaxOut \in Nat
    /\ \A i \in 1..MaxCalls : \A u \in Uses[i] :
         u.how \in Hows /\ u.handler \in AllHandlers /\ u.len \in Nat \ {0}

Calls == 1..MaxCalls
NoCall == [how |-> "none", handler |-> "missing", arg |-> 0, len |-> 1]

VARIABLES
    link,        \* "up" or "lost"
    toServer,    \* frames written by the client and not read
    toClient,    \* frames written by the server and not read
    next_id,     \* client->next_id
    call,        \* call[i]: how call i was made, and what of
    open,        \* the call the program is in, 0 for none; an earlier one it left is forgotten
    op,          \* the function the program is in: "none", "await", "recv"; "killed"
    ret,         \* what the last function returned
    text,        \* the result_buf of the last callwire_call_str
    sent,        \* sent[i]: chunks sent
    finished,    \* finished[i]: stream_close or stream_end sent
    got,         \* got[i]: chunks received in call i, as numbers of frames of call i
    ended,       \* calls whose recv returned 1
    thread,      \* thread[i]: the server's thread for call i: "none", "run", "done"
    inq,         \* inq[i]: its input queue
    inended,     \* calls whose handler has seen the end of its input
    emitted,     \* emitted[i]: chunks its handler has emitted
    completed,   \* calls whose handler returned 0
    result,      \* result[i]: the value in the response of call i
    dropped,     \* calls the server gave up without a frame
    strayed,     \* the program began a call before the last was over, or of a wrong kind
    mixed,       \* a function has read a frame of another call
    adrift,      \* the first call whose read failed with more of its answer to come, 0 for none
    skewed       \* ... in the middle of a frame: what is left of it will be taken for frames

linkVars == <<link, toServer, toClient>>
retVars == <<ret, text>>
upVars == <<sent, finished>>
downVars == <<got, ended>>
driftVars == <<adrift, skewed>>
serverVars == <<thread, inq, inended, emitted, completed, result, dropped>>
vars == <<linkVars, next_id, call, open, op, retVars, upVars, downVars, serverVars, strayed, mixed, driftVars>>

Types == {"request", "stream_chunk", "stream_close", "stream_end", "response", "error"}
Frame(i, t) == [id |-> i, type |-> t, n |-> 0]
ChunkFrame(i, k) == [id |-> i, type |-> "stream_chunk", n |-> k]

HasInput(i) == call[i].handler \in {"client", "bidi"}
HasOutput(i) == call[i].handler \in {"stream", "bidi"}

TypeOK ==
    /\ link \in {"up", "lost"} /\ next_id \in 0..MaxCalls
    /\ \A i \in Calls : call[i] \in Uses[i] \cup {NoCall}
    /\ open \in 0..next_id /\ op \in {"none", "await", "recv", "killed"}
    /\ op \in {"await", "recv"} => open # 0
    /\ ret \in {"ok", "end", "error", "mistyped", "range"}
    /\ sent \in [Calls -> 0..MaxIn] /\ finished \subseteq Calls /\ ended \subseteq Calls
    /\ thread \in [Calls -> {"none", "run", "done"}] /\ emitted \in [Calls -> 0..MaxOut]
    /\ inended \subseteq Calls /\ completed \subseteq Calls /\ dropped \subseteq Calls
    /\ strayed \in BOOLEAN /\ mixed \in BOOLEAN
    /\ adrift \in 0..next_id /\ skewed \in BOOLEAN

\* callwire_client_connect has succeeded.
Init ==
    /\ link = "up" /\ toServer = <<>> /\ toClient = <<>>
    /\ next_id = 0 /\ call = [i \in Calls |-> NoCall] /\ open = 0 /\ op = "none"
    /\ ret = "ok" /\ text = <<>>
    /\ sent = [i \in Calls |-> 0] /\ finished = {}
    /\ got = [i \in Calls |-> <<>>] /\ ended = {}
    /\ thread = [i \in Calls |-> "none"] /\ inq = [i \in Calls |-> <<>>] /\ inended = {}
    /\ emitted = [i \in Calls |-> 0] /\ completed = {} /\ dropped = {}
    /\ result = [i \in Calls |-> NilValue]
    /\ strayed = FALSE /\ mixed = FALSE /\ adrift = 0 /\ skewed = FALSE

-----------------------------------------------------------------------------
\* Writing.

Returns(r) == ret' = r /\ UNCHANGED text

\* write_payload, the write having succeeded: on a lost connection the bytes vanish.
Writes(f) ==
    /\ toServer' = IF link = "up" THEN Append(toServer, f) ELSE toServer
    /\ UNCHANGED <<link, toClient>>

\* The argument arrays of a call: none if the function refuses what it is given.
ArgArrays(u) ==
    CASE u.how = "ints" -> callwire_call_ints(u.arg)
      [] u.how = "str" -> callwire_call_str(u.arg)
      [] u.how = "cobol_ints" -> callwire_cobol_call_ints(u.arg)
      [] u.how = "cobol_str" -> callwire_cobol_call_str(u.arg)
      [] OTHER -> {<<>>}

\* A call before the last is over; or a unary call or an upload of a function that streams.
Strays(u) == open # 0 \/ (u.handler = "stream" /\ u.how \in Waiting \cup {"export"})

NewId == op = "none" /\ next_id < MaxCalls /\ next_id' = next_id + 1

\* An id, and its request written.
Request(u) ==
    /\ NewId
    /\ call' = [call EXCEPT ![next_id + 1] = u]
    /\ open' = next_id + 1
    /\ strayed' = (strayed \/ Strays(u))
    /\ Writes(Frame(next_id + 1, "request"))
    /\ Returns("ok")
    /\ UNCHANGED <<upVars, downVars, serverVars, mixed, driftVars>>

\* callwire_client_call up to its read, of its own or under one of the flat functions.
callwire_client_call(u) == u.how \in Waiting /\ ArgArrays(u) # {} /\ Request(u) /\ op' = "await"

callwire_client_stream_begin(u) == u.how = "stream" /\ Request(u) /\ UNCHANGED op
callwire_client_export_stream_begin(u) == u.how = "export" /\ Request(u) /\ UNCHANGED op
callwire_client_bidi_stream_begin(u) == u.how = "bidi" /\ Request(u) /\ UNCHANGED op

Begin(u) ==
    \/ callwire_client_call(u) \/ callwire_client_stream_begin(u)
    \/ callwire_client_export_stream_begin(u) \/ callwire_client_bidi_stream_begin(u)

\* The request does not encode, or is not written: its id is used up.
BeginFails(u) ==
    /\ NewId /\ ArgArrays(u) # {}
    /\ Returns("error")
    /\ UNCHANGED <<linkVars, call, open, op, upVars, downVars, serverVars, strayed, mixed, driftVars>>

\* A flat function refuses its arguments.
ArgsRefused(u) ==
    /\ op = "none" /\ ArgArrays(u) = {}
    /\ Returns("range")
    /\ UNCHANGED <<linkVars, next_id, call, open, op, upVars, downVars, serverVars, strayed, mixed, driftVars>>

In(hows) == op = "none" /\ open # 0 /\ call[open].how \in hows
InUpload(hows) == In(hows) /\ open \notin finished

\* A chunk, and its write.
SendChunk ==
    /\ sent[open] < MaxIn
    /\ sent' = [sent EXCEPT ![open] = @ + 1]
    /\ Writes(Frame(open, "stream_chunk"))
    /\ Returns("ok")
    /\ UNCHANGED <<next_id, call, open, op, finished, downVars, serverVars, strayed, mixed, driftVars>>

callwire_client_export_stream_send == InUpload({"export"}) /\ SendChunk
callwire_client_bidi_stream_send == InUpload({"bidi"}) /\ SendChunk

\* The chunk does not encode, or is not written.
SendFails ==
    /\ InUpload({"export", "bidi"})
    /\ Returns("error")
    /\ UNCHANGED <<linkVars, next_id, call, open, op, upVars, downVars, serverVars, strayed, mixed, driftVars>>

\* Mutant of callwire_client_export_stream_close: the close is not sent.
CloseUploadUnsent ==
    /\ InUpload({"export"})
    /\ finished' = finished \cup {open}
    /\ op' = "await" /\ UNCHANGED linkVars
    /\ Returns("ok")
    /\ UNCHANGED <<next_id, call, open, sent, downVars, serverVars, strayed, mixed, driftVars>>

\* Mutant of callwire_client_export_stream_close: the answer is not waited for.
CloseUploadUnread ==
    /\ InUpload({"export"})
    /\ finished' = finished \cup {open}
    /\ open' = 0 /\ Writes(Frame(open, "stream_close"))
    /\ Returns("ok")
    /\ UNCHANGED <<next_id, call, op, sent, downVars, serverVars, strayed, mixed, driftVars>>

\* Up to its read.
callwire_client_export_stream_close ==
    /\ InUpload({"export"})
    /\ finished' = finished \cup {open}
    /\ op' = "await" /\ Writes(Frame(open, "stream_close"))
    /\ Returns("ok")
    /\ UNCHANGED <<next_id, call, open, sent, downVars, serverVars, strayed, mixed, driftVars>>

callwire_client_bidi_stream_close_send ==
    /\ InUpload({"bidi"})
    /\ finished' = finished \cup {open}
    /\ Writes(Frame(open, "stream_end"))
    /\ Returns("ok")
    /\ UNCHANGED <<next_id, call, open, op, sent, downVars, serverVars, strayed, mixed, driftVars>>

\* A write to a connection the peer has closed raises SIGPIPE, which nothing handles.
Killed ==
    /\ op = "none" /\ link = "lost"
    /\ op' = "killed"
    /\ UNCHANGED <<linkVars, next_id, call, open, retVars, upVars, downVars, serverVars, strayed, mixed, driftVars>>

-----------------------------------------------------------------------------
\* Reading: read_wire_message takes the next frame, whosever it is.

NextFrame == Head(toClient)

ReadsFrame ==
    /\ ~skewed /\ toClient # <<>>
    /\ toClient' = Tail(toClient)
    /\ mixed' = (mixed \/ NextFrame.id # open)
    /\ UNCHANGED <<link, toServer>>

\* Called; the frame comes later.
Receives(how) ==
    /\ In({how})
    /\ op' = "recv"
    /\ UNCHANGED <<linkVars, next_id, call, open, retVars, upVars, downVars, serverVars, strayed, mixed, driftVars>>

callwire_client_stream_recv == Receives("stream")
callwire_client_bidi_stream_recv == Receives("bidi")

\* Mutant of Gets: an error ends the stream like stream_end.
GetsEndForError(t) ==
    CASE t = "stream_chunk" -> "ok" [] t \in {"stream_end", "error"} -> "end" [] OTHER -> "error"

\* What recv returns on a frame of type t.
Gets(t) == CASE t = "stream_chunk" -> "ok" [] t = "stream_end" -> "end" [] OTHER -> "error"

\* recv's frame has come.
Receive ==
    /\ op = "recv" /\ ReadsFrame
    /\ op' = "none"
    /\ LET r == Gets(NextFrame.type) IN
       /\ Returns(r)
       /\ got' = IF r = "ok" THEN [got EXCEPT ![open] = Append(@, NextFrame.n)] ELSE got
       /\ ended' = IF r = "end" THEN ended \cup {open} ELSE ended
       /\ open' = IF r = "ok" THEN open ELSE 0
    /\ UNCHANGED <<next_id, call, upVars, serverVars, strayed, driftVars>>

IsInts(how) == how \in {"ints", "cobol_ints"}
IsStr(how) == how \in {"str", "cobol_str"}

\* The flat functions want a value of their type; the core and callwire.hpp pass it on.
Accepts(how, v) == (IsInts(how) => v.type = "int") /\ (IsStr(how) => v.type = "str")

\* msg.result.
ValueOf(f) ==
    CASE f.type = "response" -> result[f.id] [] f.type = "stream_chunk" -> IntValue [] OTHER -> NilValue

\* The answer of callwire_client_call or callwire_client_export_stream_close has come: any
\* frame but an error is a result.
Answered ==
    /\ op = "await" /\ ReadsFrame
    /\ op' = "none" /\ open' = 0
    /\ LET how == call[open].how
           v == ValueOf(NextFrame)
           r == IF NextFrame.type = "error" THEN "error" ELSE IF Accepts(how, v) THEN "ok" ELSE "mistyped"
       IN /\ ret' = r
          /\ text' = IF IsStr(how) /\ r = "ok" THEN CopyOut(v.text, call[open].len) ELSE text
    /\ UNCHANGED <<next_id, call, upVars, downVars, serverVars, strayed, driftVars>>

Waits == op \in {"await", "recv"}

\* Reading for the call fails with more of its answer to come.
Drifts == adrift' = IF adrift = 0 THEN open ELSE adrift

\* callwire_codec_decode refuses the frame.  After a chunk, others follow.
ReadRefused ==
    /\ Waits /\ ReadsFrame
    /\ op' = "none" /\ open' = 0
    /\ Returns("error")
    /\ IF NextFrame.type = "stream_chunk" THEN Drifts ELSE UNCHANGED adrift
    /\ UNCHANGED <<next_id, call, upVars, downVars, serverVars, strayed, skewed>>

\* read_frame fails on a connection that lives: the frame is longer than 16 MB, or malloc or
\* recv fails, within a frame or before it.
ReadCut ==
    /\ Waits /\ ~skewed /\ link = "up"
    /\ op' = "none" /\ open' = 0
    /\ Returns("error")
    /\ Drifts /\ skewed' \in {FALSE, toClient # <<>>}
    /\ UNCHANGED <<linkVars, next_id, call, upVars, downVars, serverVars, strayed, mixed>>

\* The bytes that come next are read as if a frame began there, and for good: a message of
\* any type, or none.
ReadSkewed ==
    /\ Waits /\ skewed /\ toClient # <<>>
    /\ mixed' = TRUE /\ op' = "none"
    /\ \E r \in IF op = "recv" THEN {"ok", "end", "error"} ELSE {"ok", "mistyped", "error"} :
       /\ Returns(r)
       /\ op = "recv" /\ r = "ok" => Len(got[open]) < MaxOut
       /\ got' = IF op = "recv" /\ r = "ok" THEN [got EXCEPT ![open] = Append(@, 0)] ELSE got
       /\ ended' = IF r = "end" THEN ended \cup {open} ELSE ended
       /\ open' = IF op = "recv" /\ r = "ok" THEN open ELSE 0
    /\ UNCHANGED <<linkVars, next_id, call, upVars, serverVars, strayed, driftVars>>

\* The connection is lost and all that came before has been read.
ReadFails ==
    /\ Waits /\ link = "lost" /\ (toClient = <<>> \/ skewed)
    /\ op' = "none" /\ open' = 0
    /\ Returns("error")
    /\ UNCHANGED <<linkVars, next_id, call, upVars, downVars, serverVars, strayed, mixed, driftVars>>

-----------------------------------------------------------------------------
\* The server: the connection's read loop and the threads of its calls.

Answers(f) == toClient' = Append(toClient, f)
TakesFrame == link = "up" /\ toServer # <<>> /\ toServer' = Tail(toServer) /\ UNCHANGED link
Incoming == Head(toServer)

\* find_handler, and the stream flag against the handler.
Refuses(i) ==
    \/ call[i].handler = "missing"
    \/ call[i].handler = "bidi" /\ call[i].how # "bidi"
    \/ call[i].handler = "client" /\ call[i].how = "bidi"

ServerRequest ==
    /\ TakesFrame /\ Incoming.type = "request"
    /\ LET i == Incoming.id IN
       IF Refuses(i)
         THEN Answers(Frame(i, "error")) /\ thread' = [thread EXCEPT ![i] = "done"]
         ELSE thread' = [thread EXCEPT ![i] = "run"] /\ UNCHANGED toClient
    /\ UNCHANGED <<next_id, call, open, op, retVars, upVars, downVars, inq, inended, emitted,
                   completed, result, dropped, strayed, mixed, driftVars>>

\* A chunk or an end goes to the queue of its call, or nowhere.
ServerInput ==
    /\ TakesFrame /\ Incoming.type # "request"
    /\ LET i == Incoming.id IN
       inq' = IF thread[i] = "run" /\ HasInput(i) THEN [inq EXCEPT ![i] = Append(@, Incoming.type)] ELSE inq
    /\ UNCHANGED <<toClient, next_id, call, open, op, retVars, upVars, downVars, thread, inended, emitted,
                   completed, result, dropped, strayed, mixed, driftVars>>

Runs(i) == link = "up" /\ thread[i] = "run"

HandlerRecv(i) ==
    /\ Runs(i) /\ HasInput(i) /\ i \notin inended /\ inq[i] # <<>>
    /\ inq' = [inq EXCEPT ![i] = Tail(@)]
    /\ inended' = IF Head(inq[i]) = "stream_chunk" THEN inended ELSE inended \cup {i}
    /\ UNCHANGED <<linkVars, next_id, call, open, op, retVars, upVars, downVars, thread, emitted, completed,
                   result, dropped, strayed, mixed, driftVars>>

HandlerEmit(i) ==
    /\ Runs(i) /\ HasOutput(i) /\ emitted[i] < MaxOut
    /\ emitted' = [emitted EXCEPT ![i] = @ + 1]
    /\ Answers(ChunkFrame(i, emitted[i] + 1))
    /\ UNCHANGED <<link, toServer, next_id, call, open, op, retVars, upVars, downVars, thread, inq, inended,
                   completed, result, dropped, strayed, mixed, driftVars>>

\* What the handler of call i may come to.
Results(i) ==
    CASE call[i].handler = "int2" -> UNION {cobol_int2_trampoline(args) : args \in ArgArrays(call[i])}
      [] call[i].handler = "str1" -> UNION {cobol_str1_trampoline(args) : args \in ArgArrays(call[i])}
      [] call[i].handler \in {"any", "client"} -> {IntValue, StrValue(<<"a">>), Failed}
      [] OTHER -> {NilValue, Failed}

\* The handler returns, and its thread writes the response, stream_end or error.
HandlerAnswers(i) ==
    /\ Runs(i)
    /\ \E v \in Results(i) :
       /\ Answers(IF v = Failed THEN Frame(i, "error")
                  ELSE IF HasOutput(i) THEN Frame(i, "stream_end") ELSE Frame(i, "response"))
       /\ result' = [result EXCEPT ![i] = v]
       /\ completed' = IF v = Failed THEN completed ELSE completed \cup {i}
    /\ thread' = [thread EXCEPT ![i] = "done"]
    /\ UNCHANGED <<link, toServer, next_id, call, open, op, retVars, upVars, downVars, inq, inended, emitted,
                   dropped, strayed, mixed, driftVars>>

HandlerReturns(i) == (HasInput(i) => i \in inended) /\ HandlerAnswers(i)
HandlerReturnsEarly(i) == HasInput(i) /\ i \notin inended /\ HandlerAnswers(i)

\* No thread for the call, or a response too large to encode: nothing is written.
ServerDrops(i) ==
    /\ Runs(i) /\ emitted[i] = 0
    /\ thread' = [thread EXCEPT ![i] = "done"]
    /\ dropped' = dropped \cup {i}
    /\ UNCHANGED <<linkVars, next_id, call, open, op, retVars, upVars, downVars, inq, inended, emitted,
                   completed, result, strayed, mixed, driftVars>>

\* The connection is lost, with what is under way or without it.
Lose ==
    /\ link = "up" /\ link' = "lost"
    /\ toServer' = <<>> /\ toClient' \in {toClient, <<>>}
    /\ UNCHANGED <<next_id, call, open, op, retVars, upVars, downVars, serverVars, strayed, mixed, driftVars>>

-----------------------------------------------------------------------------
Reads == Receive \/ Answered \/ ReadRefused \/ ReadFails
Serves == ServerRequest \/ ServerInput
Sends ==
    \/ callwire_client_export_stream_send \/ callwire_client_bidi_stream_send \/ SendFails
    \/ callwire_client_export_stream_close \/ callwire_client_bidi_stream_close_send
Calling(i) == i = next_id + 1 /\ \E u \in Uses[i] : Begin(u) \/ BeginFails(u) \/ ArgsRefused(u)
Handles(i) ==
    \/ HandlerRecv(i) \/ HandlerEmit(i) \/ HandlerReturns(i) \/ HandlerReturnsEarly(i) \/ ServerDrops(i)

Next ==
    \/ callwire_client_stream_recv \/ callwire_client_bidi_stream_recv
    \/ Sends \/ Reads \/ ReadCut \/ ReadSkewed \/ Killed \/ Serves \/ Lose
    \/ \E i \in Calls : Calling(i) \/ Handles(i)

Spec == Init /\ [][Next]_vars

\* The client reads what has come, the server's threads run, and a handler reads its input
\* to the end and then returns.  Nothing is assumed of the program.
FairSpec ==
    /\ Spec
    /\ WF_vars(Reads) /\ WF_vars(Serves)
    /\ \A i \in Calls : WF_vars(HandlerRecv(i)) /\ WF_vars(HandlerReturns(i))

-----------------------------------------------------------------------------
\* Properties.

\* client.c takes the next frame for the answer of the call in hand without looking at
\* its id, and after a read that failed it goes on with the connection.  No function reads
\* a frame of another call unless the program began a call before the last was over or
\* called a function that streams as if it did not, or an earlier read failed with more of
\* its answer to come: refusals, early answers, errors and a last frame that cannot be
\* decoded are harmless, a chunk that cannot be decoded or a read that is cut short is not.
OwnFramesOnly == mixed => strayed \/ adrift # 0

\* What recv hands out are the handler's chunks, in order and none left out, and it reports
\* the end only of a handler that returned 0 with all of its chunks received: neither an
\* error, a refused chunk nor a lost connection looks like the end.  This holds of the
\* calls of a program that does not stray, up to the first whose read fails in mid-answer,
\* that one included; later streams may be handed its leftovers.
StreamWhole ==
    strayed \/ \A i \in Calls : (adrift = 0 \/ i <= adrift) =>
        /\ got[i] = [k \in 1..Len(got[i]) |-> k]
        /\ i \in ended => i \in completed /\ Len(got[i]) = emitted[i]

\* A string that a COBOL program hands back unchanged reaches the caller of
\* callwire_call_str or callwire_cobol_call_str as the text a PIC X field keeps of it, cut
\* to the buffer; every byte written, the terminator included, is inside the buffer.
EchoKept ==
    \A i \in Calls :
        (i = next_id /\ open = 0 /\ op = "none" /\ ret = "ok" /\ IsStr(call[i].how)
            /\ call[i].handler = "str1" /\ ~strayed /\ adrift = 0) =>
        /\ Len(text) \in 1..call[i].len
        /\ \E s \in FieldText(call[i].arg) :
             text = SubSeq(s, 1, Min({Len(s), call[i].len - 1})) \o <<NUL>>

\* The handler of call i waits for chunks or an end that the program has not sent.
Starves(i) == thread[i] = "run" /\ HasInput(i) /\ i \notin inended /\ inq[i] = <<>> /\ i \notin finished

\* There is no timeout in client.c, although callwire.h says that callwire_client_call
\* "Blocks until response or timeout" (HeaderTimeout, which fails).  What the code gives is
\* this: a function that waits returns once a frame is there or the connection has gone, so
\* the only waits without end are those for a call the server gave up without a frame, for
\* a handler that waits for input which the program, itself waiting, cannot send, and for
\* the rest of a frame that was cut.
WaitsOnlyForServer ==
    Waits ~> (op = "none" \/ open \in dropped \/ skewed \/ \E i \in Calls : Starves(i))

\* callwire.h, of callwire_client_call: it returns, by the response or by a timeout.
HeaderTimeout == op = "await" ~> op = "none"
=============================================================================
