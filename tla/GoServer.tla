------------------------------ MODULE GoServer ------------------------------
(***************************************************************************)
(* go/callwire/server.go: one accepted connection.  handleConnection reads *)
(* frames and routes them by id; every request gets a dispatcher goroutine *)
(* (dispatchClientOrUnary or dispatchBidiStream) with a channel of its own *)
(* for the client's stream frames, and a bidirectional call also a feeder  *)
(* goroutine.  The exported functions, the client and the network are the  *)
(* environment; the client of this module is one that follows SPEC.md.     *)
(***************************************************************************)
EXTENDS Naturals, Sequences, FiniteSets

CONSTANTS
    Calls,      \* the ids the client uses
    Kinds,      \* the call patterns it uses, a subset of AllKinds
    Shapes,     \* the shapes of the functions it names, a subset of AllShapes
    ChanCap,    \* capacity of chunksChan (64 in the code)
    InCap,      \* capacity of a bidirectional function's input channel (64)
    MaxIn,      \* bound on the chunks a client sends in one call
    MaxOut,     \* bound on the chunks a function emits in one call
    Refuses,    \* may the arguments or a chunk be a value decodeMessage refuses?
    Late,       \* may a client stream's first frame come after the 10 ms timer?
    Drops,      \* may the connection be lost?
    Panics      \* may a function panic, or a chunk not fit its channel's element type?

\* "call": one request frame (unary or server streaming); "upload": client streaming.
AllKinds == {"call", "upload", "bidi"}

\* What the name is registered for: nothing, func() T, a function whose parameters
\* do not fit the arguments, func() chan, func(chan) T and func(chan) chan.
AllShapes == {"absent", "value", "badArgs", "chanOut", "chanIn", "chanBoth"}

ASSUME GoServerAssumption ==
    /\ Kinds \subseteq AllKinds
    /\ Shapes \subseteq AllShapes
    /\ ChanCap \in Nat \ {0}
    /\ InCap \in Nat \ {0}
    /\ MaxIn \in Nat
    /\ MaxOut \in Nat
    /\ Refuses \in BOOLEAN
    /\ Late \in BOOLEAN
    /\ Drops \in BOOLEAN
    /\ Panics \in BOOLEAN

VARIABLES
    inbox,      \* frames sent by the client and not yet read
    up,         \* the connection is usable
    loop,       \* handleConnection: "read", "hand" (in its select), "dead" or "killed"
    loopMsg,    \* the frame it is handing over
    streams,    \* domain of the streams map
    buf,        \* buf[c]: contents of chunksChan
    ended,      \* ended[c]: endChan is closed
    hd,         \* hd[c]: where the dispatcher of call c is
    hasChunks,  \* hasChunks[c] of dispatchClientOrUnary
    got,        \* got[c]: the chunks collected, or read by the bidirectional function
    feeder,     \* feeder[c]: "none", "run", "send" or "done"
    feedMsg,    \* feedMsg[c]: the chunk the feeder is sending to inCh
    inCh,       \* inCh[c]: contents of the function's input channel
    inClosed,   \* inClosed[c]: that channel is closed
    written,    \* frames written to the connection, oldest first
    kind,       \* kind[c]: the call's pattern, "none" before its request
    fn,         \* fn[c]: the shape of the function it names
    sent,       \* sent[c]: chunks the client has sent
    finished,   \* finished[c]: the client has sent stream_close or stream_end
    refused     \* refused[c]: numbers of the chunks decodeMessage refused, 0 for the request

loopVars   == <<loop, loopMsg, streams, refused>>
feedVars   == <<feeder, feedMsg, inCh, inClosed>>
hdVars     == <<ended, hd, hasChunks, got>>
clientVars == <<kind, fn, sent, finished>>
vars == <<inbox, up, loopVars, buf, hdVars, feedVars, written, clientVars>>

Frame(c, t, n) == [id |-> c, type |-> t, seq |-> n]
NoFrame == [id |-> 0, type |-> "none", seq |-> 0]
StreamTypes == {"stream_chunk", "stream_close", "stream_end"}
Terminals == {"response", "error", "stream_end"}

TypeOK ==
    /\ inbox \in Seq([id : Calls, type : {"request"} \cup StreamTypes, seq : 0..MaxIn])
    /\ up \in BOOLEAN
    /\ loop \in {"read", "hand", "dead", "killed"}
    /\ loopMsg = NoFrame <=> loop # "hand"
    /\ streams \subseteq Calls
    /\ \A c \in Calls : Len(buf[c]) <= ChanCap /\ Len(inCh[c]) <= InCap
    /\ ended \in [Calls -> BOOLEAN]
    /\ hd \in [Calls -> {"none", "start", "select", "collect", "invoke", "emit",
                         "end", "cleanup", "done", "killed"}]
    /\ hasChunks \in [Calls -> BOOLEAN]
    /\ \A c \in Calls : got[c] \in Seq(1..MaxIn) /\ inCh[c] \in Seq(1..MaxIn)
    /\ feeder \in [Calls -> {"none", "run", "send", "done", "killed"}]
    /\ feedMsg \in [Calls -> 0..MaxIn]
    /\ inClosed \in [Calls -> BOOLEAN]
    /\ written \in Seq([id : Calls, type : Terminals \cup {"stream_chunk"}])
    /\ kind \in [Calls -> Kinds \cup {"none"}]
    /\ fn \in [Calls -> Shapes \cup {"none"}]
    /\ sent \in [Calls -> 0..MaxIn]
    /\ finished \in [Calls -> BOOLEAN]
    /\ refused \in [Calls -> SUBSET (0..MaxIn)]

Init ==
    /\ inbox = <<>>
    /\ up = TRUE
    /\ loop = "read"
    /\ loopMsg = NoFrame
    /\ streams = {}
    /\ buf = [c \in Calls |-> <<>>]
    /\ ended = [c \in Calls |-> FALSE]
    /\ hd = [c \in Calls |-> "none"]
    /\ hasChunks = [c \in Calls |-> FALSE]
    /\ got = [c \in Calls |-> <<>>]
    /\ feeder = [c \in Calls |-> "none"]
    /\ feedMsg = [c \in Calls |-> 0]
    /\ inCh = [c \in Calls |-> <<>>]
    /\ inClosed = [c \in Calls |-> FALSE]
    /\ written = <<>>
    /\ kind = [c \in Calls |-> "none"]
    /\ fn = [c \in Calls |-> "none"]
    /\ sent = [c \in Calls |-> 0]
    /\ finished = [c \in Calls |-> FALSE]
    /\ refused = [c \in Calls |-> {}]

-----------------------------------------------------------------------------
\* Helpers.

\* writeFrame: one Write call per frame; on a lost connection it fails.
Write(c, t) == written' = IF up THEN Append(written, [id |-> c, type |-> t]) ELSE written

Goto(c, s) == hd' = [hd EXCEPT ![c] = s]

\* Write an answer and return: the deferred close(endChan) and cleanup() follow.
Answer(c, t) == Write(c, t) /\ Goto(c, "end")

-----------------------------------------------------------------------------
\* handleConnection.

\* dispatch, for a stream frame without an entry: it names no function, and no function
\* has the empty name, so the answer is NotFoundError.
Stray(m) == Write(m.id, "error")

\* decodeMessage fails, on a value that its decoder refuses (a map with integer keys, say):
\* the frame is skipped, and neither the client nor the call's dispatcher is told.
LoopSkip ==
    /\ Refuses
    /\ loop = "read" /\ inbox # <<>>
    /\ inbox' = Tail(inbox)
    /\ LET m == Head(inbox) IN
       /\ m.type \in {"request", "stream_chunk"}
       /\ refused' = [refused EXCEPT ![m.id] = @ \cup {m.seq}]
    /\ UNCHANGED <<up, loop, loopMsg, streams, buf, hdVars, feedVars, written, clientVars>>

\* A request is registered and gets its dispatcher.  A stream frame of a registered
\* call goes to the select below; without an entry it falls through to dispatch.
LoopRead ==
    /\ loop = "read" /\ inbox # <<>>
    /\ inbox' = Tail(inbox)
    /\ LET m == Head(inbox) IN
       \/ /\ m.type = "request"
          /\ streams' = streams \cup {m.id}
          /\ Goto(m.id, "start")
          /\ UNCHANGED <<loop, loopMsg, refused, written>>
       \/ /\ m.type \in StreamTypes /\ m.id \in streams
          /\ loop' = "hand" /\ loopMsg' = m
          /\ UNCHANGED <<streams, refused, hd, written>>
       \/ /\ m.type \in StreamTypes /\ m.id \notin streams
          /\ Stray(m)
          /\ UNCHANGED <<loopVars, hd>>
    /\ UNCHANGED <<up, buf, ended, hasChunks, got, feedVars, clientVars>>

\* Mutant: hand over without watching for the end of the call.
LoopHandBlindly ==
    /\ loop = "hand"
    /\ Len(buf[loopMsg.id]) < ChanCap
    /\ buf' = [buf EXCEPT ![loopMsg.id] = Append(@, loopMsg)]
    /\ loop' = "read" /\ loopMsg' = NoFrame
    /\ UNCHANGED <<inbox, up, streams, refused, hdVars, feedVars, written, clientVars>>

\* Mutant: a channel without a bound.
LoopHandUnbounded ==
    /\ loop = "hand"
    /\ buf' = [buf EXCEPT ![loopMsg.id] = Append(@, loopMsg)]
    /\ loop' = "read" /\ loopMsg' = NoFrame
    /\ UNCHANGED <<inbox, up, streams, refused, hdVars, feedVars, written, clientVars>>

\* select { case pending.chunksChan <- msg: case <-pending.end: }
LoopHand ==
    /\ loop = "hand"
    /\ LET c == loopMsg.id IN
       \/ /\ Len(buf[c]) < ChanCap
          /\ buf' = [buf EXCEPT ![c] = Append(@, loopMsg)]
       \/ /\ ended[c]
          /\ UNCHANGED buf
    /\ loop' = "read" /\ loopMsg' = NoFrame
    /\ UNCHANGED <<inbox, up, streams, refused, hdVars, feedVars, written, clientVars>>

\* readFrame fails: the loop returns and tells no dispatcher.
LoopEnd ==
    /\ loop = "read" /\ ~up
    /\ loop' = "dead"
    /\ UNCHANGED <<inbox, up, loopMsg, streams, refused, buf, hdVars, feedVars, written, clientVars>>

-----------------------------------------------------------------------------
\* dispatchClientOrUnary, for a request without the stream flag.

\* Mutant: no return after the NotFoundError.
StartFallsThrough(c) ==
    /\ hd[c] = "start" /\ kind[c] # "bidi"
    /\ IF fn[c] = "absent" THEN Write(c, "error") ELSE UNCHANGED written
    /\ Goto(c, "select")
    /\ UNCHANGED <<inbox, up, loopVars, buf, ended, hasChunks, got, feedVars, clientVars>>

\* Look the function up.
Start(c) ==
    /\ hd[c] = "start" /\ kind[c] # "bidi"
    /\ IF fn[c] = "absent"
         THEN Answer(c, "error")
         ELSE Goto(c, "select") /\ UNCHANGED written
    /\ UNCHANGED <<inbox, up, loopVars, buf, ended, hasChunks, got, feedVars, clientVars>>

\* Mutant: the chunk that identified the call as client streaming is not kept.
FirstFrameDropped(c) ==
    /\ hd[c] = "select" /\ buf[c] # <<>>
    /\ buf' = [buf EXCEPT ![c] = Tail(@)]
    /\ IF Head(buf[c]).type = "stream_chunk"
         THEN hasChunks' = [hasChunks EXCEPT ![c] = TRUE] /\ Goto(c, "collect")
         ELSE Goto(c, "invoke") /\ UNCHANGED hasChunks
    /\ UNCHANGED <<inbox, up, loopVars, ended, got, feedVars, written, clientVars>>

\* Mutant: any first frame starts the collection, the terminal one included.
FirstFrameCollects(c) ==
    /\ hd[c] = "select" /\ buf[c] # <<>>
    /\ buf' = [buf EXCEPT ![c] = Tail(@)]
    /\ hasChunks' = [hasChunks EXCEPT ![c] = TRUE]
    /\ got' = IF Head(buf[c]).type = "stream_chunk"
                THEN [got EXCEPT ![c] = <<Head(buf[c]).seq>>] ELSE got
    /\ Goto(c, "collect")
    /\ UNCHANGED <<inbox, up, loopVars, ended, feedVars, written, clientVars>>

\* The first stream frame arrives before the timer: a chunk makes the call client
\* streaming, anything else leaves it unary.
FirstFrame(c) ==
    /\ hd[c] = "select" /\ buf[c] # <<>>
    /\ buf' = [buf EXCEPT ![c] = Tail(@)]
    /\ LET m == Head(buf[c]) IN
       IF m.type = "stream_chunk"
         THEN /\ hasChunks' = [hasChunks EXCEPT ![c] = TRUE]
              /\ got' = [got EXCEPT ![c] = <<m.seq>>]
              /\ Goto(c, "collect")
         ELSE Goto(c, "invoke") /\ UNCHANGED <<hasChunks, got>>
    /\ UNCHANGED <<inbox, up, loopVars, ended, feedVars, written, clientVars>>

\* time.After(10 * time.Millisecond).  Without Late the frames of a client stream
\* come in time.
Timer(c) ==
    /\ hd[c] = "select"
    /\ Late \/ kind[c] = "call"
    /\ Goto(c, "invoke")
    /\ UNCHANGED <<inbox, up, loopVars, buf, ended, hasChunks, got, feedVars, written, clientVars>>

\* Mutant: the collecting loop is left after one frame.
CollectOnce(c) ==
    /\ hd[c] = "collect" /\ buf[c] # <<>>
    /\ buf' = [buf EXCEPT ![c] = Tail(@)]
    /\ got' = IF Head(buf[c]).type = "stream_chunk"
                THEN [got EXCEPT ![c] = Append(@, Head(buf[c]).seq)] ELSE got
    /\ Goto(c, "invoke")
    /\ UNCHANGED <<inbox, up, loopVars, ended, hasChunks, feedVars, written, clientVars>>

\* The collecting loop: until stream_close; stream_end is skipped.
Collect(c) ==
    /\ hd[c] = "collect" /\ buf[c] # <<>>
    /\ buf' = [buf EXCEPT ![c] = Tail(@)]
    /\ LET m == Head(buf[c]) IN
       /\ got' = IF m.type = "stream_chunk" THEN [got EXCEPT ![c] = Append(@, m.seq)] ELSE got
       /\ IF m.type = "stream_close" THEN Goto(c, "invoke") ELSE UNCHANGED hd
    /\ UNCHANGED <<inbox, up, loopVars, ended, hasChunks, feedVars, written, clientVars>>

\* The function is called with the collected chunks: its first parameter is a channel.
TakesChunks(c) == hasChunks[c] /\ fn[c] \in {"chanIn", "chanBoth"}

\* What the call can be answered with.  The arguments of a request without chunks do
\* not fit a function that wants a channel (TypeError); a channel is not encodable
\* (InternalError); a function may return an error or a value that is not encodable.
Answers(c) ==
    IF fn[c] = "value" \/ (TakesChunks(c) /\ fn[c] = "chanIn")
      THEN {"response", "error"}
      ELSE {"error"}

InvokeAnswer(c) ==
    /\ hd[c] = "invoke" /\ kind[c] # "bidi"
    /\ \E t \in Answers(c) : Answer(c, t)
    /\ UNCHANGED <<inbox, up, loopVars, buf, ended, hasChunks, got, feedVars, clientVars>>

\* The function returned a channel: dispatchStream forwards what it emits.
InvokeStream(c) ==
    /\ hd[c] = "invoke" /\ kind[c] # "bidi" /\ fn[c] = "chanOut"
    /\ Goto(c, "emit")
    /\ UNCHANGED <<inbox, up, loopVars, buf, ended, hasChunks, got, feedVars, written, clientVars>>

-----------------------------------------------------------------------------
\* dispatchStream, and the output loop of dispatchBidiStream.

Emitted(c) == Len(SelectSeq(written, LAMBDA m : m = [id |-> c, type |-> "stream_chunk"]))

EmitChunk(c) ==
    /\ hd[c] = "emit" /\ Emitted(c) < MaxOut
    /\ Write(c, "stream_chunk")
    /\ IF up THEN UNCHANGED hd ELSE Goto(c, "end")
    /\ UNCHANGED <<inbox, up, loopVars, buf, ended, hasChunks, got, feedVars, clientVars>>

\* The output channel is closed.
EmitEnd(c) ==
    /\ hd[c] = "emit"
    /\ Answer(c, "stream_end")
    /\ UNCHANGED <<inbox, up, loopVars, buf, ended, hasChunks, got, feedVars, clientVars>>

\* A chunk cannot be encoded.
EmitError(c) ==
    /\ hd[c] = "emit"
    /\ Answer(c, "error")
    /\ UNCHANGED <<inbox, up, loopVars, buf, ended, hasChunks, got, feedVars, clientVars>>

-----------------------------------------------------------------------------
\* The deferred calls of both dispatchers: close(endChan), then cleanup().

CloseEnd(c) ==
    /\ hd[c] = "end"
    /\ ended' = [ended EXCEPT ![c] = TRUE]
    /\ Goto(c, "cleanup")
    /\ UNCHANGED <<inbox, up, loopVars, buf, hasChunks, got, feedVars, written, clientVars>>

\* Mutant: the entry stays in the map.
CleanupForgotten(c) ==
    /\ hd[c] = "cleanup"
    /\ Goto(c, "done")
    /\ UNCHANGED <<inbox, up, loopVars, buf, ended, hasChunks, got, feedVars, written, clientVars>>

Cleanup(c) ==
    /\ hd[c] = "cleanup"
    /\ streams' = streams \ {c}
    /\ Goto(c, "done")
    /\ UNCHANGED <<inbox, up, loop, loopMsg, refused, buf, ended, hasChunks, got, feedVars, written,
                   clientVars>>

-----------------------------------------------------------------------------
\* dispatchBidiStream, for a request with the stream flag.

\* Look the function up, check its shape, start the feeder.
BidiStart(c) ==
    /\ hd[c] = "start" /\ kind[c] = "bidi"
    /\ IF fn[c] = "chanBoth"
         THEN /\ feeder' = [feeder EXCEPT ![c] = "run"]
              /\ Goto(c, "invoke")
              /\ UNCHANGED written
         ELSE Answer(c, "error") /\ UNCHANGED feeder
    /\ UNCHANGED <<inbox, up, loopVars, buf, ended, hasChunks, got, feedMsg, inCh, inClosed,
                   clientVars>>

\* The call returns its output channel, or an error up front.
BidiInvoke(c) ==
    /\ hd[c] = "invoke" /\ kind[c] = "bidi"
    /\ \/ Goto(c, "emit") /\ UNCHANGED written
       \/ Answer(c, "error")
    /\ UNCHANGED <<inbox, up, loopVars, buf, ended, hasChunks, got, feedVars, clientVars>>

\* Mutant: the feeder leaves at stream_end without closing the input channel.
FeederTakeNoClose(c) ==
    /\ feeder[c] = "run" /\ buf[c] # <<>>
    /\ buf' = [buf EXCEPT ![c] = Tail(@)]
    /\ LET m == Head(buf[c]) IN
       /\ feeder' = [feeder EXCEPT ![c] = IF m.type = "stream_chunk" THEN "send" ELSE "done"]
       /\ feedMsg' = [feedMsg EXCEPT ![c] = m.seq]
    /\ UNCHANGED <<inbox, up, loopVars, hdVars, inCh, inClosed, written, clientVars>>

\* case msg := <-chunksChan: a stream_close is ignored.
FeederTake(c) ==
    /\ feeder[c] = "run" /\ buf[c] # <<>>
    /\ buf' = [buf EXCEPT ![c] = Tail(@)]
    /\ LET m == Head(buf[c]) IN
       \/ /\ m.type = "stream_chunk"
          /\ feeder' = [feeder EXCEPT ![c] = "send"]
          /\ feedMsg' = [feedMsg EXCEPT ![c] = m.seq]
          /\ UNCHANGED inClosed
       \/ /\ m.type = "stream_end"
          /\ feeder' = [feeder EXCEPT ![c] = "done"]
          /\ inClosed' = [inClosed EXCEPT ![c] = TRUE]
          /\ UNCHANGED feedMsg
       \/ /\ m.type = "stream_close"
          /\ UNCHANGED <<feeder, feedMsg, inClosed>>
    /\ UNCHANGED <<inbox, up, loopVars, hdVars, inCh, written, clientVars>>

\* Mutant: a chunk is dropped when the function's input channel is full.
FeederSendOrDrop(c) ==
    /\ feeder[c] = "send"
    /\ inCh' = IF Len(inCh[c]) < InCap THEN [inCh EXCEPT ![c] = Append(@, feedMsg[c])] ELSE inCh
    /\ feeder' = [feeder EXCEPT ![c] = "run"]
    /\ feedMsg' = [feedMsg EXCEPT ![c] = 0]
    /\ UNCHANGED <<inbox, up, loopVars, buf, hdVars, inClosed, written, clientVars>>

\* inCh.Send, outside the select: it waits for room and for nothing else.
FeederSend(c) ==
    /\ feeder[c] = "send" /\ Len(inCh[c]) < InCap
    /\ inCh' = [inCh EXCEPT ![c] = Append(@, feedMsg[c])]
    /\ feeder' = [feeder EXCEPT ![c] = "run"]
    /\ feedMsg' = [feedMsg EXCEPT ![c] = 0]
    /\ UNCHANGED <<inbox, up, loopVars, buf, hdVars, inClosed, written, clientVars>>

\* case <-endChan.
FeederEnd(c) ==
    /\ feeder[c] = "run" /\ ended[c]
    /\ feeder' = [feeder EXCEPT ![c] = "done"]
    /\ inClosed' = [inClosed EXCEPT ![c] = TRUE]
    /\ UNCHANGED <<inbox, up, loopVars, buf, hdVars, feedMsg, inCh, written, clientVars>>

\* The bidirectional function receives from its input.
HandlerTake(c) ==
    /\ hd[c] \in {"invoke", "emit"} /\ inCh[c] # <<>>
    /\ got' = [got EXCEPT ![c] = Append(@, Head(inCh[c]))]
    /\ inCh' = [inCh EXCEPT ![c] = Tail(@)]
    /\ UNCHANGED <<inbox, up, loopVars, buf, ended, hd, hasChunks, feeder, feedMsg, inClosed,
                   written, clientVars>>

-----------------------------------------------------------------------------
\* The function panics, or reflect does when a chunk is sent to a channel of another
\* element type.  Neither goroutine recovers: the process dies, every call with it.
Panic(c) ==
    /\ Panics
    /\ \/ hd[c] = "invoke"
          /\ (fn[c] \in {"value", "chanOut"} \/ TakesChunks(c) \/ kind[c] = "bidi")
       \/ feeder[c] = "send"
    /\ up' = FALSE
    /\ loop' = "killed" /\ loopMsg' = NoFrame
    /\ hd' = [d \in Calls |-> "killed"]
    /\ feeder' = [d \in Calls |-> "killed"]
    /\ UNCHANGED <<inbox, streams, refused, buf, ended, hasChunks, got, feedMsg, inCh, inClosed,
                   written, clientVars>>

-----------------------------------------------------------------------------
\* The client and the network.

ClientOpen(c) ==
    /\ kind[c] = "none" /\ up
    /\ \E k \in Kinds, f \in Shapes :
         kind' = [kind EXCEPT ![c] = k] /\ fn' = [fn EXCEPT ![c] = f]
    /\ inbox' = Append(inbox, Frame(c, "request", 0))
    /\ UNCHANGED <<up, loopVars, buf, hdVars, feedVars, written, sent, finished>>

ClientChunk(c) ==
    /\ kind[c] \in {"upload", "bidi"} /\ ~finished[c] /\ up /\ sent[c] < MaxIn
    /\ sent' = [sent EXCEPT ![c] = @ + 1]
    /\ inbox' = Append(inbox, Frame(c, "stream_chunk", sent[c] + 1))
    /\ UNCHANGED <<up, loopVars, buf, hdVars, feedVars, written, kind, fn, finished>>

\* A client stream has at least one chunk (SPEC.md:77).
ClientFinish(c) ==
    /\ kind[c] \in {"upload", "bidi"} /\ ~finished[c] /\ up
    /\ kind[c] = "upload" => sent[c] > 0
    /\ finished' = [finished EXCEPT ![c] = TRUE]
    /\ inbox' = Append(inbox, Frame(c, IF kind[c] = "bidi" THEN "stream_end" ELSE "stream_close", 0))
    /\ UNCHANGED <<up, loopVars, buf, hdVars, feedVars, written, kind, fn, sent>>

\* Frames already received may still be read, or be lost.
ConnDrop ==
    /\ Drops /\ up
    /\ up' = FALSE
    /\ UNCHANGED <<inbox, loopVars, buf, hdVars, feedVars, written, clientVars>>

-----------------------------------------------------------------------------
DispatchStep(c) ==
    \/ Start(c) \/ FirstFrame(c) \/ Timer(c) \/ Collect(c) \/ InvokeAnswer(c)
    \/ InvokeStream(c) \/ EmitChunk(c) \/ EmitEnd(c) \/ EmitError(c)
    \/ BidiStart(c) \/ BidiInvoke(c) \/ CloseEnd(c) \/ Cleanup(c)

FeederStep(c) == FeederTake(c) \/ FeederSend(c) \/ FeederEnd(c)

LoopStep == LoopSkip \/ LoopRead \/ LoopHand \/ LoopEnd

ServerStep ==
    \/ LoopStep
    \/ \E c \in Calls : DispatchStep(c) \/ FeederStep(c) \/ HandlerTake(c) \/ Panic(c)

ClientStep == \E c \in Calls : ClientOpen(c) \/ ClientChunk(c) \/ ClientFinish(c)

Next == ServerStep \/ ClientStep \/ ConnDrop

Spec == Init /\ [][Next]_vars

\* Every goroutine that can run does; the timer fires; a client finishes its stream and
\* takes in what is written to it (conn.Write has no deadline); an exported function reads
\* its input and returns, a bidirectional one when its input has ended.
Fairness ==
    /\ WF_vars(LoopStep)
    /\ \A c \in Calls :
         /\ WF_vars(Start(c)) /\ WF_vars(FirstFrame(c) \/ Timer(c)) /\ WF_vars(Collect(c))
         /\ WF_vars(InvokeAnswer(c) \/ InvokeStream(c))
         /\ WF_vars(EmitEnd(c) /\ (kind[c] = "bidi" => inClosed[c] /\ inCh[c] = <<>>))
         /\ WF_vars(BidiStart(c)) /\ WF_vars(BidiInvoke(c))
         /\ WF_vars(CloseEnd(c)) /\ WF_vars(Cleanup(c))
         /\ WF_vars(FeederStep(c)) /\ WF_vars(HandlerTake(c))
         /\ WF_vars(ClientFinish(c))

FairSpec == Spec /\ Fairness

-----------------------------------------------------------------------------
\* Properties.

Upto(n) == [i \in 1..n |-> i]

IsChunk(m, c) == m.id = c /\ m.type = "stream_chunk"

\* The numbers of the chunks of call c among the frames w.
Chunks(w, c) ==
    LET chunks == SelectSeq(w, LAMBDA m : IsChunk(m, c)) IN [k \in 1..Len(chunks) |-> chunks[k].seq]

\* The chunks of call c from its function back to the network.
Path(c) ==
    (got[c] \o inCh[c]) \o (IF feeder[c] = "send" THEN <<feedMsg[c]>> ELSE <<>>)
        \o Chunks(buf[c] \o <<loopMsg>> \o inbox, c)

\* The chunks 1 to n of call c without those that decodeMessage refused.
Decodable(c, n) == SelectSeq(Upto(n), LAMBDA k : k \notin refused[c])

\* Until its dispatcher has returned (or the process died), no chunk that can be decoded is
\* lost, duplicated or overtaken on its way through the connection loop, chunksChan, the
\* collector or the feeder (server.go:156-169, 416-427, 647-666).  A chunk that cannot be
\* decoded is the one gap (server.go:154-157); a call whose request was one has no entry.
ChunksInOrder ==
    \A c \in Calls :
      ~ended[c] /\ loop # "killed" /\ 0 \notin refused[c] => Path(c) = Decodable(c, sent[c])

\* A client-streaming function is called only after the client has finished, and with
\* every chunk it sent (server.go:387-388: "waits for stream_close, then invokes the
\* function with all chunks") but those decodeMessage refused, however the timer, the loop
\* and the collector interleave.
InvokedWithAll ==
    \A c \in Calls :
      hd[c] = "invoke" /\ TakesChunks(c) => finished[c] /\ got[c] = Decodable(c, sent[c])

\* The frames of call c written after the i-th one, by position.
Later(c, i) == {j \in (i + 1)..Len(written) : written[j].id = c}

\* After a call's answer the server writes nothing more for it but one NotFoundError for
\* a stream frame of the client that found no entry (server.go:200-203): a call whose
\* client sends only the request is answered at most once.
OnlyStraysAfterAnswer ==
    \A c \in Calls : \A i \in 1..Len(written) :
      written[i].id = c /\ written[i].type \in Terminals =>
        /\ \A j \in Later(c, i) : written[j].type = "error"
        /\ Cardinality(Later(c, i)) <= sent[c] + (IF finished[c] THEN 1 ELSE 0)

\* Every entry of the streams map belongs to a dispatcher that has yet to return: none
\* is left behind, whichever return the dispatcher takes (server.go:390-391, 606-607).
NoEntryLeaks == loop # "killed" => \A c \in Calls : c \in streams <=> hd[c] \notin {"none", "done"}

\* The connection loop does not stay blocked on one call's full channel
\* (server.go:161-167): the dispatcher or the feeder receives, or endChan is closed.
LoopUnblocks == loop = "hand" ~> loop # "hand"

\* A dispatcher returns, or a panic ends the process, or its connection is gone and it waits for stream frames that
\* nobody will deliver (server.go:417 and 649: handleConnection tells no dispatcher).
DispatchEnds ==
    \A c \in Calls :
      hd[c] = "start" ~>
        \/ hd[c] \in {"done", "killed"}
        \/ loop = "dead" /\ (hd[c] = "collect" \/ (hd[c] = "emit" /\ feeder[c] = "run"))

\* A call gets one terminal frame (SPEC.md:77, "Server then replies with one `response`
\* or `error` frame"; SPEC.md:80 for stream_end).
AnsweredOnce ==
    \A i, j \in 1..Len(written) :
      written[i].id = written[j].id /\ {written[i].type, written[j].type} \subseteq Terminals => i = j
=============================================================================
