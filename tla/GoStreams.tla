----------------------------- MODULE GoStreams ------------------------------
(***************************************************************************)
(* The Go client's ClientStream and BidiStream (go/callwire/client.go)     *)
(* against the Go server.  Send queues a chunk for a goroutine that writes *)
(* the queue to the connection; CloseAndRecv and CloseSend write the       *)
(* terminal frame themselves.  The module has the streams of one           *)
(* connection, and what becomes of them when the client is closed or gets  *)
(* another connection; a stream whose request goes to the next connection  *)
(* is a stream of that one.                                                *)
(***************************************************************************)
EXTENDS GoServer

CONSTANTS
    SendCap,    \* capacity of reqChan and sendChan (64 in the code)
    RecvCap,    \* capacity of recvChan (256)
    Opaque,     \* may a result be a value the client's decodeMessage refuses?
    Replaced    \* may the client be closed, or reconnect, once, while streams are open?

ASSUME GoStreamsAssumption ==
    /\ SendCap \in Nat \ {0}
    /\ RecvCap \in Nat \ {0}
    /\ Opaque \in BOOLEAN
    /\ Replaced \in BOOLEAN

VARIABLES
    conn,       \* c.conn: "this", "other" or "nil"; "killed" when the client's process died
    opened,     \* opened[c]: "none", "registered" (before its request) or "open"
    queue,      \* queue[c]: contents of reqChan or sendChan
    pump,       \* pump[c]: the chunk the sending goroutine has taken, 0 for none
    accepted,   \* accepted[c]: chunks for which Send returned nil
    astray,     \* streams with a frame written to the other connection
    pending,    \* domain of the client's pending map
    rd,         \* the reader of this connection: "read", "hand", "drain" or "done"
    hand,       \* the frame it is sending to a channel
    next,       \* position in `written` of the next frame it reads
    skipped,    \* positions of the frames it could not decode
    resp,       \* resp[c]: contents of respCh or recvChan
    outcome     \* outcome[c]: how the call ended for the application

appVars == <<opened, queue, pump, accepted, astray>>
readVars == <<rd, hand, next, skipped>>
goVars == <<conn, appVars, pending, readVars, resp, outcome>>
serverVars == <<up, loopVars, buf, hdVars, feedVars, written>>

NoAnswer == [id |-> 0, type |-> "none"]

StreamInit ==
    /\ Init
    /\ conn = "this"
    /\ opened = [c \in Calls |-> "none"]
    /\ queue = [c \in Calls |-> <<>>]
    /\ pump = [c \in Calls |-> 0]
    /\ accepted = [c \in Calls |-> 0]
    /\ astray = {}
    /\ pending = {}
    /\ rd = "read"
    /\ hand = NoAnswer
    /\ next = 1
    /\ skipped = {}
    /\ resp = [c \in Calls |-> <<>>]
    /\ outcome = [c \in Calls |-> "none"]

-----------------------------------------------------------------------------
\* Opening and sending.

\* writeFrame(c.conn, ...): c.conn is read without c.mu, so it is the connection of the
\* moment.  A write to a lost connection changes nothing; most callers ignore its error.
WireIn(c, f) ==
    /\ inbox' = IF conn = "this" /\ up THEN Append(inbox, f) ELSE inbox
    /\ astray' = IF conn = "other" THEN astray \cup {c} ELSE astray

\* writeFrame on a nil net.Conn panics, and nothing recovers.
WriteToNil ==
    /\ conn = "nil"
    /\ conn' = "killed"
    /\ UNCHANGED <<serverVars, inbox, clientVars, appVars, pending, readVars, resp, outcome>>

\* ExportStream and ImportBidi take pendingMu, which drainPending holds to its end.
StreamOpen(c) ==
    /\ conn # "killed" /\ opened[c] = "none" /\ rd # "drain"
    /\ \E k \in Kinds, f \in Shapes :
         kind' = [kind EXCEPT ![c] = k] /\ fn' = [fn EXCEPT ![c] = f]
    /\ opened' = [opened EXCEPT ![c] = "registered"]
    /\ pending' = pending \cup {c}
    /\ UNCHANGED <<serverVars, inbox, sent, finished, conn, queue, pump, accepted, astray, readVars,
                   resp, outcome>>

\* They write the request, unless the client is closed, and start the sending goroutine.
StreamRequest(c) ==
    /\ conn \in {"this", "nil"} /\ opened[c] = "registered"
    /\ WireIn(c, Frame(c, "request", 0))
    /\ opened' = [opened EXCEPT ![c] = "open"]
    /\ UNCHANGED <<serverVars, clientVars, conn, queue, pump, accepted, pending, readVars, resp, outcome>>

\* Send: waits for room in the queue.
StreamSend(c) ==
    /\ conn # "killed" /\ opened[c] = "open" /\ ~finished[c]
    /\ accepted[c] < MaxIn /\ Len(queue[c]) < SendCap
    /\ accepted' = [accepted EXCEPT ![c] = @ + 1]
    /\ queue' = [queue EXCEPT ![c] = Append(@, accepted[c] + 1)]
    /\ UNCHANGED <<serverVars, inbox, clientVars, conn, opened, pump, astray, pending, readVars, resp,
                   outcome>>

\* for req := range reqChan
PumpTake(c) ==
    /\ conn # "killed" /\ pump[c] = 0 /\ queue[c] # <<>>
    /\ pump' = [pump EXCEPT ![c] = Head(queue[c])]
    /\ queue' = [queue EXCEPT ![c] = Tail(@)]
    /\ UNCHANGED <<serverVars, inbox, clientVars, conn, opened, accepted, astray, pending, readVars, resp,
                   outcome>>

\* writeFrame(c.conn, chunk), under writeMu.
PumpWrite(c) ==
    /\ pump[c] # 0
    /\ \/ /\ conn \in {"this", "other"}
          /\ WireIn(c, Frame(c, "stream_chunk", pump[c]))
          /\ sent' = [sent EXCEPT ![c] = @ + 1]
          /\ pump' = [pump EXCEPT ![c] = 0]
          /\ UNCHANGED <<serverVars, kind, fn, finished, conn, opened, queue, accepted, pending, readVars,
                         resp, outcome>>
       \/ WriteToNil

\* CloseAndRecv and CloseSend close the queue, which the goroutine still empties, and
\* write the terminal frame; a failed write is CloseAndRecv's result, but the kernel may
\* accept a write to a lost connection.
StreamFinish(c) ==
    /\ opened[c] = "open" /\ ~finished[c]
    /\ \/ /\ conn \in {"this", "other"}
          /\ finished' = [finished EXCEPT ![c] = TRUE]
          /\ WireIn(c, Frame(c, IF kind[c] = "bidi" THEN "stream_end" ELSE "stream_close", 0))
          /\ \/ UNCHANGED outcome
             \/ /\ conn = "this" /\ ~up /\ kind[c] = "upload"
                /\ outcome' = [outcome EXCEPT ![c] = "write"]
          /\ UNCHANGED <<serverVars, kind, fn, sent, conn, opened, queue, pump, accepted, pending, readVars,
                         resp>>
       \/ WriteToNil

-----------------------------------------------------------------------------
\* The reader.

\* make(chan wireMessage, 1) in ExportStream, 256 in ImportBidi.
Room(c) == Len(resp[c]) < (IF kind[c] = "upload" THEN 1 ELSE RecvCap)

\* decodeMessage refuses a result of the function: the frame is skipped, and a terminal
\* one does not end its call.
RouteSkip ==
    /\ Opaque /\ conn # "killed"
    /\ rd = "read" /\ next <= Len(written)
    /\ written[next].type \in {"response", "stream_chunk"}
    /\ next' = next + 1
    /\ skipped' = skipped \cup {next}
    /\ UNCHANGED <<serverVars, inbox, clientVars, conn, appVars, pending, rd, hand, resp, outcome>>

\* Mutant: the reader keeps the entry of an answered call.
StreamRouteKeeps ==
    /\ conn # "killed" /\ rd = "read" /\ next <= Len(written)
    /\ next' = next + 1
    /\ IF written[next].id \in pending
         THEN rd' = "hand" /\ hand' = written[next]
         ELSE UNCHANGED <<rd, hand>>
    /\ UNCHANGED <<serverVars, inbox, clientVars, conn, appVars, pending, skipped, resp, outcome>>

\* A frame is for the channel of its call; a terminal one also removes the entry; a frame
\* without an entry is dropped.
StreamRoute ==
    /\ conn # "killed" /\ rd = "read" /\ next <= Len(written)
    /\ next' = next + 1
    /\ LET m == written[next] IN
       IF m.id \in pending
         THEN /\ rd' = "hand" /\ hand' = m
              /\ pending' = IF m.type \in Terminals THEN pending \ {m.id} ELSE pending
         ELSE UNCHANGED <<rd, hand, pending>>
    /\ UNCHANGED <<serverVars, inbox, clientVars, conn, appVars, skipped, resp, outcome>>

\* ch <- msg waits for room in the channel.
StreamDeliver ==
    /\ conn # "killed" /\ rd = "hand" /\ Room(hand.id)
    /\ resp' = [resp EXCEPT ![hand.id] = Append(@, hand.type)]
    /\ rd' = "read" /\ hand' = NoAnswer
    /\ UNCHANGED <<serverVars, inbox, clientVars, conn, appVars, pending, next, skipped, outcome>>

\* readFrame fails, and drainPending begins; or the reader finds the client closed, and
\* returns without draining.
StreamReadEnd ==
    /\ conn # "killed" /\ rd = "read"
    /\ \/ ~up /\ rd' = "drain"
       \/ conn = "nil" /\ rd' = "done"
    /\ UNCHANGED <<serverVars, inbox, clientVars, conn, appVars, pending, hand, next, skipped, resp, outcome>>

\* drainPending, with pendingMu held: ch <- error waits for room, then the entry goes.
StreamDrain(c) ==
    /\ conn # "killed" /\ rd = "drain" /\ c \in pending /\ Room(c)
    /\ resp' = [resp EXCEPT ![c] = Append(@, "lost")]
    /\ pending' = pending \ {c}
    /\ UNCHANGED <<serverVars, inbox, clientVars, conn, appVars, readVars, outcome>>

StreamDrainDone ==
    /\ conn # "killed" /\ rd = "drain" /\ pending = {}
    /\ rd' = "done"
    /\ UNCHANGED <<serverVars, inbox, clientVars, conn, appVars, pending, hand, next, skipped, resp, outcome>>

-----------------------------------------------------------------------------
\* Receiving.

\* CloseAndRecv after its write, and BidiStream.Recv.
StreamRecv(c) ==
    /\ conn # "killed"
    /\ resp[c] # <<>>
    /\ outcome[c] = "none"
    /\ kind[c] = "upload" => finished[c]
    /\ resp' = [resp EXCEPT ![c] = Tail(@)]
    /\ outcome' = IF Head(resp[c]) # "stream_chunk"
                    THEN [outcome EXCEPT ![c] = Head(resp[c])] ELSE outcome
    /\ UNCHANGED <<serverVars, inbox, clientVars, conn, appVars, pending, readVars>>

\* case <-s.ctx.Done() of CloseAndRecv.
StreamTimeout(c) ==
    /\ conn # "killed" /\ kind[c] = "upload" /\ finished[c] /\ outcome[c] = "none"
    /\ outcome' = [outcome EXCEPT ![c] = "timeout"]
    /\ UNCHANGED <<serverVars, inbox, clientVars, conn, appVars, pending, readVars, resp>>

-----------------------------------------------------------------------------
\* The client under its streams.

\* Client.Close: c.conn becomes nil and the connection is closed.
ClientClose ==
    /\ Replaced /\ conn = "this"
    /\ conn' = "nil"
    /\ up' = FALSE
    /\ UNCHANGED <<inbox, loopVars, buf, hdVars, feedVars, written, clientVars, appVars, pending, readVars,
                   resp, outcome>>

\* readLoopWithReconnect installs a new connection after its drain.
ClientReconnect ==
    /\ Replaced /\ conn = "this" /\ rd = "done"
    /\ conn' = "other"
    /\ UNCHANGED <<serverVars, inbox, clientVars, appVars, pending, readVars, resp, outcome>>

\* A stream frame that reached the other connection is answered there with NotFoundError,
\* which goes to a stream that registered after the drain.
AnswerElsewhere(c) ==
    /\ conn = "other" /\ c \in astray /\ c \in pending /\ Room(c)
    /\ resp' = [resp EXCEPT ![c] = Append(@, "elsewhere")]
    /\ pending' = pending \ {c}
    /\ UNCHANGED <<serverVars, inbox, clientVars, conn, appVars, readVars, outcome>>

-----------------------------------------------------------------------------
ReaderStep ==
    \/ RouteSkip \/ StreamRoute \/ StreamDeliver \/ StreamReadEnd \/ StreamDrainDone
    \/ \E c \in Calls : StreamDrain(c)

GoClientStep ==
    \/ ReaderStep \/ ClientClose \/ ClientReconnect
    \/ \E c \in Calls :
         \/ StreamOpen(c) \/ StreamRequest(c) \/ StreamSend(c) \/ PumpTake(c) \/ PumpWrite(c)
         \/ StreamFinish(c) \/ StreamRecv(c) \/ StreamTimeout(c) \/ AnswerElsewhere(c)

StreamNext ==
    \/ GoClientStep
    \/ (ServerStep \/ ConnDrop) /\ UNCHANGED goVars

streamVars == <<vars, goVars>>

StreamSpec == StreamInit /\ [][StreamNext]_streamVars

\* Some goroutine runs as long as one can: the server's, the sending one, the reader or a
\* waiting application.  The connection takes in what is written to it; deadlines are not
\* relied on.
GoroutineStep ==
    \/ ReaderStep
    \/ LoopStep /\ UNCHANGED goVars
    \/ \E c \in Calls :
         \/ (DispatchStep(c) \/ FeederStep(c)) /\ UNCHANGED goVars
         \/ PumpTake(c) \/ PumpWrite(c) \/ StreamRecv(c)

FairStreamSpec == StreamSpec /\ WF_streamVars(GoroutineStep)

-----------------------------------------------------------------------------
\* Properties.

\* What a function has received is the beginning of what Send accepted, in that order,
\* whatever the sending goroutine, the collector or the feeder do (client.go:550-558), and
\* whichever connection the goroutine finds in c.conn.
DeliveredPrefix ==
    \A c \in Calls : got[c] = Upto(Len(got[c])) /\ Len(got[c]) <= accepted[c]

\* The application gets the first terminal frame of its call that the client can decode,
\* and no second one is left in its channel or in the reader's hand: the NotFoundErrors
\* that late stream frames provoke neither reach an answered stream nor fill the one-slot
\* respCh (client.go:159-174).
FirstAnswerCounts ==
    \A c \in Calls :
      outcome[c] \in Terminals =>
        /\ \E i \in (1..Len(written)) \ skipped :
             /\ written[i] = [id |-> c, type |-> outcome[c]]
             /\ \A j \in (1..(i - 1)) \ skipped : written[j].id = c => written[j].type \notin Terminals
        /\ resp[c] = <<>>
        /\ hand.id # c

\* The server's response to call c was a frame the client could not decode.
AnswerSkipped(c) == \E i \in skipped : written[i] = [id |-> c, type |-> "response"]

\* CloseAndRecv is answered without its deadline while the connection lasts, unless the
\* client cannot decode the answer: no order of its frames leaves the server's dispatcher
\* waiting (server.go:409-436), an upload without chunks included, and no full channel
\* keeps the client's reader from it.
UploadAnswered ==
    \A c \in Calls :
      finished[c] /\ kind[c] = "upload" ~> outcome[c] # "none" \/ AnswerSkipped(c) \/ ~up

\* A client-streaming call that succeeds was computed from every chunk Send accepted
\* (SPEC.md:77, stream_close signals "no more chunks").
UploadComplete ==
    \A c \in Calls : kind[c] = "upload" /\ outcome[c] = "response" => Len(got[c]) = accepted[c]
=============================================================================
