------------------------------- MODULE CServer -------------------------------
(***************************************************************************)
(* c/src/server.c: the connections of one C server.  Each connection has a *)
(* thread that reads frames, each request a detached thread of its own.    *)
(* The read loop feeds the input queues of client-streaming and            *)
(* bidirectional calls, which the call's thread frees.  The C++, Swift and *)
(* COBOL servers run on this code.  The clients are the environment.  A    *)
(* connection is known to its calls by the number of its descriptor, which *)
(* the process hands out again once the socket is closed.                  *)
(***************************************************************************)
EXTENDS Naturals, Sequences

CONSTANTS
    MaxCalls,    \* bound on the requests made
    MaxConns,    \* bound on the connections accepted
    Handlers,    \* what requests ask for: kinds of handlers, or "bad"
    MaxIn,       \* bound on the chunks a call sends
    MaxOut       \* bound on the chunks a handler emits

AllHandlers == {"unary", "stream", "client", "bidi", "bad"}

ASSUME CServerAssumption ==
    /\ MaxCalls \in Nat \ {0} /\ MaxConns \in Nat \ {0}
    /\ MaxIn \in Nat /\ MaxOut \in Nat
    /\ Handlers \subseteq AllHandlers

Calls == 1..MaxCalls
Conns == 1..MaxConns
EndMark == 0         \* a chunk_node_t with is_end

VARIABLES
    server,      \* "up", "closed" (and freed), or "crashed"
    link,        \* link[k]: "new", "open", "lost"
    sockfd,      \* sockfd[k]: the descriptor in its conn_state_t, 0 before accept
    loop,        \* loop[k]: where handle_connection is
    held,        \* held[k]: the call whose stream_input_t the read loop holds, 0 for none
    wire,        \* wire[k]: frames sent by the client and not yet read, chunks with their number;
                 \* a request or chunk that the codec refuses is "opaque"
    handler,     \* handler[i]: what request i asks for, "none" before it is made
    conn,        \* conn[i]: the connection it was made on
    sent,        \* sent[i]: chunks the client has sent that the codec accepts
    opaque,      \* opaque[i]: chunks that it refuses
    finished,    \* finished[i]: the client has sent stream_close or stream_end
    inputs,      \* calls whose queue is in conn->inputs
    buf,         \* buf[i]: the queue of call i, chunks numbered from 1
    freed,       \* calls whose stream_input_t has been freed
    stale,       \* calls whose freed stream_input_t was used
    thread,      \* thread[i]: where the call's thread is
    got,         \* got[i]: what recv() has returned to the handler
    ended,       \* ended[i]: recv() has returned 1
    early,       \* early[i]: the handler returned before that
    emitted,     \* emitted[i]: chunks emit() was called with
    terms,       \* terms[i]: terminal frames written or tried
    foreign,     \* calls that wrote a frame to another client's connection
    broken       \* connections on which read_frame failed while they were open

sockVars == <<sockfd, foreign, broken>>
loopVars == <<loop, held>>
clientVars == <<handler, conn, sent, opaque, finished>>
queueVars == <<inputs, buf, freed, stale>>
callVars == <<thread, got, ended, early, emitted, terms>>
vars == <<server, link, sockVars, loopVars, wire, clientVars, queueVars, callVars>>

Frame(i, t) == [id |-> i, type |-> t, n |-> 0]
ChunkFrame(i, k) == [id |-> i, type |-> "chunk", n |-> k]
HasInput(i) == handler[i] \in {"client", "bidi"}
HasOutput(i) == handler[i] \in {"stream", "bidi"}
Alive == server # "crashed"

TypeOK ==
    /\ server \in {"up", "closed", "crashed"}
    /\ link \in [Conns -> {"new", "open", "lost"}] /\ sockfd \in [Conns -> {0} \cup Conns]
    /\ loop \in [Conns -> {"none", "read", "push", "close", "done"}]
    /\ held \in [Conns -> {0} \cup Calls]
    /\ handler \in [Calls -> Handlers \cup {"none"}] /\ conn \in [Calls -> {0} \cup Conns]
    /\ sent \in [Calls -> 0..MaxIn] /\ finished \in [Calls -> BOOLEAN]
    /\ opaque \in [Calls -> 0..MaxIn]
    /\ foreign \subseteq Calls /\ broken \subseteq Conns
    /\ inputs \subseteq Calls /\ freed \subseteq Calls /\ stale \subseteq Calls
    /\ inputs \cap freed = {}
    /\ thread \in [Calls -> {"none", "run", "write", "remove", "free", "done", "never"}]
    /\ \A i \in Calls : Len(got[i]) <= MaxIn
    /\ ended \in [Calls -> BOOLEAN] /\ early \in [Calls -> BOOLEAN]
    /\ emitted \in [Calls -> 0..MaxOut] /\ terms \in [Calls -> Nat]

Init ==
    /\ server = "up"
    /\ link = [k \in Conns |-> "new"] /\ sockfd = [k \in Conns |-> 0]
    /\ foreign = {} /\ broken = {}
    /\ loop = [k \in Conns |-> "none"] /\ held = [k \in Conns |-> 0]
    /\ wire = [k \in Conns |-> <<>>]
    /\ handler = [i \in Calls |-> "none"] /\ conn = [i \in Calls |-> 0]
    /\ sent = [i \in Calls |-> 0] /\ opaque = [i \in Calls |-> 0]
    /\ finished = [i \in Calls |-> FALSE]
    /\ inputs = {} /\ buf = [i \in Calls |-> <<>>] /\ freed = {} /\ stale = {}
    /\ thread = [i \in Calls |-> "none"]
    /\ got = [i \in Calls |-> <<>>]
    /\ ended = [i \in Calls |-> FALSE] /\ early = [i \in Calls |-> FALSE]
    /\ emitted = [i \in Calls |-> 0] /\ terms = [i \in Calls |-> 0]

-----------------------------------------------------------------------------
\* callwire_server_serve and callwire_server_close.

\* The connection's descriptor has not been closed.
Open(k) == loop[k] \in {"read", "push", "close"}

\* accept takes the lowest free descriptor; and a thread for the connection.
Accept(k) ==
    /\ server = "up" /\ link[k] = "new" /\ \A j \in Conns : j < k => link[j] # "new"
    /\ link' = [link EXCEPT ![k] = "open"]
    /\ LET free == {d \in Conns : \A j \in Conns : Open(j) => sockfd[j] # d} IN
       \E d \in free : (\A e \in free : d <= e) /\ sockfd' = [sockfd EXCEPT ![k] = d]
    /\ loop' = [loop EXCEPT ![k] = "read"]
    /\ UNCHANGED <<server, foreign, broken, held, wire, clientVars, queueVars, callVars>>

\* pthread_create fails in callwire_server_serve: the new socket is closed.
AcceptFails(k) ==
    /\ server = "up" /\ link[k] = "new" /\ \A j \in Conns : j < k => link[j] # "new"
    /\ link' = [link EXCEPT ![k] = "lost"]
    /\ UNCHANGED <<server, sockVars, loopVars, wire, clientVars, queueVars, callVars>>

\* callwire_server_close frees the server; connections and calls go on.
Close ==
    /\ server = "up" /\ server' = "closed"
    /\ UNCHANGED <<link, sockVars, loopVars, wire, clientVars, queueVars, callVars>>

-----------------------------------------------------------------------------
\* handle_connection and dispatch_request.

\* The connection a frame of call i written now would go to: whichever has the descriptor.
Reached(i) == {j \in Conns : Open(j) /\ sockfd[j] = sockfd[conn[i]]}

\* conn_write_frame for call i.  With the descriptor closed it fails; a write to a
\* connection that the peer has closed may also end the process with SIGPIPE, which
\* nothing handles.
WritesFrame(i) ==
    /\ foreign' = IF \E j \in Reached(i) : j # conn[i] /\ link[j] = "open" THEN foreign \cup {i} ELSE foreign
    /\ server' \in IF \E j \in Reached(i) : link[j] = "lost" THEN {server, "crashed"} ELSE {server}

NextFrame(k) == Head(wire[k])
Read(k) == wire' = [wire EXCEPT ![k] = Tail(@)]
Reads(k, types) == Alive /\ loop[k] = "read" /\ wire[k] # <<>> /\ NextFrame(k).type \in types

\* Mutant of Refuse: no return after write_error.
RefuseFallsThrough(k) ==
    /\ Reads(k, {"request"}) /\ Read(k)
    /\ LET i == NextFrame(k).id IN
       /\ handler[i] = "bad"
       /\ terms' = [terms EXCEPT ![i] = @ + 1] /\ WritesFrame(i)
       /\ thread' = [thread EXCEPT ![i] = "run"]
    /\ UNCHANGED <<link, sockfd, broken, loopVars, clientVars, queueVars, got, ended, early, emitted>>

\* No func, not exported, or a stream flag that does not fit the handler: write_error.  A
\* lookup in a freed server may also come to this.
Refuse(k) ==
    /\ Reads(k, {"request"}) /\ Read(k)
    /\ LET i == NextFrame(k).id IN
       /\ handler[i] = "bad" \/ server = "closed"
       /\ terms' = [terms EXCEPT ![i] = @ + 1] /\ WritesFrame(i)
    /\ UNCHANGED <<link, sockfd, broken, loopVars, clientVars, queueVars, thread, got, ended, early, emitted>>

\* The request gets its queue, before the next frame is read, and its thread; without a
\* thread (pthread_create fails) it is dropped and its queue stays registered.
Dispatch(k) ==
    /\ Reads(k, {"request"}) /\ Read(k)
    /\ LET i == NextFrame(k).id IN
       /\ handler[i] # "bad"
       /\ inputs' = IF HasInput(i) THEN inputs \cup {i} ELSE inputs
       /\ \E t \in {"run", "never"} : thread' = [thread EXCEPT ![i] = t]
    /\ UNCHANGED <<server, link, sockVars, loopVars, clientVars, buf, freed, stale, got, ended, early, emitted,
                   terms>>

\* callwire_codec_decode refuses the frame: it is skipped, and nobody is told.
SkipFrame(k) ==
    /\ Reads(k, {"opaque"}) /\ Read(k)
    /\ UNCHANGED <<server, link, sockVars, loopVars, clientVars, queueVars, callVars>>

\* The accept loop still tests running, and read loops look handlers up, in the freed
\* server: undefined, and it may end the process.
UseFreedServer ==
    /\ server = "closed"
    /\ server' = "crashed"
    /\ UNCHANGED <<link, sockVars, loopVars, wire, clientVars, queueVars, callVars>>

\* conn_find_input for a stream_chunk, stream_close or stream_end; inputs_mu is released
\* before the queue is used.
Find(k) ==
    /\ Reads(k, {"chunk", "finish"})
    /\ IF NextFrame(k).id \in inputs
         THEN /\ held' = [held EXCEPT ![k] = NextFrame(k).id]
              /\ loop' = [loop EXCEPT ![k] = "push"]
              /\ UNCHANGED wire
         ELSE Read(k) /\ UNCHANGED loopVars
    /\ UNCHANGED <<server, link, sockVars, clientVars, queueVars, callVars>>

\* Mutant of Queued: the node is put in front.
QueuedInFront(q, x) == <<x>> \o q

\* stream_input_push.
Queued(q, x) == Append(q, x)

\* The read loop pushes to the queue it holds.  If that has been freed, the push is
\* undefined: it is lost, or ends the process.
Push(k) ==
    /\ Alive /\ loop[k] = "push"
    /\ LET i == held[k] IN
       /\ buf' = IF i \in freed THEN buf
                 ELSE [buf EXCEPT ![i] = Queued(@, IF NextFrame(k).type = "chunk" THEN NextFrame(k).n ELSE EndMark)]
       /\ stale' = IF i \in freed THEN stale \cup {i} ELSE stale
       /\ server' \in IF i \in freed THEN {server, "crashed"} ELSE {server}
    /\ Read(k)
    /\ held' = [held EXCEPT ![k] = 0]
    /\ loop' = [loop EXCEPT ![k] = "read"]
    /\ UNCHANGED <<link, sockVars, clientVars, inputs, freed, callVars>>

\* Mutant of LoopEnds: the handlers are not woken.
LoopEndsSilently(k) ==
    /\ Alive /\ loop[k] = "read" /\ link[k] = "lost"
    /\ loop' = [loop EXCEPT ![k] = "close"]
    /\ wire' = [wire EXCEPT ![k] = <<>>]
    /\ UNCHANGED <<server, link, sockVars, held, clientVars, queueVars, callVars>>

\* Mutant of LoopEnds: the queues are freed with the connection.
LoopEndsAndFrees(k) ==
    /\ Alive /\ loop[k] = "read" /\ link[k] = "lost"
    /\ loop' = [loop EXCEPT ![k] = "close"]
    /\ wire' = [wire EXCEPT ![k] = <<>>]
    /\ buf' = [i \in Calls |-> IF i \in inputs /\ conn[i] = k THEN Queued(buf[i], EndMark) ELSE buf[i]]
    /\ inputs' = {i \in inputs : conn[i] # k}
    /\ freed' = freed \cup {i \in inputs : conn[i] = k}
    /\ UNCHANGED <<server, link, sockVars, held, clientVars, stale, callVars>>

\* read_frame has failed: every registered queue gets an end marker, under inputs_mu.
StopReading(k) ==
    /\ loop' = [loop EXCEPT ![k] = "close"]
    /\ wire' = [wire EXCEPT ![k] = <<>>]
    /\ buf' = [i \in Calls |-> IF i \in inputs /\ conn[i] = k THEN Queued(buf[i], EndMark) ELSE buf[i]]
    /\ UNCHANGED <<server, link, sockfd, foreign, held, clientVars, inputs, freed, stale, callVars>>

\* The client has closed the connection, or it is lost.
LoopEnds(k) ==
    /\ Alive /\ loop[k] = "read" /\ link[k] = "lost"
    /\ StopReading(k)
    /\ UNCHANGED broken

\* The client is there, but its next frame is longer than 16 MB, or malloc or recv fails.
ReadFails(k) ==
    /\ Alive /\ loop[k] = "read" /\ link[k] = "open"
    /\ StopReading(k)
    /\ broken' = broken \cup {k}

\* Mutant of CloseSocket: an idle connection is closed under its handlers.
CloseIdle(k) ==
    /\ Alive /\ (loop[k] = "close" \/ (loop[k] = "read" /\ wire[k] = <<>>))
    /\ loop' = [loop EXCEPT ![k] = "done"]
    /\ UNCHANGED <<server, link, sockVars, held, wire, clientVars, queueVars, callVars>>

\* close(sockfd).  The connection's struct is never freed.
CloseSocket(k) ==
    /\ Alive /\ loop[k] = "close"
    /\ loop' = [loop EXCEPT ![k] = "done"]
    /\ UNCHANGED <<server, link, sockVars, held, wire, clientVars, queueVars, callVars>>

-----------------------------------------------------------------------------
\* The call's thread: dispatch_unary_thread, dispatch_stream_thread,
\* dispatch_client_stream_thread, dispatch_bidi_thread.

Runs(i) == Alive /\ thread[i] = "run"
Goto(i, l) == thread' = [thread EXCEPT ![i] = l]

\* The handler calls recv(): stream_input_recv waits for a node and takes it.
Recv(i) ==
    /\ Runs(i) /\ HasInput(i) /\ ~ended[i] /\ buf[i] # <<>>
    /\ stale' = IF i \in freed THEN stale \cup {i} ELSE stale
    /\ buf' = [buf EXCEPT ![i] = Tail(@)]
    /\ IF Head(buf[i]) = EndMark
         THEN ended' = [ended EXCEPT ![i] = TRUE] /\ UNCHANGED got
         ELSE got' = [got EXCEPT ![i] = Append(@, Head(buf[i]))] /\ UNCHANGED ended
    /\ UNCHANGED <<server, link, sockVars, loopVars, wire, clientVars, inputs, freed, thread, early, emitted,
                   terms>>

\* The handler calls emit(): conn_write_frame, under write_mu.
Emit(i) ==
    /\ Runs(i) /\ HasOutput(i) /\ emitted[i] < MaxOut
    /\ WritesFrame(i)
    /\ emitted' = [emitted EXCEPT ![i] = @ + 1]
    /\ UNCHANGED <<link, sockfd, broken, loopVars, wire, clientVars, queueVars, thread, got, ended, early,
                   terms>>

\* The handler returns; one with input returns when recv() has returned 1.
Return(i) ==
    /\ Runs(i) /\ (HasInput(i) => ended[i])
    /\ Goto(i, "write")
    /\ UNCHANGED <<server, link, sockVars, loopVars, wire, clientVars, queueVars, got, ended, early, emitted,
                   terms>>

\* A handler may return before the end of its input, with an error or without.
ReturnEarly(i) ==
    /\ Runs(i) /\ HasInput(i) /\ ~ended[i]
    /\ early' = [early EXCEPT ![i] = TRUE]
    /\ Goto(i, "write")
    /\ UNCHANGED <<server, link, sockVars, loopVars, wire, clientVars, queueVars, got, ended, emitted, terms>>

\* The response, stream_end or error.
WriteAnswer(i) ==
    /\ Alive /\ thread[i] = "write"
    /\ WritesFrame(i)
    /\ terms' = [terms EXCEPT ![i] = @ + 1]
    /\ Goto(i, IF HasInput(i) THEN "remove" ELSE "done")
    /\ UNCHANGED <<link, sockfd, broken, loopVars, wire, clientVars, queueVars, got, ended, early, emitted>>

\* A response too large to encode is not written, and nothing is written in its place.
ResponseTooLarge(i) ==
    /\ Alive /\ thread[i] = "write" /\ ~HasOutput(i)
    /\ Goto(i, IF HasInput(i) THEN "remove" ELSE "done")
    /\ UNCHANGED <<server, link, sockVars, loopVars, wire, clientVars, queueVars, got, ended, early,
                   emitted, terms>>

\* Mutant of RemoveInput: the queue is freed while it is still registered.
FreeBeforeRemove(i) ==
    /\ Alive /\ thread[i] = "remove"
    /\ freed' = freed \cup {i}
    /\ Goto(i, "free")
    /\ UNCHANGED <<server, link, sockVars, loopVars, wire, clientVars, inputs, buf, stale, got, ended, early,
                   emitted, terms>>

\* conn_remove_input, up to the release of inputs_mu ...
RemoveInput(i) ==
    /\ Alive /\ thread[i] = "remove"
    /\ inputs' = inputs \ {i}
    /\ Goto(i, "free")
    /\ UNCHANGED <<server, link, sockVars, loopVars, wire, clientVars, buf, freed, stale, got, ended, early,
                   emitted, terms>>

\* ... and stream_input_free.
FreeInput(i) ==
    /\ Alive /\ thread[i] = "free"
    /\ freed' = freed \cup {i}
    /\ buf' = [buf EXCEPT ![i] = <<>>]
    /\ Goto(i, "done")
    /\ UNCHANGED <<server, link, sockVars, loopVars, wire, clientVars, inputs, stale, got, ended, early, emitted,
                   terms>>

-----------------------------------------------------------------------------
\* Clients that follow SPEC.md: requests with fresh ids, chunks, one terminator.

\* What a client sends when the server has stopped reading is read by nobody, and left out.
Speaks(k) == link[k] = "open" /\ loop[k] \in {"read", "push"}
Write(k, m) == wire' = [wire EXCEPT ![k] = Append(@, m)]

\* The arguments may hold a value that the codec refuses.
ClientRequest(i, k, h) ==
    /\ handler[i] = "none" /\ Speaks(k) /\ \A j \in Calls : j < i => handler[j] # "none"
    /\ handler' = [handler EXCEPT ![i] = h]
    /\ conn' = [conn EXCEPT ![i] = k]
    /\ \E t \in {"request", "opaque"} : Write(k, Frame(i, t))
    /\ UNCHANGED <<server, link, sockVars, loopVars, sent, opaque, finished, queueVars, callVars>>

ClientChunk(i) ==
    /\ HasInput(i) /\ Speaks(conn[i]) /\ ~finished[i] /\ sent[i] + opaque[i] < MaxIn
    /\ sent' = [sent EXCEPT ![i] = @ + 1]
    /\ Write(conn[i], ChunkFrame(i, sent[i] + 1))
    /\ UNCHANGED <<server, link, sockVars, loopVars, handler, conn, opaque, finished, queueVars, callVars>>

\* A chunk that the codec refuses.
ClientOpaque(i) ==
    /\ HasInput(i) /\ Speaks(conn[i]) /\ ~finished[i] /\ sent[i] + opaque[i] < MaxIn
    /\ opaque' = [opaque EXCEPT ![i] = @ + 1]
    /\ Write(conn[i], Frame(i, "opaque"))
    /\ UNCHANGED <<server, link, sockVars, loopVars, handler, conn, sent, finished, queueVars, callVars>>

ClientFinish(i) ==
    /\ HasInput(i) /\ Speaks(conn[i]) /\ ~finished[i]
    /\ finished' = [finished EXCEPT ![i] = TRUE]
    /\ Write(conn[i], Frame(i, "finish"))
    /\ UNCHANGED <<server, link, sockVars, loopVars, handler, conn, sent, opaque, queueVars, callVars>>

\* The client closes, or the connection is lost; frames on their way may still be read.
Disconnect(k) ==
    /\ link[k] = "open"
    /\ link' = [link EXCEPT ![k] = "lost"]
    /\ UNCHANGED <<server, sockVars, loopVars, wire, clientVars, queueVars, callVars>>

-----------------------------------------------------------------------------
Loop(k) ==
    \/ Refuse(k) \/ Dispatch(k) \/ SkipFrame(k) \/ Find(k) \/ Push(k) \/ LoopEnds(k) \/ CloseSocket(k)
Finish(i) == Return(i) \/ WriteAnswer(i) \/ ResponseTooLarge(i) \/ RemoveInput(i) \/ FreeInput(i)
Client(i) ==
    \/ \E k \in Conns, h \in Handlers : ClientRequest(i, k, h)
    \/ ClientChunk(i) \/ ClientOpaque(i) \/ ClientFinish(i)

Next ==
    \/ Close \/ UseFreedServer
    \/ \E k \in Conns : Accept(k) \/ AcceptFails(k) \/ Loop(k) \/ ReadFails(k) \/ Disconnect(k)
    \/ \E i \in Calls : Recv(i) \/ Emit(i) \/ ReturnEarly(i) \/ Finish(i) \/ Client(i)

Spec == Init /\ [][Next]_vars

\* send() has no time limit: a write of call i, under write_mu, waits for a live client to read.
PeerIsLive(i) == \E j \in Reached(i) : link[j] = "open"

\* The call's thread is in, or may be in, such a write: its answer, or an emit() of its handler.
SendMayBlock(i) ==
    (thread[i] = "write" \/ (thread[i] = "run" /\ HasOutput(i))) /\ PeerIsLive(i)

\* The read loop is at a request that it refuses, with write_error.
LoopMayBlock(k) ==
    /\ Reads(k, {"request"}) /\ link[k] = "open"
    /\ handler[NextFrame(k).id] = "bad" \/ server = "closed"

\* Threads run, and a handler reads its input to the end and then returns.  A client that
\* is there need not read what is sent to it.
FairSpec ==
    /\ Spec
    /\ \A k \in Conns : WF_vars(Loop(k) /\ ~LoopMayBlock(k))
    /\ \A i \in Calls : WF_vars(Recv(i)) /\ WF_vars(Finish(i) /\ ~SendMayBlock(i))

-----------------------------------------------------------------------------
\* Properties.

\* What recv() returns are the client's chunks in their order, without those that
\* callwire_codec_decode refuses (server.c:599-601 skips them), and it reports the end only
\* after all of them, unless the read loop has ended: registering the queue before the next
\* frame is read leaves no chunk without a place.
InputInOrder ==
    \A i \in Calls :
        /\ got[i] = [n \in 1..Len(got[i]) |-> n]
        /\ ended[i] => \/ finished[i] /\ Len(got[i]) = sent[i]
                       \/ loop[conn[i]] \in {"close", "done"}

\* A stream_input_t is used after it was freed only if its handler returned before the
\* end of its input: reading to the end is enough to be safe, whatever the connection
\* does, because no frame of the call follows its terminator.
StaleNeedsEarlyReturn == \A i \in stale : early[i]

\* Detached threads write to their connection's descriptor by number, also after the read
\* loop has closed it and accept has handed it out again.  A frame of theirs can reach
\* another client only when their own has gone, or the server gave up reading it (a frame
\* longer than 16 MB, framing.c:50): a live client whose frames can be read gets its answers.
ForeignNeedsDeadConn == \A i \in foreign : link[conn[i]] = "lost" \/ conn[i] \in broken

\* A request gets at most one terminal frame from the server, refusals, handler errors
\* and lookups after close included; and a call that streams its output always ends
\* with one once its handler has returned.
AnsweredAtMostOnce ==
    \A i \in Calls :
        /\ terms[i] <= 1
        /\ HasOutput(i) /\ thread[i] \in {"remove", "free", "done"} => terms[i] = 1

\* A handler whose client has finished or has gone comes to its end: the read loop wakes
\* whoever waits in recv() when the connection drops.  Only a live client that does not read
\* can keep it, in a send() of its own or in one of the read loop.
HandlersEnd ==
    \A i \in Calls :
        (thread[i] = "run" /\ (finished[i] \/ link[conn[i]] = "lost"))
            ~> \/ thread[i] = "done" \/ server = "crashed"
               \/ [](SendMayBlock(i) \/ \E k \in Conns : k = conn[i] /\ LoopMayBlock(k))

\* callwire.h on recv(): it returns "1 if the client is done sending (clean end)".
CleanEndMeansDone == \A i \in Calls : ended[i] => finished[i]
=============================================================================
