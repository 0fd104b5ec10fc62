------------------------------ MODULE GoClient ------------------------------
(***************************************************************************)
(* go/callwire/client.go: the multiplexing client.  Callers run Import    *)
(* and ImportStream concurrently; one reader goroutine (readLoop, or      *)
(* readLoopWithReconnect) routes frames to the callers' channels through  *)
(* the `pending` map; Close may be called at any time.  A critical section *)
(* of c.mu or c.pendingMu is one step, but for drainPending, which holds   *)
(* pendingMu while rd = "drain"; writeMu is held by the call at "writing". *)
(* The server and the network are the environment: a server may be in any  *)
(* language, hence send values that this codec cannot decode, and it may   *)
(* stop reading.                                                           *)
(***************************************************************************)
EXTENDS Naturals, Sequences, FiniteSets

CONSTANTS
    MaxCalls,    \* bound on nextID
    MaxConns,    \* bound on the connections dialled
    StreamCap,   \* capacity of ImportStream's respChan (256 in the code)
    MaxChunks,   \* bound on the stream_chunk frames of one call
    Reconnect,   \* ConnectWithReconnect (TRUE) or Connect (FALSE)
    Mismatch     \* may Import name a streaming function, ImportStream a unary one?

ASSUME GoClientAssumption ==
    /\ MaxCalls \in Nat \ {0}
    /\ MaxConns \in Nat \ {0}
    /\ StreamCap \in Nat \ {0}
    /\ MaxChunks \in Nat
    /\ Reconnect \in BOOLEAN
    /\ Mismatch \in BOOLEAN

Calls == 1..MaxCalls
Conns == 1..MaxConns
NoConn == 0

VARIABLES
    nextID,    \* c.nextID
    pc,        \* pc[i]: where the goroutine of call i is
    kind,      \* kind[i]: "unary" (Import) or "stream" (ImportStream)
    snap,      \* snap[i]: the connection call i read from c.conn
    pending,   \* domain of c.pending
    chan,      \* chan[i]: contents of the respChan of call i
    item,      \* item[i]: the chunk ImportStream is handing over, 0 for none
    recv,      \* recv[i]: the numbers of the chunks it has handed to the application
    outcome,   \* outcome[i]: what call i returned
    conn,      \* c.conn, NoConn for nil
    closed,    \* c.closed
    closer,    \* where the goroutine in Close is
    closing,   \* the connection Close took from c.conn
    rd,        \* where the reader goroutine is
    rdConn,    \* the connection it reads or has dialled
    rdMsg,     \* the frame it is about to deliver
    dialled,   \* connections dialled so far
    link,      \* link[c]: "new", "up", "down" (lost) or "shut" (closed by us)
    wire,      \* wire[c]: frames sent by the server and not yet read
    srv,       \* srv[i]: "none", "run" (request received) or "done"
    sent,      \* sent[i]: chunks the server has sent for call i
    opaque     \* opaque[i]: the numbers of its frames that decodeMessage refuses

callVars == <<nextID, pc, kind, snap, item, recv, outcome>>
connVars == <<conn, closed, closer, closing, dialled>>
rdVars   == <<rd, rdConn, rdMsg>>
envVars  == <<link, wire, srv, sent, opaque>>
vars     == <<callVars, pending, chan, connVars, rdVars, envVars>>

NoFrame == [id |-> 0, type |-> "none", seq |-> 0]
Frame(i, t, n) == [id |-> i, type |-> t, seq |-> n]
Frames == [id : Calls, type : {"response", "error", "stream_chunk", "stream_end", "lost"},
           seq : 0..(MaxChunks + 1)]
Outcomes == {"none", "answered", "end", "remote", "lost", "closed", "encode", "write", "timeout",
             "decode"}

TypeOK ==
    /\ nextID \in 0..MaxCalls
    /\ pc \in [Calls -> {"idle", "lock", "snap", "write", "writing", "wait", "forward", "exit",
                       "done"}]
    /\ kind \in [Calls -> {"unary", "stream"}]
    /\ snap \in [Calls -> {NoConn} \cup Conns]
    /\ pending \subseteq Calls
    /\ chan \in [Calls -> Seq(Frames)]
    /\ item \in [Calls -> Nat]
    /\ recv \in [Calls -> Seq(Nat)]
    /\ outcome \in [Calls -> Outcomes]
    /\ conn \in {NoConn} \cup Conns
    /\ closed \in BOOLEAN
    /\ closer \in {"idle", "closing", "done"}
    /\ closing \in {NoConn} \cup Conns
    /\ rd \in {"top", "read", "deliver", "drain", "check", "dial", "install", "exited"}
    /\ rdConn \in {NoConn} \cup Conns
    /\ rdMsg \in Frames \cup {NoFrame}
    /\ dialled \in Conns
    /\ link \in [Conns -> {"new", "up", "down", "shut"}]
    /\ wire \in [Conns -> Seq(Frames)]
    /\ srv \in [Calls -> {"none", "run", "done"}]
    /\ sent \in [Calls -> 0..MaxChunks]
    /\ opaque \in [Calls -> SUBSET (1..(MaxChunks + 1))]

-----------------------------------------------------------------------------
\* Helpers.

\* make(chan wireMessage, 1) in Import, make(chan wireMessage, 256) in ImportStream.
Cap(i) == IF kind[i] = "unary" THEN 1 ELSE StreamCap

Room(i) == Len(chan[i]) < Cap(i)

\* c.pendingMu is free.
PendingFree == rd # "drain"

\* c.writeMu is free.
WriteFree == \A j \in Calls : pc[j] # "writing"

\* A frame after which the read loop forgets the call.
IsTerminal(t) == t # "stream_chunk"

Return(i, o) ==
    /\ pc' = [pc EXCEPT ![i] = "done"]
    /\ outcome' = [outcome EXCEPT ![i] = o]

\* ImportStream's goroutine leaves its loop; its deferred delete comes next.
Leave(i, o) ==
    /\ pc' = [pc EXCEPT ![i] = "exit"]
    /\ outcome' = [outcome EXCEPT ![i] = o]

-----------------------------------------------------------------------------
\* Init: Connect or ConnectWithReconnect has dialled and started the reader.

Init ==
    /\ nextID = 0
    /\ pc = [i \in Calls |-> "idle"]
    /\ kind = [i \in Calls |-> "unary"]
    /\ snap = [i \in Calls |-> NoConn]
    /\ pending = {}
    /\ chan = [i \in Calls |-> <<>>]
    /\ item = [i \in Calls |-> 0]
    /\ recv = [i \in Calls |-> <<>>]
    /\ outcome = [i \in Calls |-> "none"]
    /\ conn = 1
    /\ closed = FALSE
    /\ closer = "idle"
    /\ closing = NoConn
    /\ rd = "top"
    /\ rdConn = NoConn
    /\ rdMsg = NoFrame
    /\ dialled = 1
    /\ link = [c \in Conns |-> IF c = 1 THEN "up" ELSE "new"]
    /\ wire = [c \in Conns |-> <<>>]
    /\ srv = [i \in Calls |-> "none"]
    /\ sent = [i \in Calls |-> 0]
    /\ opaque = [i \in Calls |-> {}]

-----------------------------------------------------------------------------
\* Callers: Import and ImportStream.

\* id := atomic.AddUint64(&c.nextID, 1), and a fresh respChan.
Begin(k) ==
    /\ nextID < MaxCalls
    /\ nextID' = nextID + 1
    /\ kind' = [kind EXCEPT ![nextID'] = k]
    /\ pc' = [pc EXCEPT ![nextID'] = "lock"]
    /\ UNCHANGED <<snap, item, recv, outcome, pending, chan, connVars, rdVars, envVars>>

\* c.pending[id] = respChan, under pendingMu.
Register(i) ==
    /\ pc[i] = "lock"
    /\ PendingFree
    /\ pending' = pending \cup {i}
    /\ pc' = [pc EXCEPT ![i] = "snap"]
    /\ UNCHANGED <<nextID, kind, snap, item, recv, outcome, chan, connVars, rdVars, envVars>>

\* encodeRequest fails: the call returns, its entry stays in c.pending.
EncodeError(i) ==
    /\ pc[i] = "snap"
    /\ Return(i, "encode")
    /\ UNCHANGED <<nextID, kind, snap, item, recv, pending, chan, connVars, rdVars, envVars>>

\* Read c.conn and c.closed under c.mu; a closed client fails the call.
Snapshot(i) ==
    /\ pc[i] = "snap"
    /\ IF closed \/ conn = NoConn
       THEN Return(i, "closed") /\ UNCHANGED snap
       ELSE /\ snap' = [snap EXCEPT ![i] = conn]
            /\ pc' = [pc EXCEPT ![i] = "write"]
            /\ UNCHANGED outcome
    /\ UNCHANGED <<nextID, kind, item, recv, pending, chan, connVars, rdVars, envVars>>

\* c.writeMu.Lock()
LockWrite(i) ==
    /\ pc[i] = "write"
    /\ WriteFree
    /\ pc' = [pc EXCEPT ![i] = "writing"]
    /\ UNCHANGED <<nextID, kind, snap, item, recv, outcome, pending, chan, connVars, rdVars, envVars>>

\* writeFrame succeeds and writeMu is released.  The request reaches the server if the link is up; on
\* a lost connection the kernel may still accept the bytes and drop them.
WriteOk(i) ==
    /\ pc[i] = "writing"
    /\ link[snap[i]] \in {"up", "down"}
    /\ pc' = [pc EXCEPT ![i] = "wait"]
    /\ srv' = IF link[snap[i]] = "up" THEN [srv EXCEPT ![i] = "run"] ELSE srv
    /\ UNCHANGED <<nextID, kind, snap, item, recv, outcome, pending, chan, connVars, rdVars,
                   link, wire, sent, opaque>>

\* writeFrame fails: the call returns, its entry stays in c.pending.
WriteError(i) ==
    /\ pc[i] = "writing"
    /\ link[snap[i]] \in {"down", "shut"}
    /\ Return(i, "write")
    /\ UNCHANGED <<nextID, kind, snap, item, recv, pending, chan, connVars, rdVars, envVars>>

\* What Import makes of a frame: anything but an error is decoded as the
\* result, which fails if the value does not fit the type Resp.
ImportOutcomes(t) ==
    CASE t = "error" -> {"remote"}
      [] t = "lost"  -> {"lost"}
      [] OTHER       -> {"answered", "decode"}

\* Import's select takes the answer from respChan.
ImportRecv(i) ==
    /\ pc[i] = "wait" /\ kind[i] = "unary"
    /\ chan[i] # <<>>
    /\ chan' = [chan EXCEPT ![i] = Tail(@)]
    /\ \E o \in ImportOutcomes(Head(chan[i]).type) : Return(i, o)
    /\ UNCHANGED <<nextID, kind, snap, item, recv, pending, connVars, rdVars, envVars>>

\* Import's select takes ctx.Done(): the entry stays in c.pending.
ImportTimeout(i) ==
    /\ pc[i] = "wait" /\ kind[i] = "unary"
    /\ Return(i, "timeout")
    /\ UNCHANGED <<nextID, kind, snap, item, recv, pending, chan, connVars, rdVars, envVars>>

\* The goroutine of ImportStream takes a frame.  A frame that is neither a
\* chunk, stream_end nor error matches no case and is skipped.
StreamRecv(i) ==
    /\ pc[i] = "wait" /\ kind[i] = "stream"
    /\ chan[i] # <<>>
    /\ chan' = [chan EXCEPT ![i] = Tail(@)]
    /\ LET m == Head(chan[i]) IN
       \/ /\ m.type = "stream_chunk"
          /\ item' = [item EXCEPT ![i] = m.seq]
          /\ pc' = [pc EXCEPT ![i] = "forward"]
          /\ UNCHANGED outcome
       \/ /\ CASE m.type = "stream_chunk" -> Leave(i, "decode")
               [] m.type = "stream_end"   -> Leave(i, "end")
               [] m.type = "error"        -> Leave(i, "remote")
               [] m.type = "lost"         -> Leave(i, "lost")
               [] OTHER                   -> UNCHANGED <<pc, outcome>>
          /\ UNCHANGED item
    /\ UNCHANGED <<nextID, kind, snap, recv, pending, connVars, rdVars, envVars>>

\* results <- v: the application takes the chunk (or there is room for it).
StreamForward(i) ==
    /\ pc[i] = "forward"
    /\ recv' = [recv EXCEPT ![i] = Append(@, item[i])]
    /\ item' = [item EXCEPT ![i] = 0]
    /\ pc' = [pc EXCEPT ![i] = "wait"]
    /\ UNCHANGED <<nextID, kind, snap, outcome, pending, chan, connVars, rdVars, envVars>>

\* Mutant of StreamTimeout: the inner select has no ctx.Done() case.
StreamTimeoutOuterOnly(i) ==
    /\ pc[i] = "wait" /\ kind[i] = "stream"
    /\ Leave(i, "timeout")
    /\ UNCHANGED <<nextID, kind, snap, item, recv, pending, chan, connVars, rdVars, envVars>>

\* ctx.Done() in either select of the goroutine.
StreamTimeout(i) ==
    /\ pc[i] \in {"wait", "forward"} /\ kind[i] = "stream"
    /\ Leave(i, "timeout")
    /\ item' = [item EXCEPT ![i] = 0]
    /\ UNCHANGED <<nextID, kind, snap, recv, pending, chan, connVars, rdVars, envVars>>

\* The deferred delete(c.pending, id) under pendingMu, then close(results).
StreamExit(i) ==
    /\ pc[i] = "exit"
    /\ PendingFree
    /\ pending' = pending \ {i}
    /\ pc' = [pc EXCEPT ![i] = "done"]
    /\ UNCHANGED <<nextID, kind, snap, item, recv, outcome, chan, connVars, rdVars, envVars>>

-----------------------------------------------------------------------------
\* The reader: readLoop, and readLoopWithReconnect where Reconnect.

ReaderAt(p) == rd' = p /\ UNCHANGED <<rdConn, rdMsg>>

\* Read c.conn and c.closed under c.mu; a closed client ends the loop, and
\* nothing is drained on this path.
ReaderTop ==
    /\ rd = "top"
    /\ IF closed \/ conn = NoConn
       THEN ReaderAt("exited")
       ELSE rd' = "read" /\ rdConn' = conn /\ UNCHANGED rdMsg
    /\ UNCHANGED <<callVars, pending, chan, connVars, envVars>>

\* readFrame returns a frame.
FrameRead ==
    /\ rd = "read"
    /\ link[rdConn] \in {"up", "down"}
    /\ wire[rdConn] # <<>>
    /\ wire' = [wire EXCEPT ![rdConn] = Tail(@)]

\* decodeMessage refuses frame m: its value is one this codec has no type for, such as
\* a map with keys that are no strings.
Refused(m) == m.seq \in opaque[m.id]

\* The frame does not decode: the loop goes on to the next one, and nobody is told.
SkipFrame ==
    /\ FrameRead
    /\ Refused(Head(wire[rdConn]))
    /\ ReaderAt("top")
    /\ UNCHANGED <<callVars, pending, chan, connVars, link, srv, sent, opaque>>

\* Mutant of ReadFrame: the entry survives its terminal frame.
ReadFrameKeepsEntry ==
    /\ FrameRead
    /\ ~Refused(Head(wire[rdConn]))
    /\ LET m == Head(wire[rdConn]) IN
       IF m.id \in pending THEN rd' = "deliver" /\ rdMsg' = m /\ UNCHANGED rdConn
       ELSE ReaderAt("top")
    /\ UNCHANGED <<callVars, pending, chan, connVars, link, srv, sent, opaque>>

\* Look the frame's id up in c.pending and, unless it is a chunk, delete the entry.
\* A frame for no entry is dropped.
ReadFrame ==
    /\ FrameRead
    /\ ~Refused(Head(wire[rdConn]))
    /\ LET m == Head(wire[rdConn]) IN
       IF m.id \in pending
       THEN /\ rd' = "deliver" /\ rdMsg' = m /\ UNCHANGED rdConn
            /\ pending' = IF IsTerminal(m.type) THEN pending \ {m.id} ELSE pending
       ELSE /\ ReaderAt("top")
            /\ UNCHANGED pending
    /\ UNCHANGED <<callVars, chan, connVars, link, srv, sent, opaque>>

\* Mutant of Deliver: a non-blocking send, which drops the frame when full.
DeliverOrDrop ==
    /\ rd = "deliver"
    /\ chan' = IF Room(rdMsg.id) THEN [chan EXCEPT ![rdMsg.id] = Append(@, rdMsg)] ELSE chan
    /\ rd' = "top" /\ rdMsg' = NoFrame
    /\ UNCHANGED <<callVars, pending, connVars, rdConn, envVars>>

\* ch <- msg: blocks while the call's channel is full.
Deliver ==
    /\ rd = "deliver"
    /\ Room(rdMsg.id)
    /\ chan' = [chan EXCEPT ![rdMsg.id] = Append(@, rdMsg)]
    /\ rd' = "top" /\ rdMsg' = NoFrame
    /\ UNCHANGED <<callVars, pending, connVars, rdConn, envVars>>

\* readFrame fails: drainPending locks pendingMu.
ReadError ==
    /\ rd = "read"
    /\ \/ link[rdConn] = "shut"
       \/ link[rdConn] = "down" /\ wire[rdConn] = <<>>
    /\ ReaderAt("drain")
    /\ UNCHANGED <<callVars, pending, chan, connVars, envVars>>

\* Mutant of DrainOne: the channel is closed, so that the caller receives a zero message.
DrainOneByClosing(i) ==
    /\ rd = "drain"
    /\ i \in pending
    /\ chan' = [chan EXCEPT ![i] = Append(@, NoFrame)]
    /\ pending' = pending \ {i}
    /\ UNCHANGED <<callVars, connVars, rdVars, envVars>>

\* Mutant of DrainOne: the entry is deleted without waking the caller.
DrainOneSilently(i) ==
    /\ rd = "drain"
    /\ i \in pending
    /\ pending' = pending \ {i}
    /\ UNCHANGED <<callVars, chan, connVars, rdVars, envVars>>

\* One iteration of drainPending's loop over the map, in any order; the send
\* blocks, with pendingMu held, while the call's channel is full.
DrainOne(i) ==
    /\ rd = "drain"
    /\ i \in pending
    /\ Room(i)
    /\ chan' = [chan EXCEPT ![i] = Append(@, Frame(i, "lost", 0))]
    /\ pending' = pending \ {i}
    /\ UNCHANGED <<callVars, connVars, rdVars, envVars>>

\* The loop is over: unlock pendingMu, then return or try to reconnect.
DrainDone ==
    /\ rd = "drain"
    /\ pending = {}
    /\ ReaderAt(IF Reconnect THEN "check" ELSE "exited")
    /\ UNCHANGED <<callVars, pending, chan, connVars, envVars>>

\* Head of the reconnect loop: give up if the client is closed, else sleep.
ReconnectCheck ==
    /\ rd = "check"
    /\ ReaderAt(IF closed THEN "exited" ELSE "dial")
    /\ UNCHANGED <<callVars, pending, chan, connVars, envVars>>

DialOk ==
    /\ rd = "dial"
    /\ dialled < MaxConns
    /\ dialled' = dialled + 1
    /\ link' = [link EXCEPT ![dialled'] = "up"]
    /\ rd' = "install" /\ rdConn' = dialled'
    /\ UNCHANGED <<callVars, pending, chan, conn, closed, closer, closing, rdMsg,
                   wire, srv, sent, opaque>>

DialError ==
    /\ rd = "dial"
    /\ ReaderAt("check")
    /\ UNCHANGED <<callVars, pending, chan, connVars, envVars>>

\* Mutant of Install: c.closed is not looked at again after the dial.
InstallUnchecked ==
    /\ rd = "install"
    /\ conn' = rdConn
    /\ ReaderAt("top")
    /\ UNCHANGED <<callVars, pending, chan, closed, closer, closing, dialled, envVars>>

\* Under c.mu: a client closed meanwhile drops the new connection, otherwise
\* it becomes c.conn.
Install ==
    /\ rd = "install"
    /\ IF closed
       THEN /\ link' = [link EXCEPT ![rdConn] = "shut"]
            /\ ReaderAt("exited")
            /\ UNCHANGED conn
       ELSE /\ conn' = rdConn
            /\ ReaderAt("top")
            /\ UNCHANGED link
    /\ UNCHANGED <<callVars, pending, chan, closed, closer, closing, dialled, wire, srv, sent, opaque>>

-----------------------------------------------------------------------------
\* Close: clear c.conn and set c.closed under c.mu, then close the connection.

CloseMark ==
    /\ closer = "idle"
    /\ closer' = "closing" /\ closing' = conn
    /\ conn' = NoConn
    /\ closed' = TRUE
    /\ UNCHANGED <<callVars, pending, chan, dialled, rdVars, envVars>>

CloseConn ==
    /\ closer = "closing"
    /\ closer' = "done"
    /\ link' = [link EXCEPT ![closing] = "shut"]
    /\ UNCHANGED <<callVars, pending, chan, conn, closed, closing, dialled, rdVars, wire, srv, sent, opaque>>

-----------------------------------------------------------------------------
\* The environment: the server answers a request it received, and connections
\* are lost with any suffix of the frames in flight.  The seq of a frame is
\* its position in the answer to its call.  A value that the server encodes
\* (in a response or a chunk) may be one that this client cannot decode.

CanSend(i) == srv[i] = "run" /\ link[snap[i]] = "up"

ServerSend(i, t) ==
    /\ wire' = [wire EXCEPT ![snap[i]] = Append(@, Frame(i, t, sent[i] + 1))]
    /\ \/ UNCHANGED opaque
       \/ /\ t \in {"response", "stream_chunk"}
          /\ opaque' = [opaque EXCEPT ![i] = @ \cup {sent[i] + 1}]

ServerChunk(i) ==
    /\ CanSend(i)
    /\ kind[i] = "stream" \/ Mismatch
    /\ sent[i] < MaxChunks
    /\ ServerSend(i, "stream_chunk")
    /\ sent' = [sent EXCEPT ![i] = @ + 1]
    /\ UNCHANGED <<callVars, pending, chan, connVars, rdVars, link, srv>>

\* The terminals a handler of each kind sends.
ServerTerminals(i) ==
    {"error"}
      \cup (IF sent[i] = 0 /\ (kind[i] = "unary" \/ Mismatch) THEN {"response"} ELSE {})
      \cup (IF kind[i] = "stream" \/ Mismatch THEN {"stream_end"} ELSE {})

ServerEnd(i, t) ==
    /\ CanSend(i)
    /\ t \in ServerTerminals(i)
    /\ ServerSend(i, t)
    /\ srv' = [srv EXCEPT ![i] = "done"]
    /\ UNCHANGED <<callVars, pending, chan, connVars, rdVars, link, sent>>

ConnDrop(c) ==
    /\ link[c] = "up"
    /\ link' = [link EXCEPT ![c] = "down"]
    /\ \E n \in 0..Len(wire[c]) : wire' = [wire EXCEPT ![c] = SubSeq(@, 1, n)]
    /\ UNCHANGED <<callVars, pending, chan, connVars, rdVars, srv, sent, opaque>>

-----------------------------------------------------------------------------
CallerStep(i) ==
    \/ Register(i) \/ EncodeError(i) \/ Snapshot(i) \/ LockWrite(i) \/ WriteOk(i) \/ WriteError(i)
    \/ ImportRecv(i) \/ ImportTimeout(i)
    \/ StreamRecv(i) \/ StreamForward(i) \/ StreamTimeout(i) \/ StreamExit(i)

ReaderStep ==
    \/ ReaderTop \/ ReadFrame \/ SkipFrame \/ Deliver \/ ReadError
    \/ \E i \in Calls : DrainOne(i)
    \/ DrainDone \/ ReconnectCheck \/ DialOk \/ DialError \/ Install

CloseStep == CloseMark \/ CloseConn

EnvStep ==
    \/ \E i \in Calls : ServerChunk(i)
    \/ \E i \in Calls, t \in {"response", "error", "stream_end"} : ServerEnd(i, t)
    \/ \E c \in Conns : ConnDrop(c)

Next ==
    \/ \E k \in {"unary", "stream"} : Begin(k)
    \/ \E i \in Calls : CallerStep(i)
    \/ ReaderStep
    \/ CloseStep
    \/ EnvStep

Spec == Init /\ [][Next]_vars

\* Goroutines are scheduled, Go mutexes are starvation free (hence strong fairness for
\* the locks), every context has a deadline, and a write to a connection that is lost or
\* closed returns.  A write to a live one returns when the server has taken the bytes in,
\* and nothing is asked of the server, of the application (StreamForward) or of Close.
Fairness ==
    /\ \A i \in Calls :
        /\ SF_vars(Register(i)) /\ SF_vars(StreamExit(i)) /\ SF_vars(LockWrite(i))
        /\ WF_vars(Snapshot(i))
        /\ WF_vars((WriteOk(i) \/ WriteError(i)) /\ link[snap[i]] # "up")
        /\ WF_vars(ImportTimeout(i)) /\ WF_vars(StreamTimeout(i))
    /\ WF_vars(ReaderStep)

FairSpec == Spec /\ Fairness

-----------------------------------------------------------------------------
\* Properties.

\* Call i is between its registration and its return.
InCall(i) == pc[i] \in {"snap", "write", "writing", "wait", "forward"}

HasTerminal(i) == \E k \in 1..Len(chan[i]) : IsTerminal(chan[i][k].type)

InHand(i) == rd = "deliver" /\ rdMsg.id = i

\* The last frame of call i is in its channel or in the reader's hand.
Answered(i) == HasTerminal(i) \/ (InHand(i) /\ IsTerminal(rdMsg.type))

\* The reader takes its next frame from connection c, or is draining because c is lost.
ReaderOn(c) ==
    \/ rd = "top" /\ conn = c
    \/ rd \in {"read", "deliver", "drain"} /\ rdConn = c

\* A live call that has not been answered is in c.pending; and as long as the client is
\* open and the server has the request, the reader is still on the connection the request
\* was written to, so that a frame for the call, or the drain, finds the entry
\* (client.go:130-174, 193-238, 299-321).  Outside this promise are Close, after which
\* the reader leaves without a drain (client.go:146-148), and a request that vanished on
\* a connection already lost (client.go:308-318), where only the deadline ends the call.
NoForgottenCaller ==
    \A i \in Calls :
        InCall(i) /\ ~Answered(i) =>
            /\ i \in pending
            /\ srv[i] # "none" /\ ~closed => ReaderOn(snap[i])

\* The reader's sends to a unary call's one-slot channel never block, not even
\* to a call that gave up and left its entry behind: an entry in c.pending, or
\* a frame in the reader's hand, means an empty channel (client.go:165-174).  This needs
\* calls that name functions of their own kind (Mismatch = FALSE): the second chunk of a
\* streaming function called with Import does block the reader.
UnarySendNeverBlocks ==
    \A i \in Calls : kind[i] = "unary" /\ (i \in pending \/ InHand(i)) => chan[i] = <<>>

\* The numbers of the frames of call i in w, in order.
Numbers(w, i) ==
    LET own == SelectSeq(w, LAMBDA m : m.id = i) IN [k \in 1..Len(own) |-> own[k].seq]

\* The server's answer to call i as it is spread over the client: what the application
\* has, what its goroutine hands over, its channel, the reader's hand and the wire.
Answer(i) ==
    recv[i] \o (IF item[i] = 0 THEN <<>> ELSE <<item[i]>>) \o Numbers(chan[i], i)
      \o (IF InHand(i) THEN <<rdMsg.seq>> ELSE <<>>) \o Numbers(wire[snap[i]], i)

\* The numbers of the frames of call i that the reader has taken from the wire and skipped.
Skipped(i) == {n \in opaque[i] : \A k \in 1..Len(wire[snap[i]]) :
                   wire[snap[i]][k].id = i => wire[snap[i]][k].seq > n}

\* A stream call that was not told its connection is lost sees the server's frames in
\* order and none twice, whatever other calls share the connection, and the only ones
\* missing are those that decodeMessage refused and the reader skipped (client.go:155-158,
\* 235-238): a chunk with such a value is a gap that the application is not told of.
StreamInOrder ==
    \A i \in Calls :
        /\ pc[i] \in {"wait", "forward"} /\ kind[i] = "stream"
        /\ \A k \in 1..Len(chan[i]) : chan[i][k].type # "lost"
        => \E n \in 0..(MaxChunks + 1) :
             Answer(i) = SelectSeq([k \in 1..n |-> k], LAMBDA k : k \notin Skipped(i))

\* Once Close has returned no connection stays open, except one that the
\* reconnect loop has just dialled and is about to close itself.
CloseIsFinal ==
    closer = "done" =>
        \A c \in Conns : link[c] = "up" => rd = "install" /\ rdConn = c

\* conn.Write has no deadline and waits, with writeMu held, for a server that reads.
WriteBlocked == \E i \in Calls : pc[i] = "writing" /\ link[snap[i]] = "up"

\* Every Import and ImportStream that has begun returns, by an answer, by an error or by
\* its deadline, unless the server does not take its bytes, or those of another call, in.
EveryCallReturns == \A i \in Calls : pc[i] = "lock" ~> (pc[i] = "done" \/ []WriteBlocked)

\* drainPending waits for room in a stream's channel, with pendingMu held.
DrainBlocked == rd = "drain" /\ \E i \in pending : ~Room(i)

\* Two things keep a call from returning: a drain that stays blocked for good, and a write
\* that a live server never takes in, for the context is not looked at before the write is
\* over (client.go:316-318).  Neither a loss, nor a stalled read loop, nor a slow
\* application, nor a skipped answer, nor Close does (client.go:128-138, 323-339, 412-445).
ReturnsUnlessBlocked ==
    \A i \in Calls : pc[i] = "lock" ~> (pc[i] = "done" \/ []DrainBlocked \/ []WriteBlocked)

\* After Close, when the reader has gone, nobody is left to wake a waiting
\* call: it must have its answer already (TestCloseDuringActiveCall).
CloseWakesCallers ==
    closed /\ rd = "exited" =>
        \A i \in Calls : pc[i] = "wait" => chan[i] # <<>>

-----------------------------------------------------------------------------
\* What a call promises: RpcContract.

CallStatus(i) ==
    CASE pc[i] = "idle" -> "idle"
      [] pc[i] # "idle" /\ outcome[i] = "none" -> "open"
      [] outcome[i] \in {"answered", "end"} -> "answered"
      [] OTHER -> "failed"

Contract == INSTANCE RpcContract WITH
    status    <- [i \in Calls |-> CallStatus(i)],
    produced  <- [i \in Calls |-> Cardinality((1..sent[i]) \ opaque[i])],
    finished  <- [i \in Calls |-> srv[i] = "done"],
    delivered <- [i \in Calls |-> Len(recv[i])]

\* Every behaviour of the client is one the call contract allows, the chunks produced
\* being those that the client can decode: a call ends once, and successfully only if the
\* server finished it and every such chunk reached the application.  For all chunks it
\* does not hold (StreamEndsWhole).
ImplementsContract == Contract!Spec

\* A stream that ends without an error has handed over every chunk the server sent
\* (client.go:342-344, "a terminal error (nil on clean end)").
StreamEndsWhole == \A i \in Calls : outcome[i] = "end" => Len(recv[i]) = sent[i]
=============================================================================
