--------------------------- MODULE CServerProofs ----------------------------
(***************************************************************************)
(* Theorems about the C server, for any number of connections, calls and   *)
(* chunks: whom a frame can reach, when a freed queue is used, how often a *)
(* request is answered, that the input of every call is delivered whole    *)
(* and in order. First the invariant and the steps that keep it in the     *)
(* accept loop and the read loops, then the calls' threads and the         *)
(* clients, then the order of the input.                                   *)
(***************************************************************************)
EXTENDS CServer, TLAPS

Frames == [id : Calls, type : {"request", "chunk", "finish", "opaque"}, n : Nat]

\* The types of what the argument is about.
ConnTypes ==
    /\ server \in {"up", "closed", "crashed"}
    /\ link \in [Conns -> {"new", "open", "lost"}] /\ sockfd \in [Conns -> {0} \cup Conns]
    /\ loop \in [Conns -> {"none", "read", "push", "close", "done"}]
    /\ held \in [Conns -> {0} \cup Calls]
    /\ wire \in [Conns -> Seq(Frames)] /\ broken \subseteq Conns
CallTypes ==
    /\ handler \in [Calls -> AllHandlers \cup {"none"}] /\ conn \in [Calls -> {0} \cup Conns]
    /\ finished \in [Calls -> BOOLEAN]
    /\ sent \in [Calls -> Nat] /\ got \in [Calls -> Seq(Nat)] /\ buf \in [Calls -> Seq(Nat)]
    /\ thread \in [Calls -> {"none", "run", "write", "remove", "free", "done", "never"}]
    /\ ended \in [Calls -> BOOLEAN] /\ early \in [Calls -> BOOLEAN]
    /\ terms \in [Calls -> Nat]

\* A connection is read until its peer has gone or reading it fails, and no two have the same
\* descriptor.
ConnInv ==
    /\ \A k \in Conns : link[k] = "new" => loop[k] = "none"
    /\ \A k \in Conns : link[k] = "open" => loop[k] # "none"
    /\ \A k \in Conns : loop[k] \in {"close", "done"} => link[k] = "lost" \/ k \in broken
    /\ \A j, k \in Conns : Open(j) /\ Open(k) /\ j # k => sockfd[j] # sockfd[k]

\* A call belongs to a connection that was accepted; before it is made nothing is known of it.
Placed(i) == conn[i] \in Conns /\ loop[conn[i]] # "none"
Unused(i) ==
    /\ thread[i] = "none" /\ terms[i] = 0 /\ ~finished[i] /\ ~ended[i]
    /\ buf[i] = <<>> /\ i \notin inputs \cup foreign
CallInv == \A i \in Calls : (handler[i] # "none" => Placed(i)) /\ (handler[i] = "none" => Unused(i))

\* Frame p of connection k is of a call on it.  A request is the first of its call, which is
\* yet to be dispatched; an end of input is the last.
FrameInv(k, p) ==
    LET i == wire[k][p].id IN
    /\ handler[i] # "none" /\ conn[i] = k
    /\ wire[k][p].type = "request" =>
         /\ thread[i] = "none" /\ terms[i] = 0
         /\ \A q \in 1..Len(wire[k]) : wire[k][q].id = i => p <= q
    /\ wire[k][p].type = "chunk" => wire[k][p].n # EndMark
    /\ wire[k][p].type = "finish" =>
         finished[i] /\ \A q \in 1..Len(wire[k]) : wire[k][q].id = i => q <= p
WireInv == \A k \in Conns : \A p \in 1..Len(wire[k]) : FrameInv(k, p)

\* Terminal frames follow the thread.
TermOf(i) ==
    /\ terms[i] <= 1
    /\ thread[i] \in {"run", "write", "never"} => terms[i] = 0
    /\ thread[i] \in {"remove", "free"} => HasInput(i)
    /\ (HasOutput(i) /\ thread[i] \in {"remove", "free", "done"}) => terms[i] = 1
TermInv == \A i \in Calls : TermOf(i)

\* The read loop holds the queue its next frame is for.
Holds(k) ==
    /\ wire[k] # <<>> /\ held[k] = wire[k][1].id /\ wire[k][1].type \in {"chunk", "finish"}
    /\ thread[held[k]] # "none"
HoldInv == \A k \in Conns : loop[k] = "push" => Holds(k)

\* A queue has its end, or its handler has seen it, only when no frame can follow.
NoneOf(i) == \A p \in 1..Len(wire[conn[i]]) : wire[conn[i]][p].id # i
EndSeen(i) == ended[i] \/ \E n \in 1..Len(buf[i]) : buf[i][n] = EndMark
Settled(i) ==
    handler[i] # "none" /\ ((finished[i] /\ NoneOf(i)) \/ loop[conn[i]] \in {"close", "done"})
SettledInv == \A i \in Calls : EndSeen(i) => Settled(i)

\* A queue is registered while its handler may use it and freed after that.
FreeOf(i) ==
    /\ i \in freed => thread[i] = "done" /\ HasInput(i)
    /\ HasInput(i) /\ thread[i] \in {"write", "remove", "free", "done"} => early[i] \/ ended[i]
    /\ i \in inputs => thread[i] \in {"run", "write", "remove", "never"} /\ HasInput(i)
FreeInv == \A i \in Calls : FreeOf(i)

\* The inductive invariant.
ServerInv ==
    /\ ConnTypes /\ CallTypes /\ ConnInv /\ CallInv /\ WireInv /\ TermInv
    /\ HoldInv /\ SettledInv /\ FreeInv
    /\ foreign \subseteq Calls /\ ForeignNeedsDeadConn
    /\ stale \subseteq Calls /\ StaleNeedsEarlyReturn

-----------------------------------------------------------------------------
\* The frames on their way.

\* A connection after its next frame is read.
LEMMA AfterRead ==
    ASSUME ConnTypes, NEW k \in Conns, wire[k] # <<>>, Read(k)
    PROVE  /\ wire' \in [Conns -> Seq(Frames)]
           /\ \A j \in Conns : j # k => wire'[j] = wire[j]
           /\ Len(wire[k]) \in Nat \ {0} /\ Len(wire'[k]) = Len(wire[k]) - 1
           /\ \A p \in 1..Len(wire'[k]) :
                wire'[k][p] = wire[k][p + 1] /\ p + 1 \in 1..Len(wire[k]) /\ p \in Nat \ {0}
  <1>1. wire \in [Conns -> Seq(Frames)]
    BY DEF ConnTypes
  <1>2. wire'[k] = Tail(wire[k]) /\ wire[k] \in Seq(Frames)
    BY <1>1 DEF Read
  <1>3. QED
    BY <1>1, <1>2 DEF Read

\* A connection after a client has written to it.
LEMMA AfterWrite ==
    ASSUME ConnTypes, NEW k \in Conns, NEW m \in Frames, Write(k, m)
    PROVE  /\ wire' \in [Conns -> Seq(Frames)]
           /\ \A j \in Conns : j # k => wire'[j] = wire[j]
           /\ Len(wire[k]) \in Nat /\ Len(wire'[k]) = Len(wire[k]) + 1
           /\ \A p \in 1..Len(wire[k]) : wire'[k][p] = wire[k][p]
           /\ wire'[k][Len(wire[k]) + 1] = m
           /\ \A p \in 1..Len(wire'[k]) : p \in 1..Len(wire[k]) \/ p = Len(wire[k]) + 1
  <1>1. wire \in [Conns -> Seq(Frames)]
    BY DEF ConnTypes
  <1>2. wire'[k] = Append(wire[k], m) /\ wire[k] \in Seq(Frames)
    BY <1>1 DEF Write
  <1>3. QED
    BY <1>1, <1>2 DEF Write

\* Every frame on its way is of a call, and is placed as the invariant says.
LEMMA FramesOnTheirWay ==
    ASSUME ConnTypes, WireInv, NEW k \in Conns, NEW p \in 1..Len(wire[k])
    PROVE  wire[k][p] \in Frames /\ wire[k][p].id \in Calls /\ FrameInv(k, p)
  <1>1. wire[k] \in Seq(Frames)
    BY DEF ConnTypes
  <1>2. wire[k][p] \in Frames
    BY <1>1
  <1>3. QED
    BY <1>2 DEF WireInv, Frames

\* The frame at the head of a connection, and its call.
LEMMA HeadFacts ==
    ASSUME ConnTypes, WireInv, NEW k \in Conns, wire[k] # <<>>
    PROVE  /\ NextFrame(k) = wire[k][1] /\ NextFrame(k) \in Frames /\ NextFrame(k).id \in Calls
           /\ FrameInv(k, 1) /\ 1 \in 1..Len(wire[k])
  <1>1. wire[k] \in Seq(Frames)
    BY Zenon DEF ConnTypes
  <1>2. 1 \in 1..Len(wire[k]) /\ Head(wire[k]) = wire[k][1]
    BY <1>1
  <1>3. QED
    BY Zenon, <1>2, FramesOnTheirWay DEF NextFrame

\* What the read loop holds is a call.
LEMMA HeldIsCall ==
    ASSUME ConnTypes, WireInv, HoldInv, NEW k \in Conns, loop[k] = "push"
    PROVE  held[k] \in Calls /\ wire[k] # <<>> /\ thread[held[k]] # "none"
  <1>1. wire[k] # <<>> /\ held[k] = wire[k][1].id /\ thread[held[k]] # "none"
    BY Zenon DEF HoldInv, Holds
  <1>2. QED
    BY Zenon, <1>1, HeadFacts

-----------------------------------------------------------------------------
\* What keeps the parts of the invariant.

\* Nothing is said of a connection's frames that a call's thread, once started, can disturb.
LEMMA WireKept ==
    ASSUME ConnTypes, WireInv, UNCHANGED <<wire, handler, conn, finished>>,
           \A c \in Calls : thread[c] = "none" /\ terms[c] = 0 => thread'[c] = "none" /\ terms'[c] = 0
    PROVE  WireInv'
  <1> SUFFICES ASSUME NEW k \in Conns, NEW p \in 1..Len(wire[k])
               PROVE  FrameInv(k, p)'
    BY Zenon DEF WireInv
  <1>1. wire[k][p].id \in Calls /\ FrameInv(k, p)
    BY Zenon, FramesOnTheirWay
  <1>2. QED
    BY Zenon, <1>1 DEF FrameInv

LEMMA CallsKept ==
    ASSUME CallInv, UNCHANGED <<handler, conn, finished, inputs>>,
           \A k \in Conns : loop[k] # "none" => loop'[k] # "none",
           \A c \in Calls : Unused(c) /\ handler[c] = "none" =>
               /\ thread'[c] = thread[c] /\ terms'[c] = terms[c] /\ ended'[c] = ended[c]
               /\ buf'[c] = buf[c] /\ c \notin foreign'
    PROVE  CallInv'
  <1> SUFFICES ASSUME NEW c \in Calls
               PROVE  (handler[c] # "none" => Placed(c)') /\ (handler[c] = "none" => Unused(c)')
    BY Zenon DEF CallInv
  <1>1. ASSUME handler[c] # "none" PROVE Placed(c)'
    BY Zenon, <1>1 DEF CallInv, Placed
  <1>2. ASSUME handler[c] = "none" PROVE Unused(c)'
    BY Zenon, <1>2 DEF CallInv, Unused
  <1>3. QED
    BY Zenon, <1>1, <1>2

LEMMA TermsKept ==
    ASSUME TermInv, UNCHANGED <<handler, thread, terms>>
    PROVE  TermInv'
  BY Zenon DEF TermInv, TermOf, HasInput, HasOutput

LEMMA HoldKept ==
    ASSUME ConnTypes, WireInv, HoldInv,
           \A k \in Conns : loop'[k] = "push" => loop[k] = "push" /\ wire'[k] = wire[k] /\ held'[k] = held[k],
           \A c \in Calls : thread[c] # "none" => thread'[c] # "none"
    PROVE  HoldInv'
  <1> SUFFICES ASSUME NEW k \in Conns, loop'[k] = "push" PROVE Holds(k)'
    BY Zenon DEF HoldInv
  <1>1. /\ loop[k] = "push" /\ wire'[k] = wire[k] /\ held'[k] = held[k] /\ Holds(k)
        /\ held[k] \in Calls
    BY Zenon, HeldIsCall DEF HoldInv
  <1>2. QED
    BY Zenon, <1>1 DEF Holds

LEMMA SettledKept ==
    ASSUME CallInv, SettledInv, UNCHANGED <<handler, conn, finished>>,
           \A c \in Calls : EndSeen(c)' => EndSeen(c),
           \A c \in Calls : handler[c] # "none" /\ conn[c] \in Conns /\ NoneOf(c) => NoneOf(c)',
           \A k \in Conns : loop[k] \in {"close", "done"} => loop'[k] \in {"close", "done"}
    PROVE  SettledInv'
  <1> SUFFICES ASSUME NEW c \in Calls, EndSeen(c)' PROVE Settled(c)'
    BY Zenon DEF SettledInv
  <1>1. Settled(c)
    BY Zenon DEF SettledInv
  <1>2. conn[c] \in Conns
    BY Zenon, <1>1 DEF Settled, CallInv, Placed
  <1>3. QED
    BY Zenon, <1>1, <1>2 DEF Settled

LEMMA FreeKept ==
    ASSUME FreeInv, UNCHANGED <<handler, thread, ended, early, inputs, freed>>
    PROVE  FreeInv'
  BY Zenon DEF FreeInv, FreeOf, HasInput

-----------------------------------------------------------------------------
\* The invariant holds when the server starts.
LEMMA InitInv == Init => ServerInv
  <1> SUFFICES ASSUME Init PROVE ServerInv
    OBVIOUS
  <1>1. ConnTypes /\ CallTypes
    BY DEF Init, ConnTypes, CallTypes
  <1>2. ConnInv /\ CallInv
    BY DEF Init, ConnInv, CallInv, Open, Unused
  <1>3. WireInv /\ TermInv
    BY DEF Init, WireInv, TermInv, TermOf, HasInput, HasOutput
  <1>4. HoldInv /\ SettledInv /\ FreeInv
    BY DEF Init, HoldInv, SettledInv, EndSeen, FreeInv, FreeOf, HasInput
  <1>5. QED
    BY <1>1, <1>2, <1>3, <1>4 DEF ServerInv, Init, ForeignNeedsDeadConn, StaleNeedsEarlyReturn

-----------------------------------------------------------------------------
\* The steps of the connections.

\* The calls' own state, which the accept loop, the connections' ends and clients' departures
\* leave alone.
callState == <<broken, wire, handler, conn, sent, finished, inputs, freed, stale, foreign, thread, got, ended,
               early, terms>>

\* A connection that comes, goes or loses its peer keeps the invariant.
LEMMA ConnStep ==
    ASSUME ServerInv, ConnTypes', ConnInv', UNCHANGED <<callState, buf, held>>,
           \A k \in Conns :
               /\ loop'[k] = "none" => loop[k] = "none"
               /\ loop'[k] = "push" => loop[k] = "push"
               /\ loop[k] \in {"close", "done"} => loop'[k] \in {"close", "done"}
               /\ link[k] = "lost" => link'[k] = "lost"
    PROVE  ServerInv'
  <1> USE DEF ServerInv
  <1>1. /\ UNCHANGED <<broken, wire, handler, conn, sent, finished, inputs, freed, stale, foreign>>
        /\ UNCHANGED <<thread, got, ended, early, terms, buf, held>>
    BY Zenon DEF callState
  <1>2. CallTypes'
    BY Zenon, <1>1 DEF CallTypes
  <1>3. CallInv'
    BY Zenon, <1>1, CallsKept DEF Unused
  <1>4. WireInv' /\ TermInv' /\ FreeInv'
    BY Zenon, <1>1, WireKept, TermsKept, FreeKept
  <1>5. HoldInv'
    BY Zenon, <1>1, HoldKept
  <1>6. SettledInv'
    <2>1. \A c \in Calls : (EndSeen(c)' => EndSeen(c)) /\ (NoneOf(c) => NoneOf(c)')
      BY Zenon, <1>1 DEF EndSeen, NoneOf
    <2>2. QED
      BY Zenon, <1>1, <2>1, SettledKept
  <1>7. ForeignNeedsDeadConn' /\ StaleNeedsEarlyReturn'
    <2>1. \A i \in foreign : conn[i] \in Conns
      BY Zenon DEF CallInv, Placed, Unused
    <2>2. QED
      BY Zenon, <1>1, <2>1 DEF ForeignNeedsDeadConn, StaleNeedsEarlyReturn
  <1>8. QED
    BY Zenon, <1>1, <1>2, <1>3, <1>4, <1>5, <1>6, <1>7

\* The accept loop, also when no thread can be had for the connection.
LEMMA AcceptInv ==
    ASSUME ServerInv, NEW k \in Conns, Accept(k) \/ AcceptFails(k)
    PROVE  ServerInv'
  <1> USE DEF ServerInv
  <1>1. loop[k] = "none" /\ ~Open(k) /\ link[k] = "new"
    BY Zenon DEF Accept, AcceptFails, ConnInv, Open
  <1>2. /\ link \in [Conns -> {"new", "open", "lost"}] /\ sockfd \in [Conns -> {0} \cup Conns]
        /\ loop \in [Conns -> {"none", "read", "push", "close", "done"}]
    BY Zenon DEF ConnTypes
  <1>3. CASE Accept(k)
    <2>1. /\ sockfd'[k] \in Conns /\ \A j \in Conns : Open(j) => sockfd[j] # sockfd'[k]
          /\ \A j \in Conns : j # k => sockfd'[j] = sockfd[j]
          /\ sockfd' \in [Conns -> {0} \cup Conns]
      <3>1. PICK d \in Conns : (\A j \in Conns : Open(j) => sockfd[j] # d) /\ sockfd' = [sockfd EXCEPT ![k] = d]
        BY Zenon, <1>3 DEF Accept
      <3>2. QED
        BY <1>2, <3>1
    <2>2. link' = [link EXCEPT ![k] = "open"] /\ loop' = [loop EXCEPT ![k] = "read"]
      BY Zenon, <1>3 DEF Accept
    <2>3. /\ link' \in [Conns -> {"new", "open", "lost"}] /\ link'[k] = "open" /\ loop'[k] = "read"
          /\ loop' \in [Conns -> {"none", "read", "push", "close", "done"}]
          /\ \A j \in Conns : j # k => loop'[j] = loop[j] /\ link'[j] = link[j]
      BY <1>2, <2>2
    <2>4. UNCHANGED <<server, callState, buf, held>>
      BY Zenon, <1>3 DEF Accept, callState, clientVars, queueVars, callVars
    <2>5. ConnTypes'
      BY Zenon, <2>1, <2>3, <2>4 DEF ConnTypes, callState
    <2>6. ConnInv'
      <3>1. \A j \in Conns : j # k => (Open(j)' <=> Open(j))
        BY Zenon, <2>3 DEF Open
      <3>2. \A j \in Conns : j # k /\ Open(j)' => sockfd'[j] # sockfd'[k]
        BY Zenon, <2>1, <3>1
      <3>3. ASSUME NEW i \in Conns, NEW j \in Conns, Open(i)', Open(j)', i # j
            PROVE  sockfd'[i] # sockfd'[j]
        <4>1. CASE i = k \/ j = k
          BY Zenon, <3>2, <3>3, <4>1
        <4>2. CASE i # k /\ j # k
          <5>1. Open(i) /\ Open(j) /\ sockfd'[i] = sockfd[i] /\ sockfd'[j] = sockfd[j]
            BY Zenon, <2>1, <3>1, <3>3, <4>2
          <5>2. QED
            BY Zenon, <3>3, <5>1 DEF ConnInv
        <4>3. QED
          BY Zenon, <4>1, <4>2
      <3>4. QED
        BY Zenon, <2>3, <2>4, <3>3 DEF ConnInv, callState
    <2>7. \A j \in Conns :
              /\ loop'[j] = "none" => loop[j] = "none"
              /\ loop'[j] = "push" => loop[j] = "push"
              /\ loop[j] \in {"close", "done"} => loop'[j] \in {"close", "done"}
              /\ link[j] = "lost" => link'[j] = "lost"
      BY <1>1, <2>3
    <2>8. QED
      BY Zenon, <2>4, <2>5, <2>6, <2>7, ConnStep
  <1>4. CASE AcceptFails(k)
    <2>1. /\ link' = [link EXCEPT ![k] = "lost"]
          /\ UNCHANGED <<server, callState, buf, held, sockfd, loop>>
      BY Zenon, <1>4 DEF AcceptFails, callState, sockVars, loopVars, clientVars, queueVars, callVars
    <2>2. /\ link' \in [Conns -> {"new", "open", "lost"}] /\ link'[k] = "lost"
          /\ \A j \in Conns : j # k => link'[j] = link[j]
      BY <1>2, <2>1
    <2>3. ConnTypes'
      BY Zenon, <2>1, <2>2 DEF ConnTypes, callState
    <2>4. ConnInv'
      <3>1. \A j \in Conns : Open(j)' <=> Open(j)
        BY Zenon, <2>1 DEF Open
      <3>2. QED
        BY Zenon, <2>1, <2>2, <3>1 DEF ConnInv, callState
    <2>5. QED
      BY Zenon, <2>1, <2>2, <2>3, <2>4, ConnStep
  <1>5. QED
    BY Zenon, <1>3, <1>4

\* A peer that goes, and the close of its socket.
LEMMA LeaveInv ==
    ASSUME ServerInv, NEW k \in Conns, Disconnect(k) \/ CloseSocket(k)
    PROVE  ServerInv'
  <1> USE DEF ServerInv
  <1>1. /\ link \in [Conns -> {"new", "open", "lost"}]
        /\ loop \in [Conns -> {"none", "read", "push", "close", "done"}]
    BY Zenon DEF ConnTypes
  <1>2. UNCHANGED <<server, callState, buf, held, sockfd>>
    BY Zenon DEF Disconnect, CloseSocket, callState, sockVars, loopVars, clientVars, queueVars, callVars
  <1>3. /\ \A j \in Conns : j # k => loop'[j] = loop[j] /\ link'[j] = link[j]
        /\ link'[k] = "lost" \/ link'[k] = link[k]
        /\ loop'[k] = loop[k] \/ (loop[k] = "close" /\ loop'[k] = "done")
        /\ link[k] = "new" => link'[k] = "new"
        /\ link' \in [Conns -> {"new", "open", "lost"}]
        /\ loop' \in [Conns -> {"none", "read", "push", "close", "done"}]
    <2>1. CASE Disconnect(k)
      <3>1. link[k] = "open" /\ link' = [link EXCEPT ![k] = "lost"] /\ loop' = loop
        BY Zenon, <2>1 DEF Disconnect, loopVars
      <3>2. QED
        BY <1>1, <3>1
    <2>2. CASE CloseSocket(k)
      <3>1. loop[k] = "close" /\ loop' = [loop EXCEPT ![k] = "done"] /\ link' = link
        BY Zenon, <2>2 DEF CloseSocket
      <3>2. QED
        BY <1>1, <3>1
    <2>3. QED
      BY Zenon, <2>1, <2>2
  <1>4. ConnTypes'
    BY Zenon, <1>2, <1>3 DEF ConnTypes, callState
  <1>5. ConnInv'
    <2>1. \A j \in Conns : (link'[j] = "new" => loop'[j] = "none") /\ (Open(j)' => Open(j))
      BY Zenon, <1>3 DEF ConnInv, Open
    <2>2. \A j \in Conns : /\ link'[j] = "open" => loop'[j] # "none"
                           /\ loop'[j] \in {"close", "done"} => link'[j] = "lost" \/ j \in broken
      BY ZenonT(60), <1>3 DEF ConnInv
    <2>3. QED
      BY Zenon, <1>2, <2>1, <2>2 DEF ConnInv, callState
  <1>6. QED
    BY Zenon, <1>2, <1>3, <1>4, <1>5, ConnStep

\* The server is closed, or used after that.
LEMMA CloseInv ==
    ASSUME ServerInv, Close \/ UseFreedServer
    PROVE  ServerInv'
  <1> USE DEF ServerInv
  <1>1. server' \in {"closed", "crashed"} /\ UNCHANGED <<callState, buf, held, link, loop, sockfd>>
    BY Zenon DEF Close, UseFreedServer, callState, sockVars, loopVars, clientVars, queueVars, callVars
  <1>2. ConnTypes' /\ ConnInv'
    BY Zenon, <1>1 DEF ConnTypes, ConnInv, Open, callState
  <1>3. QED
    BY Zenon, <1>1, <1>2, ConnStep

\* The end of the read loop wakes every handler that waits on the connection.
LEMMA LoopEndsInv ==
    ASSUME ServerInv, NEW k \in Conns, LoopEnds(k) \/ ReadFails(k)
    PROVE  ServerInv'
  <1> USE DEF ServerInv
  <1>1. /\ StopReading(k) /\ loop[k] = "read" /\ link[k] # "new"
        /\ broken \subseteq broken' /\ broken' \subseteq Conns
        /\ link[k] = "lost" \/ k \in broken'
    BY DEF LoopEnds, ReadFails, ConnTypes
  <1>2. /\ UNCHANGED <<server, link, sockfd, foreign, held, handler, conn, sent, finished, inputs, freed, stale>>
        /\ UNCHANGED <<thread, got, ended, early, terms>>
    BY Zenon, <1>1 DEF StopReading, clientVars, callVars
  <1>3. /\ loop' \in [Conns -> {"none", "read", "push", "close", "done"}] /\ loop'[k] = "close"
        /\ \A j \in Conns : j # k => loop'[j] = loop[j]
    <2>1. loop' = [loop EXCEPT ![k] = "close"] /\ loop \in [Conns -> {"none", "read", "push", "close", "done"}]
      BY Zenon, <1>1 DEF StopReading, ConnTypes
    <2>2. QED
      BY <2>1
  <1>4. wire' \in [Conns -> Seq(Frames)] /\ wire'[k] = <<>> /\ \A j \in Conns : j # k => wire'[j] = wire[j]
    <2>1. wire' = [wire EXCEPT ![k] = <<>>] /\ wire \in [Conns -> Seq(Frames)]
      BY Zenon, <1>1 DEF StopReading, ConnTypes
    <2>2. QED
      BY <2>1
  <1>5. /\ buf' \in [Calls -> Seq(Nat)]
        /\ \A i \in Calls : buf'[i] = buf[i] \/ (i \in inputs /\ conn[i] = k)
    <2>1. buf' = [i \in Calls |-> IF i \in inputs /\ conn[i] = k THEN Append(buf[i], EndMark) ELSE buf[i]]
      BY Zenon, <1>1 DEF StopReading, Queued
    <2>2. buf \in [Calls -> Seq(Nat)] /\ EndMark \in Nat
      BY DEF CallTypes, EndMark
    <2>3. \A i \in Calls : buf[i] \in Seq(Nat) /\ Append(buf[i], EndMark) \in Seq(Nat)
      BY <2>2
    <2>4. QED
      BY Zenon, <2>1, <2>3
  <1>6. ConnTypes' /\ CallTypes'
    BY Zenon, <1>1, <1>2, <1>3, <1>4, <1>5 DEF ConnTypes, CallTypes
  <1>7. ConnInv'
    <2>1. \A j \in Conns : Open(j)' => Open(j)
      BY Zenon, <1>1, <1>2, <1>3 DEF Open
    <2>2. QED
      BY Zenon, <1>1, <1>2, <1>3, <2>1 DEF ConnInv
  <1>8. CallInv'
    <2>1. \A c \in Calls : Unused(c) => buf'[c] = buf[c] /\ c \notin foreign
      BY Zenon, <1>5 DEF Unused
    <2>2. QED
      BY Zenon, <1>2, <1>3, <2>1, CallsKept
  <1>9. WireInv'
    <2>1. ASSUME NEW j \in Conns, NEW p \in 1..Len(wire'[j]) PROVE FrameInv(j, p)'
      <3>1. CASE j = k
        BY <1>4, <3>1
      <3>2. CASE j # k
        <4>1. wire'[j] = wire[j] /\ FrameInv(j, p)
          BY Zenon, <1>4, <3>2, FramesOnTheirWay
        <4>2. QED
          BY Zenon, <1>2, <4>1 DEF FrameInv
      <3>3. QED
        BY Zenon, <3>1, <3>2
    <2>2. QED
      BY Zenon, <2>1 DEF WireInv
  <1>10. TermInv' /\ FreeInv'
    BY Zenon, <1>2, TermsKept, FreeKept
  <1>11. HoldInv'
    BY Zenon, <1>2, <1>3, <1>4, HoldKept
  <1>12. SettledInv'
    <2>1. ASSUME NEW c \in Calls, EndSeen(c)' PROVE Settled(c)'
      <3>1. CASE conn[c] = k /\ handler[c] # "none"
        BY Zenon, <1>2, <1>3, <3>1 DEF Settled
      <3>2. CASE conn[c] # k \/ handler[c] = "none"
        <4>1. buf'[c] = buf[c]
          BY Zenon, <1>5, <3>2 DEF CallInv, Unused
        <4>2. Settled(c)
          BY Zenon, <1>2, <2>1, <4>1 DEF SettledInv, EndSeen
        <4>3. conn[c] \in Conns /\ conn[c] # k
          BY Zenon, <3>2, <4>2 DEF Settled, CallInv, Placed
        <4>4. QED
          BY Zenon, <1>2, <1>3, <1>4, <4>2, <4>3 DEF Settled, NoneOf
      <3>3. QED
        BY Zenon, <3>1, <3>2
    <2>2. QED
      BY Zenon, <2>1 DEF SettledInv
  <1>13. ForeignNeedsDeadConn' /\ StaleNeedsEarlyReturn'
    BY Zenon, <1>1, <1>2 DEF ForeignNeedsDeadConn, StaleNeedsEarlyReturn
  <1>14. QED
    BY Zenon, <1>2, <1>6, <1>7, <1>8, <1>9, <1>10, <1>11, <1>12, <1>13

-----------------------------------------------------------------------------
\* The read loop.

\* Taking the next frame keeps what is said of the others, if the step changes at most the
\* call whose request it is.
LEMMA ReadKeepsWire ==
    ASSUME ConnTypes, CallInv, WireInv, NEW k \in Conns, wire[k] # <<>>, Read(k),
           UNCHANGED <<handler, conn, finished>>,
           \A i \in Calls : (NextFrame(k).type = "request" => i # NextFrame(k).id) =>
               thread'[i] = thread[i] /\ terms'[i] = terms[i]
    PROVE  WireInv' /\ \A i \in Calls : handler[i] # "none" /\ conn[i] \in Conns /\ NoneOf(i) => NoneOf(i)'
  <1> DEFINE w == wire[k]
             v == wire'[k]
  <1>1. /\ \A j \in Conns : j # k => wire'[j] = wire[j]
        /\ Len(w) \in Nat \ {0} /\ Len(v) = Len(w) - 1
        /\ \A p \in 1..Len(v) : v[p] = w[p + 1] /\ p + 1 \in 1..Len(w) /\ p \in Nat \ {0}
    BY Zenon, AfterRead
  <1>2. NextFrame(k) = w[1] /\ FrameInv(k, 1) /\ 1 \in 1..Len(w) /\ w[1].id \in Calls
    BY Zenon, HeadFacts, FramesOnTheirWay
  <1>3. ASSUME NEW j \in Conns, j # k, NEW p \in 1..Len(wire'[j])
        PROVE  FrameInv(j, p)'
    <2>1. wire'[j] = wire[j]
      BY Zenon, <1>1, <1>3
    <2>2. FrameInv(j, p) /\ wire[j][p].id \in Calls
      BY Zenon, <1>3, <2>1, FramesOnTheirWay
    <2>3. wire[j][p].id # w[1].id
      BY Zenon, <1>2, <1>3, <2>2 DEF FrameInv
    <2>4. thread'[wire[j][p].id] = thread[wire[j][p].id] /\ terms'[wire[j][p].id] = terms[wire[j][p].id]
      BY Zenon, <1>2, <2>2, <2>3
    <2>5. QED
      BY Zenon, <2>1, <2>2, <2>4 DEF FrameInv
  <1>4. ASSUME NEW p \in 1..Len(v)
        PROVE  FrameInv(k, p)'
    <2>1. p + 1 \in 1..Len(w) /\ v[p] = w[p + 1] /\ p \in Nat \ {0}
      BY Zenon, <1>1, <1>4
    <2>2. FrameInv(k, p + 1) /\ w[p + 1].id \in Calls
      BY Zenon, <2>1, FramesOnTheirWay
    <2>3. ~(p + 1 <= 1)
      BY <2>1
    <2>4. w[p + 1].type = "request" => w[p + 1].id # w[1].id
      BY Zenon, <1>2, <2>1, <2>2, <2>3 DEF FrameInv
    <2>5. \A q \in 1..Len(v) : v[q].id = v[p].id => w[q + 1].id = w[p + 1].id /\ q + 1 \in 1..Len(w)
      BY Zenon, <1>1, <2>1
    <2>6. \A q \in 1..Len(v) : (p + 1 <= q + 1 => p <= q) /\ (q + 1 <= p + 1 => q <= p)
      BY <1>1, <2>1
    <2>7. w[p + 1].type = "request" => \A q \in 1..Len(v) : v[q].id = v[p].id => p <= q
      BY Zenon, <2>2, <2>5, <2>6 DEF FrameInv
    <2>8. w[p + 1].type = "finish" => \A q \in 1..Len(v) : v[q].id = v[p].id => q <= p
      BY Zenon, <2>2, <2>5, <2>6 DEF FrameInv
    <2>9. w[p + 1].type = "request" => thread'[v[p].id] = "none" /\ terms'[v[p].id] = 0
      <3>1. w[p + 1].type = "request" => thread'[w[p + 1].id] = thread[w[p + 1].id]
                                         /\ terms'[w[p + 1].id] = terms[w[p + 1].id]
        BY Zenon, <1>2, <2>2, <2>4
      <3>2. QED
        BY Zenon, <2>1, <2>2, <3>1 DEF FrameInv
    <2>10. QED
      BY Zenon, <2>1, <2>2, <2>7, <2>8, <2>9 DEF FrameInv
  <1>5. WireInv'
    <2>1. ASSUME NEW j \in Conns, NEW p \in 1..Len(wire'[j])
          PROVE  FrameInv(j, p)'
      BY Zenon, <1>3, <1>4, <2>1
    <2>2. QED
      BY Zenon, <2>1 DEF WireInv
  <1>6. ASSUME NEW i \in Calls, conn[i] \in Conns, NoneOf(i)
        PROVE  NoneOf(i)'
    <2>1. CASE conn[i] = k
      <3>1. \A p \in 1..Len(w) : w[p].id # i
        BY Zenon, <1>6, <2>1 DEF NoneOf
      <3>2. \A p \in 1..Len(v) : v[p].id # i
        BY ZenonT(40), <1>1, <3>1
      <3>3. conn'[i] = k
        BY Zenon, <2>1
      <3>4. QED
        BY Zenon, <3>2, <3>3 DEF NoneOf
    <2>2. CASE conn[i] # k
      BY Zenon, <1>1, <1>6, <2>2 DEF NoneOf
    <2>3. QED
      BY Zenon, <2>1, <2>2
  <1>7. QED
    BY Zenon, <1>5, <1>6

\* A frame that reaches another connection is of a call whose own is no longer read.
LEMMA ForeignStep ==
    ASSUME ConnTypes, ConnInv, CallInv, ForeignNeedsDeadConn, foreign \subseteq Calls,
           NEW i \in Calls, handler[i] # "none", WritesFrame(i), UNCHANGED <<link, conn, broken>>
    PROVE  /\ foreign' \subseteq Calls /\ ForeignNeedsDeadConn' /\ foreign' \subseteq foreign \cup {i}
           /\ server' \in {"up", "closed", "crashed"}
  <1>1. foreign' \subseteq foreign \cup {i} /\ server' \in {server, "crashed"}
    BY DEF WritesFrame
  <1>2. ASSUME i \in foreign', i \notin foreign
        PROVE  link[conn[i]] = "lost" \/ conn[i] \in broken
    <2>1. PICK j \in Conns : Open(j) /\ sockfd[j] = sockfd[conn[i]] /\ j # conn[i]
      BY Zenon, <1>2 DEF WritesFrame, Reached
    <2>2. conn[i] \in Conns /\ loop[conn[i]] # "none"
      BY Zenon DEF CallInv, Placed
    <2>3. ~Open(conn[i])
      BY Zenon, <2>1, <2>2 DEF ConnInv
    <2>4. loop[conn[i]] \in {"none", "read", "push", "close", "done"}
      BY Zenon, <2>2 DEF ConnTypes
    <2>5. QED
      BY Zenon, <2>2, <2>3, <2>4 DEF ConnInv, Open
  <1>3. server \in {"up", "closed", "crashed"}
    BY Zenon DEF ConnTypes
  <1>4. QED
    BY Zenon, <1>1, <1>2, <1>3 DEF ForeignNeedsDeadConn

\* A refused request is answered by the read loop.
LEMMA RefuseInv ==
    ASSUME ServerInv, NEW k \in Conns, Refuse(k)
    PROVE  ServerInv'
  <1> USE DEF ServerInv
  <1>1. wire[k] # <<>> /\ NextFrame(k).type = "request" /\ Read(k) /\ loop[k] # "push"
    BY Zenon DEF Refuse, Reads
  <1> PICK i \in Calls : i = NextFrame(k).id
    BY Zenon, <1>1, HeadFacts
  <1>2. handler[i] # "none" /\ thread[i] = "none" /\ terms[i] = 0 /\ conn[i] = k
    <2>1. i = wire[k][1].id /\ wire[k][1].type = "request" /\ FrameInv(k, 1)
      BY Zenon, <1>1, HeadFacts
    <2>2. QED
      BY Zenon, <2>1 DEF FrameInv
  <1>3. terms' = [terms EXCEPT ![i] = @ + 1] /\ WritesFrame(i)
    BY Zenon DEF Refuse
  <1>4. /\ UNCHANGED <<link, sockfd, broken, loop, held, handler, conn, sent, finished, inputs, buf, freed, stale>>
        /\ UNCHANGED <<thread, got, ended, early>>
    BY Zenon DEF Refuse, loopVars, clientVars, queueVars
  <1>5. /\ foreign' \subseteq Calls /\ ForeignNeedsDeadConn' /\ foreign' \subseteq foreign \cup {i}
        /\ server' \in {"up", "closed", "crashed"}
    BY Zenon, <1>2, <1>3, <1>4, ForeignStep
  <1>6. /\ terms' \in [Calls -> Nat] /\ terms'[i] = 1
        /\ \A c \in Calls : c # i => terms'[c] = terms[c]
    <2>1. terms \in [Calls -> Nat]
      BY Zenon DEF CallTypes
    <2>2. QED
      BY <1>2, <1>3, <2>1
  <1>7. /\ WireInv'
        /\ \A c \in Calls : handler[c] # "none" /\ conn[c] \in Conns /\ NoneOf(c) => NoneOf(c)'
    BY Zenon, <1>1, <1>4, <1>6, ReadKeepsWire
  <1>8. wire' \in [Conns -> Seq(Frames)] /\ \A j \in Conns : j # k => wire'[j] = wire[j]
    BY Zenon, <1>1, AfterRead
  <1>9. ConnTypes' /\ CallTypes'
    BY Zenon, <1>4, <1>5, <1>6, <1>8 DEF ConnTypes, CallTypes
  <1>10. ConnInv'
    BY Zenon, <1>4 DEF ConnInv, Open
  <1>11. CallInv'
    BY Zenon, <1>2, <1>4, <1>5, <1>6, CallsKept DEF Unused
  <1>12. TermInv'
    <2>1. \A c \in Calls : c # i => TermOf(c)'
      BY Zenon, <1>4, <1>6 DEF TermInv, TermOf, HasInput, HasOutput
    <2>2. TermOf(i)'
      BY <1>2, <1>4, <1>6 DEF TermOf
    <2>3. QED
      BY Zenon, <2>1, <2>2 DEF TermInv
  <1>13. HoldInv'
    BY Zenon, <1>1, <1>4, <1>8, HoldKept
  <1>14. SettledInv'
    <2>1. \A c \in Calls : EndSeen(c)' => EndSeen(c)
      BY Zenon, <1>4 DEF EndSeen
    <2>2. QED
      BY Zenon, <1>4, <1>7, <2>1, SettledKept
  <1>15. FreeInv' /\ StaleNeedsEarlyReturn'
    BY Zenon, <1>4, FreeKept DEF StaleNeedsEarlyReturn
  <1>16. QED
    BY Zenon, <1>4, <1>5, <1>7, <1>9, <1>10, <1>11, <1>12, <1>13, <1>14, <1>15

\* A request gets its queue and its thread.
LEMMA DispatchInv ==
    ASSUME ServerInv, NEW k \in Conns, Dispatch(k)
    PROVE  ServerInv'
  <1> USE DEF ServerInv
  <1>1. wire[k] # <<>> /\ NextFrame(k).type = "request" /\ Read(k) /\ loop[k] # "push"
    BY Zenon DEF Dispatch, Reads
  <1> PICK i \in Calls : i = NextFrame(k).id
    BY Zenon, <1>1, HeadFacts
  <1>2. handler[i] # "none" /\ thread[i] = "none" /\ terms[i] = 0 /\ conn[i] = k
    <2>1. i = wire[k][1].id /\ wire[k][1].type = "request" /\ FrameInv(k, 1)
      BY Zenon, <1>1, HeadFacts
    <2>2. QED
      BY Zenon, <2>1 DEF FrameInv
  <1>3. PICK t \in {"run", "never"} : thread' = [thread EXCEPT ![i] = t]
    BY Zenon DEF Dispatch
  <1>4. inputs' = IF HasInput(i) THEN inputs \cup {i} ELSE inputs
    BY Zenon DEF Dispatch
  <1>5. /\ UNCHANGED <<server, link, sockfd, broken, foreign, loop, held, handler, conn, sent, finished>>
        /\ UNCHANGED <<buf, freed, stale, terms, got, ended, early>>
    BY Zenon DEF Dispatch, sockVars, loopVars, clientVars
  <1>6. /\ thread' \in [Calls -> {"none", "run", "write", "remove", "free", "done", "never"}]
        /\ thread'[i] \in {"run", "never"} /\ \A c \in Calls : c # i => thread'[c] = thread[c]
    <2>1. thread \in [Calls -> {"none", "run", "write", "remove", "free", "done", "never"}]
      BY Zenon DEF CallTypes
    <2>2. QED
      BY <1>2, <1>3, <2>1
  <1>7. /\ WireInv'
        /\ \A c \in Calls : handler[c] # "none" /\ conn[c] \in Conns /\ NoneOf(c) => NoneOf(c)'
    BY Zenon, <1>1, <1>5, <1>6, ReadKeepsWire
  <1>8. wire' \in [Conns -> Seq(Frames)] /\ \A j \in Conns : j # k => wire'[j] = wire[j]
    BY Zenon, <1>1, AfterRead
  <1>9. ConnTypes' /\ CallTypes'
    BY Zenon, <1>5, <1>6, <1>8 DEF ConnTypes, CallTypes
  <1>10. ConnInv'
    BY Zenon, <1>5 DEF ConnInv, Open
  <1>11. CallInv'
    <2>1. ASSUME NEW c \in Calls, handler[c] = "none" PROVE Unused(c)'
      <3>1. c # i /\ Unused(c)
        BY Zenon, <1>2, <2>1 DEF CallInv
      <3>2. c \notin inputs'
        BY <1>4, <3>1 DEF Unused
      <3>3. QED
        BY Zenon, <1>5, <1>6, <3>1, <3>2 DEF Unused
    <2>2. ASSUME NEW c \in Calls, handler[c] # "none" PROVE Placed(c)'
      BY Zenon, <1>5, <2>2 DEF CallInv, Placed
    <2>3. QED
      BY Zenon, <1>5, <2>1, <2>2 DEF CallInv
  <1>12. TermInv'
    <2>1. \A c \in Calls : c # i => TermOf(c)'
      BY Zenon, <1>5, <1>6 DEF TermInv, TermOf, HasInput, HasOutput
    <2>2. TermOf(i)'
      BY <1>2, <1>5, <1>6 DEF TermOf
    <2>3. QED
      BY Zenon, <2>1, <2>2 DEF TermInv
  <1>13. HoldInv'
    <2>1. \A c \in Calls : thread[c] # "none" => thread'[c] # "none"
      BY Zenon, <1>6
    <2>2. QED
      BY Zenon, <1>1, <1>5, <1>8, <2>1, HoldKept
  <1>14. SettledInv'
    <2>1. \A c \in Calls : EndSeen(c)' => EndSeen(c)
      BY Zenon, <1>5 DEF EndSeen
    <2>2. QED
      BY Zenon, <1>5, <1>7, <2>1, SettledKept
  <1>15. FreeInv'
    <2>1. ASSUME NEW c \in Calls, c # i PROVE FreeOf(c)'
      <3>1. c \in inputs' <=> c \in inputs
        BY <1>4, <2>1
      <3>2. QED
        BY Zenon, <1>5, <1>6, <2>1, <3>1 DEF FreeInv, FreeOf, HasInput
    <2>2. FreeOf(i)'
      <3>1. i \notin freed /\ i \notin inputs
        BY Zenon, <1>2 DEF FreeInv, FreeOf
      <3>2. i \in inputs' => HasInput(i)'
        BY <1>4, <1>5, <3>1 DEF HasInput
      <3>3. QED
        BY Zenon, <1>5, <1>6, <3>1, <3>2 DEF FreeOf
    <2>3. QED
      BY Zenon, <2>1, <2>2 DEF FreeInv
  <1>16. ForeignNeedsDeadConn' /\ StaleNeedsEarlyReturn'
    BY Zenon, <1>5 DEF ForeignNeedsDeadConn, StaleNeedsEarlyReturn
  <1>17. QED
    BY Zenon, <1>5, <1>7, <1>9, <1>10, <1>11, <1>12, <1>13, <1>14, <1>15, <1>16

\* A frame that cannot be decoded is skipped.
LEMMA SkipInv ==
    ASSUME ServerInv, NEW k \in Conns, SkipFrame(k)
    PROVE  ServerInv'
  <1> USE DEF ServerInv
  <1>1. wire[k] # <<>> /\ Read(k) /\ loop[k] = "read"
    BY Zenon DEF SkipFrame, Reads
  <1>2. /\ UNCHANGED <<server, link, sockfd, broken, foreign, loop, held, handler, conn, sent, finished, inputs, buf>>
        /\ UNCHANGED <<freed, stale, thread, terms, got, ended, early>>
    BY Zenon DEF SkipFrame, sockVars, loopVars, clientVars, queueVars, callVars
  <1>3. CallTypes' /\ TermInv' /\ FreeInv'
    BY Zenon, <1>2, TermsKept, FreeKept DEF CallTypes
  <1>4. ForeignNeedsDeadConn' /\ StaleNeedsEarlyReturn'
    BY Zenon, <1>2 DEF ForeignNeedsDeadConn, StaleNeedsEarlyReturn
  <1>5. \A c \in Calls : EndSeen(c)' => EndSeen(c)
    BY Zenon, <1>2 DEF EndSeen
  <1>6. /\ WireInv'
        /\ \A c \in Calls : handler[c] # "none" /\ conn[c] \in Conns /\ NoneOf(c) => NoneOf(c)'
    BY Zenon, <1>1, <1>2, ReadKeepsWire
  <1>7. wire' \in [Conns -> Seq(Frames)] /\ \A j \in Conns : j # k => wire'[j] = wire[j]
    BY Zenon, <1>1, AfterRead
  <1>8. ConnTypes' /\ ConnInv'
    BY Zenon, <1>2, <1>7 DEF ConnTypes, ConnInv, Open
  <1>9. CallInv'
    BY Zenon, <1>2, CallsKept DEF Unused
  <1>10. HoldInv'
    BY Zenon, <1>1, <1>2, <1>7, HoldKept
  <1>11. SettledInv'
    BY Zenon, <1>2, <1>5, <1>6, SettledKept
  <1>12. QED
    BY Zenon, <1>2, <1>3, <1>4, <1>6, <1>8, <1>9, <1>10, <1>11

\* A frame of input: its queue is found, or the frame is dropped.
LEMMA FindInv ==
    ASSUME ServerInv, NEW k \in Conns, Find(k)
    PROVE  ServerInv'
  <1> USE DEF ServerInv
  <1>1. wire[k] # <<>> /\ NextFrame(k).type \in {"chunk", "finish"} /\ loop[k] = "read"
    BY Zenon DEF Find, Reads
  <1>2. NextFrame(k) = wire[k][1] /\ NextFrame(k).id \in Calls
    BY Zenon, <1>1, HeadFacts
  <1>3. /\ UNCHANGED <<server, link, sockfd, broken, foreign, handler, conn, sent, finished, inputs, buf, freed>>
        /\ UNCHANGED <<stale, thread, terms, got, ended, early>>
    BY Zenon DEF Find, sockVars, clientVars, queueVars, callVars
  <1>4. CallTypes' /\ TermInv' /\ FreeInv'
    BY Zenon, <1>3, TermsKept, FreeKept DEF CallTypes
  <1>5. ForeignNeedsDeadConn' /\ StaleNeedsEarlyReturn'
    BY Zenon, <1>3 DEF ForeignNeedsDeadConn, StaleNeedsEarlyReturn
  <1>6. \A c \in Calls : EndSeen(c)' => EndSeen(c)
    BY Zenon, <1>3 DEF EndSeen
  <1>7. CASE NextFrame(k).id \in inputs
    <2>1. /\ held' = [held EXCEPT ![k] = NextFrame(k).id] /\ loop' = [loop EXCEPT ![k] = "push"]
          /\ UNCHANGED wire
      BY Zenon, <1>7 DEF Find
    <2>2. /\ held' \in [Conns -> {0} \cup Calls] /\ held'[k] = NextFrame(k).id /\ loop'[k] = "push"
          /\ loop' \in [Conns -> {"none", "read", "push", "close", "done"}]
          /\ \A j \in Conns : j # k => loop'[j] = loop[j] /\ held'[j] = held[j]
      <3>1. held \in [Conns -> {0} \cup Calls] /\ loop \in [Conns -> {"none", "read", "push", "close", "done"}]
        BY Zenon DEF ConnTypes
      <3>2. QED
        BY <1>2, <2>1, <3>1
    <2>3. ConnTypes'
      BY Zenon, <1>3, <2>1, <2>2 DEF ConnTypes
    <2>4. ConnInv'
      <3>1. \A j \in Conns : Open(j)' <=> Open(j)
        BY Zenon, <1>1, <2>2 DEF Open
      <3>2. link[k] # "new"
        BY Zenon, <1>1 DEF ConnInv
      <3>3. QED
        BY Zenon, <1>3, <2>2, <3>1, <3>2 DEF ConnInv
    <2>5. CallInv'
      <3>1. \A j \in Conns : loop[j] # "none" => loop'[j] # "none"
        BY Zenon, <2>2
      <3>2. \A c \in Calls : Unused(c) => c \notin foreign
        BY Zenon DEF Unused
      <3>3. QED
        BY Zenon, <1>3, <3>1, <3>2, CallsKept
    <2>6. WireInv'
      BY Zenon, <1>3, <2>1, WireKept
    <2>7. HoldInv'
      <3>1. Holds(k)'
        <4>1. thread[NextFrame(k).id] # "none"
          BY Zenon, <1>2, <1>7 DEF FreeInv, FreeOf
        <4>2. QED
          BY Zenon, <1>1, <1>2, <1>3, <2>1, <2>2, <4>1 DEF Holds
      <3>2. \A j \in Conns : j # k /\ loop'[j] = "push" => Holds(j)'
        BY ZenonT(60), <1>3, <2>1, <2>2 DEF HoldInv, Holds
      <3>3. QED
        BY Zenon, <3>1, <3>2 DEF HoldInv
    <2>8. SettledInv'
      <3>1. \A c \in Calls : NoneOf(c) => NoneOf(c)'
        BY Zenon, <1>3, <2>1 DEF NoneOf
      <3>2. \A j \in Conns : loop[j] \in {"close", "done"} => loop'[j] \in {"close", "done"}
        BY Zenon, <1>1, <2>2
      <3>3. QED
        BY Zenon, <1>3, <1>6, <3>1, <3>2, SettledKept
    <2>9. QED
      BY Zenon, <1>3, <1>4, <1>5, <2>3, <2>4, <2>5, <2>6, <2>7, <2>8
  <1>8. CASE NextFrame(k).id \notin inputs
    <2>1. Read(k) /\ UNCHANGED <<loop, held>>
      BY Zenon, <1>8 DEF Find, loopVars
    <2>2. /\ WireInv'
          /\ \A c \in Calls : handler[c] # "none" /\ conn[c] \in Conns /\ NoneOf(c) => NoneOf(c)'
      BY Zenon, <1>1, <1>3, <2>1, ReadKeepsWire
    <2>3. wire' \in [Conns -> Seq(Frames)] /\ \A j \in Conns : j # k => wire'[j] = wire[j]
      BY Zenon, <1>1, <2>1, AfterRead
    <2>4. ConnTypes' /\ ConnInv'
      BY Zenon, <1>3, <2>1, <2>3 DEF ConnTypes, ConnInv, Open
    <2>5. CallInv'
      BY Zenon, <1>3, <2>1, CallsKept DEF Unused
    <2>6. HoldInv'
      BY Zenon, <1>1, <1>3, <2>1, <2>3, HoldKept
    <2>7. SettledInv'
      BY Zenon, <1>3, <1>6, <2>1, <2>2, SettledKept
    <2>8. QED
      BY Zenon, <1>3, <1>4, <1>5, <2>2, <2>4, <2>5, <2>6, <2>7
  <1>9. QED
    BY Zenon, <1>7, <1>8

\* The push to the queue found: if that has been freed, its handler returned early, since the
\* end of its input would have been the last frame of the call.
LEMMA PushInv ==
    ASSUME ServerInv, NEW k \in Conns, Push(k)
    PROVE  ServerInv'
  <1> USE DEF ServerInv
  <1>1. wire[k] # <<>> /\ loop[k] = "push" /\ Read(k)
    BY Zenon, HeldIsCall DEF Push
  <1> PICK i \in Calls : i = held[k]
    BY Zenon, <1>1, HeldIsCall
  <1> PICK x : x = IF NextFrame(k).type = "chunk" THEN NextFrame(k).n ELSE EndMark
    OBVIOUS
  <1>2. i = wire[k][1].id /\ wire[k][1].type \in {"chunk", "finish"} /\ thread[i] # "none"
    BY Zenon, <1>1 DEF HoldInv, Holds
  <1>3. NextFrame(k) = wire[k][1] /\ NextFrame(k) \in Frames /\ FrameInv(k, 1) /\ 1 \in 1..Len(wire[k])
    BY Zenon, <1>1, HeadFacts
  <1>4. handler[i] # "none" /\ conn[i] = k /\ ~NoneOf(i)
    BY Zenon, <1>2, <1>3 DEF FrameInv, NoneOf
  <1>5. /\ UNCHANGED <<link, sockfd, broken, foreign, handler, conn, sent, finished, inputs, freed>>
        /\ UNCHANGED <<thread, terms, got, ended, early>>
        /\ server' \in {server, "crashed"}
        /\ held' = [held EXCEPT ![k] = 0] /\ loop' = [loop EXCEPT ![k] = "read"]
    BY Zenon DEF Push, sockVars, clientVars, callVars
  <1>6. buf' = IF i \in freed THEN buf ELSE [buf EXCEPT ![i] = Append(@, x)]
    BY Zenon DEF Push, Queued
  <1>7. x \in Nat /\ (x = EndMark => finished[i] /\ wire[k][1].type = "finish")
    BY Zenon, <1>2, <1>3 DEF FrameInv, Frames, EndMark
  <1>8. /\ wire' \in [Conns -> Seq(Frames)] /\ \A j \in Conns : j # k => wire'[j] = wire[j]
        /\ \A p \in 1..Len(wire'[k]) :
             wire'[k][p] = wire[k][p + 1] /\ p + 1 \in 1..Len(wire[k]) /\ p \in Nat \ {0}
    BY Zenon, <1>1, AfterRead
  <1>9. x = EndMark => NoneOf(i)'
    <2>1. SUFFICES ASSUME x = EndMark PROVE NoneOf(i)'
      OBVIOUS
    <2>2. \A q \in 1..Len(wire[k]) : wire[k][q].id = i => q <= 1
      BY Zenon, <1>2, <1>3, <1>7, <2>1 DEF FrameInv
    <2>3. \A p \in Nat \ {0} : ~(p + 1 <= 1)
      OBVIOUS
    <2>4. \A p \in 1..Len(wire'[k]) : wire'[k][p].id # i
      BY Zenon, <1>8, <2>2, <2>3
    <2>5. QED
      BY Zenon, <1>4, <1>5, <2>4 DEF NoneOf
  <1>10. /\ WireInv'
         /\ \A c \in Calls : handler[c] # "none" /\ conn[c] \in Conns /\ NoneOf(c) => NoneOf(c)'
    BY Zenon, <1>1, <1>5, ReadKeepsWire
  <1>11. /\ buf' \in [Calls -> Seq(Nat)] /\ \A c \in Calls : c # i => buf'[c] = buf[c]
         /\ \A n \in 1..Len(buf'[i]) :
              (n \in 1..Len(buf[i]) /\ buf'[i][n] = buf[i][n]) \/ buf'[i][n] = x
    <2>1. buf \in [Calls -> Seq(Nat)]
      BY Zenon DEF CallTypes
    <2>2. CASE i \in freed
      BY Zenon, <1>6, <2>1, <2>2
    <2>3. CASE i \notin freed
      <3>1. buf' = [buf EXCEPT ![i] = Append(buf[i], x)] /\ buf[i] \in Seq(Nat)
        BY Zenon, <1>6, <2>1, <2>3
      <3>2. /\ Append(buf[i], x) \in Seq(Nat)
            /\ \A n \in 1..Len(Append(buf[i], x)) :
                 (n \in 1..Len(buf[i]) /\ Append(buf[i], x)[n] = buf[i][n]) \/ Append(buf[i], x)[n] = x
        BY <1>7, <3>1
      <3>3. buf'[i] = Append(buf[i], x) /\ buf' \in [Calls -> Seq(Nat)] /\ \A c \in Calls : c # i => buf'[c] = buf[c]
        BY Zenon, <2>1, <3>1, <3>2
      <3>4. QED
        BY Zenon, <3>2, <3>3
    <2>4. QED
      BY Zenon, <2>2, <2>3
  <1>12. /\ held' \in [Conns -> {0} \cup Calls] /\ loop'[k] = "read"
         /\ loop' \in [Conns -> {"none", "read", "push", "close", "done"}]
         /\ \A j \in Conns : j # k => loop'[j] = loop[j] /\ held'[j] = held[j]
    <2>1. held \in [Conns -> {0} \cup Calls] /\ loop \in [Conns -> {"none", "read", "push", "close", "done"}]
      BY Zenon DEF ConnTypes
    <2>2. QED
      BY <1>5, <2>1
  <1>13. ConnTypes' /\ CallTypes'
    BY Zenon, <1>5, <1>8, <1>11, <1>12 DEF ConnTypes, CallTypes
  <1>14. ConnInv'
    <2>1. \A j \in Conns : Open(j)' <=> Open(j)
      BY Zenon, <1>1, <1>12 DEF Open
    <2>2. link[k] # "new"
      BY Zenon, <1>1 DEF ConnInv
    <2>3. QED
      BY ZenonT(60), <1>5, <1>12, <2>1, <2>2 DEF ConnInv
  <1>15. CallInv'
    <2>1. \A j \in Conns : loop[j] # "none" => loop'[j] # "none"
      BY Zenon, <1>12
    <2>2. \A c \in Calls : handler[c] = "none" /\ Unused(c) => buf'[c] = buf[c] /\ c \notin foreign'
      BY Zenon, <1>4, <1>5, <1>11 DEF Unused
    <2>3. QED
      BY Zenon, <1>5, <2>1, <2>2, CallsKept
  <1>16. TermInv' /\ FreeInv'
    BY Zenon, <1>5, TermsKept, FreeKept
  <1>17. HoldInv'
    <2>1. \A j \in Conns : loop'[j] = "push" => loop[j] = "push" /\ wire'[j] = wire[j] /\ held'[j] = held[j]
      BY Zenon, <1>8, <1>12
    <2>2. QED
      BY Zenon, <1>5, <2>1, HoldKept
  <1>18. SettledInv'
    <2>1. ASSUME NEW c \in Calls, EndSeen(c)' PROVE Settled(c)'
      <3>1. CASE EndSeen(c)
        <4>1. Settled(c)
          BY Zenon, <3>1 DEF SettledInv
        <4>2. conn[c] \in Conns /\ (loop[conn[c]] \in {"close", "done"} => conn[c] # k)
          BY Zenon, <1>1, <4>1 DEF Settled, CallInv, Placed
        <4>3. QED
          BY Zenon, <1>5, <1>10, <1>12, <4>1, <4>2 DEF Settled
      <3>2. CASE ~EndSeen(c)
        <4>1. PICK n \in 1..Len(buf'[c]) : buf'[c][n] = EndMark /\ ~(n \in 1..Len(buf[c]) /\ buf[c][n] = EndMark)
          BY Zenon, <1>5, <2>1, <3>2 DEF EndSeen
        <4>2. c = i
          BY Zenon, <1>11, <4>1
        <4>3. x = EndMark
          BY Zenon, <1>11, <4>1, <4>2
        <4>4. QED
          BY Zenon, <1>4, <1>5, <1>7, <1>9, <4>2, <4>3 DEF Settled
      <3>3. QED
        BY Zenon, <3>1, <3>2
    <2>2. QED
      BY Zenon, <2>1 DEF SettledInv
  <1>19. (stale \subseteq Calls /\ StaleNeedsEarlyReturn)'
    <2>1. stale' = IF i \in freed THEN stale \cup {i} ELSE stale
      BY Zenon DEF Push
    <2>2. i \in freed => early[i]
      <3>1. ~Settled(i)
        BY Zenon, <1>1, <1>4 DEF Settled
      <3>2. ~ended[i]
        BY Zenon, <3>1 DEF SettledInv, EndSeen
      <3>3. QED
        BY Zenon, <3>2 DEF FreeInv, FreeOf
    <2>3. QED
      BY Zenon, <1>5, <2>1, <2>2 DEF StaleNeedsEarlyReturn
  <1>20. ForeignNeedsDeadConn'
    BY Zenon, <1>5 DEF ForeignNeedsDeadConn
  <1>21. QED
    BY Zenon, <1>5, <1>10, <1>13, <1>14, <1>15, <1>16, <1>17, <1>18, <1>19, <1>20

-----------------------------------------------------------------------------
\* What a call's thread leaves alone.
connState == <<link, sockfd, broken, loop, held, wire, handler, conn, sent, finished>>

-----------------------------------------------------------------------------
\* The calls' threads.

\* A step of call i's thread, once that is started, has only the call's own part to keep.
LEMMA ThreadStep ==
    ASSUME ServerInv, NEW i \in Calls, thread[i] # "none", thread'[i] # "none", UNCHANGED connState,
           server' \in {"up", "closed", "crashed"}, CallTypes',
           foreign' \subseteq foreign \cup {i}, ForeignNeedsDeadConn',
           stale' \subseteq stale, inputs' \subseteq inputs,
           \A c \in Calls : c # i =>
               /\ thread'[c] = thread[c] /\ terms'[c] = terms[c] /\ buf'[c] = buf[c]
               /\ ended'[c] = ended[c] /\ early'[c] = early[c] /\ (c \in freed' <=> c \in freed),
           early[i] => early'[i], EndSeen(i)' => EndSeen(i), TermOf(i)', FreeOf(i)'
    PROVE  ServerInv'
  <1> USE DEF ServerInv
  <1>1. UNCHANGED <<link, sockfd, broken, loop, held, wire, handler, conn, sent, finished>>
    BY Zenon DEF connState
  <1>2. ConnTypes'
    BY Zenon, <1>1 DEF ConnTypes
  <1>3. ConnInv'
    BY Zenon, <1>1 DEF ConnInv, Open
  <1>4. CallInv'
    <2>1. ASSUME NEW c \in Calls, handler[c] = "none" PROVE Unused(c)'
      <3>1. c # i /\ Unused(c)
        BY Zenon, <2>1 DEF CallInv, Unused
      <3>2. c \notin inputs' /\ c \notin foreign'
        BY Zenon, <3>1 DEF Unused
      <3>3. QED
        BY Zenon, <1>1, <3>1, <3>2 DEF Unused
    <2>2. ASSUME NEW c \in Calls, handler[c] # "none" PROVE Placed(c)'
      BY Zenon, <1>1, <2>2 DEF CallInv, Placed
    <2>3. QED
      BY Zenon, <1>1, <2>1, <2>2 DEF CallInv
  <1>5. WireInv' /\ HoldInv'
    <2>1. \A c \in Calls : thread[c] = "none" /\ terms[c] = 0 => thread'[c] = "none" /\ terms'[c] = 0
      BY Zenon
    <2>2. \A c \in Calls : thread[c] # "none" => thread'[c] # "none"
      BY Zenon
    <2>3. QED
      BY Zenon, <1>1, <2>1, <2>2, WireKept, HoldKept
  <1>6. TermInv'
    BY Zenon, <1>1 DEF TermInv, TermOf, HasInput, HasOutput
  <1>7. SettledInv'
    <2>1. \A c \in Calls : EndSeen(c)' => EndSeen(c)
      BY Zenon DEF EndSeen
    <2>2. \A c \in Calls : NoneOf(c) => NoneOf(c)'
      BY Zenon, <1>1 DEF NoneOf
    <2>3. QED
      BY Zenon, <1>1, <2>1, <2>2, SettledKept
  <1>8. FreeInv'
    <2>1. ASSUME NEW c \in Calls, c # i PROVE FreeOf(c)'
      BY Zenon, <1>1, <2>1 DEF FreeInv, FreeOf, HasInput
    <2>2. QED
      BY Zenon, <2>1 DEF FreeInv
  <1>9. StaleNeedsEarlyReturn'
    <2>1. \A c \in stale' : c \in Calls /\ early[c]
      BY Zenon DEF StaleNeedsEarlyReturn
    <2>2. QED
      BY Zenon, <2>1 DEF StaleNeedsEarlyReturn
  <1>10. foreign' \subseteq Calls /\ stale' \subseteq Calls
    BY Zenon
  <1>11. QED
    BY Zenon, <1>2, <1>3, <1>4, <1>5, <1>6, <1>7, <1>8, <1>9, <1>10

\* recv() takes the next node of the queue.
LEMMA RecvInv ==
    ASSUME ServerInv, NEW i \in Calls, Recv(i)
    PROVE  ServerInv'
  <1> USE DEF ServerInv
  <1>1. /\ UNCHANGED connState /\ UNCHANGED <<server, foreign, inputs, freed, thread, early, terms>>
        /\ thread[i] = "run" /\ buf[i] # <<>> /\ buf' = [buf EXCEPT ![i] = Tail(@)]
    BY Zenon DEF Recv, Runs, connState, sockVars, loopVars, clientVars
  <1>2. buf \in [Calls -> Seq(Nat)] /\ got \in [Calls -> Seq(Nat)] /\ ended \in [Calls -> BOOLEAN]
    BY Zenon DEF CallTypes
  <1>3. /\ buf' \in [Calls -> Seq(Nat)] /\ \A c \in Calls : c # i => buf'[c] = buf[c]
        /\ \A n \in 1..Len(buf'[i]) : buf'[i][n] = buf[i][n + 1] /\ n + 1 \in 1..Len(buf[i])
        /\ Head(buf[i]) = buf[i][1] /\ buf[i][1] \in Nat /\ 1 \in 1..Len(buf[i])
    <2>1. buf[i] \in Seq(Nat) /\ buf'[i] = Tail(buf[i])
      BY <1>1, <1>2
    <2>2. /\ Tail(buf[i]) \in Seq(Nat) /\ Head(buf[i]) = buf[i][1] /\ buf[i][1] \in Nat /\ 1 \in 1..Len(buf[i])
          /\ \A n \in 1..Len(Tail(buf[i])) : Tail(buf[i])[n] = buf[i][n + 1] /\ n + 1 \in 1..Len(buf[i])
      BY <1>1, <2>1
    <2>3. buf' \in [Calls -> Seq(Nat)] /\ \A c \in Calls : c # i => buf'[c] = buf[c]
      BY Zenon, <1>1, <1>2, <2>2
    <2>4. QED
      BY Zenon, <2>1, <2>2, <2>3
  <1>4. /\ ended' \in [Calls -> BOOLEAN] /\ got' \in [Calls -> Seq(Nat)]
        /\ \A c \in Calls : c # i => ended'[c] = ended[c]
        /\ ended'[i] => ended[i] \/ buf[i][1] = EndMark
        /\ ended[i] => ended'[i]
    <2>1. CASE Head(buf[i]) = EndMark
      <3>1. ended' = [ended EXCEPT ![i] = TRUE] /\ got' = got
        BY Zenon, <2>1 DEF Recv
      <3>2. QED
        BY Zenon, <1>2, <1>3, <2>1, <3>1
    <2>2. CASE Head(buf[i]) # EndMark
      <3>1. ended' = ended /\ got' = [got EXCEPT ![i] = Append(@, buf[i][1])]
        BY Zenon, <1>3, <2>2 DEF Recv
      <3>2. got[i] \in Seq(Nat) /\ Append(got[i], buf[i][1]) \in Seq(Nat)
        BY <1>2, <1>3
      <3>3. QED
        BY Zenon, <1>2, <3>1, <3>2
    <2>3. QED
      BY Zenon, <2>1, <2>2
  <1>5. CallTypes'
    BY Zenon, <1>1, <1>3, <1>4 DEF CallTypes, connState
  <1>6. EndSeen(i)' => EndSeen(i)
    <2>1. CASE ended'[i]
      BY Zenon, <1>3, <1>4, <2>1 DEF EndSeen
    <2>2. ASSUME NEW n \in 1..Len(buf'[i]), buf'[i][n] = EndMark PROVE EndSeen(i)
      <3>1. buf[i][n + 1] = EndMark /\ n + 1 \in 1..Len(buf[i])
        BY Zenon, <1>3, <2>2
      <3>2. QED
        BY Zenon, <3>1 DEF EndSeen
    <2>3. QED
      BY Zenon, <2>1, <2>2 DEF EndSeen
  <1>7. TermOf(i)' /\ FreeOf(i)'
    <2>1. TermOf(i)'
      BY Zenon, <1>1 DEF TermInv, TermOf, HasInput, HasOutput, connState
    <2>2. FreeOf(i)'
      BY Zenon, <1>1, <1>4 DEF FreeInv, FreeOf, HasInput, connState
    <2>3. QED
      BY Zenon, <2>1, <2>2
  <1>8. stale' \subseteq stale
    BY Zenon, <1>1 DEF Recv, FreeInv, FreeOf
  <1>9. ForeignNeedsDeadConn'
    BY Zenon, <1>1 DEF ForeignNeedsDeadConn, connState
  <1>10. server' \in {"up", "closed", "crashed"}
    BY Zenon, <1>1 DEF ConnTypes
  <1>11. thread'[i] # "none" /\ thread[i] # "none"
    BY Zenon, <1>1
  <1>12. QED
    BY Zenon, <1>1, <1>3, <1>4, <1>5, <1>6, <1>7, <1>8, <1>9, <1>10, <1>11, ThreadStep

\* emit() writes a frame.
LEMMA EmitInv ==
    ASSUME ServerInv, NEW i \in Calls, Emit(i)
    PROVE  ServerInv'
  <1> USE DEF ServerInv
  <1>1. /\ UNCHANGED connState /\ UNCHANGED <<inputs, buf, freed, stale, thread, got, ended, early, terms>>
        /\ thread[i] = "run" /\ WritesFrame(i)
    BY Zenon DEF Emit, Runs, connState, loopVars, clientVars, queueVars
  <1>2. /\ foreign' \subseteq foreign \cup {i} /\ ForeignNeedsDeadConn'
        /\ server' \in {"up", "closed", "crashed"}
    <2>1. handler[i] # "none"
      BY Zenon, <1>1 DEF CallInv, Unused
    <2>2. UNCHANGED <<link, conn, broken>>
      BY Zenon, <1>1 DEF connState
    <2>3. QED
      BY Zenon, <1>1, <2>1, <2>2, ForeignStep
  <1>3. CallTypes'
    BY Zenon, <1>1 DEF CallTypes, connState
  <1>4. TermOf(i)' /\ FreeOf(i)' /\ (EndSeen(i)' => EndSeen(i))
    BY Zenon, <1>1 DEF TermInv, TermOf, FreeInv, FreeOf, EndSeen, HasInput, HasOutput, connState
  <1>5. thread'[i] # "none" /\ thread[i] # "none"
    BY Zenon, <1>1
  <1>6. QED
    BY Zenon, <1>1, <1>2, <1>3, <1>4, <1>5, ThreadStep

\* The handler returns, early or not.
LEMMA ReturnInv ==
    ASSUME ServerInv, NEW i \in Calls, Return(i) \/ ReturnEarly(i)
    PROVE  ServerInv'
  <1> USE DEF ServerInv
  <1>1. /\ UNCHANGED connState /\ UNCHANGED <<server, foreign, inputs, buf, freed, stale, got, ended, terms>>
        /\ thread[i] = "run" /\ thread' = [thread EXCEPT ![i] = "write"]
    BY Zenon DEF Return, ReturnEarly, Runs, Goto, connState, sockVars, loopVars, clientVars, queueVars
  <1>2. /\ early' \in [Calls -> BOOLEAN] /\ \A c \in Calls : c # i => early'[c] = early[c]
        /\ early[i] => early'[i]
        /\ HasInput(i) => early'[i] \/ ended[i]
    <2>1. early \in [Calls -> BOOLEAN]
      BY Zenon DEF CallTypes
    <2>2. CASE Return(i)
      BY Zenon, <2>1, <2>2 DEF Return
    <2>3. CASE ReturnEarly(i)
      BY Zenon, <2>1, <2>3 DEF ReturnEarly
    <2>4. QED
      BY Zenon, <2>2, <2>3
  <1>3. /\ thread' \in [Calls -> {"none", "run", "write", "remove", "free", "done", "never"}]
        /\ thread'[i] = "write" /\ \A c \in Calls : c # i => thread'[c] = thread[c]
    <2>1. thread \in [Calls -> {"none", "run", "write", "remove", "free", "done", "never"}]
      BY Zenon DEF CallTypes
    <2>2. QED
      BY Zenon, <1>1, <2>1
  <1>4. CallTypes'
    BY Zenon, <1>1, <1>2, <1>3 DEF CallTypes, connState
  <1>5. TermOf(i)'
    BY Zenon, <1>1, <1>3 DEF TermInv, TermOf, HasInput, HasOutput, connState
  <1>6. FreeOf(i)' /\ (EndSeen(i)' => EndSeen(i))
    BY Zenon, <1>1, <1>2, <1>3 DEF FreeInv, FreeOf, EndSeen, HasInput, connState
  <1>7. ForeignNeedsDeadConn'
    BY Zenon, <1>1 DEF ForeignNeedsDeadConn, connState
  <1>8. server' \in {"up", "closed", "crashed"}
    BY Zenon, <1>1 DEF ConnTypes
  <1>9. thread'[i] # "none" /\ thread[i] # "none"
    BY Zenon, <1>1, <1>3
  <1>10. QED
    BY Zenon, <1>1, <1>2, <1>3, <1>4, <1>5, <1>6, <1>7, <1>8, <1>9, ThreadStep

\* The answer is written, or is too large to be.
LEMMA AnswerInv ==
    ASSUME ServerInv, NEW i \in Calls, WriteAnswer(i) \/ ResponseTooLarge(i)
    PROVE  ServerInv'
  <1> USE DEF ServerInv
  <1>1. /\ UNCHANGED connState /\ UNCHANGED <<inputs, buf, freed, stale, got, ended, early>>
        /\ thread[i] = "write" /\ thread' = [thread EXCEPT ![i] = IF HasInput(i) THEN "remove" ELSE "done"]
    BY Zenon DEF WriteAnswer, ResponseTooLarge, Goto, connState, sockVars, loopVars, clientVars, queueVars
  <1>2. terms[i] = 0 /\ handler[i] # "none" /\ terms \in [Calls -> Nat]
    BY Zenon, <1>1 DEF TermInv, TermOf, CallInv, Unused, CallTypes
  <1>3. /\ terms' \in [Calls -> Nat] /\ terms'[i] <= 1 /\ (HasOutput(i) => terms'[i] = 1)
        /\ \A c \in Calls : c # i => terms'[c] = terms[c]
    <2>1. CASE WriteAnswer(i)
      <3>1. terms' = [terms EXCEPT ![i] = @ + 1]
        BY Zenon, <2>1 DEF WriteAnswer
      <3>2. QED
        BY <1>2, <3>1
    <2>2. CASE ResponseTooLarge(i)
      <3>1. terms' = terms /\ ~HasOutput(i)
        BY Zenon, <2>2 DEF ResponseTooLarge
      <3>2. QED
        BY <1>2, <3>1
    <2>3. QED
      BY Zenon, <2>1, <2>2
  <1>4. /\ foreign' \subseteq foreign \cup {i} /\ ForeignNeedsDeadConn'
        /\ server' \in {"up", "closed", "crashed"}
    <2>1. UNCHANGED <<link, conn, broken>>
      BY Zenon, <1>1 DEF connState
    <2>2. CASE WriteAnswer(i)
      BY Zenon, <1>2, <2>1, <2>2, ForeignStep DEF WriteAnswer
    <2>3. CASE ResponseTooLarge(i)
      BY Zenon, <2>1, <2>3 DEF ResponseTooLarge, ConnTypes, ForeignNeedsDeadConn, sockVars
    <2>4. QED
      BY Zenon, <2>2, <2>3
  <1>5. /\ thread' \in [Calls -> {"none", "run", "write", "remove", "free", "done", "never"}]
        /\ thread'[i] = IF HasInput(i) THEN "remove" ELSE "done"
        /\ \A c \in Calls : c # i => thread'[c] = thread[c]
    <2>1. thread \in [Calls -> {"none", "run", "write", "remove", "free", "done", "never"}]
      BY Zenon DEF CallTypes
    <2>2. QED
      BY <1>1, <2>1
  <1>6. CallTypes'
    BY Zenon, <1>1, <1>3, <1>5 DEF CallTypes, connState
  <1>7. (HasInput(i)' <=> HasInput(i)) /\ (HasOutput(i)' <=> HasOutput(i))
    BY Zenon, <1>1 DEF HasInput, HasOutput, connState
  <1>8. TermOf(i)'
    BY Zenon, <1>3, <1>5, <1>7 DEF TermOf
  <1>9. FreeOf(i)' /\ (EndSeen(i)' => EndSeen(i))
    <2>1. i \notin freed /\ (i \in inputs => HasInput(i)) /\ (HasInput(i) => early[i] \/ ended[i])
      BY Zenon, <1>1 DEF FreeInv, FreeOf
    <2>2. QED
      BY Zenon, <1>1, <1>5, <1>7, <2>1 DEF FreeOf, EndSeen
  <1>10. thread'[i] # "none" /\ thread[i] # "none"
    BY Zenon, <1>1, <1>5
  <1>11. QED
    BY Zenon, <1>1, <1>3, <1>4, <1>5, <1>6, <1>8, <1>9, <1>10, ThreadStep

\* The queue is taken off the list, then freed.
LEMMA CleanUpInv ==
    ASSUME ServerInv, NEW i \in Calls, RemoveInput(i) \/ FreeInput(i)
    PROVE  ServerInv'
  <1> USE DEF ServerInv
  <1>1. /\ UNCHANGED connState /\ UNCHANGED <<server, foreign, stale, got, ended, early, terms>>
        /\ thread[i] \in {"remove", "free"}
    BY Zenon DEF RemoveInput, FreeInput, connState, sockVars, loopVars, clientVars
  <1>2. /\ buf \in [Calls -> Seq(Nat)]
        /\ thread \in [Calls -> {"none", "run", "write", "remove", "free", "done", "never"}]
    BY Zenon DEF CallTypes
  <1>3. /\ HasInput(i) /\ (early[i] \/ ended[i]) /\ i \notin freed /\ (thread[i] = "free" => i \notin inputs)
        /\ terms[i] <= 1 /\ (HasOutput(i) => terms[i] = 1)
    <2>1. FreeOf(i) /\ TermOf(i)
      BY Zenon DEF FreeInv, TermInv
    <2>2. QED
      BY Zenon, <1>1, <2>1 DEF FreeOf, TermOf
  <1>4. /\ buf' \in [Calls -> Seq(Nat)] /\ buf'[i] \in {buf[i], <<>>}
        /\ thread' \in [Calls -> {"none", "run", "write", "remove", "free", "done", "never"}]
        /\ \A c \in Calls : c # i => thread'[c] = thread[c] /\ buf'[c] = buf[c] /\ (c \in freed' <=> c \in freed)
        /\ inputs' \subseteq inputs /\ i \notin inputs' /\ thread'[i] \in {"free", "done"}
        /\ i \in freed' => thread'[i] = "done"
    <2>1. CASE RemoveInput(i)
      <3>1. thread' = [thread EXCEPT ![i] = "free"] /\ inputs' = inputs \ {i} /\ UNCHANGED <<buf, freed>>
        BY Zenon, <2>1 DEF RemoveInput, Goto
      <3>2. QED
        BY Zenon, <1>2, <1>3, <3>1
    <2>2. CASE FreeInput(i)
      <3>1. /\ thread' = [thread EXCEPT ![i] = "done"] /\ buf' = [buf EXCEPT ![i] = <<>>]
            /\ freed' = freed \cup {i} /\ inputs' = inputs /\ thread[i] = "free"
        BY Zenon, <2>2 DEF FreeInput, Goto
      <3>2. <<>> \in Seq(Nat)
        OBVIOUS
      <3>3. QED
        BY Zenon, <1>2, <1>3, <3>1, <3>2
    <2>3. QED
      BY Zenon, <2>1, <2>2
  <1>5. CallTypes'
    BY Zenon, <1>1, <1>4 DEF CallTypes, connState
  <1>6. (HasInput(i)' <=> HasInput(i)) /\ (HasOutput(i)' <=> HasOutput(i))
    BY Zenon, <1>1 DEF HasInput, HasOutput, connState
  <1>7. TermOf(i)'
    BY Zenon, <1>1, <1>3, <1>4, <1>6 DEF TermOf
  <1>8. FreeOf(i)'
    BY Zenon, <1>1, <1>3, <1>4, <1>6 DEF FreeOf
  <1>9. EndSeen(i)' => EndSeen(i)
    <2>1. Len(<<>>) = 0 /\ 1..0 = {}
      OBVIOUS
    <2>2. QED
      BY Zenon, <1>1, <1>4, <2>1 DEF EndSeen
  <1>10. ForeignNeedsDeadConn'
    BY Zenon, <1>1 DEF ForeignNeedsDeadConn, connState
  <1>11. server' \in {"up", "closed", "crashed"}
    BY Zenon, <1>1 DEF ConnTypes
  <1>12. thread'[i] # "none" /\ thread[i] # "none"
    BY Zenon, <1>1, <1>4
  <1>13. QED
    BY Zenon, <1>1, <1>4, <1>5, <1>7, <1>8, <1>9, <1>10, <1>11, <1>12, ThreadStep

-----------------------------------------------------------------------------
\* The clients.

\* Client call i writes frame m on connection k: its request, a chunk, one that the codec
\* refuses or the end of its input.
Requests(i, k, m) ==
    /\ handler[i] = "none" /\ m.type \in {"request", "opaque"} /\ UNCHANGED <<sent, finished>>
    /\ \E h \in Handlers : handler' = [handler EXCEPT ![i] = h] /\ h # "none"
    /\ conn' = [conn EXCEPT ![i] = k]
Chunks(i, m) ==
    m.type = "chunk" /\ m.n = sent[i] + 1 /\ sent' = [sent EXCEPT ![i] = @ + 1] /\ UNCHANGED finished
Finishes(i, m) == m.type = "finish" /\ finished' = [finished EXCEPT ![i] = TRUE] /\ UNCHANGED sent
Garbles(m) == m.type = "opaque" /\ UNCHANGED <<sent, finished>>
Inputs(i, k, m) ==
    /\ HasInput(i) /\ conn[i] = k /\ ~finished[i] /\ UNCHANGED <<handler, conn>>
    /\ Chunks(i, m) \/ Garbles(m) \/ Finishes(i, m)
ClientWrites(i, k, m) ==
    m.id = i /\ Write(k, m) /\ link[k] = "open" /\ (Requests(i, k, m) \/ Inputs(i, k, m))

\* Every step of a client is such a write ...
LEMMA ClientFrame ==
    ASSUME ServerInv, NEW i \in Calls, Client(i)
    PROVE  \E k \in Conns, m \in Frames : ClientWrites(i, k, m)
  <1>1. ASSUME NEW k \in Conns, NEW h \in Handlers, ClientRequest(i, k, h)
        PROVE  \E m \in Frames : ClientWrites(i, k, m)
    <2>1. PICK t \in {"request", "opaque"} : Write(k, Frame(i, t))
      BY Zenon, <1>1 DEF ClientRequest
    <2>2. Frame(i, t).id = i /\ Frame(i, t).type = t /\ Frame(i, t) \in Frames /\ h # "none"
      BY CServerAssumption DEF Frame, Frames, AllHandlers
    <2>3. QED
      BY Zenon, <1>1, <2>1, <2>2 DEF ClientRequest, ClientWrites, Requests, Speaks
  <1>2. ASSUME HasInput(i)
        PROVE  conn[i] \in Conns /\ sent[i] \in Nat
    BY Zenon, <1>2 DEF ServerInv, HasInput, CallInv, Placed, CallTypes
  <1>3. ASSUME ClientChunk(i)
        PROVE  /\ ClientWrites(i, conn[i], ChunkFrame(i, sent[i] + 1)) /\ conn[i] \in Conns
               /\ ChunkFrame(i, sent[i] + 1) \in Frames
    <2>1. HasInput(i)
      BY Zenon, <1>3 DEF ClientChunk
    <2>2. /\ ChunkFrame(i, sent[i] + 1) \in Frames /\ ChunkFrame(i, sent[i] + 1).id = i
          /\ ChunkFrame(i, sent[i] + 1).type = "chunk" /\ ChunkFrame(i, sent[i] + 1).n = sent[i] + 1
      BY <1>2, <2>1 DEF ChunkFrame, Frames
    <2>3. QED
      BY Zenon, <1>2, <1>3, <2>1, <2>2 DEF ClientChunk, ClientWrites, Inputs, Chunks, Speaks
  <1>4. ASSUME ClientFinish(i)
        PROVE  ClientWrites(i, conn[i], Frame(i, "finish")) /\ conn[i] \in Conns /\ Frame(i, "finish") \in Frames
    <2>1. HasInput(i)
      BY Zenon, <1>4 DEF ClientFinish
    <2>2. Frame(i, "finish") \in Frames /\ Frame(i, "finish").id = i /\ Frame(i, "finish").type = "finish"
      BY DEF Frame, Frames
    <2>3. QED
      BY Zenon, <1>2, <1>4, <2>1, <2>2 DEF ClientFinish, ClientWrites, Inputs, Finishes, Speaks
  <1>5. ASSUME ClientOpaque(i)
        PROVE  ClientWrites(i, conn[i], Frame(i, "opaque")) /\ conn[i] \in Conns /\ Frame(i, "opaque") \in Frames
    <2>1. HasInput(i)
      BY Zenon, <1>5 DEF ClientOpaque
    <2>2. Frame(i, "opaque") \in Frames /\ Frame(i, "opaque").id = i /\ Frame(i, "opaque").type = "opaque"
      BY DEF Frame, Frames
    <2>3. QED
      BY Zenon, <1>2, <1>5, <2>1, <2>2 DEF ClientOpaque, ClientWrites, Inputs, Garbles, Speaks
  <1>6. QED
    BY Zenon, <1>1, <1>3, <1>4, <1>5 DEF Client

\* ... and leaves the server alone.
LEMMA ClientLeaves ==
    ASSUME NEW i \in Calls, Client(i)
    PROVE  /\ UNCHANGED <<server, link, sockfd, broken, foreign, loop, held, inputs, buf, freed, stale>>
           /\ UNCHANGED <<thread, got, ended, early, emitted, terms>>
  <1> USE DEF sockVars, loopVars, queueVars, callVars
  <1>1. ASSUME NEW k \in Conns, NEW h \in Handlers, ClientRequest(i, k, h)
        PROVE  /\ UNCHANGED <<server, link, sockfd, broken, foreign, loop, held, inputs, buf, freed, stale>>
               /\ UNCHANGED <<thread, got, ended, early, emitted, terms>>
    BY Zenon, <1>1 DEF ClientRequest
  <1>2. QED
    BY Zenon, <1>1 DEF Client, ClientChunk, ClientOpaque, ClientFinish

\* What a client's write does to its call.
Written(i, k, m) ==
    /\ \A c \in Calls : c # i =>
         handler'[c] = handler[c] /\ conn'[c] = conn[c] /\ finished'[c] = finished[c] /\ sent'[c] = sent[c]
    /\ handler'[i] # "none" /\ conn'[i] = k /\ ~finished[i]
    /\ handler[i] # "none" => handler'[i] = handler[i] /\ conn[i] = k /\ m.type # "request"
    /\ handler[i] = "none" => Unused(i) /\ m.type \in {"request", "opaque"}
    /\ m.type = "finish" => finished'[i]
    /\ m.type = "chunk" => m.n # EndMark
    /\ handler' \in [Calls -> AllHandlers \cup {"none"}] /\ conn' \in [Calls -> {0} \cup Conns]
    /\ sent' \in [Calls -> Nat] /\ finished' \in [Calls -> BOOLEAN]

LEMMA ClientCall ==
    ASSUME ServerInv, NEW i \in Calls, NEW k \in Conns, NEW m \in Frames, ClientWrites(i, k, m)
    PROVE  Written(i, k, m)
  <1> USE DEF ServerInv
  <1>1. /\ handler \in [Calls -> AllHandlers \cup {"none"}] /\ conn \in [Calls -> {0} \cup Conns]
        /\ sent \in [Calls -> Nat] /\ finished \in [Calls -> BOOLEAN]
    BY Zenon DEF CallTypes
  <1>2. handler[i] = "none" => Unused(i) /\ ~finished[i]
    BY Zenon DEF CallInv, Unused
  <1>3. CASE Requests(i, k, m)
    <2>1. PICK h \in Handlers : handler' = [handler EXCEPT ![i] = h] /\ h # "none"
      BY Zenon, <1>3 DEF Requests
    <2>2. /\ handler[i] = "none" /\ m.type \in {"request", "opaque"} /\ UNCHANGED <<sent, finished>>
          /\ conn' = [conn EXCEPT ![i] = k]
      BY Zenon, <1>3 DEF Requests
    <2>3. h \in AllHandlers
      BY Zenon, CServerAssumption
    <2>4. /\ \A c \in Calls : c # i => handler'[c] = handler[c] /\ conn'[c] = conn[c]
          /\ handler'[i] # "none" /\ conn'[i] = k
          /\ handler' \in [Calls -> AllHandlers \cup {"none"}] /\ conn' \in [Calls -> {0} \cup Conns]
      BY Zenon, <1>1, <2>1, <2>2, <2>3
    <2>5. QED
      BY Zenon, <1>1, <1>2, <2>2, <2>4 DEF Written
  <1>4. CASE Inputs(i, k, m)
    <2>1. /\ handler[i] # "none" /\ conn[i] = k /\ ~finished[i] /\ UNCHANGED <<handler, conn>>
          /\ Chunks(i, m) \/ Garbles(m) \/ Finishes(i, m)
      BY Zenon, <1>4 DEF Inputs, HasInput
    <2>2. CASE Chunks(i, m)
      <3>1. /\ m.type = "chunk" /\ m.n = sent[i] + 1 /\ finished' = finished
            /\ sent' = [sent EXCEPT ![i] = sent[i] + 1]
        BY Zenon, <2>2 DEF Chunks
      <3>2. sent[i] + 1 \in Nat /\ sent[i] + 1 # EndMark
        BY <1>1 DEF EndMark
      <3>3. sent' \in [Calls -> Nat] /\ \A c \in Calls : c # i => sent'[c] = sent[c]
        BY Zenon, <1>1, <3>1, <3>2
      <3>4. QED
        BY Zenon, <1>1, <2>1, <3>1, <3>2, <3>3 DEF Written
    <2>3. CASE Finishes(i, m)
      <3>1. m.type = "finish" /\ sent' = sent /\ finished' = [finished EXCEPT ![i] = TRUE]
        BY Zenon, <2>3 DEF Finishes
      <3>2. /\ finished' \in [Calls -> BOOLEAN] /\ finished'[i]
            /\ \A c \in Calls : c # i => finished'[c] = finished[c]
        BY Zenon, <1>1, <3>1
      <3>3. QED
        BY Zenon, <1>1, <2>1, <3>1, <3>2 DEF Written
    <2>4. CASE Garbles(m)
      BY Zenon, <1>1, <2>1, <2>4 DEF Garbles, Written
    <2>5. QED
      BY Zenon, <2>1, <2>2, <2>3, <2>4
  <1>5. QED
    BY Zenon, <1>3, <1>4 DEF ClientWrites

\* A frame appended to a connection of its call's keeps what is said of the frames.
LEMMA WriteKeepsWire ==
    ASSUME ServerInv, NEW i \in Calls, NEW k \in Conns, NEW m \in Frames, ClientWrites(i, k, m),
           UNCHANGED <<thread, terms>>
    PROVE  WireInv'
  <1> USE DEF ServerInv
  <1> DEFINE w == wire[k]
             v == wire'[k]
  <1> PICK e : e = Len(w) + 1
    OBVIOUS
  <1>1. /\ \A j \in Conns : j # k => wire'[j] = wire[j]
        /\ Len(w) \in Nat /\ Len(v) = e /\ v[e] = m /\ m.id = i
        /\ \A p \in 1..Len(w) : v[p] = w[p]
        /\ \A p \in 1..Len(v) : p \in 1..Len(w) \/ p = e
    BY Zenon, AfterWrite DEF ClientWrites
  <1>2. /\ \A c \in Calls : c # i => handler'[c] = handler[c] /\ conn'[c] = conn[c] /\ finished'[c] = finished[c]
        /\ handler'[i] # "none" /\ conn'[i] = k /\ ~finished[i]
        /\ handler[i] # "none" => handler'[i] = handler[i] /\ conn[i] = k /\ m.type # "request"
        /\ handler[i] = "none" => Unused(i) /\ m.type \in {"request", "opaque"}
        /\ m.type = "finish" => finished'[i]
        /\ m.type = "chunk" => m.n # EndMark
    <2>1. Written(i, k, m)
      BY Zenon, ClientCall
    <2>2. QED
      BY Zenon, <2>1 DEF Written
  <1>3. ASSUME NEW j \in Conns, NEW p \in 1..Len(wire[j])
        PROVE  /\ FrameInv(j, p) /\ wire[j][p].id \in Calls
               /\ wire[j][p].id = i => j = k /\ handler[i] # "none" /\ wire[j][p].type # "finish"
    <2>1. FrameInv(j, p) /\ wire[j][p].id \in Calls
      BY Zenon, FramesOnTheirWay
    <2>2. QED
      BY Zenon, <1>2, <2>1 DEF FrameInv
  <1>4. ASSUME NEW j \in Conns, j # k, NEW p \in 1..Len(wire'[j])
        PROVE  FrameInv(j, p)'
    <2>1. wire'[j] = wire[j]
      BY Zenon, <1>1, <1>4
    <2>2. FrameInv(j, p) /\ wire[j][p].id \in Calls /\ wire[j][p].id # i
      BY Zenon, <1>3, <1>4, <2>1
    <2>3. PICK c \in Calls : c = wire[j][p].id
      BY Zenon, <2>2
    <2>4. handler'[c] = handler[c] /\ conn'[c] = conn[c] /\ finished'[c] = finished[c]
      BY Zenon, <1>2, <2>2, <2>3
    <2>5. QED
      BY Zenon, <2>1, <2>2, <2>3, <2>4 DEF FrameInv
  <1>5. ASSUME NEW p \in 1..Len(w)
        PROVE  FrameInv(k, p)'
    <2>1. /\ FrameInv(k, p) /\ v[p] = w[p] /\ w[p].id \in Calls
          /\ w[p].id = i => handler[i] # "none" /\ w[p].type # "finish"
      BY Zenon, <1>1, <1>3
    <2>2. p <= e
      BY <1>1
    <2>3. PICK c \in Calls : c = w[p].id
      BY Zenon, <2>1
    <2>4. handler[c] # "none" /\ conn[c] = k
      BY Zenon, <2>1, <2>3 DEF FrameInv
    <2>5. handler'[c] = handler[c] /\ conn'[c] = conn[c] /\ (finished[c] => finished'[c])
      <3>1. CASE c = i
        BY Zenon, <1>2, <2>4, <3>1
      <3>2. CASE c # i
        BY Zenon, <1>2, <3>2
      <3>3. QED
        BY Zenon, <3>1, <3>2
    <2>6. w[p].type = "finish" => \A q \in 1..Len(v) : v[q].id = c => q <= p
      <3>1. SUFFICES ASSUME w[p].type = "finish", NEW q \in 1..Len(v), v[q].id = c PROVE q <= p
        BY Zenon
      <3>2. q \in 1..Len(w) /\ v[q] = w[q]
        BY Zenon, <1>1, <2>1, <2>3, <3>1
      <3>3. QED
        BY Zenon, <2>1, <2>3, <3>1, <3>2 DEF FrameInv
    <2>7. w[p].type = "request" => \A q \in 1..Len(v) : v[q].id = c => p <= q
      <3>1. SUFFICES ASSUME w[p].type = "request", NEW q \in 1..Len(v), v[q].id = c PROVE p <= q
        BY Zenon
      <3>2. CASE q = e
        BY Zenon, <2>2, <3>2
      <3>3. CASE q \in 1..Len(w)
        BY Zenon, <1>1, <2>1, <2>3, <3>1, <3>3 DEF FrameInv
      <3>4. QED
        BY Zenon, <1>1, <3>2, <3>3
    <2>8. QED
      BY Zenon, <2>1, <2>3, <2>4, <2>5, <2>6, <2>7 DEF FrameInv
  <1>6. FrameInv(k, e)'
    <2>1. \A q \in 1..Len(v) : q <= e
      BY <1>1
    <2>2. e <= e
      BY <1>1
    <2>3. m.type = "request" => \A q \in 1..Len(v) : v[q].id = i => e <= q
      <3>1. SUFFICES ASSUME m.type = "request", NEW q \in 1..Len(v), v[q].id = i PROVE e <= q
        BY Zenon
      <3>2. ~(q \in 1..Len(w))
        <4>1. SUFFICES ASSUME q \in 1..Len(w) PROVE FALSE
          BY Zenon
        <4>2. w[q].id = i
          BY Zenon, <1>1, <3>1, <4>1
        <4>3. handler[i] # "none"
          BY Zenon, <1>3, <4>1, <4>2
        <4>4. QED
          BY Zenon, <1>2, <3>1, <4>3
      <3>3. QED
        BY Zenon, <1>1, <2>2, <3>2
    <2>4. m.type = "request" => thread'[i] = "none" /\ terms'[i] = 0
      BY Zenon, <1>2 DEF Unused
    <2>5. QED
      BY Zenon, <1>1, <1>2, <2>1, <2>3, <2>4 DEF FrameInv
  <1>7. ASSUME NEW j \in Conns, NEW p \in 1..Len(wire'[j])
        PROVE  FrameInv(j, p)'
    BY Zenon, <1>1, <1>4, <1>5, <1>6, <1>7
  <1>8. QED
    BY Zenon, <1>7 DEF WireInv

\* A request, a chunk or the end of the input is written.
LEMMA ClientInv ==
    ASSUME ServerInv, NEW i \in Calls, Client(i)
    PROVE  ServerInv'
  <1> USE DEF ServerInv
  <1>1. PICK k \in Conns, m \in Frames : ClientWrites(i, k, m)
    BY Zenon, ClientFrame
  <1>2. /\ UNCHANGED <<server, link, sockfd, broken, foreign, loop, held, inputs, buf, freed, stale>>
        /\ UNCHANGED <<thread, got, ended, early, terms>>
    BY Zenon, ClientLeaves
  <1>3. /\ wire' \in [Conns -> Seq(Frames)]
        /\ \A j \in Conns : j # k => wire'[j] = wire[j]
        /\ Len(wire[k]) \in Nat /\ Len(wire'[k]) = Len(wire[k]) + 1
        /\ \A p \in 1..Len(wire[k]) : wire'[k][p] = wire[k][p]
        /\ wire'[k][Len(wire[k]) + 1] = m /\ m.id = i
        /\ \A p \in 1..Len(wire'[k]) : p \in 1..Len(wire[k]) \/ p = Len(wire[k]) + 1
    BY Zenon, <1>1, AfterWrite DEF ClientWrites
  <1>4. loop[k] # "none"
    BY Zenon, <1>1 DEF ConnInv, ClientWrites
  <1>5. /\ \A c \in Calls : c # i => handler'[c] = handler[c] /\ conn'[c] = conn[c] /\ finished'[c] = finished[c]
        /\ handler'[i] # "none" /\ conn'[i] = k /\ ~finished[i]
        /\ handler[i] # "none" => handler'[i] = handler[i] /\ conn[i] = k
        /\ handler[i] = "none" => Unused(i)
        /\ handler' \in [Calls -> AllHandlers \cup {"none"}] /\ conn' \in [Calls -> {0} \cup Conns]
        /\ sent' \in [Calls -> Nat] /\ finished' \in [Calls -> BOOLEAN]
    <2>1. Written(i, k, m)
      BY Zenon, <1>1, ClientCall
    <2>2. QED
      BY Zenon, <2>1 DEF Written
  <1>6. ConnTypes' /\ CallTypes'
    BY Zenon, <1>2, <1>3, <1>5 DEF ConnTypes, CallTypes
  <1>7. ConnInv'
    BY Zenon, <1>2 DEF ConnInv, Open
  <1>8. CallInv'
    <2>1. Placed(i)' /\ handler'[i] # "none"
      BY Zenon, <1>2, <1>4, <1>5 DEF Placed
    <2>2. ASSUME NEW c \in Calls, c # i PROVE (Placed(c)' <=> Placed(c)) /\ (Unused(c)' <=> Unused(c))
      BY Zenon, <1>2, <1>5, <2>2 DEF Placed, Unused
    <2>3. QED
      BY Zenon, <1>5, <2>1, <2>2 DEF CallInv
  <1>9. WireInv'
    BY Zenon, <1>1, <1>2, WriteKeepsWire
  <1>10. \A c \in Calls : thread[c] # "none" => handler'[c] = handler[c]
    BY Zenon, <1>5 DEF Unused
  <1>11. TermInv'
    <2>1. ASSUME NEW c \in Calls PROVE TermOf(c)'
      <3>1. TermOf(c)
        BY Zenon DEF TermInv
      <3>2. CASE thread[c] = "none"
        BY Zenon, <1>2, <3>1, <3>2 DEF TermOf
      <3>3. CASE thread[c] # "none"
        BY Zenon, <1>2, <1>10, <3>1, <3>3 DEF TermOf, HasInput, HasOutput
      <3>4. QED
        BY Zenon, <3>2, <3>3
    <2>2. QED
      BY Zenon, <2>1 DEF TermInv
  <1>12. FreeInv'
    <2>1. ASSUME NEW c \in Calls PROVE FreeOf(c)'
      <3>1. FreeOf(c)
        BY Zenon DEF FreeInv
      <3>2. CASE thread[c] = "none"
        BY Zenon, <1>2, <3>1, <3>2 DEF FreeOf
      <3>3. CASE thread[c] # "none"
        BY Zenon, <1>2, <1>10, <3>1, <3>3 DEF FreeOf, HasInput
      <3>4. QED
        BY Zenon, <3>2, <3>3
    <2>2. QED
      BY Zenon, <2>1 DEF FreeInv
  <1>13. HoldInv'
    <2>1. ASSUME NEW j \in Conns, loop'[j] = "push" PROVE Holds(j)'
      <3>1. Holds(j)
        BY Zenon, <1>2, <2>1 DEF HoldInv
      <3>2. wire[j] # <<>> /\ 1 \in 1..Len(wire[j])
        BY Zenon, <3>1, HeadFacts DEF Holds
      <3>3. wire'[k] # <<>>
        BY <1>3
      <3>4. wire'[j] # <<>> /\ wire'[j][1] = wire[j][1]
        BY Zenon, <1>3, <3>2, <3>3
      <3>5. QED
        BY Zenon, <1>2, <3>1, <3>4 DEF Holds
    <2>2. QED
      BY Zenon, <2>1 DEF HoldInv
  <1>14. SettledInv'
    <2>1. ASSUME NEW c \in Calls, EndSeen(c)' PROVE Settled(c)'
      <3>1. Settled(c)
        BY Zenon, <1>2, <2>1 DEF SettledInv, EndSeen
      <3>2. conn[c] \in Conns /\ handler[c] # "none"
        BY Zenon, <3>1 DEF Settled, CallInv, Placed
      <3>3. handler'[c] = handler[c] /\ conn'[c] = conn[c]
        BY Zenon, <1>5, <3>2
      <3>4. finished[c] => c # i /\ finished'[c] = finished[c]
        BY Zenon, <1>5
      <3>5. ASSUME NoneOf(c), finished[c] PROVE NoneOf(c)'
        <4>1. \A p \in 1..Len(wire[conn[c]]) : wire[conn[c]][p].id # c
          BY Zenon, <3>5 DEF NoneOf
        <4>2. CASE conn[c] = k
          <5>1. ASSUME NEW p \in 1..Len(wire'[k]) PROVE wire'[k][p].id # c
            <6>1. CASE p \in 1..Len(wire[k])
              BY Zenon, <1>3, <4>1, <4>2, <6>1
            <6>2. CASE p = Len(wire[k]) + 1
              BY Zenon, <1>3, <3>4, <3>5, <6>2
            <6>3. QED
              BY Zenon, <1>3, <6>1, <6>2
          <5>2. QED
            BY Zenon, <3>3, <4>2, <5>1 DEF NoneOf
        <4>3. CASE conn[c] # k
          <5>1. wire'[conn[c]] = wire[conn[c]]
            BY Zenon, <1>3, <3>2, <4>3
          <5>2. QED
            BY Zenon, <3>3, <4>1, <5>1 DEF NoneOf
        <4>4. QED
          BY Zenon, <4>2, <4>3
      <3>6. QED
        BY Zenon, <1>2, <3>1, <3>3, <3>4, <3>5 DEF Settled
    <2>2. QED
      BY Zenon, <2>1 DEF SettledInv
  <1>15. StaleNeedsEarlyReturn'
    BY Zenon, <1>2 DEF StaleNeedsEarlyReturn
  <1>16. ForeignNeedsDeadConn'
    <2>1. ASSUME NEW c \in foreign PROVE conn'[c] = conn[c]
      <3>1. c \in Calls /\ handler[c] # "none"
        BY Zenon DEF CallInv, Unused
      <3>2. CASE c = i
        BY Zenon, <1>5, <3>1, <3>2
      <3>3. CASE c # i
        BY Zenon, <1>5, <3>1, <3>3
      <3>4. QED
        BY Zenon, <3>2, <3>3
    <2>2. QED
      BY Zenon, <1>2, <2>1 DEF ForeignNeedsDeadConn
  <1>17. QED
    BY Zenon, <1>2, <1>6, <1>7, <1>8, <1>9, <1>11, <1>12, <1>13, <1>14, <1>15, <1>16

-----------------------------------------------------------------------------
\* Every step keeps the invariant.
LEMMA StepInv ==
    ASSUME ServerInv, [Next]_vars
    PROVE  ServerInv'
  <1>1. CASE UNCHANGED vars
    <2>1. UNCHANGED <<callState, buf, held>> /\ UNCHANGED <<server, link, sockfd, loop>>
      BY Zenon, <1>1 DEF vars, sockVars, loopVars, clientVars, queueVars, callVars, callState
    <2>2. ConnTypes'
      BY Zenon, <2>1 DEF ServerInv, ConnTypes, callState
    <2>3. ConnInv'
      BY Zenon, <2>1 DEF ServerInv, ConnInv, Open, callState
    <2>4. QED
      BY Zenon, <2>1, <2>2, <2>3, ConnStep
  <1>2. CASE Close \/ UseFreedServer
    BY Zenon, <1>2, CloseInv
  <1>3. ASSUME NEW k \in Conns, Accept(k) \/ AcceptFails(k) \/ Loop(k) \/ ReadFails(k) \/ Disconnect(k)
        PROVE  ServerInv'
    BY Zenon, <1>3, AcceptInv, RefuseInv, DispatchInv, SkipInv, FindInv, PushInv, LoopEndsInv, LeaveInv DEF Loop
  <1>4. ASSUME NEW i \in Calls, Recv(i) \/ Emit(i) \/ ReturnEarly(i) \/ Finish(i) \/ Client(i)
        PROVE  ServerInv'
    BY Zenon, <1>4, RecvInv, EmitInv, ReturnInv, AnswerInv, CleanUpInv, ClientInv DEF Finish
  <1>5. QED
    BY Zenon, <1>1, <1>2, <1>3, <1>4 DEF Next

\* The invariant holds throughout.
LEMMA ServerAlways == Spec => []ServerInv
  <1>1. ServerInv /\ [Next]_vars => ServerInv'
    BY StepInv
  <1>2. QED
    BY InitInv, <1>1, PTL DEF Spec

\* A frame of a call reaches another client only when the call's own connection was lost, or
\* reading it had failed and its loop closed the descriptor under a live client
\* (conn_write_frame, handle_connection).
THEOREM FramesStayHome == Spec => []ForeignNeedsDeadConn
  <1>1. ServerInv => ForeignNeedsDeadConn
    BY Zenon DEF ServerInv
  <1>2. QED
    BY <1>1, ServerAlways, PTL

\* Only a handler that returns before the end of its input lets its queue be used after it was
\* freed (conn_remove_input against the read loop).
THEOREM StaleOnlyAfterEarlyReturn == Spec => []StaleNeedsEarlyReturn
  <1>1. ServerInv => StaleNeedsEarlyReturn
    BY Zenon DEF ServerInv
  <1>2. QED
    BY <1>1, ServerAlways, PTL

\* No request is answered twice, and none that streams its output is left without its end
\* (dispatch_request's refusals, and the four dispatch threads).
THEOREM AnswersAtMostOnce == Spec => []AnsweredAtMostOnce
  <1>1. ServerInv => AnsweredAtMostOnce
    BY Zenon DEF ServerInv, TermInv, TermOf, AnsweredAtMostOnce
  <1>2. QED
    BY <1>1, ServerAlways, PTL

-----------------------------------------------------------------------------
\* The order of the input.

\* Frame m is a chunk of call i.
IsChunk(m, i) == m.id = i /\ m.type = "chunk"

\* The chunks of call i in w are those from b + 1 to s, in their order.
Numbering(w, i, b, s) ==
    /\ b <= s
    /\ \A p \in 1..Len(w) : IsChunk(w[p], i) => w[p].n \in (b + 1)..s
    /\ \A p, q \in 1..Len(w) : IsChunk(w[p], i) /\ IsChunk(w[q], i) /\ p < q => w[p].n < w[q].n
    /\ \A n \in (b + 1)..s : \E p \in 1..Len(w) : IsChunk(w[p], i) /\ w[p].n = n

\* The chunks of call i that are on their way are those from b + 1 to the last sent.
Numbered(i, b) == Numbering(wire[conn[i]], i, b, sent[i])

Serves(k) == loop[k] \in {"read", "push"}
Waits(i) == thread[i] = "run" /\ HasInput(i) /\ ~ended[i]
NoEnd(i) == \A n \in 1..Len(buf[i]) : buf[i][n] # EndMark

\* The request of call i is yet to be read.
Requested(i) ==
    \E p \in 1..Len(wire[conn[i]]) : wire[conn[i]][p].id = i /\ wire[conn[i]][p].type = "request"

\* A call has its queue while its handler runs, and nothing before that.
FreshInv(i) ==
    /\ thread[i] = "none" => got[i] = <<>> /\ buf[i] = <<>> /\ ~ended[i]
    /\ handler[i] = "none" => sent[i] = 0
    /\ thread[i] = "run" /\ HasInput(i) => i \in inputs

\* What InputInOrder says of one call.
GotInv(i) ==
    /\ got[i] = [n \in 1..Len(got[i]) |-> n]
    /\ ended[i] => (finished[i] /\ Len(got[i]) = sent[i]) \/ loop[conn[i]] \in {"close", "done"}

\* The queue goes on where the handler is ...
BufInv(i) ==
    Waits(i) => \A n \in 1..Len(buf[i]) : buf[i][n] = EndMark \/ buf[i][n] = Len(got[i]) + n

\* ... ends after everything the client has sent ...
EndInv(i) ==
    Waits(i) /\ Serves(conn[i]) =>
        \A n \in 1..Len(buf[i]) : buf[i][n] = EndMark =>
            n = Len(buf[i]) /\ finished[i] /\ Len(got[i]) + n - 1 = sent[i]

\* ... and until then what is on its way goes on where the queue is.
FlowInv(i) ==
    Serves(conn[i]) /\ (Waits(i) \/ Requested(i)) /\ NoEnd(i) =>
        \E b \in Nat : b = Len(got[i]) + Len(buf[i]) /\ Numbered(i, b)

CallOrder(i) == FreshInv(i) /\ (handler[i] # "none" => GotInv(i) /\ BufInv(i) /\ EndInv(i) /\ FlowInv(i))

\* Inductive relative to ServerInv.
OrderInv == \A i \in Calls : CallOrder(i)

-----------------------------------------------------------------------------
\* Numbers and sequences.

\* What is added to one of two counts, or moves from one to the other.
LEMMA Counts ==
    ASSUME NEW g \in Nat, NEW l \in Nat
    PROVE  (g + l) + 1 = g + (l + 1) /\ g + l = (g + 1) + (l - 1)
  OBVIOUS

\* A frame that is taken is the next chunk, or none.
LEMMA TailNumbering ==
    ASSUME NEW w \in Seq(Frames), w # <<>>, NEW i, NEW b \in Nat, NEW s \in Nat, Numbering(w, i, b, s)
    PROVE  /\ ~IsChunk(w[1], i) => Numbering(Tail(w), i, b, s)
           /\ IsChunk(w[1], i) => w[1].n = b + 1 /\ Numbering(Tail(w), i, b + 1, s)
  <1> PICK v : v = Tail(w)
    BY Zenon
  <1>1. /\ Len(w) \in Nat \ {0} /\ Len(v) = Len(w) - 1 /\ 1 \in 1..Len(w)
        /\ \A p \in 1..Len(v) : v[p] = w[p + 1]
        /\ \A p \in 1..Len(w) : w[p] \in Frames
    OBVIOUS
  <1>2. \A p \in 1..Len(w) : w[p].n \in Nat
    BY <1>1 DEF Frames
  <1>3. \A p \in 1..Len(v) : p + 1 \in 2..Len(w) /\ p + 1 \in 1..Len(w)
    BY <1>1
  <1>4. \A p \in 2..Len(w) : p \in 1..Len(w) /\ p - 1 \in 1..Len(v) /\ (p - 1) + 1 = p /\ 1 < p
    BY <1>1
  <1>5. \A p \in 1..Len(w) : p = 1 \/ p \in 2..Len(w)
    BY <1>1
  <1>6. /\ b <= s
        /\ \A p \in 1..Len(w) : IsChunk(w[p], i) => w[p].n \in (b + 1)..s
        /\ \A p, q \in 1..Len(w) : IsChunk(w[p], i) /\ IsChunk(w[q], i) /\ p < q => w[p].n < w[q].n
        /\ \A n \in (b + 1)..s : \E p \in 1..Len(w) : IsChunk(w[p], i) /\ w[p].n = n
    BY Zenon DEF Numbering
  <1>7. ASSUME NEW c \in Nat, c <= s,
               \A p \in 2..Len(w) : IsChunk(w[p], i) => w[p].n \in (c + 1)..s,
               \A n \in (c + 1)..s : \E p \in 2..Len(w) : IsChunk(w[p], i) /\ w[p].n = n
        PROVE  Numbering(v, i, c, s)
    <2>1. \A p \in 1..Len(v) : IsChunk(v[p], i) => v[p].n \in (c + 1)..s
      BY Zenon, <1>1, <1>3, <1>7
    <2>2. ASSUME NEW p \in 1..Len(v), NEW q \in 1..Len(v), IsChunk(v[p], i), IsChunk(v[q], i), p < q
          PROVE  v[p].n < v[q].n
      <3>1. p + 1 < q + 1
        BY <1>1, <2>2
      <3>2. v[p] = w[p + 1] /\ v[q] = w[q + 1] /\ p + 1 \in 1..Len(w) /\ q + 1 \in 1..Len(w)
        BY Zenon, <1>1, <1>3
      <3>3. QED
        BY Zenon, <1>6, <2>2, <3>1, <3>2
    <2>3. ASSUME NEW n \in (c + 1)..s
          PROVE  \E p \in 1..Len(v) : IsChunk(v[p], i) /\ v[p].n = n
      <3>1. PICK p \in 2..Len(w) : IsChunk(w[p], i) /\ w[p].n = n
        BY Zenon, <1>7
      <3>2. p - 1 \in 1..Len(v) /\ v[p - 1] = w[p]
        BY Zenon, <1>1, <1>4
      <3>3. QED
        BY Zenon, <3>1, <3>2
    <2>4. QED
      BY Zenon, <1>7, <2>1, <2>2, <2>3 DEF Numbering
  <1>8. ASSUME ~IsChunk(w[1], i)
        PROVE  Numbering(v, i, b, s)
    <2>1. \A n \in (b + 1)..s : \E p \in 2..Len(w) : IsChunk(w[p], i) /\ w[p].n = n
      BY Zenon, <1>5, <1>6, <1>8
    <2>2. QED
      BY Zenon, <1>4, <1>6, <1>7, <2>1
  <1>9. ASSUME IsChunk(w[1], i)
        PROVE  w[1].n = b + 1 /\ Numbering(v, i, b + 1, s)
    <2>1. w[1].n \in (b + 1)..s /\ w[1].n \in Nat
      BY Zenon, <1>1, <1>2, <1>6, <1>9
    <2>2. b + 1 \in (b + 1)..s /\ b + 1 \in Nat /\ b + 1 <= s /\ b + 1 <= w[1].n
      BY <2>1
    <2>3. PICK p \in 1..Len(w) : IsChunk(w[p], i) /\ w[p].n = b + 1
      BY Zenon, <1>6, <2>2
    <2>4. w[1].n = b + 1
      <3>1. CASE p = 1
        BY Zenon, <2>3, <3>1
      <3>2. CASE p # 1
        <4>1. 1 < p
          BY Zenon, <1>4, <1>5, <3>2
        <4>2. w[1].n < b + 1
          BY Zenon, <1>1, <1>6, <1>9, <2>3, <4>1
        <4>3. QED
          BY <2>1, <2>2, <4>2
      <3>3. QED
        BY Zenon, <3>1, <3>2
    <2>5. ASSUME NEW q \in 2..Len(w), IsChunk(w[q], i)
          PROVE  w[q].n \in ((b + 1) + 1)..s
      <3>1. w[1].n < w[q].n /\ w[q].n \in (b + 1)..s /\ w[q].n \in Nat
        BY Zenon, <1>1, <1>2, <1>4, <1>6, <1>9, <2>5
      <3>2. QED
        BY <2>4, <3>1
    <2>6. ASSUME NEW n \in ((b + 1) + 1)..s
          PROVE  \E q \in 2..Len(w) : IsChunk(w[q], i) /\ w[q].n = n
      <3>1. n \in (b + 1)..s /\ n # b + 1
        BY <2>6
      <3>2. PICK q \in 1..Len(w) : IsChunk(w[q], i) /\ w[q].n = n
        BY Zenon, <1>6, <3>1
      <3>3. q # 1
        BY Zenon, <2>4, <3>1, <3>2
      <3>4. QED
        BY Zenon, <1>5, <3>2, <3>3
    <2>7. Numbering(v, i, b + 1, s)
      BY Zenon, <1>7, <2>2, <2>5, <2>6
    <2>8. QED
      BY Zenon, <2>4, <2>7
  <1>10. QED
    BY Zenon, <1>8, <1>9

\* A chunk that is written has the next number; other frames do not count.
LEMMA AppendNumbering ==
    ASSUME NEW w \in Seq(Frames), NEW m \in Frames, NEW i, NEW b \in Nat, NEW s \in Nat, NEW t \in Nat,
           Numbering(w, i, b, s),
           (t = s /\ ~IsChunk(m, i)) \/ (t = s + 1 /\ IsChunk(m, i) /\ m.n = s + 1)
    PROVE  Numbering(Append(w, m), i, b, t)
  <1> PICK v : v = Append(w, m)
    BY Zenon
  <1> PICK e : e = Len(w) + 1
    BY Zenon
  <1>1. /\ e \in Nat /\ Len(v) = e /\ e \in 1..Len(v) /\ v[e] = m
        /\ \A p \in 1..Len(w) : p \in 1..Len(v) /\ v[p] = w[p]
        /\ \A p \in 1..Len(w) : p < e
        /\ \A p \in 1..Len(v) : ~(e < p)
        /\ \A p \in 1..Len(v) : p \in 1..Len(w) \/ p = e
    OBVIOUS
  <1>2. /\ b <= s
        /\ \A p \in 1..Len(w) : IsChunk(w[p], i) => w[p].n \in (b + 1)..s
        /\ \A p, q \in 1..Len(w) : IsChunk(w[p], i) /\ IsChunk(w[q], i) /\ p < q => w[p].n < w[q].n
        /\ \A n \in (b + 1)..s : \E p \in 1..Len(w) : IsChunk(w[p], i) /\ w[p].n = n
    BY Zenon DEF Numbering
  <1>3. /\ b <= t /\ \A n \in (b + 1)..s : n \in (b + 1)..t
        /\ IsChunk(m, i) => m.n \in (b + 1)..t /\ \A n \in (b + 1)..s : n < m.n
        /\ \A n \in (b + 1)..t : n \in (b + 1)..s \/ (n = m.n /\ IsChunk(m, i))
    <2>1. b <= s
      BY Zenon, <1>2
    <2>2. CASE t = s /\ ~IsChunk(m, i)
      BY Zenon, <2>1, <2>2
    <2>3. CASE t = s + 1 /\ IsChunk(m, i) /\ m.n = s + 1
      <3>1. /\ b <= s + 1 /\ s + 1 \in (b + 1)..(s + 1)
            /\ \A n \in (b + 1)..s : n \in (b + 1)..(s + 1) /\ n < s + 1
            /\ \A n \in (b + 1)..(s + 1) : n \in (b + 1)..s \/ n = s + 1
        BY <2>1
      <3>2. QED
        BY Zenon, <2>3, <3>1
    <2>4. QED
      BY Zenon, <2>2, <2>3
  <1>4. ASSUME NEW p \in 1..Len(v), IsChunk(v[p], i)
        PROVE  v[p].n \in (b + 1)..t
    <2>1. CASE p = e
      BY Zenon, <1>1, <1>3, <1>4, <2>1
    <2>2. CASE p \in 1..Len(w)
      BY Zenon, <1>1, <1>2, <1>3, <1>4, <2>2
    <2>3. QED
      BY Zenon, <1>1, <2>1, <2>2
  <1>5. ASSUME NEW p \in 1..Len(v), NEW q \in 1..Len(v), IsChunk(v[p], i), IsChunk(v[q], i), p < q
        PROVE  v[p].n < v[q].n
    <2>1. p # e
      BY Zenon, <1>1, <1>5
    <2>2. p \in 1..Len(w) /\ v[p] = w[p] /\ w[p].n \in (b + 1)..s
      BY Zenon, <1>1, <1>2, <1>5, <2>1
    <2>3. CASE q = e
      BY Zenon, <1>1, <1>3, <1>5, <2>2, <2>3
    <2>4. CASE q \in 1..Len(w)
      BY Zenon, <1>1, <1>2, <1>5, <2>2, <2>4
    <2>5. QED
      BY Zenon, <1>1, <2>3, <2>4
  <1>6. ASSUME NEW n \in (b + 1)..t
        PROVE  \E p \in 1..Len(v) : IsChunk(v[p], i) /\ v[p].n = n
    <2>1. CASE n \in (b + 1)..s
      <3>1. PICK p \in 1..Len(w) : IsChunk(w[p], i) /\ w[p].n = n
        BY Zenon, <1>2, <2>1
      <3>2. QED
        BY Zenon, <1>1, <3>1
    <2>2. CASE n = m.n /\ IsChunk(m, i)
      BY Zenon, <1>1, <2>2
    <2>3. QED
      BY Zenon, <1>3, <2>1, <2>2
  <1>7. QED
    BY Zenon, <1>3, <1>4, <1>5, <1>6 DEF Numbering

-----------------------------------------------------------------------------
\* What the steps have in common.

\* The types of what is counted.
LEMMA CountTypes ==
    ASSUME ServerInv, NEW i \in Calls
    PROVE  /\ sent[i] \in Nat /\ got[i] \in Seq(Nat) /\ buf[i] \in Seq(Nat)
           /\ Len(got[i]) \in Nat /\ Len(buf[i]) \in Nat
           /\ handler[i] # "none" => conn[i] \in Conns /\ loop[conn[i]] # "none"
  <1>1. sent[i] \in Nat /\ got[i] \in Seq(Nat) /\ buf[i] \in Seq(Nat)
    BY Zenon DEF ServerInv, CallTypes
  <1>2. Len(got[i]) \in Nat /\ Len(buf[i]) \in Nat
    BY <1>1
  <1>3. QED
    BY Zenon, <1>1, <1>2 DEF ServerInv, CallInv, Placed

\* A call keeps its order in a step that takes none of its frames, adds nothing to its queue
\* while its handler waits, and finds its connection still served only if it was.
LEMMA OrderKept ==
    ASSUME NEW i \in Calls, CallOrder(i), FreshInv(i)', handler'[i] = handler[i], conn'[i] = conn[i],
           got'[i] = got[i], ended'[i] = ended[i], finished[i] => finished'[i] /\ sent'[i] = sent[i],
           handler[i] # "none" /\ loop[conn[i]] \in {"close", "done"} => loop'[conn[i]] \in {"close", "done"},
           handler[i] # "none" /\ Serves(conn[i])' => Serves(conn[i]),
           Waits(i)' => Waits(i) /\ buf'[i] = buf[i],
           handler[i] # "none" /\ Requested(i)' => Requested(i) /\ buf'[i] = buf[i],
           \A b \in Nat : handler[i] # "none" /\ Numbered(i, b) => Numbered(i, b)'
    PROVE  CallOrder(i)'
  <1> SUFFICES ASSUME handler[i] # "none" PROVE (GotInv(i) /\ BufInv(i) /\ EndInv(i) /\ FlowInv(i))'
    BY Zenon DEF CallOrder
  <1>1. GotInv(i) /\ BufInv(i) /\ EndInv(i) /\ FlowInv(i)
    BY Zenon DEF CallOrder
  <1>2. GotInv(i)'
    BY Zenon, <1>1 DEF GotInv
  <1>3. BufInv(i)'
    BY Zenon, <1>1 DEF BufInv
  <1>4. EndInv(i)'
    BY Zenon, <1>1 DEF EndInv
  <1>5. FlowInv(i)'
    <2>1. SUFFICES ASSUME Serves(conn[i])', Waits(i)' \/ Requested(i)', NoEnd(i)'
                   PROVE  (\E b \in Nat : b = Len(got[i]) + Len(buf[i]) /\ Numbered(i, b))'
      BY Zenon DEF FlowInv
    <2>2. buf'[i] = buf[i] /\ (Waits(i) \/ Requested(i)) /\ Serves(conn[i])
      BY Zenon, <2>1
    <2>3. NoEnd(i)
      BY Zenon, <2>1, <2>2 DEF NoEnd
    <2>4. PICK b \in Nat : b = Len(got[i]) + Len(buf[i]) /\ Numbered(i, b)
      BY Zenon, <1>1, <2>2, <2>3 DEF FlowInv
    <2>5. QED
      BY Zenon, <2>2, <2>4
  <1>6. QED
    BY Zenon, <1>2, <1>3, <1>4, <1>5

\* Nothing of a call's order is lost by a step that reads and writes no frame of input and
\* leaves the queues of waiting handlers alone.
LEMMA QuietOrder ==
    ASSUME ServerInv, ServerInv', OrderInv, UNCHANGED <<wire, handler, conn, sent, finished, got, ended>>,
           \A k \in Conns : Serves(k)' => Serves(k) \/ loop[k] = "none",
           \A k \in Conns : loop[k] \in {"close", "done"} => loop'[k] \in {"close", "done"},
           \A i \in Calls : thread'[i] \in {"none", "run"} =>
               thread'[i] = thread[i] /\ buf'[i] = buf[i] /\ (i \in inputs => i \in inputs')
    PROVE  OrderInv'
  <1> SUFFICES ASSUME NEW i \in Calls PROVE CallOrder(i)'
    BY Zenon DEF OrderInv
  <1>1. CallOrder(i)
    BY Zenon DEF OrderInv
  <1>2. FreshInv(i)'
    BY Zenon, <1>1 DEF CallOrder, FreshInv, HasInput
  <1>3. handler[i] # "none" => conn[i] \in Conns /\ loop[conn[i]] # "none"
    BY Zenon, CountTypes
  <1>4. /\ handler[i] # "none" /\ Serves(conn[i])' => Serves(conn[i])
        /\ handler[i] # "none" /\ loop[conn[i]] \in {"close", "done"} => loop'[conn[i]] \in {"close", "done"}
    BY Zenon, <1>3 DEF Serves
  <1>5. Waits(i)' => Waits(i) /\ buf'[i] = buf[i]
    BY Zenon DEF Waits, HasInput
  <1>6. ASSUME handler[i] # "none", Requested(i)' PROVE Requested(i) /\ buf'[i] = buf[i]
    <2>1. Requested(i)
      BY Zenon, <1>6 DEF Requested
    <2>2. PICK p \in 1..Len(wire'[conn[i]]) : wire'[conn[i]][p].id = i /\ wire'[conn[i]][p].type = "request"
      BY Zenon, <1>6 DEF Requested
    <2>3. FrameInv(conn[i], p)'
      BY Zenon, <1>3, <1>6, <2>2 DEF ServerInv, WireInv
    <2>4. thread'[i] = "none"
      BY Zenon, <2>2, <2>3 DEF FrameInv
    <2>5. QED
      BY Zenon, <2>1, <2>4
  <1>7. \A b \in Nat : Numbered(i, b) => Numbered(i, b)'
    BY Zenon DEF Numbered
  <1>8. QED
    BY Zenon, <1>1, <1>2, <1>4, <1>5, <1>6, <1>7, OrderKept

\* A step that leaves a call, its connection and its queue alone.
LEMMA SameOrder ==
    ASSUME NEW i \in Calls, CallOrder(i), UNCHANGED <<wire, loop, handler, conn, sent, finished, thread, inputs>>,
           buf'[i] = buf[i], got'[i] = got[i], ended'[i] = ended[i]
    PROVE  CallOrder(i)'
  <1>1. FreshInv(i)'
    BY Zenon DEF CallOrder, FreshInv, HasInput
  <1>2. (Waits(i)' => Waits(i)) /\ (Serves(conn[i])' => Serves(conn[i])) /\ (Requested(i)' => Requested(i))
    BY Zenon DEF Waits, HasInput, Serves, Requested
  <1>3. \A b \in Nat : Numbered(i, b) => Numbered(i, b)'
    BY Zenon DEF Numbered
  <1>4. QED
    BY Zenon, <1>1, <1>2, <1>3, OrderKept

-----------------------------------------------------------------------------
\* The read loop.

\* Its end.
LEMMA LoopEndsOrder ==
    ASSUME ServerInv, OrderInv, NEW k \in Conns, StopReading(k)
    PROVE  OrderInv'
  <1> SUFFICES ASSUME NEW i \in Calls PROVE CallOrder(i)'
    BY Zenon DEF OrderInv
  <1>1. /\ UNCHANGED <<handler, conn, sent, finished, got, ended, thread, inputs>>
        /\ loop' = [loop EXCEPT ![k] = "close"] /\ wire' = [wire EXCEPT ![k] = <<>>]
    BY Zenon DEF StopReading, clientVars, callVars
  <1>2. buf'[i] = buf[i] \/ (i \in inputs /\ conn[i] = k /\ buf'[i] = Append(buf[i], EndMark))
    <2>1. buf'[i] = IF i \in inputs /\ conn[i] = k THEN Append(buf[i], EndMark) ELSE buf[i]
      BY Zenon DEF StopReading, Queued
    <2>2. QED
      BY Zenon, <2>1
  <1>3. /\ loop'[k] = "close" /\ \A j \in Conns : j # k => loop'[j] = loop[j] /\ wire'[j] = wire[j]
    <2>1. loop \in [Conns -> {"none", "read", "push", "close", "done"}] /\ wire \in [Conns -> Seq(Frames)]
      BY Zenon DEF ServerInv, ConnTypes
    <2>2. QED
      BY Zenon, <1>1, <2>1
  <1>4. CallOrder(i)
    BY Zenon DEF OrderInv
  <1>5. FreshInv(i)'
    <2>1. i \in inputs => thread[i] # "none"
      BY Zenon DEF ServerInv, FreeInv, FreeOf
    <2>2. QED
      BY Zenon, <1>1, <1>2, <1>4, <2>1 DEF CallOrder, FreshInv, HasInput
  <1>6. CASE handler[i] # "none" /\ conn[i] = k
    <2>1. GotInv(i) /\ BufInv(i)
      BY Zenon, <1>4, <1>6 DEF CallOrder
    <2>2. GotInv(i)'
      BY Zenon, <1>1, <1>3, <1>6, <2>1 DEF GotInv
    <2>3. (Waits(i)' <=> Waits(i)) /\ ~Serves(conn[i])'
      BY Zenon, <1>1, <1>3, <1>6 DEF Waits, HasInput, Serves
    <2>4. BufInv(i)'
      <3>1. CASE buf'[i] = buf[i]
        BY Zenon, <1>1, <2>1, <2>3, <3>1 DEF BufInv
      <3>2. CASE buf'[i] = Append(buf[i], EndMark)
        <4>1. buf[i] \in Seq(Nat)
          BY Zenon, CountTypes
        <4>2. \A n \in 1..Len(buf'[i]) : buf'[i][n] = EndMark \/ (n \in 1..Len(buf[i]) /\ buf'[i][n] = buf[i][n])
          BY <3>2, <4>1
        <4>3. QED
          BY Zenon, <1>1, <2>1, <2>3, <4>2 DEF BufInv
      <3>3. QED
        BY Zenon, <1>2, <3>1, <3>2
    <2>5. QED
      BY Zenon, <1>5, <2>2, <2>3, <2>4 DEF CallOrder, EndInv, FlowInv
  <1>7. CASE handler[i] # "none" /\ conn[i] # k
    <2>1. conn[i] \in Conns
      BY Zenon, <1>7, CountTypes
    <2>2. buf'[i] = buf[i] /\ wire'[conn'[i]] = wire[conn[i]] /\ loop'[conn'[i]] = loop[conn[i]]
      BY Zenon, <1>1, <1>2, <1>3, <1>7, <2>1
    <2>3. (Waits(i)' => Waits(i)) /\ (Serves(conn[i])' => Serves(conn[i])) /\ (Requested(i)' => Requested(i))
      BY Zenon, <1>1, <2>2 DEF Waits, HasInput, Serves, Requested
    <2>4. \A b \in Nat : Numbered(i, b) => Numbered(i, b)'
      BY Zenon, <1>1, <2>2 DEF Numbered
    <2>5. QED
      BY Zenon, <1>1, <1>4, <1>5, <2>2, <2>3, <2>4, OrderKept
  <1>8. CASE handler[i] = "none"
    BY Zenon, <1>1, <1>5, <1>8 DEF CallOrder
  <1>9. QED
    BY Zenon, <1>6, <1>7, <1>8

\* Reading a frame takes the next chunk of its call, or none.
LEMMA ReadNumbered ==
    ASSUME ServerInv, NEW k \in Conns, wire[k] # <<>>, Read(k), UNCHANGED <<conn, sent>>,
           NEW i \in Calls, conn[i] = k, NEW b \in Nat, Numbered(i, b)
    PROVE  /\ ~IsChunk(wire[k][1], i) => Numbered(i, b)'
           /\ IsChunk(wire[k][1], i) => wire[k][1].n = b + 1 /\ Numbered(i, b + 1)'
  <1>1. wire[k] \in Seq(Frames) /\ wire'[k] = Tail(wire[k])
    <2>1. wire \in [Conns -> Seq(Frames)]
      BY Zenon DEF ServerInv, ConnTypes
    <2>2. QED
      BY Zenon, <2>1 DEF Read
  <1>2. sent[i] \in Nat /\ Numbering(wire[k], i, b, sent[i])
    BY Zenon, CountTypes DEF Numbered
  <1>3. /\ ~IsChunk(wire[k][1], i) => Numbering(Tail(wire[k]), i, b, sent[i])
        /\ IsChunk(wire[k][1], i) => wire[k][1].n = b + 1 /\ Numbering(Tail(wire[k]), i, b + 1, sent[i])
    BY Zenon, <1>1, <1>2, TailNumbering
  <1>4. wire'[conn'[i]] = Tail(wire[k]) /\ sent'[i] = sent[i]
    BY Zenon, <1>1
  <1>5. QED
    BY Zenon, <1>3, <1>4 DEF Numbered

\* Reading a frame on connection k leaves the order of every call alone that is not the frame's.
LEMMA OtherOrder ==
    ASSUME ServerInv, OrderInv, NEW k \in Conns, wire[k] # <<>>, Read(k),
           UNCHANGED <<handler, conn, sent, finished, got, ended>>,
           \A j \in Conns : loop'[j] = loop[j] \/ (Serves(j) /\ Serves(j)'),
           NEW i \in Calls, i # NextFrame(k).id, thread'[i] = thread[i], buf'[i] = buf[i],
           i \in inputs => i \in inputs'
    PROVE  CallOrder(i)'
  <1>1. CallOrder(i)
    BY Zenon DEF OrderInv
  <1>2. FreshInv(i)'
    BY Zenon, <1>1 DEF CallOrder, FreshInv, HasInput
  <1>3. handler[i] # "none" => conn[i] \in Conns
    BY Zenon, CountTypes
  <1>4. /\ handler[i] # "none" /\ Serves(conn[i])' => Serves(conn[i])
        /\ handler[i] # "none" /\ loop[conn[i]] \in {"close", "done"} => loop'[conn[i]] \in {"close", "done"}
    <2>1. ~("close" \in {"read", "push"}) /\ ~("done" \in {"read", "push"})
      BY Zenon
    <2>2. QED
      BY Zenon, <1>3, <2>1 DEF Serves
  <1>5. Waits(i)' => Waits(i)
    BY Zenon DEF Waits, HasInput
  <1>6. ConnTypes /\ WireInv
    BY Zenon DEF ServerInv
  <1>7. /\ \A j \in Conns : j # k => wire'[j] = wire[j]
        /\ \A p \in 1..Len(wire'[k]) : wire'[k][p] = wire[k][p + 1] /\ p + 1 \in 1..Len(wire[k])
        /\ NextFrame(k) = wire[k][1]
    BY Zenon, <1>6, AfterRead, HeadFacts
  <1>8. ASSUME handler[i] # "none", Requested(i)' PROVE Requested(i)
    <2>1. CASE conn[i] = k
      <3>1. PICK p \in 1..Len(wire'[k]) : wire'[k][p].id = i /\ wire'[k][p].type = "request"
        BY Zenon, <1>8, <2>1 DEF Requested
      <3>2. wire[k][p + 1].id = i /\ wire[k][p + 1].type = "request" /\ p + 1 \in 1..Len(wire[k])
        BY Zenon, <1>7, <3>1
      <3>3. QED
        BY Zenon, <2>1, <3>2 DEF Requested
    <2>2. CASE conn[i] # k
      <3>1. wire'[conn[i]] = wire[conn[i]]
        BY Zenon, <1>3, <1>7, <1>8, <2>2
      <3>2. QED
        BY Zenon, <1>8, <3>1 DEF Requested
    <2>3. QED
      BY Zenon, <2>1, <2>2
  <1>9. ASSUME NEW b \in Nat, handler[i] # "none", Numbered(i, b)
        PROVE  Numbered(i, b)'
    <2>1. CASE conn[i] = k
      <3>1. ~IsChunk(wire[k][1], i)
        BY Zenon, <1>7 DEF IsChunk
      <3>2. QED
        BY Zenon, <1>9, <2>1, <3>1, ReadNumbered
    <2>2. CASE conn[i] # k
      <3>1. wire'[conn[i]] = wire[conn[i]]
        BY Zenon, <1>3, <1>7, <1>9, <2>2
      <3>2. QED
        BY Zenon, <1>9, <3>1 DEF Numbered
    <2>3. QED
      BY Zenon, <2>1, <2>2
  <1>10. QED
    BY Zenon, <1>1, <1>2, <1>4, <1>5, <1>8, <1>9, OrderKept

\* After the first frame of a connection is read, no request of its call is on its way: a
\* request is the first frame of its call.
LEMMA NoSecondRequest ==
    ASSUME ServerInv, NEW k \in Conns, wire[k] # <<>>, Read(k), UNCHANGED conn,
           NEW i \in Calls, i = NextFrame(k).id
    PROVE  ~Requested(i)' /\ conn[i] = k /\ handler[i] # "none"
  <1>1. ConnTypes /\ WireInv
    BY Zenon DEF ServerInv
  <1>2. FrameInv(k, 1) /\ NextFrame(k) = wire[k][1] /\ 1 \in 1..Len(wire[k])
    BY Zenon, <1>1, HeadFacts
  <1>3. conn[i] = k /\ handler[i] # "none"
    BY Zenon, <1>2 DEF FrameInv
  <1>4. ASSUME NEW p \in 1..Len(wire'[k]), wire'[k][p].id = i, wire'[k][p].type = "request"
        PROVE  FALSE
    <2>1. wire'[k][p] = wire[k][p + 1] /\ p + 1 \in 1..Len(wire[k]) /\ p \in Nat \ {0}
      BY Zenon, <1>1, AfterRead
    <2>2. FrameInv(k, p + 1)
      BY Zenon, <1>1, <2>1, FramesOnTheirWay
    <2>3. p + 1 <= 1
      BY Zenon, <1>2, <1>4, <2>1, <2>2 DEF FrameInv
    <2>4. QED
      BY <2>1, <2>3
  <1>5. QED
    BY Zenon, <1>3, <1>4 DEF Requested

\* A refused request is forgotten.
LEMMA RefuseOrder ==
    ASSUME ServerInv, OrderInv, NEW k \in Conns, Refuse(k)
    PROVE  OrderInv'
  <1>1. ConnTypes /\ WireInv
    BY Zenon DEF ServerInv
  <1>2. /\ wire[k] # <<>> /\ NextFrame(k).type = "request" /\ Read(k)
        /\ UNCHANGED <<handler, conn, sent, finished, got, ended, loop, thread, buf, inputs>>
    BY Zenon DEF Refuse, Reads, loopVars, clientVars, queueVars
  <1>3. PICK h \in Calls : h = NextFrame(k).id
    BY Zenon, <1>1, <1>2, HeadFacts
  <1>4. ~Requested(h)' /\ conn[h] = k /\ thread[h] = "none"
    <2>1. FrameInv(k, 1) /\ NextFrame(k) = wire[k][1]
      BY Zenon, <1>1, <1>2, HeadFacts
    <2>2. thread[h] = "none"
      BY Zenon, <1>2, <1>3, <2>1 DEF FrameInv
    <2>3. QED
      BY Zenon, <1>2, <1>3, <2>2, NoSecondRequest
  <1>5. CallOrder(h)'
    <2>1. CallOrder(h)
      BY Zenon DEF OrderInv
    <2>2. FreshInv(h)' /\ (handler[h] # "none" => GotInv(h)')
      BY Zenon, <1>2, <2>1 DEF CallOrder, FreshInv, GotInv, HasInput
    <2>3. ~Waits(h)'
      BY Zenon, <1>2, <1>4 DEF Waits
    <2>4. QED
      BY Zenon, <1>2, <1>4, <2>2, <2>3 DEF CallOrder, BufInv, EndInv, FlowInv
  <1>6. ASSUME NEW i \in Calls, i # h PROVE CallOrder(i)'
    BY Zenon, <1>2, <1>3, <1>6, OtherOrder
  <1>7. QED
    BY Zenon, <1>5, <1>6 DEF OrderInv

\* A handler starts with an empty queue, before the first chunk of its input is read.
LEMMA DispatchOrder ==
    ASSUME ServerInv, OrderInv, NEW k \in Conns, Dispatch(k)
    PROVE  OrderInv'
  <1>1. ConnTypes /\ WireInv /\ thread \in [Calls -> {"none", "run", "write", "remove", "free", "done", "never"}]
    BY Zenon DEF ServerInv, CallTypes
  <1>2. /\ wire[k] # <<>> /\ NextFrame(k).type = "request" /\ Read(k) /\ loop[k] = "read"
        /\ UNCHANGED <<handler, conn, sent, finished, got, ended, loop, buf>>
    BY Zenon DEF Dispatch, Reads, loopVars, clientVars
  <1>3. PICK h \in Calls : h = NextFrame(k).id
    BY Zenon, <1>1, <1>2, HeadFacts
  <1>4. PICK t \in {"run", "never"} : thread' = [thread EXCEPT ![h] = t]
    BY Zenon, <1>3 DEF Dispatch
  <1>5. thread'[h] \in {"run", "never"} /\ \A i \in Calls : i # h => thread'[i] = thread[i]
    BY Zenon, <1>1, <1>4
  <1>6. inputs \subseteq inputs' /\ (HasInput(h) => h \in inputs')
    <2>1. inputs' = IF HasInput(h) THEN inputs \cup {h} ELSE inputs
      BY Zenon, <1>3 DEF Dispatch
    <2>2. QED
      BY Zenon, <2>1
  <1>7. NextFrame(k) = wire[k][1] /\ FrameInv(k, 1) /\ 1 \in 1..Len(wire[k])
    BY Zenon, <1>1, <1>2, HeadFacts
  <1>8. ~Requested(h)' /\ conn[h] = k /\ handler[h] # "none"
    BY Zenon, <1>2, <1>3, NoSecondRequest
  <1>9. thread[h] = "none" /\ Requested(h)
    BY Zenon, <1>2, <1>3, <1>7, <1>8 DEF FrameInv, Requested
  <1>10. CallOrder(h)'
    <2>1. FreshInv(h) /\ GotInv(h) /\ FlowInv(h)
      BY Zenon, <1>8 DEF OrderInv, CallOrder
    <2>2. got[h] = <<>> /\ buf[h] = <<>> /\ ~ended[h]
      BY Zenon, <1>9, <2>1 DEF FreshInv
    <2>3. Len(<<>>) = 0 /\ \A n \in 1..0 : FALSE
      OBVIOUS
    <2>4. NoEnd(h) /\ Serves(conn[h])
      BY Zenon, <1>2, <1>8, <2>2, <2>3 DEF NoEnd, Serves
    <2>5. PICK b \in Nat : b = Len(got[h]) + Len(buf[h]) /\ Numbered(h, b)
      BY Zenon, <1>9, <2>1, <2>4 DEF FlowInv
    <2>6. Numbered(h, b)'
      <3>1. ~IsChunk(wire[k][1], h)
        BY Zenon, <1>2, <1>7 DEF IsChunk
      <3>2. QED
        BY Zenon, <1>2, <1>8, <2>5, <3>1, ReadNumbered
    <2>7. FlowInv(h)'
      BY Zenon, <1>2, <2>5, <2>6 DEF FlowInv
    <2>8. FreshInv(h)'
      BY Zenon, <1>2, <1>5, <1>6, <1>8 DEF FreshInv, HasInput
    <2>9. GotInv(h)'
      BY Zenon, <1>2, <2>1 DEF GotInv
    <2>10. BufInv(h)' /\ EndInv(h)'
      BY Zenon, <1>2, <2>2, <2>3 DEF BufInv, EndInv
    <2>11. QED
      BY Zenon, <2>7, <2>8, <2>9, <2>10 DEF CallOrder
  <1>11. ASSUME NEW i \in Calls, i # h PROVE CallOrder(i)'
    BY Zenon, <1>2, <1>3, <1>5, <1>6, <1>11, OtherOrder
  <1>12. QED
    BY Zenon, <1>10, <1>11 DEF OrderInv

\* A frame that is skipped is no chunk of those that are counted.
LEMMA SkipOrder ==
    ASSUME ServerInv, OrderInv, NEW k \in Conns, SkipFrame(k)
    PROVE  OrderInv'
  <1>1. ConnTypes /\ WireInv
    BY Zenon DEF ServerInv
  <1>2. /\ wire[k] # <<>> /\ NextFrame(k).type = "opaque" /\ Read(k)
        /\ UNCHANGED <<handler, conn, sent, finished, got, ended, loop, thread, buf, inputs>>
    BY Zenon DEF SkipFrame, Reads, loopVars, clientVars, queueVars, callVars
  <1>3. PICK h \in Calls : h = NextFrame(k).id
    BY Zenon, <1>1, <1>2, HeadFacts
  <1>4. ~Requested(h)' /\ conn[h] = k /\ handler[h] # "none"
    BY Zenon, <1>2, <1>3, NoSecondRequest
  <1>5. CallOrder(h)'
    <2>1. CallOrder(h)
      BY Zenon DEF OrderInv
    <2>2. FreshInv(h)'
      BY Zenon, <1>2, <2>1 DEF CallOrder, FreshInv, HasInput
    <2>3. (Waits(h)' => Waits(h)) /\ (Serves(conn[h])' => Serves(conn[h]))
      BY Zenon, <1>2 DEF Waits, HasInput, Serves
    <2>4. ASSUME NEW b \in Nat, Numbered(h, b) PROVE Numbered(h, b)'
      <3>1. ~IsChunk(wire[k][1], h)
        BY Zenon, <1>1, <1>2, HeadFacts DEF IsChunk
      <3>2. QED
        BY Zenon, <1>2, <1>4, <2>4, <3>1, ReadNumbered
    <2>5. QED
      BY Zenon, <1>2, <1>4, <2>1, <2>2, <2>3, <2>4, OrderKept
  <1>6. ASSUME NEW i \in Calls, i # h PROVE CallOrder(i)'
    BY Zenon, <1>2, <1>3, <1>6, OtherOrder
  <1>7. QED
    BY Zenon, <1>5, <1>6 DEF OrderInv

\* A frame without a queue is dropped: no handler waits for it.
LEMMA FindOrder ==
    ASSUME ServerInv, ServerInv', OrderInv, NEW k \in Conns, Find(k)
    PROVE  OrderInv'
  <1>1. ConnTypes /\ WireInv /\ loop \in [Conns -> {"none", "read", "push", "close", "done"}]
    BY Zenon DEF ServerInv, ConnTypes
  <1>2. /\ wire[k] # <<>> /\ loop[k] = "read"
        /\ UNCHANGED <<handler, conn, sent, finished, got, ended, thread, buf, inputs>>
    BY Zenon DEF Find, Reads, clientVars, queueVars, callVars
  <1>3. PICK h \in Calls : h = NextFrame(k).id
    BY Zenon, <1>1, <1>2, HeadFacts
  <1>4. CASE h \in inputs
    <2>1. loop' = [loop EXCEPT ![k] = "push"] /\ UNCHANGED wire
      BY Zenon, <1>3, <1>4 DEF Find
    <2>2. \A j \in Conns : loop'[j] = loop[j] \/ (loop[j] = "read" /\ loop'[j] = "push")
      BY Zenon, <1>1, <1>2, <2>1
    <2>3. /\ \A j \in Conns : Serves(j)' => Serves(j)
          /\ \A j \in Conns : loop[j] \in {"close", "done"} => loop'[j] \in {"close", "done"}
      BY Zenon, <2>2 DEF Serves
    <2>4. QED
      BY Zenon, <1>2, <2>1, <2>3, QuietOrder
  <1>5. CASE h \notin inputs
    <2>1. Read(k) /\ UNCHANGED loop
      BY Zenon, <1>3, <1>5 DEF Find, loopVars
    <2>2. ~Requested(h)' /\ handler[h] # "none"
      BY Zenon, <1>2, <1>3, <2>1, NoSecondRequest
    <2>3. CallOrder(h)'
      <3>1. FreshInv(h) /\ GotInv(h)
        BY Zenon, <2>2 DEF OrderInv, CallOrder
      <3>2. FreshInv(h)' /\ GotInv(h)'
        BY Zenon, <1>2, <2>1, <3>1 DEF FreshInv, GotInv, HasInput
      <3>3. ~Waits(h)'
        BY Zenon, <1>2, <1>5, <3>1 DEF FreshInv, Waits, HasInput
      <3>4. QED
        BY Zenon, <2>2, <3>2, <3>3 DEF CallOrder, BufInv, EndInv, FlowInv
    <2>4. ASSUME NEW i \in Calls, i # h PROVE CallOrder(i)'
      BY Zenon, <1>2, <1>3, <2>1, <2>4, OtherOrder
    <2>5. QED
      BY Zenon, <2>3, <2>4 DEF OrderInv
  <1>6. QED
    BY Zenon, <1>4, <1>5

\* What the read loop pushes is the next chunk, or the end after the last one.
LEMMA PushOrder ==
    ASSUME ServerInv, OrderInv, NEW k \in Conns, Push(k)
    PROVE  OrderInv'
  <1> PICK x : x = IF NextFrame(k).type = "chunk" THEN NextFrame(k).n ELSE EndMark
    BY Zenon
  <1>1. ConnTypes /\ WireInv /\ HoldInv
    BY Zenon DEF ServerInv
  <1>2. /\ loop[k] = "push" /\ Read(k) /\ loop' = [loop EXCEPT ![k] = "read"]
        /\ UNCHANGED <<handler, conn, sent, finished, got, ended, thread, inputs, freed>>
    BY Zenon DEF Push, clientVars, callVars
  <1>3. /\ wire[k] # <<>> /\ held[k] = wire[k][1].id /\ wire[k][1].type \in {"chunk", "finish"}
             /\ thread[held[k]] # "none"
    BY Zenon, <1>1, <1>2 DEF HoldInv, Holds
  <1>4. NextFrame(k) = wire[k][1] /\ NextFrame(k) \in Frames /\ FrameInv(k, 1) /\ 1 \in 1..Len(wire[k])
    BY Zenon, <1>1, <1>3, HeadFacts
  <1>5. PICK h \in Calls : h = held[k]
    BY Zenon, <1>1, <1>2, HeldIsCall
  <1>6. ~Requested(h)' /\ handler[h] # "none" /\ conn[h] = k /\ thread[h] # "none"
    BY Zenon, <1>2, <1>3, <1>4, <1>5, NoSecondRequest
  <1>7. buf' = IF h \in freed THEN buf ELSE [buf EXCEPT ![h] = Append(@, x)]
    BY Zenon, <1>5 DEF Push, Queued
  <1>8. loop'[k] = "read" /\ \A j \in Conns : loop'[j] = loop[j] \/ (Serves(j) /\ Serves(j)')
    <2>1. loop \in [Conns -> {"none", "read", "push", "close", "done"}]
      BY Zenon, <1>1 DEF ConnTypes
    <2>2. QED
      BY Zenon, <1>2, <2>1 DEF Serves
  <1>9. /\ x \in Nat /\ wire[k][1].id = h
        /\ \/ wire[k][1].type = "chunk" /\ x = wire[k][1].n /\ x # EndMark
           \/ wire[k][1].type = "finish" /\ x = EndMark /\ finished[h]
    <2>1. wire[k][1].type \in {"request", "chunk", "finish", "opaque"} /\ wire[k][1].n \in Nat
      BY Zenon, <1>4 DEF Frames
    <2>2. 0 \in Nat
      OBVIOUS
    <2>3. QED
      BY Zenon, <1>3, <1>4, <1>5, <2>1, <2>2 DEF FrameInv, EndMark
  <1>10. CallOrder(h) /\ ~NoneOf(h)
    BY Zenon, <1>4, <1>6, <1>9 DEF OrderInv, NoneOf
  <1>11. FreshInv(h)'
    BY Zenon, <1>2, <1>6, <1>10 DEF CallOrder, FreshInv, HasInput
  <1>12. GotInv(h)'
    <2>1. ~ended[h]
      <3>1. ~Settled(h)
        BY Zenon, <1>2, <1>6, <1>10 DEF Settled
      <3>2. QED
        BY Zenon, <3>1 DEF ServerInv, SettledInv, EndSeen
    <2>2. QED
      BY Zenon, <1>2, <1>6, <1>10, <2>1 DEF CallOrder, GotInv
  <1>13. ASSUME ~Waits(h) PROVE CallOrder(h)'
    <2>1. ~Waits(h)'
      BY Zenon, <1>2, <1>13 DEF Waits, HasInput
    <2>2. QED
      BY Zenon, <1>6, <1>11, <1>12, <2>1 DEF CallOrder, BufInv, EndInv, FlowInv
  <1>14. ASSUME Waits(h) PROVE CallOrder(h)'
    <2>1. h \notin freed /\ NoEnd(h) /\ Serves(conn[h])
      <3>1. ~EndSeen(h)
        BY Zenon, <1>2, <1>6, <1>10 DEF ServerInv, SettledInv, Settled
      <3>2. QED
        BY Zenon, <1>2, <1>6, <1>14, <3>1 DEF ServerInv, FreeInv, FreeOf, Waits, NoEnd, EndSeen, Serves
    <2>2. Len(got[h]) \in Nat /\ sent[h] \in Nat /\ buf[h] \in Seq(Nat) /\ Len(buf[h]) \in Nat
      BY Zenon, CountTypes
    <2>3. /\ Len(buf'[h]) = Len(buf[h]) + 1 /\ buf'[h][Len(buf[h]) + 1] = x
          /\ \A n \in 1..Len(buf[h]) : buf'[h][n] = buf[h][n]
          /\ \A n \in 1..Len(buf'[h]) : n \in 1..Len(buf[h]) \/ n = Len(buf[h]) + 1
          /\ Len(buf[h]) + 1 \in 1..Len(buf'[h])
      <3>1. buf'[h] = Append(buf[h], x)
        <4>1. buf \in [Calls -> Seq(Nat)]
          BY Zenon DEF ServerInv, CallTypes
        <4>2. QED
          BY Zenon, <1>7, <2>1, <4>1
      <3>2. QED
        BY <1>9, <2>2, <3>1
    <2>4. BufInv(h) /\ FlowInv(h)
      BY Zenon, <1>6, <1>10 DEF CallOrder
    <2>5. PICK b \in Nat : b = Len(got[h]) + Len(buf[h]) /\ Numbered(h, b)
      BY Zenon, <1>14, <2>1, <2>4 DEF FlowInv
    <2>6. \A n \in 1..Len(buf[h]) : buf'[h][n] # EndMark /\ buf'[h][n] = Len(got[h]) + n
      BY Zenon, <1>14, <2>1, <2>3, <2>4 DEF BufInv, NoEnd
    <2>7. b + 1 = Len(got[h]) + (Len(buf[h]) + 1) /\ b + 1 \in Nat
      <3>1. b + 1 = Len(got[h]) + (Len(buf[h]) + 1)
        BY Zenon, <2>2, <2>5, Counts
      <3>2. b + 1 \in Nat
        OBVIOUS
      <3>3. QED
        BY Zenon, <3>1, <3>2
    <2>8. CASE wire[k][1].type = "chunk"
      <3>1. IsChunk(wire[k][1], h)
        BY Zenon, <1>9, <2>8 DEF IsChunk
      <3>2. x = b + 1 /\ Numbered(h, b + 1)' /\ x # EndMark
        BY Zenon, <1>2, <1>3, <1>6, <1>9, <2>5, <2>8, <3>1, ReadNumbered
      <3>3. ASSUME NEW n \in 1..Len(buf'[h])
            PROVE  buf'[h][n] # EndMark /\ buf'[h][n] = Len(got[h]) + n
        <4>1. CASE n \in 1..Len(buf[h])
          BY Zenon, <2>6, <4>1
        <4>2. CASE n = Len(buf[h]) + 1
          BY Zenon, <2>3, <2>7, <3>2, <4>2
        <4>3. QED
          BY Zenon, <2>3, <4>1, <4>2
      <3>4. BufInv(h)' /\ EndInv(h)'
        BY Zenon, <1>2, <3>3 DEF BufInv, EndInv
      <3>5. b + 1 = Len(got'[h]) + Len(buf'[h])
        BY Zenon, <1>2, <2>3, <2>7
      <3>6. FlowInv(h)'
        BY Zenon, <2>7, <3>2, <3>5 DEF FlowInv
      <3>7. QED
        BY Zenon, <1>11, <1>12, <3>4, <3>6 DEF CallOrder
    <2>9. CASE wire[k][1].type = "finish"
      <3>1. x = EndMark /\ finished[h]
        BY Zenon, <1>9, <2>9
      <3>2. \A q \in 1..Len(wire[k]) : ~IsChunk(wire[k][q], h)
        <4>1. \A q \in 1..Len(wire[k]) : wire[k][q].id = h => q <= 1
          BY Zenon, <1>4, <1>9, <2>9 DEF FrameInv
        <4>2. \A q \in 1..Len(wire[k]) : q <= 1 => q = 1
          OBVIOUS
        <4>3. QED
          BY Zenon, <2>9, <4>1, <4>2 DEF IsChunk
      <3>3. sent[h] = b
        <4>1. b <= sent[h] /\ \A n \in (b + 1)..sent[h] : FALSE
          BY Zenon, <1>6, <2>5, <3>2 DEF Numbered, Numbering
        <4>2. QED
          BY <2>2, <4>1
      <3>4. BufInv(h)'
        <4>1. \A n \in 1..Len(buf'[h]) : buf'[h][n] = EndMark \/ buf'[h][n] = Len(got[h]) + n
          BY Zenon, <2>3, <2>6, <3>1
        <4>2. QED
          BY Zenon, <1>2, <4>1 DEF BufInv
      <3>5. EndInv(h)'
        <4>1. \A n \in 1..Len(buf'[h]) : buf'[h][n] = EndMark => n = Len(buf[h]) + 1
          BY Zenon, <2>3, <2>6
        <4>2. Len(got[h]) + (Len(buf[h]) + 1) - 1 = sent[h]
          BY <2>2, <2>5, <3>3
        <4>3. QED
          BY Zenon, <1>2, <2>3, <3>1, <4>1, <4>2 DEF EndInv
      <3>6. ~NoEnd(h)'
        BY Zenon, <2>3, <3>1 DEF NoEnd
      <3>7. QED
        BY Zenon, <1>11, <1>12, <3>4, <3>5, <3>6 DEF CallOrder, FlowInv
    <2>10. QED
      BY Zenon, <1>9, <2>8, <2>9
  <1>15. ASSUME NEW i \in Calls, i # h PROVE CallOrder(i)'
    <2>1. buf'[i] = buf[i] /\ i # NextFrame(k).id
      <3>1. buf \in [Calls -> Seq(Nat)]
        BY Zenon DEF ServerInv, CallTypes
      <3>2. QED
        BY Zenon, <1>4, <1>7, <1>9, <1>15, <3>1
    <2>2. QED
      BY Zenon, <1>2, <1>3, <1>8, <2>1, OtherOrder
  <1>16. QED
    BY Zenon, <1>13, <1>14, <1>15 DEF OrderInv

-----------------------------------------------------------------------------
\* The handlers and the clients.

\* A call whose thread runs has no request on its way.
LEMMA RunningNotRequested ==
    ASSUME ServerInv, NEW i \in Calls, handler[i] # "none", thread[i] # "none"
    PROVE  ~Requested(i)
  <1>1. ASSUME NEW p \in 1..Len(wire[conn[i]]), wire[conn[i]][p].id = i, wire[conn[i]][p].type = "request"
        PROVE  FALSE
    <2>1. FrameInv(conn[i], p)
      BY Zenon, CountTypes DEF ServerInv, WireInv
    <2>2. QED
      BY Zenon, <1>1, <2>1 DEF FrameInv
  <1>2. QED
    BY Zenon, <1>1 DEF Requested

\* What is left of a queue when its first element is taken.
LEMMA TailOf ==
    ASSUME NEW q \in Seq(Nat), q # <<>>
    PROVE  /\ Len(q) \in Nat \ {0} /\ Len(q) \in Nat /\ Len(Tail(q)) = Len(q) - 1
           /\ Head(q) = q[1] /\ 1 \in 1..Len(q) /\ q[1] \in Nat
           /\ \A n \in 1..Len(Tail(q)) : Tail(q)[n] = q[n + 1] /\ n + 1 \in 1..Len(q) /\ n \in Nat
  OBVIOUS

\* How its positions move: one more is taken, one less is left.
LEMMA Moves ==
    ASSUME NEW g \in Nat, NEW g1, g1 = g + 1, NEW n \in Nat
    PROVE  g + (n + 1) = g1 + n
  OBVIOUS

\* recv() takes the next chunk, or the end.
LEMMA RecvOrder ==
    ASSUME ServerInv, OrderInv, NEW i \in Calls, Recv(i)
    PROVE  OrderInv'
  <1>1. /\ UNCHANGED <<wire, loop, handler, conn, sent, finished, thread, inputs>>
        /\ Waits(i) /\ thread[i] = "run" /\ buf[i] # <<>> /\ buf' = [buf EXCEPT ![i] = Tail(@)]
    BY Zenon DEF Recv, Runs, Waits, loopVars, clientVars
  <1>2. handler[i] # "none"
    BY Zenon, <1>1 DEF Waits, HasInput
  <1>3. /\ conn[i] \in Conns /\ loop[conn[i]] # "none" /\ sent[i] \in Nat /\ got[i] \in Seq(Nat)
        /\ buf[i] \in Seq(Nat) /\ Len(got[i]) \in Nat
    BY Zenon, <1>2, CountTypes
  <1>4. \A c \in Calls : c # i => buf'[c] = buf[c]
    BY Zenon, <1>1 DEF ServerInv, CallTypes
  <1>5. /\ Len(buf[i]) \in Nat \ {0} /\ Len(buf[i]) \in Nat /\ Len(buf'[i]) = Len(buf[i]) - 1
        /\ Head(buf[i]) = buf[i][1] /\ 1 \in 1..Len(buf[i]) /\ buf[i][1] \in Nat
        /\ \A n \in 1..Len(buf'[i]) : buf'[i][n] = buf[i][n + 1] /\ n + 1 \in 1..Len(buf[i]) /\ n \in Nat
    <2>1. buf'[i] = Tail(buf[i])
      BY Zenon, <1>1 DEF ServerInv, CallTypes
    <2>2. QED
      BY ZenonT(60), <1>1, <1>3, <2>1, TailOf
  <1>6. GotInv(i) /\ BufInv(i) /\ EndInv(i) /\ FlowInv(i)
    BY Zenon, <1>2 DEF OrderInv, CallOrder
  <1>7. FreshInv(i)'
    BY Zenon, <1>1, <1>2 DEF OrderInv, CallOrder, FreshInv, HasInput
  <1>8. ~Requested(i)'
    <2>1. ~Requested(i)
      BY Zenon, <1>1, <1>2, RunningNotRequested
    <2>2. QED
      BY Zenon, <1>1, <2>1 DEF Requested
  <1>9. CASE Head(buf[i]) = EndMark
    <2>1. ended' = [ended EXCEPT ![i] = TRUE] /\ got' = got
      BY Zenon, <1>9 DEF Recv
    <2>2. ended'[i] /\ \A c \in Calls : c # i => ended'[c] = ended[c]
      BY Zenon, <2>1 DEF ServerInv, CallTypes
    <2>3. (finished[i] /\ Len(got[i]) = sent[i]) \/ loop[conn[i]] \in {"close", "done"}
      <3>1. CASE Serves(conn[i])
        <4>1. finished[i] /\ Len(got[i]) + 1 - 1 = sent[i]
          BY Zenon, <1>1, <1>5, <1>6, <1>9, <3>1 DEF EndInv
        <4>2. Len(got[i]) + 1 - 1 = Len(got[i])
          BY <1>3
        <4>3. QED
          BY Zenon, <4>1, <4>2
      <3>2. CASE ~Serves(conn[i])
        <4>1. loop[conn[i]] \in {"none", "read", "push", "close", "done"}
          BY Zenon, <1>3 DEF ServerInv, ConnTypes
        <4>2. QED
          BY Zenon, <1>3, <3>2, <4>1 DEF Serves
      <3>3. QED
        BY Zenon, <3>1, <3>2
    <2>4. GotInv(i)'
      BY Zenon, <1>1, <1>6, <2>1, <2>3 DEF GotInv
    <2>5. ~Waits(i)'
      BY Zenon, <2>2 DEF Waits
    <2>6. CallOrder(i)'
      BY Zenon, <1>7, <1>8, <2>4, <2>5 DEF CallOrder, BufInv, EndInv, FlowInv
    <2>7. ASSUME NEW c \in Calls, c # i PROVE CallOrder(c)'
      <3>1. CallOrder(c) /\ buf'[c] = buf[c] /\ got'[c] = got[c] /\ ended'[c] = ended[c]
        BY Zenon, <1>4, <2>1, <2>2, <2>7 DEF OrderInv
      <3>2. QED
        BY Zenon, <1>1, <3>1, SameOrder
    <2>8. QED
      BY Zenon, <2>6, <2>7 DEF OrderInv
  <1>10. CASE Head(buf[i]) # EndMark
    <2>1. ended' = ended /\ got' = [got EXCEPT ![i] = Append(@, buf[i][1])]
      BY Zenon, <1>5, <1>10 DEF Recv
    <2>2. got'[i] = Append(got[i], buf[i][1]) /\ \A c \in Calls : c # i => got'[c] = got[c]
      BY Zenon, <2>1 DEF ServerInv, CallTypes
    <2>3. Len(got'[i]) = Len(got[i]) + 1
      BY <1>3, <1>5, <2>2
    <2>4. buf[i][1] = Len(got[i]) + 1
      BY Zenon, <1>1, <1>5, <1>6, <1>10 DEF BufInv
    <2>5. GotInv(i)'
      <3>1. got[i] = [n \in 1..Len(got[i]) |-> n] /\ ~ended[i]
        BY Zenon, <1>1, <1>6 DEF GotInv, Waits
      <3>2. got'[i] = [n \in 1..Len(got'[i]) |-> n]
        <4>1. \A n \in 1..Len(got[i]) : got[i][n] = n
          BY Zenon, <3>1
        <4>2. Append(got[i], Len(got[i]) + 1) = [n \in 1..(Len(got[i]) + 1) |-> n]
          BY <1>3, <4>1
        <4>3. QED
          BY Zenon, <2>2, <2>3, <2>4, <4>2
      <3>3. QED
        BY Zenon, <2>1, <3>1, <3>2 DEF GotInv
    <2>6. Len(got[i]) \in Nat /\ Len(got'[i]) = Len(got[i]) + 1
      BY Zenon, <1>3, <2>3
    <2>7. BufInv(i)'
      <3>1. \A n \in 1..Len(buf[i]) : buf[i][n] = EndMark \/ buf[i][n] = Len(got[i]) + n
        BY Zenon, <1>1, <1>6 DEF BufInv
      <3>2. ASSUME NEW n \in 1..Len(buf'[i])
            PROVE  buf'[i][n] = EndMark \/ buf'[i][n] = Len(got'[i]) + n
        <4>1. buf'[i][n] = buf[i][n + 1] /\ n + 1 \in 1..Len(buf[i]) /\ n \in Nat
          BY Zenon, <1>5
        <4>2. buf[i][n + 1] = EndMark \/ buf[i][n + 1] = Len(got[i]) + (n + 1)
          BY Zenon, <3>1, <4>1
        <4>3. Len(got[i]) + (n + 1) = Len(got'[i]) + n
          BY Zenon, <2>6, <4>1, Moves
        <4>4. QED
          BY Zenon, <4>1, <4>2, <4>3
      <3>3. QED
        BY Zenon, <3>2 DEF BufInv
    <2>8. EndInv(i)'
      <3>1. SUFFICES ASSUME Serves(conn[i])', NEW n \in 1..Len(buf'[i]), buf'[i][n] = EndMark
                     PROVE  n = Len(buf'[i]) /\ finished'[i] /\ Len(got'[i]) + n - 1 = sent'[i]
        BY Zenon DEF EndInv
      <3>2. buf[i][n + 1] = EndMark /\ n + 1 \in 1..Len(buf[i]) /\ n \in Nat /\ Serves(conn[i])
        BY Zenon, <1>1, <1>5, <3>1 DEF Serves
      <3>3. n + 1 = Len(buf[i]) /\ finished[i] /\ Len(got[i]) + (n + 1) - 1 = sent[i]
        BY Zenon, <1>1, <1>6, <3>2 DEF EndInv
      <3>4. n = Len(buf'[i]) /\ Len(got'[i]) + n - 1 = sent[i]
        <4>1. Len(buf[i]) \in Nat /\ Len(buf'[i]) = Len(buf[i]) - 1
          BY Zenon, <1>5
        <4> PICK g \in Nat : g = Len(got[i])
          BY Zenon, <2>6
        <4> PICK l \in Nat : l = Len(buf[i])
          BY Zenon, <4>1
        <4>2. l - 1 = Len(buf'[i]) /\ g + 1 = Len(got'[i]) /\ n + 1 = l /\ g + (n + 1) - 1 = sent[i] /\ n \in Nat
          BY Zenon, <2>6, <3>2, <3>3, <4>1
        <4>3. n = l - 1 /\ (g + 1) + n - 1 = sent[i]
          BY <4>2
        <4>4. QED
          BY Zenon, <4>2, <4>3
      <3>5. QED
        BY Zenon, <1>1, <3>3, <3>4
    <2>9. FlowInv(i)'
      <3>1. SUFFICES ASSUME Serves(conn[i])', NoEnd(i)'
                     PROVE  (\E b \in Nat : b = Len(got[i]) + Len(buf[i]) /\ Numbered(i, b))'
        BY Zenon DEF FlowInv
      <3>2. NoEnd(i) /\ Serves(conn[i])
        <4>1. \A n \in 1..Len(buf[i]) : n = 1 \/ (n - 1 \in 1..Len(buf'[i]) /\ (n - 1) + 1 = n)
          BY <1>5
        <4>2. \A n \in 1..Len(buf[i]) : n # 1 => buf[i][n] = buf'[i][n - 1] /\ n - 1 \in 1..Len(buf'[i])
          BY Zenon, <1>5, <4>1
        <4>3. QED
          BY Zenon, <1>1, <1>5, <1>10, <3>1, <4>2 DEF NoEnd, Serves
      <3>3. PICK b \in Nat : b = Len(got[i]) + Len(buf[i]) /\ Numbered(i, b)
        BY Zenon, <1>1, <1>6, <3>2 DEF FlowInv
      <3>4. Numbered(i, b)'
        BY Zenon, <1>1, <3>3 DEF Numbered
      <3>5. b = Len(got'[i]) + Len(buf'[i])
        <4>1. Len(got[i]) + Len(buf[i]) = (Len(got[i]) + 1) + (Len(buf[i]) - 1)
          BY Zenon, <1>3, <1>5, Counts
        <4>2. QED
          BY Zenon, <1>5, <2>3, <3>3, <4>1
      <3>6. QED
        BY Zenon, <3>4, <3>5
    <2>10. CallOrder(i)'
      BY Zenon, <1>7, <2>5, <2>7, <2>8, <2>9 DEF CallOrder
    <2>11. ASSUME NEW c \in Calls, c # i PROVE CallOrder(c)'
      <3>1. CallOrder(c) /\ buf'[c] = buf[c] /\ got'[c] = got[c] /\ ended'[c] = ended[c]
        BY Zenon, <1>4, <2>1, <2>2, <2>11 DEF OrderInv
      <3>2. QED
        BY Zenon, <1>1, <3>1, SameOrder
    <2>12. QED
      BY Zenon, <2>10, <2>11 DEF OrderInv
  <1>11. QED
    BY Zenon, <1>9, <1>10

\* A client writes: the next chunk, the end, or a request whose input is yet to come.
LEMMA ClientOrder ==
    ASSUME ServerInv, OrderInv, NEW i \in Calls, Client(i)
    PROVE  OrderInv'
  <1>1. PICK k \in Conns, m \in Frames : ClientWrites(i, k, m)
    BY Zenon, ClientFrame
  <1>2. UNCHANGED <<loop, thread, buf, inputs, got, ended>> /\ m.id = i /\ Write(k, m)
    BY Zenon, <1>1, ClientLeaves DEF ClientWrites
  <1>3. /\ wire[k] \in Seq(Frames) /\ wire'[k] = Append(wire[k], m)
        /\ \A j \in Conns : j # k => wire'[j] = wire[j]
        /\ \A p \in 1..Len(wire[k]) : wire'[k][p] = wire[k][p]
        /\ wire'[k][Len(wire[k]) + 1] = m
        /\ \A p \in 1..Len(wire'[k]) : p \in 1..Len(wire[k]) \/ p = Len(wire[k]) + 1
    <2>1. ConnTypes
      BY Zenon DEF ServerInv
    <2>2. wire[k] \in Seq(Frames) /\ wire'[k] = Append(wire[k], m)
      BY Zenon, <1>2, <2>1 DEF ConnTypes, Write
    <2>3. QED
      BY Zenon, <1>2, <2>1, <2>2, AfterWrite
  <1>4. Written(i, k, m)
    BY Zenon, <1>1, ClientCall
  <1>5. /\ \A c \in Calls : c # i =>
             handler'[c] = handler[c] /\ conn'[c] = conn[c] /\ finished'[c] = finished[c] /\ sent'[c] = sent[c]
        /\ handler'[i] # "none" /\ conn'[i] = k /\ ~finished[i]
        /\ handler[i] # "none" => handler'[i] = handler[i] /\ conn[i] = k /\ m.type # "request"
        /\ handler[i] = "none" => Unused(i) /\ m.type \in {"request", "opaque"}
    BY Zenon, <1>4 DEF Written
  <1>6. /\ m.type # "chunk" => sent' = sent
        /\ m.type = "chunk" => m.n = sent[i] + 1 /\ sent' = [sent EXCEPT ![i] = @ + 1]
    BY Zenon, <1>1 DEF ClientWrites, Requests, Inputs, Chunks, Garbles, Finishes
  <1>7. m.type = "chunk" => sent'[i] = sent[i] + 1 /\ sent[i] + 1 \in Nat
    <2>1. sent \in [Calls -> Nat]
      BY Zenon DEF ServerInv, CallTypes
    <2>2. QED
      BY <1>6, <2>1
  <1>8. ASSUME NEW c \in Calls, c # i \/ handler[i] # "none"
        PROVE  CallOrder(c)'
    <2>1. CallOrder(c)
      BY Zenon DEF OrderInv
    <2>2. /\ handler'[c] = handler[c] /\ conn'[c] = conn[c] /\ (m.id = c => m.type # "request" /\ conn[c] = k)
          /\ finished[c] => finished'[c] /\ sent'[c] = sent[c]
      <3>1. CASE c = i
        BY Zenon, <1>2, <1>5, <1>8, <3>1
      <3>2. CASE c # i
        BY Zenon, <1>2, <1>5, <3>2
      <3>3. QED
        BY Zenon, <3>1, <3>2
    <2>3. \/ sent'[c] = sent[c] /\ ~IsChunk(m, c)
          \/ sent'[c] = sent[c] + 1 /\ IsChunk(m, c) /\ m.n = sent[c] + 1
      <3>1. CASE c = i
        BY Zenon, <1>2, <1>6, <1>7, <3>1 DEF IsChunk
      <3>2. CASE c # i
        BY Zenon, <1>2, <1>5, <3>2 DEF IsChunk
      <3>3. QED
        BY Zenon, <3>1, <3>2
    <2>4. handler[c] # "none" => conn[c] \in Conns
      BY Zenon, CountTypes
    <2>5. FreshInv(c)'
      <3>1. handler[c] = "none" => sent'[c] = sent[c]
        BY Zenon, <1>5, <1>8
      <3>2. QED
        BY Zenon, <1>2, <2>1, <2>2, <3>1 DEF CallOrder, FreshInv, HasInput
    <2>6. (Waits(c)' => Waits(c)) /\ (Serves(conn[c])' => Serves(conn[c]))
      BY Zenon, <1>2, <2>2 DEF Waits, HasInput, Serves
    <2>7. ASSUME handler[c] # "none", Requested(c)' PROVE Requested(c)
      <3>1. PICK p \in 1..Len(wire'[conn[c]]) : wire'[conn[c]][p].id = c /\ wire'[conn[c]][p].type = "request"
        BY Zenon, <2>2, <2>7 DEF Requested
      <3>2. CASE conn[c] = k
        <4>1. p \in 1..Len(wire[k]) /\ wire'[k][p] = wire[k][p]
          BY Zenon, <1>3, <2>2, <3>1, <3>2
        <4>2. QED
          BY Zenon, <3>1, <3>2, <4>1 DEF Requested
      <3>3. CASE conn[c] # k
        BY Zenon, <1>3, <2>4, <2>7, <3>1, <3>3 DEF Requested
      <3>4. QED
        BY Zenon, <3>2, <3>3
    <2>8. ASSUME NEW b \in Nat, handler[c] # "none", Numbered(c, b) PROVE Numbered(c, b)'
      <3>1. Numbering(wire[conn[c]], c, b, sent[c]) /\ sent[c] \in Nat
        BY Zenon, <2>8, CountTypes DEF Numbered
      <3>2. CASE conn[c] = k
        <4>1. sent'[c] \in Nat
          BY <2>3, <3>1
        <4>2. Numbering(Append(wire[k], m), c, b, sent'[c])
          BY Zenon, <1>3, <2>3, <3>1, <3>2, <4>1, AppendNumbering
        <4>3. QED
          BY Zenon, <1>3, <2>2, <3>2, <4>2 DEF Numbered
      <3>3. CASE conn[c] # k
        <4>1. wire'[conn'[c]] = wire[conn[c]] /\ sent'[c] = sent[c]
          BY Zenon, <1>3, <2>2, <2>3, <2>4, <2>8, <3>3 DEF IsChunk
        <4>2. QED
          BY Zenon, <3>1, <4>1 DEF Numbered
      <3>4. QED
        BY Zenon, <3>2, <3>3
    <2>9. QED
      BY Zenon, <1>2, <2>1, <2>2, <2>5, <2>6, <2>7, <2>8, OrderKept
  <1>9. ASSUME handler[i] = "none"
        PROVE  CallOrder(i)'
    <2>1. m.type # "chunk" /\ conn'[i] = k /\ handler'[i] # "none" /\ sent' = sent /\ Unused(i)
      BY Zenon, <1>5, <1>6, <1>9
    <2>2. sent[i] = 0 /\ thread[i] = "none" /\ got[i] = <<>> /\ buf[i] = <<>> /\ ~ended[i]
      BY Zenon, <1>9, <2>1 DEF OrderInv, CallOrder, FreshInv, Unused
    <2>3. Len(<<>>) = 0 /\ <<>> = [n \in 1..0 |-> n] /\ (\A n \in 1..0 : FALSE) /\ 0 \in Nat
      OBVIOUS
    <2>4. GotInv(i)'
      BY Zenon, <1>2, <2>2, <2>3 DEF GotInv
    <2>5. FreshInv(i)' /\ ~Waits(i)'
      BY Zenon, <1>2, <2>1, <2>2 DEF FreshInv, Waits
    <2>6. \A p \in 1..Len(wire[k]) : wire[k][p].id # i
      <3>1. \A p \in 1..Len(wire[k]) : FrameInv(k, p)
        BY Zenon DEF ServerInv, WireInv
      <3>2. \A p \in 1..Len(wire[k]) : handler[wire[k][p].id] # "none"
        BY Zenon, <3>1 DEF FrameInv
      <3>3. QED
        BY Zenon, <1>9, <3>2
    <2>7. \A p \in 1..Len(wire'[k]) : ~IsChunk(wire'[k][p], i)
      BY Zenon, <1>3, <2>1, <2>6 DEF IsChunk
    <2>8. Numbered(i, 0)'
      <3>1. 0 <= 0 /\ \A n \in (0 + 1)..0 : FALSE
        OBVIOUS
      <3>2. Numbering(wire'[k], i, 0, 0)
        BY Zenon, <2>7, <3>1 DEF Numbering
      <3>3. QED
        BY Zenon, <2>1, <2>2, <3>2 DEF Numbered
    <2>9. FlowInv(i)'
      <3>1. 0 = Len(got'[i]) + Len(buf'[i])
        BY <1>2, <2>2
      <3>2. \E b \in Nat : b = Len(got'[i]) + Len(buf'[i]) /\ Numbered(i, b)'
        BY Zenon, <2>3, <2>8, <3>1
      <3>3. QED
        BY Zenon, <3>2 DEF FlowInv
    <2>10. QED
      BY Zenon, <2>4, <2>5, <2>9 DEF CallOrder, BufInv, EndInv
  <1>10. QED
    BY Zenon, <1>8, <1>9 DEF OrderInv

-----------------------------------------------------------------------------
\* The order holds when the server starts, and every step keeps it.
LEMMA InitOrder == Init => OrderInv
  <1> SUFFICES ASSUME Init, NEW i \in Calls PROVE CallOrder(i)
    BY Zenon DEF OrderInv
  <1>1. handler[i] = "none" /\ thread[i] = "none" /\ got[i] = <<>> /\ buf[i] = <<>> /\ ~ended[i] /\ sent[i] = 0
    BY Zenon DEF Init
  <1>2. QED
    BY Zenon, <1>1 DEF CallOrder, FreshInv

LEMMA StepOrder ==
    ASSUME ServerInv, OrderInv, [Next]_vars
    PROVE  OrderInv'
  <1>1. ServerInv'
    BY Zenon, StepInv
  <1>2. CASE UNCHANGED vars \/ Close \/ UseFreedServer
    <2>1. UNCHANGED <<wire, handler, conn, sent, finished, got, ended, loop, thread, buf, inputs>>
      BY Zenon, <1>2 DEF vars, Close, UseFreedServer, loopVars, clientVars, queueVars, callVars
    <2>2. QED
      BY Zenon, <1>1, <2>1, QuietOrder DEF Serves
  <1>3. ASSUME NEW k \in Conns, Accept(k) \/ AcceptFails(k) \/ CloseSocket(k) \/ Disconnect(k)
        PROVE  OrderInv'
    <2>1. UNCHANGED <<wire, handler, conn, sent, finished, got, ended, thread, buf, inputs>>
      BY Zenon, <1>3 DEF Accept, AcceptFails, CloseSocket, Disconnect, clientVars, queueVars, callVars
    <2>2. \/ loop' = loop
          \/ loop[k] = "none" /\ loop' = [loop EXCEPT ![k] = "read"]
          \/ loop[k] = "close" /\ loop' = [loop EXCEPT ![k] = "done"]
      BY Zenon, <1>3 DEF Accept, AcceptFails, CloseSocket, Disconnect, loopVars, ServerInv, ConnInv
    <2>3. \A j \in Conns : \/ loop'[j] = loop[j]
                           \/ loop[j] = "none" /\ loop'[j] = "read"
                           \/ loop[j] = "close" /\ loop'[j] = "done"
      <3>1. loop \in [Conns -> {"none", "read", "push", "close", "done"}]
        BY Zenon DEF ServerInv, ConnTypes
      <3>2. QED
        BY Zenon, <2>2, <3>1
    <2>4. /\ \A j \in Conns : Serves(j)' => Serves(j) \/ loop[j] = "none"
          /\ \A j \in Conns : loop[j] \in {"close", "done"} => loop'[j] \in {"close", "done"}
      BY Zenon, <2>3 DEF Serves
    <2>5. QED
      BY Zenon, <1>1, <2>1, <2>4, QuietOrder
  <1>4. ASSUME NEW i \in Calls,
               Emit(i) \/ Return(i) \/ ReturnEarly(i) \/ WriteAnswer(i) \/ ResponseTooLarge(i)
                   \/ RemoveInput(i) \/ FreeInput(i)
        PROVE  OrderInv'
    <2>1. UNCHANGED <<wire, handler, conn, sent, finished, got, ended, loop>>
      BY Zenon, <1>4 DEF Emit, Return, ReturnEarly, WriteAnswer, ResponseTooLarge, RemoveInput, FreeInput,
         loopVars, clientVars
    <2>2. \/ UNCHANGED <<thread, buf, inputs>>
          \/ /\ \E l \in {"write", "remove", "free", "done"} : thread' = [thread EXCEPT ![i] = l]
             /\ inputs' = inputs \/ inputs' = inputs \ {i}
             /\ buf' = buf \/ buf' = [buf EXCEPT ![i] = <<>>]
      BY Zenon, <1>4 DEF Emit, Return, ReturnEarly, WriteAnswer, ResponseTooLarge, RemoveInput, FreeInput,
         Goto, queueVars
    <2>3. \A c \in Calls : thread'[c] \in {"none", "run"} =>
              thread'[c] = thread[c] /\ buf'[c] = buf[c] /\ (c \in inputs => c \in inputs')
      <3>1. /\ thread \in [Calls -> {"none", "run", "write", "remove", "free", "done", "never"}]
            /\ buf \in [Calls -> Seq(Nat)]
        BY Zenon DEF ServerInv, CallTypes
      <3>2. CASE UNCHANGED <<thread, buf, inputs>>
        BY Zenon, <3>2
      <3>3. ASSUME NEW l \in {"write", "remove", "free", "done"}, thread' = [thread EXCEPT ![i] = l],
                   inputs' = inputs \/ inputs' = inputs \ {i}, buf' = buf \/ buf' = [buf EXCEPT ![i] = <<>>],
                   NEW c \in Calls, thread'[c] \in {"none", "run"}
            PROVE  thread'[c] = thread[c] /\ buf'[c] = buf[c] /\ (c \in inputs => c \in inputs')
        <4>1. c # i
          BY Zenon, <3>1, <3>3
        <4>2. QED
          BY Zenon, <3>1, <3>3, <4>1
      <3>4. QED
        BY Zenon, <2>2, <3>2, <3>3
    <2>4. QED
      BY Zenon, <1>1, <2>1, <2>3, QuietOrder DEF Serves
  <1>5. ASSUME NEW k \in Conns, Accept(k) \/ AcceptFails(k) \/ Loop(k) \/ ReadFails(k) \/ Disconnect(k)
        PROVE  OrderInv'
    BY Zenon, <1>1, <1>3, <1>5, RefuseOrder, DispatchOrder, SkipOrder, FindOrder, PushOrder, LoopEndsOrder
       DEF Loop, LoopEnds, ReadFails
  <1>6. ASSUME NEW i \in Calls, Recv(i) \/ Emit(i) \/ ReturnEarly(i) \/ Finish(i) \/ Client(i)
        PROVE  OrderInv'
    BY Zenon, <1>4, <1>6, RecvOrder, ClientOrder DEF Finish
  <1>7. QED
    BY Zenon, <1>2, <1>5, <1>6 DEF Next

\* What the invariant says of what recv() has returned.
LEMMA OrderHolds ==
    ASSUME ServerInv, OrderInv, NEW i \in Calls
    PROVE  GotInv(i)
  <1>1. CASE handler[i] # "none"
    BY Zenon, <1>1 DEF OrderInv, CallOrder
  <1>2. CASE handler[i] = "none"
    <2>1. thread[i] = "none"
      BY Zenon, <1>2 DEF ServerInv, CallInv, Unused
    <2>2. got[i] = <<>> /\ ~ended[i]
      BY Zenon, <2>1 DEF OrderInv, CallOrder, FreshInv
    <2>3. Len(<<>>) = 0 /\ <<>> = [n \in 1..0 |-> n]
      OBVIOUS
    <2>4. QED
      BY Zenon, <2>2, <2>3 DEF GotInv
  <1>3. QED
    BY Zenon, <1>1, <1>2

LEMMA OrderAlways == Spec => [](ServerInv /\ OrderInv)
  <1>1. Init => ServerInv /\ OrderInv
    BY Zenon, InitInv, InitOrder
  <1>2. (ServerInv /\ OrderInv) /\ [Next]_vars => (ServerInv /\ OrderInv)'
    BY Zenon, StepInv, StepOrder
  <1>3. QED
    BY <1>1, <1>2, PTL DEF Spec

\* recv() gives every handler its client's chunks in order and without a gap, but for those
\* that the codec refuses and the read loop skips, for any number of connections, calls and
\* chunks (dispatch_request, stream_input_push, stream_input_recv).
THEOREM InputArrivesInOrder == Spec => []InputInOrder
  <1>1. ServerInv /\ OrderInv => InputInOrder
    BY Zenon, OrderHolds DEF InputInOrder, GotInv
  <1>2. QED
    BY <1>1, OrderAlways, PTL

-----------------------------------------------------------------------------
\* The bounds of the model: a client sends at most MaxIn chunks, numbered from 1.

BoundedFrames == [id : Calls, type : {"request", "chunk", "finish", "opaque"}, n : 0..MaxIn]
BoundInv ==
    /\ handler \in [Calls -> Handlers \cup {"none"}] /\ sent \in [Calls -> 0..MaxIn]
    /\ wire \in [Conns -> Seq(BoundedFrames)]
    /\ buf \in [Calls -> Seq(0..MaxIn)] /\ got \in [Calls -> Seq(0..MaxIn)]
    /\ emitted \in [Calls -> 0..MaxOut]
    /\ inputs \subseteq Calls /\ freed \subseteq Calls
    /\ opaque \in [Calls -> 0..MaxIn]

\* Taking from a sequence and adding to it.
LEMMA SeqSteps ==
    ASSUME NEW S, NEW s \in Seq(S)
    PROVE  /\ \A x \in S : Append(s, x) \in Seq(S)
           /\ s # <<>> => Head(s) \in S /\ Tail(s) \in Seq(S)
           /\ <<>> \in Seq(S)
  OBVIOUS

LEMMA ReadBound ==
    ASSUME BoundInv, NEW k \in Conns, wire[k] # <<>>, Read(k)
    PROVE  wire' \in [Conns -> Seq(BoundedFrames)] /\ NextFrame(k).id \in Calls /\ NextFrame(k).n \in 0..MaxIn
  <1>1. wire \in [Conns -> Seq(BoundedFrames)]
    BY Zenon DEF BoundInv
  <1>2. Head(wire[k]) \in BoundedFrames /\ Tail(wire[k]) \in Seq(BoundedFrames)
    BY Zenon, <1>1, SeqSteps
  <1>3. wire' \in [Conns -> Seq(BoundedFrames)]
    BY Zenon, <1>1, <1>2 DEF Read
  <1>4. QED
    BY <1>2, <1>3 DEF NextFrame, BoundedFrames

\* A chunk, or the end, is pushed to a queue.
LEMMA QueuedBound ==
    ASSUME BoundInv, NEW i \in Calls, NEW x \in 0..MaxIn
    PROVE  Queued(buf[i], x) \in Seq(0..MaxIn)
  BY Zenon, SeqSteps DEF BoundInv, Queued

LEMMA EndMarkBound == EndMark \in 0..MaxIn
  BY CServerAssumption DEF EndMark

LEMMA LoopBound ==
    ASSUME ServerInv, BoundInv, NEW k \in Conns, Loop(k) \/ ReadFails(k)
    PROVE  BoundInv'
  <1>1. CASE Refuse(k)
    <2>1. /\ wire[k] # <<>> /\ Read(k) /\ UNCHANGED <<handler, sent, opaque, buf, got, emitted, inputs, freed>>
      BY Zenon, <1>1 DEF Refuse, Reads, clientVars, queueVars
    <2>2. QED
      BY Zenon, <2>1, ReadBound DEF BoundInv
  <1>2. CASE Dispatch(k)
    <2>1. /\ wire[k] # <<>> /\ Read(k) /\ UNCHANGED <<handler, sent, opaque, buf, got, emitted, freed>>
          /\ inputs' = inputs \/ inputs' = inputs \cup {NextFrame(k).id}
      BY Zenon, <1>2 DEF Dispatch, Reads, clientVars
    <2>2. wire' \in [Conns -> Seq(BoundedFrames)] /\ NextFrame(k).id \in Calls
      BY Zenon, <2>1, ReadBound
    <2>3. inputs' \subseteq Calls
      BY Zenon, <2>1, <2>2 DEF BoundInv
    <2>4. QED
      BY Zenon, <2>1, <2>2, <2>3 DEF BoundInv
  <1>3. CASE Find(k)
    <2>1. /\ (wire[k] # <<>> /\ Read(k)) \/ wire' = wire
          /\ UNCHANGED <<handler, sent, opaque, buf, got, emitted, inputs, freed>>
      BY Zenon, <1>3 DEF Find, Reads, clientVars, queueVars, callVars
    <2>2. wire' \in [Conns -> Seq(BoundedFrames)]
      BY Zenon, <2>1, ReadBound DEF BoundInv
    <2>3. QED
      BY Zenon, <2>1, <2>2 DEF BoundInv
  <1>4. CASE Push(k)
    <2>1. /\ loop[k] = "push" /\ Read(k) /\ UNCHANGED <<handler, sent, opaque, got, emitted, inputs, freed>>
      BY Zenon, <1>4 DEF Push, clientVars, callVars
    <2>2. wire[k] # <<>> /\ held[k] = wire[k][1].id
      BY Zenon, <2>1 DEF ServerInv, HoldInv, Holds
    <2>3. wire' \in [Conns -> Seq(BoundedFrames)] /\ NextFrame(k).id \in Calls /\ NextFrame(k).n \in 0..MaxIn
      BY Zenon, <2>1, <2>2, ReadBound
    <2>4. held[k] \in Calls
      <3>1. NextFrame(k) = wire[k][1]
        BY Zenon, <2>2, HeadFacts DEF ServerInv
      <3>2. QED
        BY Zenon, <2>2, <2>3, <3>1
    <2>5. buf' = buf \/ \E x \in 0..MaxIn : buf' = [buf EXCEPT ![held[k]] = Queued(@, x)]
      <3>1. CASE NextFrame(k).type = "chunk"
        BY Zenon, <1>4, <2>3, <3>1 DEF Push
      <3>2. CASE NextFrame(k).type # "chunk"
        BY Zenon, <1>4, <3>2, EndMarkBound DEF Push
      <3>3. QED
        BY Zenon, <3>1, <3>2
    <2>6. buf' \in [Calls -> Seq(0..MaxIn)]
      <3>1. buf \in [Calls -> Seq(0..MaxIn)]
        BY Zenon DEF BoundInv
      <3>2. QED
        BY Zenon, <2>4, <2>5, <3>1, QueuedBound
    <2>7. QED
      BY Zenon, <2>1, <2>3, <2>6 DEF BoundInv
  <1>5. CASE LoopEnds(k) \/ ReadFails(k)
    <2>1. /\ UNCHANGED <<handler, sent, opaque, got, emitted, inputs, freed>>
          /\ wire' = [wire EXCEPT ![k] = <<>>]
          /\ buf' = [i \in Calls |-> IF i \in inputs /\ conn[i] = k THEN Queued(buf[i], EndMark) ELSE buf[i]]
      BY Zenon, <1>5 DEF LoopEnds, ReadFails, StopReading, clientVars, callVars
    <2>2. wire' \in [Conns -> Seq(BoundedFrames)]
      <3>1. wire \in [Conns -> Seq(BoundedFrames)] /\ <<>> \in Seq(BoundedFrames)
        BY DEF BoundInv
      <3>2. QED
        BY Zenon, <2>1, <3>1
    <2>3. buf' \in [Calls -> Seq(0..MaxIn)]
      <3>1. \A i \in Calls : Queued(buf[i], EndMark) \in Seq(0..MaxIn) /\ buf[i] \in Seq(0..MaxIn)
        BY Zenon, QueuedBound, EndMarkBound DEF BoundInv
      <3>2. QED
        BY Zenon, <2>1, <3>1
    <2>4. QED
      BY Zenon, <2>1, <2>2, <2>3 DEF BoundInv
  <1>6. CASE CloseSocket(k)
    <2>1. UNCHANGED <<handler, sent, opaque, wire, buf, got, emitted, inputs, freed>>
      BY Zenon, <1>6 DEF CloseSocket, clientVars, queueVars, callVars
    <2>2. QED
      BY Zenon, <2>1 DEF BoundInv
  <1>7. CASE SkipFrame(k)
    <2>1. wire[k] # <<>> /\ Read(k) /\ UNCHANGED <<handler, sent, opaque, buf, got, emitted, inputs, freed>>
      BY Zenon, <1>7 DEF SkipFrame, Reads, clientVars, queueVars, callVars
    <2>2. QED
      BY Zenon, <2>1, ReadBound DEF BoundInv
  <1>8. QED
    BY Zenon, <1>1, <1>2, <1>3, <1>4, <1>5, <1>6, <1>7 DEF Loop

LEMMA CallBound ==
    ASSUME ServerInv, BoundInv, NEW i \in Calls, Recv(i) \/ Emit(i) \/ ReturnEarly(i) \/ Finish(i)
    PROVE  BoundInv'
  <1>1. CASE Recv(i)
    <2>1. /\ buf[i] # <<>> /\ buf' = [buf EXCEPT ![i] = Tail(@)]
          /\ got' = got \/ got' = [got EXCEPT ![i] = Append(@, Head(buf[i]))]
          /\ UNCHANGED <<handler, sent, opaque, wire, emitted, inputs, freed>>
      BY Zenon, <1>1 DEF Recv, clientVars
    <2>2. buf \in [Calls -> Seq(0..MaxIn)] /\ got \in [Calls -> Seq(0..MaxIn)]
      BY Zenon DEF BoundInv
    <2>3. Head(buf[i]) \in 0..MaxIn /\ Tail(buf[i]) \in Seq(0..MaxIn)
      BY Zenon, <2>1, <2>2, SeqSteps
    <2>4. Append(got[i], Head(buf[i])) \in Seq(0..MaxIn)
      BY Zenon, <2>2, <2>3, SeqSteps
    <2>5. buf' \in [Calls -> Seq(0..MaxIn)] /\ got' \in [Calls -> Seq(0..MaxIn)]
      BY Zenon, <2>1, <2>2, <2>3, <2>4
    <2>6. QED
      BY Zenon, <2>1, <2>5 DEF BoundInv
  <1>2. CASE Emit(i)
    <2>1. /\ emitted[i] < MaxOut /\ emitted' = [emitted EXCEPT ![i] = @ + 1]
          /\ UNCHANGED <<handler, sent, opaque, wire, buf, got, inputs, freed>>
      BY Zenon, <1>2 DEF Emit, clientVars, queueVars
    <2>2. emitted \in [Calls -> 0..MaxOut]
      BY Zenon DEF BoundInv
    <2>3. emitted' \in [Calls -> 0..MaxOut]
      BY <2>1, <2>2, CServerAssumption
    <2>4. QED
      BY Zenon, <2>1, <2>3 DEF BoundInv
  <1>3. CASE FreeInput(i)
    <2>1. /\ freed' = freed \cup {i} /\ buf' = [buf EXCEPT ![i] = <<>>]
          /\ UNCHANGED <<handler, sent, opaque, wire, got, emitted, inputs>>
      BY Zenon, <1>3 DEF FreeInput, clientVars
    <2>2. buf \in [Calls -> Seq(0..MaxIn)] /\ <<>> \in Seq(0..MaxIn)
      BY DEF BoundInv
    <2>3. buf' \in [Calls -> Seq(0..MaxIn)] /\ freed' \subseteq Calls
      BY Zenon, <2>1, <2>2 DEF BoundInv
    <2>4. QED
      BY Zenon, <2>1, <2>3 DEF BoundInv
  <1>4. CASE ReturnEarly(i) \/ Return(i) \/ WriteAnswer(i) \/ ResponseTooLarge(i) \/ RemoveInput(i)
    <2>1. /\ inputs' = inputs \/ inputs' = inputs \ {i}
          /\ UNCHANGED <<handler, sent, opaque, wire, buf, got, emitted, freed>>
      BY Zenon, <1>4 DEF ReturnEarly, Return, WriteAnswer, ResponseTooLarge, RemoveInput, clientVars, queueVars
    <2>2. inputs' \subseteq Calls
      BY Zenon, <2>1 DEF BoundInv
    <2>3. QED
      BY Zenon, <2>1, <2>2 DEF BoundInv
  <1>5. QED
    BY Zenon, <1>1, <1>2, <1>3, <1>4 DEF Finish

LEMMA WriteBound ==
    ASSUME BoundInv, NEW k \in Conns, NEW m \in BoundedFrames, Write(k, m)
    PROVE  wire' \in [Conns -> Seq(BoundedFrames)]
  <1>1. wire \in [Conns -> Seq(BoundedFrames)]
    BY Zenon DEF BoundInv
  <1>2. Append(wire[k], m) \in Seq(BoundedFrames)
    BY Zenon, <1>1, SeqSteps
  <1>3. QED
    BY Zenon, <1>1, <1>2 DEF Write

LEMMA ClientBound ==
    ASSUME ServerInv, BoundInv, NEW i \in Calls, Client(i)
    PROVE  BoundInv'
  <1>1. ASSUME NEW t \in {"request", "chunk", "finish", "opaque"}
        PROVE  Frame(i, t) \in BoundedFrames /\ \A x \in 0..MaxIn : ChunkFrame(i, x) \in BoundedFrames
    BY CServerAssumption DEF Frame, ChunkFrame, BoundedFrames
  <1>2. HasInput(i) => conn[i] \in Conns
    BY Zenon, CountTypes DEF HasInput
  <1>3. ASSUME NEW k \in Conns, NEW h \in Handlers, ClientRequest(i, k, h) PROVE BoundInv'
    <2>1. /\ handler' = [handler EXCEPT ![i] = h] /\ \E t \in {"request", "opaque"} : Write(k, Frame(i, t))
          /\ UNCHANGED <<sent, opaque, buf, got, emitted, inputs, freed>>
      BY Zenon, <1>3 DEF ClientRequest, queueVars, callVars
    <2>2. wire' \in [Conns -> Seq(BoundedFrames)]
      BY Zenon, <1>1, <2>1, WriteBound
    <2>3. handler' \in [Calls -> Handlers \cup {"none"}]
      BY Zenon, <2>1 DEF BoundInv
    <2>4. QED
      BY Zenon, <2>1, <2>2, <2>3 DEF BoundInv
  <1>4. CASE ClientChunk(i)
    <2>1. /\ HasInput(i) /\ sent[i] + opaque[i] < MaxIn /\ sent' = [sent EXCEPT ![i] = @ + 1]
          /\ Write(conn[i], ChunkFrame(i, sent[i] + 1))
          /\ UNCHANGED <<handler, opaque, buf, got, emitted, inputs, freed>>
      BY Zenon, <1>4 DEF ClientChunk, queueVars, callVars
    <2>2. sent \in [Calls -> 0..MaxIn] /\ opaque \in [Calls -> 0..MaxIn]
      BY Zenon DEF BoundInv
    <2>3. sent' \in [Calls -> 0..MaxIn] /\ sent[i] + 1 \in 0..MaxIn
      BY <2>1, <2>2, CServerAssumption
    <2>4. wire' \in [Conns -> Seq(BoundedFrames)]
      BY Zenon, <1>1, <1>2, <2>1, <2>3, WriteBound
    <2>5. QED
      BY Zenon, <2>1, <2>3, <2>4 DEF BoundInv
  <1>5. CASE ClientFinish(i)
    <2>1. /\ HasInput(i) /\ Write(conn[i], Frame(i, "finish"))
          /\ UNCHANGED <<handler, sent, opaque, buf, got, emitted, inputs, freed>>
      BY Zenon, <1>5 DEF ClientFinish, queueVars, callVars
    <2>2. wire' \in [Conns -> Seq(BoundedFrames)]
      BY Zenon, <1>1, <1>2, <2>1, WriteBound
    <2>3. QED
      BY Zenon, <2>1, <2>2 DEF BoundInv
  <1>6. CASE ClientOpaque(i)
    <2>1. /\ HasInput(i) /\ sent[i] + opaque[i] < MaxIn /\ opaque' = [opaque EXCEPT ![i] = @ + 1]
          /\ Write(conn[i], Frame(i, "opaque"))
          /\ UNCHANGED <<handler, sent, buf, got, emitted, inputs, freed>>
      BY Zenon, <1>6 DEF ClientOpaque, queueVars, callVars
    <2>2. sent \in [Calls -> 0..MaxIn] /\ opaque \in [Calls -> 0..MaxIn]
      BY Zenon DEF BoundInv
    <2>3. opaque' \in [Calls -> 0..MaxIn]
      BY <2>1, <2>2, CServerAssumption
    <2>4. wire' \in [Conns -> Seq(BoundedFrames)]
      BY Zenon, <1>1, <1>2, <2>1, WriteBound
    <2>5. QED
      BY Zenon, <2>1, <2>3, <2>4 DEF BoundInv
  <1>7. QED
    BY Zenon, <1>3, <1>4, <1>5, <1>6 DEF Client

LEMMA StepBound ==
    ASSUME ServerInv, BoundInv, [Next]_vars
    PROVE  BoundInv'
  <1>1. CASE \/ UNCHANGED vars \/ Close \/ UseFreedServer
             \/ \E k \in Conns : Accept(k) \/ AcceptFails(k) \/ Disconnect(k)
    <2>1. UNCHANGED <<handler, sent, opaque, wire, buf, got, emitted, inputs, freed>>
      BY Zenon, <1>1 DEF vars, Close, UseFreedServer, Accept, AcceptFails, Disconnect, clientVars, queueVars, callVars
    <2>2. QED
      BY Zenon, <2>1 DEF BoundInv
  <1>2. QED
    BY Zenon, <1>1, LoopBound, CallBound, ClientBound DEF Next

LEMMA InitBound == Init => BoundInv
  <1> SUFFICES ASSUME Init PROVE BoundInv
    OBVIOUS
  <1>1. handler = [i \in Calls |-> "none"] /\ sent = [i \in Calls |-> 0] /\ wire = [k \in Conns |-> <<>>]
        /\ buf = [i \in Calls |-> <<>>] /\ got = [i \in Calls |-> <<>>] /\ emitted = [i \in Calls |-> 0]
        /\ inputs = {} /\ freed = {} /\ opaque = [i \in Calls |-> 0]
    BY Zenon DEF Init
  <1>2. QED
    BY <1>1, CServerAssumption DEF BoundInv

\* A sequence that counts from 1 is no longer than its elements are large.
LEMMA CountsUpTo ==
    ASSUME NEW m \in Nat, NEW s \in Seq(0..m), s = [n \in 1..Len(s) |-> n]
    PROVE  Len(s) <= m
  <1>1. CASE Len(s) = 0
    BY <1>1
  <1>2. CASE Len(s) # 0
    <2>1. Len(s) \in 1..Len(s)
      BY <1>2
    <2>2. s[Len(s)] \in 0..m
      BY <2>1
    <2>3. s[Len(s)] = Len(s)
      BY Zenon, <2>1
    <2>4. QED
      BY <2>2, <2>3
  <1>3. QED
    BY <1>1, <1>2

\* The state keeps its types and bounds: in particular no queue is registered once it is
\* freed, and no handler is given more chunks than a client sends (conn_remove_input,
\* stream_input_free, stream_input_recv).
THEOREM TypesHold == Spec => []TypeOK
  <1>1. Init => ServerInv /\ OrderInv /\ BoundInv
    BY Zenon, InitInv, InitOrder, InitBound
  <1>2. (ServerInv /\ OrderInv /\ BoundInv) /\ [Next]_vars => (ServerInv /\ OrderInv /\ BoundInv)'
    BY Zenon, StepInv, StepOrder, StepBound
  <1>3. ServerInv /\ OrderInv /\ BoundInv => TypeOK
    <2> SUFFICES ASSUME ServerInv, OrderInv, BoundInv PROVE TypeOK
      OBVIOUS
    <2>1. inputs \cap freed = {}
      <3>1. \A i \in Calls : ~(i \in inputs /\ i \in freed)
        BY Zenon DEF ServerInv, FreeInv, FreeOf
      <3>2. QED
        BY Zenon, <3>1 DEF BoundInv
    <2>2. ASSUME NEW i \in Calls PROVE Len(got[i]) <= MaxIn
      <3>1. got[i] \in Seq(0..MaxIn) /\ MaxIn \in Nat
        BY Zenon, CServerAssumption DEF BoundInv
      <3>2. got[i] = [n \in 1..Len(got[i]) |-> n]
        BY Zenon, OrderHolds DEF GotInv
      <3>3. QED
        BY Zenon, <3>1, <3>2, CountsUpTo
    <2>3. ConnTypes /\ CallTypes /\ foreign \subseteq Calls /\ stale \subseteq Calls
      BY Zenon DEF ServerInv
    <2>4. QED
      BY Zenon, <2>1, <2>2, <2>3 DEF TypeOK, ConnTypes, CallTypes, BoundInv
  <1>4. QED
    BY <1>1, <1>2, <1>3, PTL DEF Spec
=============================================================================
