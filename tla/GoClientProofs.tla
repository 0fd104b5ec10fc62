--------------------------- MODULE GoClientProofs ---------------------------
(***************************************************************************)
(* Proofs about GoClient, for every value of its constants.                *)
(***************************************************************************)
EXTENDS GoClient, SequenceTheorems, TLAPS

-----------------------------------------------------------------------------
\* Type correctness.  ReadFrame and Deliver use the connection and the frame
\* the reader holds, so TypeOK is inductive only with what rd says of them.

ReaderHolds ==
    /\ rd \in {"read", "deliver"} => rdConn \in Conns
    /\ rd = "deliver" => rdMsg \in Frames

Typed == TypeOK /\ ReaderHolds

\* The client's state after Connect has the declared types.
LEMMA InitTyped == Init => Typed
<1> SUFFICES ASSUME Init PROVE Typed
    OBVIOUS
<1>1. 1 \in Conns /\ 0 \in 0..MaxCalls /\ 0 \in 0..MaxChunks
    BY GoClientAssumption DEF Conns
<1>2. <<>> \in Seq(Frames) /\ <<>> \in Seq(Nat) /\ 0 \in Nat
    OBVIOUS
<1> QED BY Zenon, <1>1, <1>2 DEF Init, Typed, TypeOK, ReaderHolds, NoConn, Outcomes

\* A server's frame joins the frames in flight on a connection.
LEMMA AppendToWire ==
    ASSUME NEW w \in [Conns -> Seq(Frames)], NEW c, NEW f \in Frames
    PROVE  [w EXCEPT ![c] = Append(@, f)] \in [Conns -> Seq(Frames)]
<1>1. \A d \in Conns : Append(w[d], f) \in Seq(Frames)
    OBVIOUS
<1>2. \A d \in Conns : [w EXCEPT ![c] = Append(@, f)][d] \in Seq(Frames)
    BY <1>1
<1> QED BY Zenon, <1>2

\* A server's frame may be one that the client cannot decode.
LEMMA SendTypes ==
    ASSUME Typed, NEW i \in Calls, NEW t, ServerSend(i, t)
    PROVE  opaque' \in [Calls -> SUBSET (1..(MaxChunks + 1))]
<1>1. sent[i] + 1 \in 1..(MaxChunks + 1)
    BY GoClientAssumption DEF Typed, TypeOK
<1>2. opaque' = opaque \/ opaque' = [opaque EXCEPT ![i] = @ \cup {sent[i] + 1}]
    BY Zenon DEF ServerSend
<1>3. opaque \in [Calls -> SUBSET (1..(MaxChunks + 1))]
    BY Zenon DEF Typed, TypeOK
<1>4. opaque[i] \cup {sent[i] + 1} \in SUBSET (1..(MaxChunks + 1))
    BY Zenon, <1>1, <1>3
<1> QED BY <1>2, <1>3, <1>4

\* Every operation of the client, step of its reader and event of the network
\* keeps the declared types.
LEMMA StepTyped == Typed /\ [Next]_vars => Typed'
<1> SUFFICES ASSUME Typed, [Next]_vars PROVE Typed'
    OBVIOUS
<1> USE DEF Typed, TypeOK, ReaderHolds
<1>1. ASSUME NEW k \in {"unary", "stream"}, Begin(k) PROVE Typed'
    <2>1. nextID' \in 0..MaxCalls /\ nextID' \in Calls
        BY <1>1, GoClientAssumption DEF Begin, Calls
    <2>2. /\ kind' = [kind EXCEPT ![nextID'] = k] /\ pc' = [pc EXCEPT ![nextID'] = "lock"]
          /\ UNCHANGED <<snap, item, recv, outcome, pending, chan, connVars, rdVars, envVars>>
        BY <1>1 DEF Begin
    <2>3. /\ kind' \in [Calls -> {"unary", "stream"}]
          /\ pc' \in [Calls -> {"idle", "lock", "snap", "write", "writing", "wait", "forward", "exit", "done"}]
        BY Zenon, <2>1, <2>2
    <2> QED BY ZenonT(60), <2>1, <2>2, <2>3 DEF connVars, rdVars, envVars
<1>2. ASSUME NEW i \in Calls, CallerStep(i) PROVE Typed'
    <2>1. CASE Register(i)
        BY <2>1 DEF Register, connVars, rdVars, envVars
    <2>2. CASE EncodeError(i)
        BY <2>2 DEF EncodeError, Return, Outcomes, connVars, rdVars, envVars
    <2>3. CASE Snapshot(i)
        <3>1. CASE closed \/ conn = NoConn
            <4>1. Return(i, "closed") /\ UNCHANGED <<nextID, kind, snap, item, recv, pending, chan>>
                BY <2>3, <3>1 DEF Snapshot
            <4>2. UNCHANGED <<connVars, rdVars, envVars>>
                BY Zenon, <2>3 DEF Snapshot
            <4> QED BY <4>1, <4>2 DEF Return, Outcomes, connVars, rdVars, envVars
        <3>2. CASE ~(closed \/ conn = NoConn)
            <4>1. /\ snap' = [snap EXCEPT ![i] = conn] /\ pc' = [pc EXCEPT ![i] = "write"]
                  /\ UNCHANGED <<nextID, kind, item, recv, outcome, pending, chan>>
                BY Zenon, <2>3, <3>2 DEF Snapshot
            <4>2. UNCHANGED <<connVars, rdVars, envVars>>
                BY <2>3 DEF Snapshot
            <4> QED BY <4>1, <4>2 DEF connVars, rdVars, envVars
        <3> HIDE DEF Typed
        <3> QED BY <3>1, <3>2
    <2>12. CASE LockWrite(i)
        BY <2>12 DEF LockWrite, connVars, rdVars, envVars
    <2>4. CASE WriteOk(i)
        BY <2>4 DEF WriteOk, connVars, rdVars
    <2>5. CASE WriteError(i)
        BY <2>5 DEF WriteError, Return, Outcomes, connVars, rdVars, envVars
    <2>6. CASE ImportRecv(i)
        <3>1. Tail(chan[i]) \in Seq(Frames)
            BY <2>6, HeadTailProperties DEF ImportRecv
        <3>2. ImportOutcomes(Head(chan[i]).type) \subseteq Outcomes
            BY DEF ImportOutcomes, Outcomes
        <3> QED BY <2>6, <3>1, <3>2 DEF ImportRecv, Return, connVars, rdVars, envVars
    <2>7. CASE ImportTimeout(i)
        BY <2>7 DEF ImportTimeout, Return, Outcomes, connVars, rdVars, envVars
    <2>8. CASE StreamRecv(i)
        <3>1. Tail(chan[i]) \in Seq(Frames)
            BY <2>8, HeadTailProperties DEF StreamRecv
        <3>2. \/ pc' = [pc EXCEPT ![i] = "forward"] /\ UNCHANGED outcome
              \/ \E o \in Outcomes : Leave(i, o)
              \/ UNCHANGED <<pc, outcome>>
            BY <2>8 DEF StreamRecv, Outcomes
        <3>7. item' \in [Calls -> Nat]
            <4>1. Head(chan[i]).seq \in Nat
                <5>1. Head(chan[i]) \in Frames
                    BY <2>8, HeadTailProperties DEF StreamRecv
                <5> QED BY <5>1, GoClientAssumption DEF Frames
            <4>2. item' = item \/ item' = [item EXCEPT ![i] = Head(chan[i]).seq]
                BY Zenon, <2>8 DEF StreamRecv
            <4> QED BY Zenon, <4>1, <4>2
        <3>3. /\ pc' \in [Calls -> {"idle", "lock", "snap", "write", "writing", "wait", "forward", "exit", "done"}]
              /\ outcome' \in [Calls -> Outcomes]
            BY ZenonT(60), <3>2 DEF Leave
        <3>4. chan' = [chan EXCEPT ![i] = Tail(@)]
            BY <2>8 DEF StreamRecv
        <3>5. chan' \in [Calls -> Seq(Frames)]
            BY <3>1, <3>4
        <3>6. UNCHANGED <<nextID, kind, snap, recv, pending, connVars, rdVars, envVars>>
            BY <2>8 DEF StreamRecv
        <3> QED BY <3>3, <3>5, <3>6, <3>7 DEF connVars, rdVars, envVars
    <2>9. CASE StreamForward(i)
        BY <2>9 DEF StreamForward, connVars, rdVars, envVars
    <2>10. CASE StreamTimeout(i)
        BY <2>10 DEF StreamTimeout, Leave, Outcomes, connVars, rdVars, envVars
    <2>11. CASE StreamExit(i)
        BY <2>11 DEF StreamExit, connVars, rdVars, envVars
    <2> HIDE DEF Typed
    <2> QED BY <1>2, <2>1, <2>2, <2>3, <2>4, <2>5, <2>6, <2>7, <2>8, <2>9, <2>10, <2>11, <2>12
            DEF CallerStep
<1>3. CASE ReaderStep
    <2>1. CASE ReaderTop
        BY Zenon, <2>1 DEF ReaderTop, ReaderAt, callVars, connVars, envVars
    <2>2. CASE ReadFrame
        <3>1. /\ Tail(wire[rdConn]) \in Seq(Frames)
              /\ Head(wire[rdConn]) \in Frames
            BY <2>2, HeadTailProperties DEF ReadFrame, FrameRead
        <3> QED BY Zenon, <2>2, <3>1 DEF ReadFrame, FrameRead, ReaderAt, callVars, connVars, rdVars
    <2>11. CASE SkipFrame
        <3>1. Tail(wire[rdConn]) \in Seq(Frames)
            BY <2>11, HeadTailProperties DEF SkipFrame, FrameRead
        <3> QED BY Zenon, <2>11, <3>1 DEF SkipFrame, FrameRead, ReaderAt, callVars, connVars, rdVars
    <2>3. CASE Deliver
        <3>1. Append(chan[rdMsg.id], rdMsg) \in Seq(Frames)
            <4>1. rdMsg \in Frames /\ rdMsg.id \in Calls
                BY <2>3 DEF Deliver, Frames
            <4> QED BY <4>1
        <3> QED BY Zenon, <2>3, <3>1 DEF Deliver, callVars, connVars, rdVars, envVars
    <2>4. CASE ReadError
        BY <2>4 DEF ReadError, ReaderAt, callVars, connVars, rdVars, envVars
    <2>5. ASSUME NEW i \in Calls, DrainOne(i) PROVE Typed'
        <3>1. Frame(i, "lost", 0) \in Frames
            BY GoClientAssumption DEF Frame, Frames
        <3>2. Append(chan[i], Frame(i, "lost", 0)) \in Seq(Frames)
            BY <3>1
        <3> QED BY Zenon, <2>5, <3>2 DEF DrainOne, callVars, connVars, rdVars, envVars
    <2>6. CASE DrainDone
        BY <2>6 DEF DrainDone, ReaderAt, callVars, connVars, rdVars, envVars
    <2>7. CASE ReconnectCheck
        BY Zenon, <2>7 DEF ReconnectCheck, ReaderAt, callVars, connVars, rdVars, envVars
    <2>8. CASE DialOk
        BY <2>8, GoClientAssumption DEF DialOk, Conns, callVars
    <2>9. CASE DialError
        BY <2>9 DEF DialError, ReaderAt, callVars, connVars, rdVars, envVars
    <2>10. CASE Install
        BY Zenon, <2>10 DEF Install, ReaderAt, callVars
    <2> HIDE DEF Typed
    <2> QED BY <1>3, <2>1, <2>2, <2>3, <2>4, <2>5, <2>6, <2>7, <2>8, <2>9, <2>10, <2>11
            DEF ReaderStep
<1>4. CASE CloseStep
    <2>1. CASE CloseMark
        BY <2>1 DEF CloseMark, callVars, rdVars, envVars
    <2>2. CASE CloseConn
        BY ZenonT(60), <2>2 DEF CloseConn, callVars, rdVars
    <2> HIDE DEF Typed
    <2> QED BY <1>4, <2>1, <2>2 DEF CloseStep
<1>5. CASE EnvStep
    <2>1. ASSUME NEW i \in Calls, ServerChunk(i) PROVE Typed'
        <3>1. Frame(i, "stream_chunk", sent[i] + 1) \in Frames
            BY <2>1, GoClientAssumption DEF ServerChunk, Frame, Frames
        <3>2. wire' \in [Conns -> Seq(Frames)]
            BY Zenon, <2>1, <3>1, AppendToWire DEF ServerChunk, ServerSend
        <3>3. sent' \in [Calls -> 0..MaxChunks]
            BY <2>1, GoClientAssumption DEF ServerChunk
        <3>4. opaque' \in [Calls -> SUBSET (1..(MaxChunks + 1))]
            BY Zenon, <2>1, SendTypes DEF ServerChunk
        <3> QED BY <2>1, <3>2, <3>3, <3>4 DEF ServerChunk, callVars, connVars, rdVars
    <2>2. ASSUME NEW i \in Calls, NEW t \in {"response", "error", "stream_end"},
                 ServerEnd(i, t)
          PROVE  Typed'
        <3>1. Frame(i, t, sent[i] + 1) \in Frames
            BY SMTT(40), GoClientAssumption DEF Frame, Frames
        <3>2. wire' \in [Conns -> Seq(Frames)]
            BY Zenon, <2>2, <3>1, AppendToWire DEF ServerEnd, ServerSend
        <3>4. opaque' \in [Calls -> SUBSET (1..(MaxChunks + 1))]
            BY Zenon, <2>2, SendTypes DEF ServerEnd
        <3> QED BY <2>2, <3>2, <3>4 DEF ServerEnd, callVars, connVars, rdVars
    <2>3. ASSUME NEW c \in Conns, ConnDrop(c) PROVE Typed'
        <3>1. ASSUME NEW n \in 0..Len(wire[c])
              PROVE  SubSeq(wire[c], 1, n) \in Seq(Frames)
            BY SubSeqProperties, ElementOfSeq
        <3> QED BY SMTT(40), <2>3, <3>1 DEF ConnDrop, callVars, connVars, rdVars
    <2> HIDE DEF Typed
    <2> QED BY <1>5, <2>1, <2>2, <2>3 DEF EnvStep
<1>6. CASE UNCHANGED vars
    BY <1>6 DEF vars, callVars, connVars, rdVars, envVars
<1> HIDE DEF Typed
<1> QED BY <1>1, <1>2, <1>3, <1>4, <1>5, <1>6 DEF Next

\* The variables of the client keep their types in every behaviour, whatever
\* the number of calls, connections and chunks.
THEOREM TypeCorrect == Spec => []TypeOK
<1>1. Spec => []Typed
    BY InitTyped, StepTyped, PTL DEF Spec
<1> QED BY <1>1, PTL DEF Typed

-----------------------------------------------------------------------------
\* The inductive invariant behind Remembered and UnarySendNeverBlocks.

\* The server knows of no call that has not written its request, and a call
\* leaves nothing in the client before it registers.
CallOrder ==
    \A i \in Calls :
        /\ i > nextID => pc[i] = "idle"
        /\ pc[i] \in {"idle", "lock"} => i \notin pending /\ chan[i] = <<>>
        /\ pc[i] \in {"idle", "lock", "snap", "write", "writing"} => srv[i] = "none"

\* A server's frame answers a request it received, in that request's kind.
Fits(f) ==
    /\ srv[f.id] # "none"
    /\ kind[f.id] = "unary" => f.type \in {"response", "error"}
    /\ kind[f.id] = "stream" => f.type \in {"error", "stream_chunk", "stream_end"}

FramesFit ==
    /\ \A c \in Conns : \A k \in 1..Len(wire[c]) : Fits(wire[c][k])
    /\ rd = "deliver" => Fits(rdMsg)

\* ImportStream ignores a "response", so none may reach its channel.
StreamChannels ==
    \A i \in Calls : kind[i] = "stream" =>
        \A k \in 1..Len(chan[i]) : chan[i][k].type # "response"

\* The answer of a unary call in the reader's hand has left c.pending.
UnaryAnsweredOnce == \A i \in Calls : kind[i] = "unary" /\ InHand(i) => i \notin pending

\* A live call is in c.pending, or its terminal frame is in its channel or in the reader's hand.
Remembered ==
    \A i \in Calls :
        InCall(i) => \/ i \in pending
                     \/ HasTerminal(i)
                     \/ InHand(i) /\ IsTerminal(rdMsg.type)

ReaderInv ==
    /\ Typed /\ CallOrder /\ FramesFit /\ StreamChannels /\ UnaryAnsweredOnce
    /\ UnarySendNeverBlocks /\ Remembered

\* Fresh from Connect the client has no calls, entries or frames.
LEMMA InitReaderInv == Init => ReaderInv
<1> SUFFICES ASSUME Init PROVE ReaderInv
    OBVIOUS
<1>1. Typed
    BY InitTyped
<1>2. CallOrder
    BY DEF Init, CallOrder
<1>3. FramesFit
    BY DEF Init, FramesFit
<1> QED BY <1>1, <1>2, <1>3 DEF ReaderInv, Init, StreamChannels, UnaryAnsweredOnce,
        UnarySendNeverBlocks, Remembered, InHand, InCall

\* What the caller's own steps do to the invariant.
LEMMA CallerReaderInv ==
    ASSUME ReaderInv, Typed', NEW i \in Calls, CallerStep(i), ~Mismatch
    PROVE  ReaderInv'
<1> USE DEF ReaderInv
<1>0. /\ pc \in [Calls -> {"idle", "lock", "snap", "write", "writing", "wait", "forward", "exit", "done"}]
      /\ pending \subseteq Calls
      /\ chan \in [Calls -> Seq(Frames)]
      /\ kind \in [Calls -> {"unary", "stream"}]
      /\ srv \in [Calls -> {"none", "run", "done"}]
    BY Zenon DEF Typed, TypeOK
<1>1. CASE Register(i)
    <2>1. CallOrder'
        BY <1>0, <1>1 DEF Register, CallOrder, envVars
    <2>2. FramesFit' /\ StreamChannels'
        BY <1>0, <1>1 DEF Register, FramesFit, Fits, StreamChannels, rdVars, envVars
    <2>3. ~InHand(i)
        BY <1>0, <1>1 DEF Register, InHand, FramesFit, Fits, CallOrder
    <2>4. UnaryAnsweredOnce' /\ UnarySendNeverBlocks'
        BY Zenon, <1>0, <1>1, <2>3 DEF Register, UnaryAnsweredOnce, UnarySendNeverBlocks, InHand,
           CallOrder, rdVars
    <2>5. Remembered'
        BY <1>0, <1>1 DEF Register, Remembered, InCall, HasTerminal, InHand, rdVars
    <2> QED BY <1>0, <2>1, <2>2, <2>4, <2>5
<1>2. CASE EncodeError(i) \/ Snapshot(i) \/ LockWrite(i) \/ WriteError(i) \/ ImportTimeout(i)
          \/ StreamForward(i) \/ StreamTimeout(i)
    <2>1. /\ UNCHANGED <<nextID, kind, pending, chan, rdVars, envVars>>
          /\ pc[i] \notin {"idle", "lock"}
          /\ \E p \in {"write", "writing", "wait", "exit", "done"} :
                /\ pc' = [pc EXCEPT ![i] = p]
                /\ p = "write" => pc[i] = "snap"
                /\ p = "writing" => pc[i] = "write"
                /\ p = "wait" => pc[i] = "forward"
        BY <1>0, <1>2 DEF EncodeError, Snapshot, LockWrite, WriteError, ImportTimeout, StreamForward,
           StreamTimeout, Return, Leave
    <2>2. CallOrder'
        BY Zenon, <1>0, <2>1 DEF CallOrder, envVars
    <2>3. FramesFit' /\ StreamChannels' /\ UnaryAnsweredOnce' /\ UnarySendNeverBlocks'
        BY <1>0, <2>1 DEF FramesFit, Fits, StreamChannels, UnaryAnsweredOnce,
           UnarySendNeverBlocks, InHand, rdVars, envVars
    <2>4. Remembered'
        BY Zenon, <1>0, <2>1 DEF Remembered, InCall, HasTerminal, InHand, rdVars
    <2> QED BY Zenon, <1>0, <2>2, <2>3, <2>4
<1>3. CASE WriteOk(i)
    <2>1. CallOrder'
        BY <1>0, <1>3 DEF WriteOk, CallOrder
    <2>2. FramesFit'
        <3>1. UNCHANGED <<kind, chan, wire, rdVars>>
            BY <1>3 DEF WriteOk
        <3>2. srv' = srv \/ srv' = [srv EXCEPT ![i] = "run"]
            BY <1>3 DEF WriteOk
        <3>3. \A f \in Frames : f.id \in Calls
            BY DEF Frames
        <3>4. \A f \in Frames : Fits(f) => Fits(f)'
            BY Zenon, <1>0, <3>1, <3>2, <3>3 DEF Fits
        <3>5. /\ FramesFit /\ wire \in [Conns -> Seq(Frames)]
              /\ rd = "deliver" => rdMsg \in Frames
            BY DEF Typed, TypeOK, ReaderHolds
        <3>6. \A c \in Conns : \A k \in 1..Len(wire[c]) : wire[c][k] \in Frames
            BY SMTT(40), <3>5
        <3> HIDE DEF ReaderInv
        <3> QED BY Zenon, <3>1, <3>4, <3>5, <3>6 DEF FramesFit, rdVars
    <2>3. StreamChannels' /\ UnaryAnsweredOnce' /\ UnarySendNeverBlocks'
        BY <1>0, <1>3 DEF WriteOk, StreamChannels, UnaryAnsweredOnce, UnarySendNeverBlocks,
           InHand, rdVars
    <2>4. Remembered'
        <3>1. /\ UNCHANGED <<pending, chan, rdVars>>
              /\ \A j \in Calls : InCall(j)' = InCall(j)
            BY <1>0, <1>3 DEF WriteOk, InCall
        <3> QED BY Zenon, <1>0, <3>1 DEF Remembered, HasTerminal, InHand, rdVars
    <2> QED BY Zenon, <1>0, <2>1, <2>2, <2>3, <2>4
<1>4. CASE ImportRecv(i)
    <2>1. /\ chan[i] # <<>> /\ kind[i] = "unary" /\ pc[i] = "wait"
          /\ chan' = [chan EXCEPT ![i] = Tail(@)]
          /\ pc' = [pc EXCEPT ![i] = "done"]
          /\ UNCHANGED <<nextID, kind, pending, rdVars, envVars>>
        BY <1>0, <1>4 DEF ImportRecv, Return
    <2>2. CallOrder'
        BY <1>0, <2>1 DEF CallOrder, envVars
    <2>3. FramesFit' /\ StreamChannels' /\ UnaryAnsweredOnce'
        <3>1. FramesFit'
            BY SMTT(30), <1>0, <2>1 DEF FramesFit, Fits, rdVars, envVars
        <3>2. \A j \in Calls : j # i => chan'[j] = chan[j]
            BY Zenon, <1>0, <2>1
        <3>3. StreamChannels'
            BY <1>0, <2>1, <3>2 DEF StreamChannels
        <3>4. UnaryAnsweredOnce'
            BY <1>0, <2>1 DEF UnaryAnsweredOnce, InHand, rdVars, envVars
        <3> QED BY Zenon, <3>1, <3>3, <3>4
    <2>4. UnarySendNeverBlocks'
        <3>1. ~(i \in pending \/ InHand(i))
            BY Zenon, <1>0, <2>1 DEF UnarySendNeverBlocks
        <3>2. \A j \in Calls : j # i => chan'[j] = chan[j]
            BY <1>0, <2>1
        <3> QED BY <1>0, <2>1, <3>1, <3>2 DEF UnarySendNeverBlocks, InHand, rdVars
    <2>5. Remembered'
        BY Zenon, <1>0, <2>1 DEF Remembered, InCall, HasTerminal, InHand, rdVars
    <2> QED BY <1>0, <2>2, <2>3, <2>4, <2>5
<1>5. CASE StreamRecv(i)
    <2>1. /\ chan[i] # <<>> /\ kind[i] = "stream" /\ pc[i] = "wait"
          /\ chan' = [chan EXCEPT ![i] = Tail(@)]
          /\ UNCHANGED <<nextID, kind, pending, rdVars, envVars>>
        BY Zenon, <1>0, <1>5 DEF StreamRecv
    <2>2. /\ Len(Tail(chan[i])) = Len(chan[i]) - 1
          /\ \A k \in 1..Len(Tail(chan[i])) : Tail(chan[i])[k] = chan[i][k + 1]
          /\ Len(chan[i]) \in Nat \ {0}
          /\ Head(chan[i]) = chan[i][1] /\ Head(chan[i]) \in Frames
        BY <1>0, <2>1, HeadTailProperties, EmptySeq
    <2>3. Head(chan[i]).type # "response"
        BY <1>0, <2>1, <2>2 DEF StreamChannels
    <2>4. \/ /\ Head(chan[i]).type = "stream_chunk"
             /\ pc' = [pc EXCEPT ![i] = "forward"]
          \/ pc' = [pc EXCEPT ![i] = "exit"]
        BY Zenon, <1>0, <1>5, <2>2, <2>3 DEF StreamRecv, Leave, Frames
    <2>5. CallOrder'
        BY Zenon, <1>0, <2>1, <2>4 DEF CallOrder, envVars
    <2>6. FramesFit' /\ UnaryAnsweredOnce' /\ UnarySendNeverBlocks'
        BY Zenon, <1>0, <2>1 DEF FramesFit, Fits, UnaryAnsweredOnce, UnarySendNeverBlocks, InHand,
           rdVars, envVars
    <2>7. StreamChannels'
        <3>1. chan'[i] = Tail(chan[i]) /\ \A j \in Calls : j # i => chan'[j] = chan[j]
            BY Zenon, <1>0, <2>1
        <3>2. \A k \in 1..Len(Tail(chan[i])) : Tail(chan[i])[k].type # "response"
            BY <1>0, <2>1, <2>2 DEF StreamChannels
        <3> QED BY <1>0, <2>1, <3>1, <3>2 DEF StreamChannels
    <2>8. pc'[i] = "forward" /\ HasTerminal(i) => HasTerminal(i)'
        <3> SUFFICES ASSUME pc'[i] = "forward", HasTerminal(i) PROVE HasTerminal(i)'
            OBVIOUS
        <3>1. PICK k \in 1..Len(chan[i]) : IsTerminal(chan[i][k].type)
            BY DEF HasTerminal
        <3>2. k # 1
            BY <1>0, <3>1, <2>2, <2>4 DEF IsTerminal
        <3>3. k - 1 \in 1..Len(Tail(chan[i])) /\ Tail(chan[i])[k - 1] = chan[i][k]
            BY SMTT(40), <1>0, <2>2, <3>2
        <3> QED BY Zenon, <1>0, <2>1, <3>1, <3>3 DEF HasTerminal
    <2>9. Remembered'
        <3>1. \A j \in Calls : j # i => HasTerminal(j)' = HasTerminal(j)
            BY <1>0, <2>1 DEF HasTerminal
        <3>2. \A j \in Calls : InCall(j)' => InCall(j) /\ (j = i => pc'[i] = "forward")
            BY Zenon, <1>0, <2>1, <2>4 DEF InCall
        <3> QED BY <1>0, <2>1, <2>8, <3>1, <3>2 DEF Remembered, InHand, rdVars
    <2> QED BY <1>0, <2>5, <2>6, <2>7, <2>9
<1>6. CASE StreamExit(i)
    <2>1. CallOrder'
        BY Zenon, <1>0, <1>6 DEF StreamExit, CallOrder, envVars
    <2>2. FramesFit' /\ StreamChannels' /\ UnaryAnsweredOnce' /\ UnarySendNeverBlocks'
        BY <1>0, <1>6 DEF StreamExit, FramesFit, Fits, StreamChannels, UnaryAnsweredOnce,
           UnarySendNeverBlocks, InHand, rdVars, envVars
    <2>3. Remembered'
        BY Zenon, <1>0, <1>6 DEF StreamExit, Remembered, InCall, HasTerminal, InHand, rdVars
    <2> QED BY <1>0, <2>1, <2>2, <2>3
<1> QED BY Zenon, <1>1, <1>2, <1>3, <1>4, <1>5, <1>6 DEF CallerStep

\* A frame built by drainPending or a server is a frame of its call and type.
LEMMA FrameFacts ==
    ASSUME NEW i \in Calls, NEW n \in 0..(MaxChunks + 1),
           NEW t \in {"response", "error", "stream_chunk", "stream_end", "lost"}
    PROVE  \E f \in Frames : f = Frame(i, t, n) /\ f.id = i /\ f.type = t
<1>1. Frame(i, t, n) \in Frames
    BY DEF Frame, Frames
<1>2. Frame(i, t, n).id = i /\ Frame(i, t, n).type = t
    BY Zenon DEF Frame
<1> QED BY <1>1, <1>2

\* Appending to a sequence keeps its elements and adds one at the end.
LEMMA AppendFacts ==
    ASSUME NEW S, NEW q \in Seq(S), NEW e \in S
    PROVE  /\ Len(q) \in Nat
           /\ Len(Append(q, e)) = Len(q) + 1
           /\ Append(q, e)[Len(q) + 1] = e
           /\ \A k \in 1..Len(q) : Append(q, e)[k] = q[k]
           /\ \A k \in 1..Len(Append(q, e)) : k \in 1..Len(q) \/ Append(q, e)[k] = e
OBVIOUS

\* A prefix of a sequence keeps its elements.
LEMMA PrefixFacts ==
    ASSUME NEW S, NEW q \in Seq(S), NEW n \in 0..Len(q)
    PROVE  /\ SubSeq(q, 1, n) \in Seq(S)
           /\ Len(SubSeq(q, 1, n)) = n
           /\ \A k \in 1..n : k \in 1..Len(q) /\ SubSeq(q, 1, n)[k] = q[k]
<1>1. Len(q) \in Nat /\ \A k \in 1..n : k \in 1..Len(q)
    OBVIOUS
<1>2. \A k \in 1..n : q[k] \in S
    BY <1>1, ElementOfSeq
<1> QED BY <1>1, <1>2, SubSeqProperties

\* What the reader's steps do to the invariant.
LEMMA ReaderReaderInv ==
    ASSUME ReaderInv, Typed', ReaderStep
    PROVE  ReaderInv'
<1> USE DEF ReaderInv
<1>0. /\ pending \subseteq Calls
      /\ chan \in [Calls -> Seq(Frames)] /\ wire \in [Conns -> Seq(Frames)]
      /\ kind \in [Calls -> {"unary", "stream"}]
    BY DEF Typed, TypeOK
<1>1. CASE \/ ReaderTop \/ ReadError \/ DrainDone \/ ReconnectCheck
           \/ DialOk \/ DialError \/ Install
    <2>1. /\ UNCHANGED <<nextID, pc, kind, pending, chan, wire, srv>>
          /\ rd # "deliver" /\ rd' # "deliver"
        BY <1>1 DEF ReaderTop, ReadError, DrainDone, ReconnectCheck, DialOk, DialError,
           Install, ReaderAt, callVars, envVars
    <2>2. CallOrder' /\ FramesFit' /\ StreamChannels'
        BY Zenon, <2>1 DEF CallOrder, FramesFit, Fits, StreamChannels
    <2>3. UnaryAnsweredOnce' /\ UnarySendNeverBlocks'
        BY <2>1 DEF UnaryAnsweredOnce, UnarySendNeverBlocks, InHand
    <2>4. Remembered'
        BY <2>1 DEF Remembered, InCall, HasTerminal, InHand
    <2> QED BY Zenon, <2>2, <2>3, <2>4
<1>2. CASE ReadFrame \/ SkipFrame
    <2> DEFINE m == Head(wire[rdConn])
    <2>1. /\ rd = "read" /\ rdConn \in Conns /\ wire[rdConn] # <<>>
          /\ wire' = [wire EXCEPT ![rdConn] = Tail(@)]
          /\ UNCHANGED <<nextID, pc, kind, chan, srv>>
        BY <1>2 DEF ReadFrame, SkipFrame, FrameRead, Typed, ReaderHolds, callVars
    <2>2. /\ Len(Tail(wire[rdConn])) = Len(wire[rdConn]) - 1
          /\ \A k \in 1..Len(Tail(wire[rdConn])) : Tail(wire[rdConn])[k] = wire[rdConn][k + 1]
          /\ Len(wire[rdConn]) \in Nat \ {0}
          /\ m = wire[rdConn][1] /\ m \in Frames
        BY <1>0, <2>1, HeadTailProperties, EmptySeq
    <2>3. Fits(m)
        <3>1. 1 \in 1..Len(wire[rdConn])
            BY <2>2
        <3> QED BY <2>1, <2>2, <3>1 DEF FramesFit
    <2>4. \/ /\ m.id \in pending
             /\ rd' = "deliver" /\ rdMsg' = m
             /\ pending' = IF IsTerminal(m.type) THEN pending \ {m.id} ELSE pending
          \/ rd' = "top" /\ pending' = pending
        BY Zenon, <1>2 DEF ReadFrame, SkipFrame, ReaderAt
    <2> HIDE DEF m
    <2>5. CallOrder'
        BY Zenon, <2>1, <2>4 DEF CallOrder
    <2>6. FramesFit'
        <3>1. \A c \in Conns : \A k \in 1..Len(wire'[c]) : Fits(wire'[c][k])
            <4>1. \A k \in 1..Len(Tail(wire[rdConn])) : Fits(Tail(wire[rdConn])[k])
                <5>1. \A k \in 1..Len(Tail(wire[rdConn])) : k + 1 \in 1..Len(wire[rdConn])
                    BY <2>2
                <5> QED BY <2>1, <2>2, <5>1 DEF FramesFit
            <4>2. /\ wire'[rdConn] = Tail(wire[rdConn])
                  /\ \A c \in Conns : c # rdConn => wire'[c] = wire[c]
                BY <1>0, <2>1
            <4> QED BY Zenon, <4>1, <4>2 DEF FramesFit
        <3> QED BY Zenon, <2>1, <2>3, <2>4, <3>1 DEF FramesFit, Fits
    <2>7. StreamChannels'
        BY Zenon, <2>1 DEF StreamChannels
    <2>8. UnaryAnsweredOnce'
        BY Zenon, <1>0, <2>1, <2>3, <2>4 DEF UnaryAnsweredOnce, InHand, Fits, IsTerminal
    <2>9. UnarySendNeverBlocks'
        BY Zenon, <2>1, <2>4 DEF UnarySendNeverBlocks, InHand
    <2>10. Remembered'
        BY <2>1, <2>4 DEF Remembered, InCall, HasTerminal, InHand
    <2> QED BY SMTT(40), <2>5, <2>6, <2>7, <2>8, <2>9, <2>10
<1>3. CASE Deliver
    <2>0. PICK m \in Frames : m = rdMsg
        BY <1>3 DEF Deliver, Typed, ReaderHolds
    <2>j. PICK j \in Calls : j = m.id
        BY Zenon DEF Frames
    <2>1. /\ rd = "deliver" /\ rd' = "top"
          /\ chan' = [chan EXCEPT ![j] = Append(@, m)]
          /\ UNCHANGED <<nextID, pc, kind, pending, wire, srv>>
        BY <1>3, <2>0, <2>j DEF Deliver, callVars, envVars
    <2>2. /\ chan'[j] = Append(chan[j], m)
          /\ \A i \in Calls : i # j => chan'[i] = chan[i]
        BY Zenon, <1>0, <2>1
    <2>3. /\ Len(chan[j]) \in Nat
          /\ Len(chan'[j]) = Len(chan[j]) + 1
          /\ chan'[j][Len(chan[j]) + 1] = m
          /\ \A k \in 1..Len(chan[j]) : chan'[j][k] = chan[j][k]
          /\ \A k \in 1..Len(chan'[j]) : k \in 1..Len(chan[j]) \/ chan'[j][k] = m
        BY <1>0, <2>2, AppendFacts
    <2>4. Fits(m)
        BY Zenon, <2>0, <2>1 DEF FramesFit
    <2>5. CallOrder'
        BY Zenon, <2>j, <2>1, <2>2, <2>4 DEF CallOrder, Fits
    <2>6. FramesFit'
        BY Zenon, <2>1 DEF FramesFit, Fits
    <2>7. StreamChannels'
        <3>1. kind[j] = "stream" => m.type # "response"
            BY Zenon, <2>j, <2>4 DEF Fits
        <3>2. kind[j] = "stream" => \A k \in 1..Len(chan'[j]) : chan'[j][k].type # "response"
            BY Zenon, <2>1, <2>3, <3>1 DEF StreamChannels
        <3> QED BY <2>1, <2>2, <3>2 DEF StreamChannels
    <2>8. UnaryAnsweredOnce' /\ UnarySendNeverBlocks'
        BY Zenon, <2>0, <2>j, <2>1, <2>2 DEF UnaryAnsweredOnce, UnarySendNeverBlocks, InHand
    <2>9. Remembered'
        <3>1. \A i \in Calls : HasTerminal(i) => HasTerminal(i)'
            <4>1. \A i \in Calls : i # j => HasTerminal(i)' = HasTerminal(i)
                BY Zenon, <2>2 DEF HasTerminal
            <4>2. HasTerminal(j) => HasTerminal(j)'
                BY SMTT(40), <2>3 DEF HasTerminal
            <4> QED BY Zenon, <4>1, <4>2
        <3>2. IsTerminal(m.type) => HasTerminal(j)'
            BY <2>3 DEF HasTerminal
        <3> QED BY Zenon, <2>0, <2>j, <2>1, <3>1, <3>2 DEF Remembered, InCall, InHand
    <2> QED BY Zenon, <2>5, <2>6, <2>7, <2>8, <2>9
<1>4. ASSUME NEW j \in Calls, DrainOne(j) PROVE ReaderInv'
    <2>0. PICK m \in Frames : m = Frame(j, "lost", 0) /\ m.type = "lost"
        <3>1. 0 \in 0..(MaxChunks + 1)
            BY GoClientAssumption
        <3> QED BY <3>1, FrameFacts
    <2>1. /\ rd = "drain" /\ rd' = "drain" /\ j \in pending /\ pending' = pending \ {j}
          /\ chan' = [chan EXCEPT ![j] = Append(@, m)]
          /\ UNCHANGED <<nextID, pc, kind, wire, srv>>
        BY <1>4, <2>0 DEF DrainOne, callVars, rdVars, envVars
    <2>2. /\ chan'[j] = Append(chan[j], m)
          /\ \A i \in Calls : i # j => chan'[i] = chan[i]
        BY Zenon, <1>0, <2>1
    <2>3. /\ Len(chan[j]) \in Nat
          /\ Len(chan'[j]) = Len(chan[j]) + 1
          /\ chan'[j][Len(chan[j]) + 1] = m
          /\ \A k \in 1..Len(chan[j]) : chan'[j][k] = chan[j][k]
          /\ \A k \in 1..Len(chan'[j]) : k \in 1..Len(chan[j]) \/ chan'[j][k] = m
        BY <1>0, <2>2, AppendFacts
    <2>4. CallOrder'
        BY Zenon, <2>1, <2>2 DEF CallOrder
    <2>5. FramesFit'
        BY Zenon, <2>1 DEF FramesFit, Fits
    <2>6. StreamChannels'
        <3>1. kind[j] = "stream" => \A k \in 1..Len(chan'[j]) : chan'[j][k].type # "response"
            BY Zenon, <2>0, <2>1, <2>3 DEF StreamChannels
        <3> QED BY <2>1, <2>2, <3>1 DEF StreamChannels
    <2>7. UnaryAnsweredOnce' /\ UnarySendNeverBlocks'
        BY ZenonT(60), <2>1, <2>2 DEF UnaryAnsweredOnce, UnarySendNeverBlocks, InHand
    <2>8. Remembered'
        <3>1. \A i \in Calls : HasTerminal(i) => HasTerminal(i)'
            <4>1. \A i \in Calls : i # j => HasTerminal(i)' = HasTerminal(i)
                BY Zenon, <2>2 DEF HasTerminal
            <4>2. HasTerminal(j) => HasTerminal(j)'
                BY SMTT(40), <2>3 DEF HasTerminal
            <4> QED BY Zenon, <4>1, <4>2
        <3>2. HasTerminal(j)'
            BY <2>0, <2>3 DEF HasTerminal, IsTerminal
        <3> QED BY <2>1, <3>1, <3>2 DEF Remembered, InCall, InHand
    <2> QED BY <2>4, <2>5, <2>6, <2>7, <2>8
<1> QED BY Zenon, <1>1, <1>2, <1>3, <1>4 DEF ReaderStep

\* What the server and the network do to the invariant: the server answers a
\* request in its own kind.
LEMMA EnvReaderInv ==
    ASSUME ReaderInv, Typed', EnvStep, ~Mismatch
    PROVE  ReaderInv'
<1> USE DEF ReaderInv
<1>0. /\ chan \in [Calls -> Seq(Frames)] /\ wire \in [Conns -> Seq(Frames)]
      /\ kind \in [Calls -> {"unary", "stream"}]
      /\ sent \in [Calls -> 0..MaxChunks]
      /\ srv \in [Calls -> {"none", "run", "done"}]
    BY DEF Typed, TypeOK
<1>1. ASSUME UNCHANGED <<nextID, pc, kind, pending, chan, rdVars>>,
             \A i \in Calls : srv'[i] # srv[i] => srv[i] = "run" /\ srv'[i] = "done",
             FramesFit'
      PROVE  ReaderInv'
    <2>1. CallOrder' /\ StreamChannels'
        BY ZenonT(60), <1>1 DEF CallOrder, StreamChannels
    <2>2. UnaryAnsweredOnce' /\ UnarySendNeverBlocks'
        BY Zenon, <1>1 DEF UnaryAnsweredOnce, UnarySendNeverBlocks, InHand, rdVars
    <2>3. Remembered'
        BY Zenon, <1>1 DEF Remembered, InCall, HasTerminal, InHand, rdVars
    <2> QED BY Zenon, <1>1, <2>1, <2>2, <2>3
<1>2. ASSUME NEW f \in Frames, NEW c, wire' = [wire EXCEPT ![c] = Append(@, f)],
             UNCHANGED <<kind, rdVars>>,
             \A j \in Calls : srv[j] # "none" => srv'[j] # "none",
             srv'[f.id] # "none",
             kind[f.id] = "unary" => f.type \in {"response", "error"},
             kind[f.id] = "stream" => f.type \in {"error", "stream_chunk", "stream_end"}
      PROVE  FramesFit'
    <2>1. Fits(f)'
        BY Zenon, <1>2 DEF Fits
    <2>2. \A g \in Frames : Fits(g) => Fits(g)'
        BY Zenon, <1>2 DEF Fits, Frames
    <2>3. ASSUME NEW d \in Conns, NEW k \in 1..Len(wire'[d]) PROVE Fits(wire[d][k])'
        <3>1. wire'[d] = wire[d] \/ wire'[d] = Append(wire[d], f)
            BY Zenon, <1>0, <1>2
        <3>2. PICK g \in Frames :
                /\ g = wire'[d][k]
                /\ g = f \/ Fits(g)
            <4>1. k \in 1..Len(wire[d]) => wire[d][k] \in Frames /\ Fits(wire[d][k])
                BY <1>0, ElementOfSeq DEF FramesFit
            <4>2. CASE wire'[d] = wire[d]
                BY <4>1, <4>2
            <4>3. CASE wire'[d] = Append(wire[d], f)
                <5>1. (k \in 1..Len(wire[d]) /\ wire'[d][k] = wire[d][k]) \/ wire'[d][k] = f
                    <6>1. wire[d] \in Seq(Frames)
                        BY <1>0
                    <6> QED BY <4>3, <6>1, AppendFacts
                <5> QED BY Zenon, <4>1, <5>1
            <4> QED BY <3>1, <4>2, <4>3
        <3>3. Fits(g)'
            BY <2>1, <2>2, <3>2
        <3> QED BY <3>2, <3>3 DEF Fits
    <2>4. rd = "deliver" => Fits(rdMsg)'
        <3>1. rd = "deliver" => rdMsg \in Frames /\ Fits(rdMsg)
            BY Zenon DEF FramesFit, Typed, ReaderHolds
        <3> QED BY Zenon, <1>2, <2>2, <3>1 DEF Fits, rdVars
    <2> QED BY Zenon, <1>2, <2>3, <2>4 DEF FramesFit, rdVars
<1>3. ASSUME NEW i \in Calls, ServerChunk(i) PROVE ReaderInv'
    <2>1. PICK f \in Frames : /\ f = Frame(i, "stream_chunk", sent[i] + 1)
                             /\ f.id = i /\ f.type = "stream_chunk"
        <3>1. sent[i] + 1 \in 0..(MaxChunks + 1)
            BY <1>0, GoClientAssumption
        <3> QED BY <3>1, FrameFacts
    <2>2. kind[i] = "stream" /\ srv[i] = "run" /\ UNCHANGED <<kind, rdVars, srv>>
        BY Zenon, <1>0, <1>3 DEF ServerChunk, CanSend, callVars
    <2>3. FramesFit'
        BY ZenonT(60), <1>2, <1>3, <2>1, <2>2 DEF ServerChunk, ServerSend
    <2> QED BY Zenon, <1>1, <1>3, <2>3 DEF ServerChunk, callVars
<1>4. ASSUME NEW i \in Calls, NEW t \in {"response", "error", "stream_end"}, ServerEnd(i, t)
      PROVE  ReaderInv'
    <2>1. PICK f \in Frames : f = Frame(i, t, sent[i] + 1) /\ f.id = i /\ f.type = t
        <3>1. sent[i] + 1 \in 0..(MaxChunks + 1)
            BY SMTT(40), <1>0, GoClientAssumption
        <3> QED BY <3>1, FrameFacts
    <2>2. /\ kind[i] = "unary" => t \in {"response", "error"}
          /\ kind[i] = "stream" => t \in {"error", "stream_end"}
        BY Zenon, <1>4 DEF ServerEnd, ServerTerminals
    <2>3. /\ UNCHANGED <<kind, rdVars>>
          /\ srv[i] = "run" /\ srv' = [srv EXCEPT ![i] = "done"]
        BY Zenon, <1>4 DEF ServerEnd, CanSend, callVars
    <2>4. /\ \A j \in Calls : srv'[j] # srv[j] => srv[j] = "run" /\ srv'[j] = "done"
          /\ \A j \in Calls : srv[j] # "none" => srv'[j] # "none"
          /\ srv'[i] # "none"
        BY <1>0, <2>3
    <2>5. FramesFit'
        BY ZenonT(60), <1>2, <1>4, <2>1, <2>2, <2>3, <2>4 DEF ServerEnd, ServerSend
    <2> QED BY Zenon, <1>1, <1>4, <2>4, <2>5 DEF ServerEnd, callVars
<1>5. ASSUME NEW c \in Conns, ConnDrop(c) PROVE ReaderInv'
    <2>1. PICK n \in 0..Len(wire[c]) : wire' = [wire EXCEPT ![c] = SubSeq(@, 1, n)]
        BY Zenon, <1>5 DEF ConnDrop
    <2>2. /\ Len(SubSeq(wire[c], 1, n)) = n
          /\ \A k \in 1..n : k \in 1..Len(wire[c]) /\ SubSeq(wire[c], 1, n)[k] = wire[c][k]
        <3>1. wire[c] \in Seq(Frames)
            BY <1>0
        <3> QED BY <3>1, PrefixFacts
    <2>3. /\ wire'[c] = SubSeq(wire[c], 1, n)
          /\ \A d \in Conns : d # c => wire'[d] = wire[d]
        BY <1>0, <2>1
    <2>4. UNCHANGED <<srv, kind, rd, rdMsg>>
        BY Zenon, <1>5 DEF ConnDrop, callVars, rdVars
    <2>5. FramesFit'
        <3>1. \A d \in Conns : \A k \in 1..Len(wire'[d]) : Fits(wire'[d][k])
            BY Zenon, <2>2, <2>3 DEF FramesFit
        <3> QED BY SMTT(40), <2>4, <3>1 DEF FramesFit, Fits
    <2> QED BY <1>1, <1>5, <2>5 DEF ConnDrop, callVars
<1> QED BY SMTT(40), <1>3, <1>4, <1>5 DEF EnvStep

\* No step of the system breaks the invariant.
LEMMA StepReaderInv ==
    ASSUME ~Mismatch
    PROVE  ReaderInv /\ [Next]_vars => ReaderInv'
<1> SUFFICES ASSUME ReaderInv, [Next]_vars PROVE ReaderInv'
    OBVIOUS
<1>0. Typed'
    BY StepTyped DEF ReaderInv
<1>1. ASSUME NEW k \in {"unary", "stream"}, Begin(k) PROVE ReaderInv'
    <2> USE DEF ReaderInv
    <2>0. /\ nextID \in 0..MaxCalls /\ nextID < MaxCalls
          /\ kind \in [Calls -> {"unary", "stream"}]
          /\ pc \in [Calls -> {"idle", "lock", "snap", "write", "writing", "wait", "forward", "exit", "done"}]
        BY Zenon, <1>1 DEF Begin, Typed, TypeOK
    <2>1. PICK n \in Calls : n = nextID + 1 /\ pc[n] = "idle"
        BY <2>0, GoClientAssumption DEF Calls, CallOrder
    <2>2. /\ nextID' = n
          /\ kind' = [kind EXCEPT ![n] = k]
          /\ pc' = [pc EXCEPT ![n] = "lock"]
          /\ UNCHANGED <<pending, chan, rdVars, envVars>>
        BY Zenon, <1>1, <2>1 DEF Begin
    <2>3. /\ n \notin pending /\ chan[n] = <<>> /\ srv[n] = "none"
          /\ \A j \in Calls : j # n => kind'[j] = kind[j] /\ pc'[j] = pc[j]
          /\ pc'[n] = "lock"
        BY Zenon, <2>0, <2>1, <2>2 DEF CallOrder
    <2>4. CallOrder'
        BY <2>0, <2>1, <2>2, <2>3 DEF CallOrder, Calls, envVars
    <2>5. \A f : f.id \in Calls /\ Fits(f) => f.id # n /\ Fits(f)'
        BY ZenonT(60), <2>2, <2>3 DEF Fits, envVars
    <2>6. FramesFit'
        <3>1. \A c \in Conns : \A j \in 1..Len(wire[c]) : wire[c][j].id \in Calls
            <4>1. wire \in [Conns -> Seq(Frames)]
                BY DEF Typed, TypeOK
            <4>2. \A c \in Conns : \A j \in 1..Len(wire[c]) : wire[c][j] \in Frames
                BY <4>1, ElementOfSeq
            <4> QED BY Zenon, <4>2 DEF Frames
        <3>2. rd = "deliver" => rdMsg.id \in Calls
            BY Zenon DEF Typed, ReaderHolds, Frames
        <3> QED BY Zenon, <2>2, <2>5, <3>1, <3>2 DEF FramesFit, Fits, rdVars, envVars
    <2>7. StreamChannels'
        BY SMTT(40), <2>2, <2>3 DEF StreamChannels
    <2>8. ~InHand(n)
        BY Zenon, <2>3 DEF InHand, FramesFit, Fits
    <2>9. UnaryAnsweredOnce' /\ UnarySendNeverBlocks'
        BY Zenon, <2>2, <2>3, <2>8 DEF UnaryAnsweredOnce, UnarySendNeverBlocks, InHand, rdVars
    <2>10. Remembered'
        <3>1. \A j \in Calls : InCall(j)' => InCall(j)
            BY <2>3 DEF InCall
        <3> QED BY <2>2, <3>1 DEF Remembered, HasTerminal, InHand, rdVars
    <2> QED BY Zenon, <1>0, <2>4, <2>6, <2>7, <2>9, <2>10
<1>2. ASSUME NEW i \in Calls, CallerStep(i) PROVE ReaderInv'
    BY <1>0, <1>2, CallerReaderInv
<1>3. CASE ReaderStep
    BY <1>0, <1>3, ReaderReaderInv
<1>4. CASE CloseStep \/ UNCHANGED vars
    <2>1. UNCHANGED <<nextID, pc, kind, pending, chan, rd, rdMsg, wire, srv>>
        BY <1>4 DEF CloseStep, CloseMark, CloseConn, vars, callVars, rdVars, envVars
    <2>2. CallOrder' /\ FramesFit' /\ StreamChannels'
        BY ZenonT(60), <2>1 DEF ReaderInv, CallOrder, FramesFit, Fits, StreamChannels
    <2>3. UnaryAnsweredOnce' /\ UnarySendNeverBlocks'
        BY <2>1 DEF ReaderInv, UnaryAnsweredOnce, UnarySendNeverBlocks, InHand
    <2>4. Remembered'
        BY <2>1 DEF ReaderInv, Remembered, InCall, HasTerminal, InHand
    <2> QED BY Zenon, <1>0, <2>2, <2>3, <2>4 DEF ReaderInv
<1>5. CASE EnvStep
    BY <1>0, <1>5, EnvReaderInv
<1> QED BY <1>1, <1>2, <1>3, <1>4, <1>5 DEF Next

\* When calls name functions of their own kind, the read loop and drainPending
\* always find room in a unary call's channel, even if the call has timed out.
THEOREM UnarySendsDoNotBlock ==
    ASSUME ~Mismatch
    PROVE  Spec => []UnarySendNeverBlocks
<1>1. Spec => []ReaderInv
    BY InitReaderInv, StepReaderInv, PTL DEF Spec
<1> QED BY <1>1, PTL DEF ReaderInv

-----------------------------------------------------------------------------
\* Close.  An open connection has one owner: c.conn, the goroutine in Close, or
\* the reconnect loop that has just dialled it; and the reconnect loop only
\* replaces a connection that is lost.

ConnOwner ==
    /\ closed <=> closer # "idle"
    /\ closed => conn = NoConn
    /\ ~closed => conn \in Conns /\ conn <= dialled
    /\ ~closed /\ rd \in {"read", "deliver"} => rdConn = conn
    /\ ~closed /\ rd \in {"drain", "check", "dial", "install", "exited"} => link[conn] # "up"
    /\ rd = "install" => rdConn \in Conns /\ rdConn <= dialled
    /\ ~closed /\ rd = "install" => rdConn # conn
    /\ closer = "closing" => closing \in Conns /\ closing <= dialled
    /\ \A c \in Conns : c > dialled => link[c] = "new"
    /\ \A c \in Conns : link[c] = "up" =>
          conn = c \/ (closer = "closing" /\ closing = c) \/ (rd = "install" /\ rdConn = c)

\* The first connection belongs to c.conn.
LEMMA InitConnOwner == Init => ConnOwner
BY GoClientAssumption DEF Init, ConnOwner, Conns, NoConn

\* Every step keeps the ownership of connections.
LEMMA StepConnOwner == Typed /\ ConnOwner /\ [Next]_vars => ConnOwner'
<1> SUFFICES ASSUME Typed, ConnOwner, [Next]_vars PROVE ConnOwner'
    OBVIOUS
<1>0. /\ conn \in {NoConn} \cup Conns /\ dialled \in Conns /\ rdConn \in {NoConn} \cup Conns
      /\ link \in [Conns -> {"new", "up", "down", "shut"}]
      /\ closed \in BOOLEAN
      /\ Conns \subseteq Nat \ {0}
    BY SMTT(40) DEF Typed, TypeOK, Conns
<1>1. ASSUME UNCHANGED <<connVars, rdVars, link>> PROVE ConnOwner'
    BY <1>1 DEF ConnOwner, connVars, rdVars
<1>2. ASSUME NEW k \in {"unary", "stream"}, Begin(k) PROVE ConnOwner'
    BY Zenon, <1>1, <1>2 DEF Begin, envVars
<1>3. ASSUME NEW i \in Calls, CallerStep(i) PROVE ConnOwner'
    BY <1>1, <1>3 DEF CallerStep, Register, EncodeError, Snapshot, LockWrite, WriteOk, WriteError,
       ImportRecv, ImportTimeout, StreamRecv, StreamForward, StreamTimeout, StreamExit, envVars
<1>4. CASE ReaderStep
    <2>1. CASE ReaderTop
        <3>1. ~closed => conn # NoConn
            BY DEF ConnOwner, NoConn, Conns
        <3> QED BY Zenon, <1>0, <2>1, <3>1 DEF ReaderTop, ReaderAt, ConnOwner, connVars, envVars
    <2>2. CASE ReadFrame
        BY Zenon, <1>0, <2>2 DEF ReadFrame, FrameRead, ReaderAt, ConnOwner, connVars
    <2>9. CASE SkipFrame
        BY Zenon, <1>0, <2>9 DEF SkipFrame, FrameRead, ReaderAt, ConnOwner, connVars
    <2>3. CASE Deliver
        BY <1>0, <2>3 DEF Deliver, ConnOwner, connVars, envVars
    <2>4. CASE ReadError
        BY Zenon, <1>0, <2>4 DEF ReadError, ReaderAt, ConnOwner, connVars, envVars
    <2>5. ASSUME NEW i \in Calls, DrainOne(i) PROVE ConnOwner'
        BY Zenon, <1>1, <2>5 DEF DrainOne, envVars
    <2>6. CASE DrainDone \/ ReconnectCheck \/ DialError
        <3>1. /\ rd \in {"drain", "check", "dial"} /\ rd' \in {"check", "dial", "exited"}
              /\ UNCHANGED <<conn, closed, closer, closing, dialled, rdConn, link>>
            BY Zenon, <2>6 DEF DrainDone, ReconnectCheck, DialError, ReaderAt, connVars, envVars
        <3> QED BY SMTT(40), <1>0, <3>1 DEF ConnOwner
    <2>7. CASE DialOk
        <3>1. PICK d \in Conns : d = dialled + 1
            BY SMTT(40), <2>7, <1>0, GoClientAssumption DEF DialOk, Conns
        <3>2. /\ rd = "dial" /\ rd' = "install" /\ rdConn' = d /\ dialled' = d
              /\ link' = [link EXCEPT ![d] = "up"]
              /\ UNCHANGED <<conn, closed, closer, closing>>
            BY <2>7, <3>1 DEF DialOk
        <3>3. link'[d] = "up" /\ \A c \in Conns : c # d => link'[c] = link[c]
            BY SMTT(40), <1>0, <3>2
        <3>4. \A c \in Conns : c > d => link'[c] = "new"
            BY <1>0, <3>1, <3>3 DEF ConnOwner
        <3>5. ~closed => conn \in Conns /\ conn <= d /\ conn # d /\ link'[conn] # "up"
            <4>1. ~closed => conn \in Conns /\ conn <= dialled /\ link[conn] # "up"
                BY <3>2 DEF ConnOwner
            <4>2. ~closed => conn \in Nat /\ dialled \in Nat /\ d \in Nat
                BY Zenon, <1>0, <4>1
            <4>3. ~closed => conn # d /\ conn <= d
                BY SMTT(40), <3>1, <4>1, <4>2
            <4> QED BY SMTT(40), <3>3, <4>1, <4>3
        <3>6. \A c \in Conns : link'[c] = "up" =>
                conn = c \/ (closer = "closing" /\ closing = c) \/ c = d
            BY <3>2, <3>3 DEF ConnOwner
        <3>7. closer = "closing" => closing \in Conns /\ closing <= d
            <4>1. closer = "closing" => closing \in Conns /\ closing <= dialled
                BY DEF ConnOwner
            <4>2. closer = "closing" => closing \in Nat /\ dialled \in Nat
                BY Zenon, <1>0, <4>1
            <4> QED BY SMTT(40), <3>1, <4>1, <4>2
        <3> QED BY SMTT(40), <1>0, <3>2, <3>4, <3>5, <3>6, <3>7 DEF ConnOwner
    <2>8. CASE Install
        <3>1. CASE closed
            <4>1. /\ rd = "install" /\ rd' = "exited"
                  /\ link' = [link EXCEPT ![rdConn] = "shut"]
                  /\ UNCHANGED <<conn, rdConn, closed, closer, closing, dialled>>
                BY SMTT(40), <2>8, <3>1 DEF Install, ReaderAt
            <4>2. /\ \A c \in Conns : c # rdConn => link'[c] = link[c]
                  /\ rdConn \in Conns => link'[rdConn] = "shut"
                BY Zenon, <1>0, <4>1
            <4>3. rdConn \in Conns => rdConn <= dialled
                BY Zenon, <2>8, <1>0 DEF Install, ConnOwner
            <4> QED BY SMTT(40), <1>0, <3>1, <4>1, <4>2, <4>3 DEF ConnOwner
        <3>2. CASE ~closed
            <4>1. /\ rd = "install" /\ rd' = "top" /\ conn' = rdConn
                  /\ UNCHANGED <<link, rdConn, closed, closer, closing, dialled>>
                BY <2>8, <3>2 DEF Install, ReaderAt
            <4> QED BY SMTT(40), <1>0, <3>2, <4>1 DEF ConnOwner
        <3> QED BY Zenon, <1>0, <3>1, <3>2
    <2> QED BY Zenon, <1>4, <2>1, <2>2, <2>3, <2>4, <2>5, <2>6, <2>7, <2>8, <2>9 DEF ReaderStep
<1>5. CASE CloseStep
    <2>1. CASE CloseMark
        BY Zenon, <1>0, <2>1 DEF CloseMark, ConnOwner, rdVars, envVars
    <2>2. CASE CloseConn
        <3>1. /\ closer = "closing" /\ closer' = "done"
              /\ link' = [link EXCEPT ![closing] = "shut"]
              /\ UNCHANGED <<conn, closed, closing, dialled, rd, rdConn>>
            BY <2>2 DEF CloseConn, rdVars
        <3>2. /\ \A c \in Conns : c # closing => link'[c] = link[c]
              /\ closing \in Conns => link'[closing] = "shut"
            BY Zenon, <1>0, <3>1
        <3> QED BY <1>0, <3>1, <3>2 DEF ConnOwner
    <2> QED BY Zenon, <1>5, <2>1, <2>2 DEF CloseStep
<1>6. CASE EnvStep
    <2>1. ASSUME NEW c \in Conns, ConnDrop(c) PROVE ConnOwner'
        BY Zenon, <1>0, <2>1 DEF ConnDrop, ConnOwner, connVars, rdVars
    <2> QED BY Zenon, <1>1, <1>6, <2>1 DEF EnvStep, ServerChunk, ServerEnd
<1>7. CASE UNCHANGED vars
    BY <1>1, <1>7 DEF vars, envVars
<1> QED BY <1>2, <1>3, <1>4, <1>5, <1>6, <1>7 DEF Next

\* After Close has returned the client keeps no connection open, with or
\* without the reconnect loop and at whatever point of it Close arrives.
THEOREM CloseLeavesNothingOpen == Spec => []CloseIsFinal
<1>1. Spec => [](Typed /\ ConnOwner)
    BY InitTyped, StepTyped, InitConnOwner, StepConnOwner, PTL DEF Spec
<1>2. ConnOwner => CloseIsFinal
    BY DEF ConnOwner, CloseIsFinal, Conns, NoConn
<1> QED BY <1>1, <1>2, PTL

-----------------------------------------------------------------------------
\* The reader stays on the connection of every pending call whose request has arrived.

\* What a call read from c.conn was dialled before the connection under way.
SnapOld ==
    \A i \in Calls :
        /\ snap[i] # NoConn => snap[i] \in Conns /\ snap[i] <= dialled
        /\ rd = "install" => snap[i] # rdConn
        /\ pc[i] \in {"write", "writing"} => snap[i] # NoConn

Watched ==
    \A i \in Calls : i \in pending /\ srv[i] # "none" /\ ~closed => ReaderOn(snap[i])

\* No call has a connection after Connect.
LEMMA InitWatch == Init => SnapOld /\ Watched
BY Zenon DEF Init, SnapOld, Watched, NoConn

\* A call takes its connection from c.conn, and the reconnect loop dials a new one.
LEMMA StepSnapOld == Typed /\ ConnOwner /\ SnapOld /\ [Next]_vars => SnapOld'
<1> SUFFICES ASSUME Typed, ConnOwner, SnapOld, [Next]_vars PROVE SnapOld'
    OBVIOUS
<1>0. /\ snap \in [Calls -> {NoConn} \cup Conns] /\ dialled \in Conns
      /\ pc \in [Calls -> {"idle", "lock", "snap", "write", "writing", "wait", "forward", "exit", "done"}]
      /\ Conns \subseteq Nat \ {0} /\ NoConn = 0
    BY DEF Typed, TypeOK, Conns, NoConn
<1>1. ASSUME UNCHANGED <<snap, pc, dialled>>, rd' = "install" => rd = "install" /\ rdConn' = rdConn
      PROVE  SnapOld'
    BY Zenon, <1>1 DEF SnapOld
<1>2. ASSUME NEW k \in {"unary", "stream"}, Begin(k) PROVE SnapOld'
    <2>1. /\ UNCHANGED <<snap, dialled, rd, rdConn>>
          /\ \A j \in Calls : pc'[j] \in {"write", "writing"} => pc[j] \in {"write", "writing"}
        BY Zenon, <1>0, <1>2 DEF Begin, connVars, rdVars
    <2> QED BY Zenon, <2>1 DEF SnapOld
<1>3. ASSUME NEW i \in Calls, CallerStep(i) PROVE SnapOld'
    <2>1. CASE Snapshot(i) /\ ~(closed \/ conn = NoConn)
        <3>1. /\ snap' = [snap EXCEPT ![i] = conn] /\ pc' = [pc EXCEPT ![i] = "write"]
              /\ UNCHANGED <<dialled, rd, rdConn>>
            BY Zenon, <2>1 DEF Snapshot, connVars, rdVars
        <3>2. conn # NoConn /\ conn \in Conns /\ conn <= dialled /\ (rd = "install" => conn # rdConn)
            BY Zenon, <2>1 DEF ConnOwner
        <3>3. snap'[i] = conn /\ \A j \in Calls : j # i => snap'[j] = snap[j] /\ pc'[j] = pc[j]
            BY Zenon, <1>0, <3>1
        <3> QED BY Zenon, <3>1, <3>2, <3>3 DEF SnapOld
    <2>2. CASE ~(Snapshot(i) /\ ~(closed \/ conn = NoConn))
        <3>1. /\ UNCHANGED <<snap, dialled, rd, rdConn>>
              /\ \/ \E p : pc' = [pc EXCEPT ![i] = p] /\ (p \in {"write", "writing"} => pc[i] = "write")
                 \/ pc' = pc
            <4>1. UNCHANGED <<snap, dialled, rd, rdConn>>
                BY Zenon, <1>3, <2>2 DEF CallerStep, Register, EncodeError, Snapshot, LockWrite, WriteOk,
                   WriteError, ImportRecv, ImportTimeout, StreamRecv, StreamForward, StreamTimeout,
                   StreamExit, connVars, rdVars
            <4> QED BY Zenon, <1>3, <2>2, <4>1 DEF CallerStep, Register, EncodeError, Snapshot, LockWrite, WriteOk,
                   WriteError, ImportRecv, ImportTimeout, StreamRecv, StreamForward, StreamTimeout,
                   StreamExit, Return, Leave
        <3>2. \A j \in Calls : pc'[j] \in {"write", "writing"} => pc[j] \in {"write", "writing"}
            BY Zenon, <1>0, <3>1
        <3> QED BY Zenon, <3>1, <3>2 DEF SnapOld
    <2> QED BY Zenon, <2>1, <2>2
<1>4. CASE ReaderStep
    <2>1. CASE DialOk
        <3>1. /\ dialled' = dialled + 1 /\ rdConn' = dialled' /\ UNCHANGED <<snap, pc>>
            BY Zenon, <2>1 DEF DialOk, callVars
        <3>2. \A j \in Calls : snap[j] # NoConn => snap[j] \in Nat /\ snap[j] <= dialled
            BY Zenon, <1>0 DEF SnapOld
        <3>3. dialled \in Nat /\ NoConn = 0
            BY Zenon, <1>0
        <3>4. \A j \in Calls : (snap[j] # NoConn => snap[j] <= dialled') /\ snap[j] # rdConn'
            BY <3>1, <3>2, <3>3
        <3> QED BY Zenon, <3>1, <3>4 DEF SnapOld
    <2>2. CASE ~DialOk
        <3>1. UNCHANGED <<snap, pc, dialled>> /\ rd' # "install"
            BY Zenon, <1>4, <2>2 DEF ReaderStep, ReaderTop, ReadFrame, SkipFrame, Deliver, ReadError,
               DrainOne, DrainDone, ReconnectCheck, DialError, Install, ReaderAt, callVars, connVars, rdVars
        <3> QED BY Zenon, <1>1, <3>1
    <2> QED BY Zenon, <2>1, <2>2
<1>5. CASE CloseStep
    BY Zenon, <1>1, <1>5 DEF CloseStep, CloseMark, CloseConn, callVars, rdVars
<1>6. CASE EnvStep
    BY Zenon, <1>1, <1>6 DEF EnvStep, ServerChunk, ServerEnd, ConnDrop, callVars, connVars, rdVars
<1>7. CASE UNCHANGED vars
    BY Zenon, <1>1, <1>7 DEF vars, callVars, connVars, rdVars
<1> QED BY Zenon, <1>2, <1>3, <1>4, <1>5, <1>6, <1>7 DEF Next

\* The reader leaves a connection only when nobody is pending on it, or after Close.
LEMMA StepWatched ==
    ReaderInv /\ ConnOwner /\ SnapOld /\ Watched /\ [Next]_vars => Watched'
<1> SUFFICES ASSUME ReaderInv, ConnOwner, SnapOld, Watched, [Next]_vars PROVE Watched'
    OBVIOUS
<1>0. /\ snap \in [Calls -> {NoConn} \cup Conns] /\ srv \in [Calls -> {"none", "run", "done"}]
      /\ closed \in BOOLEAN
      /\ rd \in {"top", "read", "deliver", "drain", "check", "dial", "install", "exited"}
      /\ CallOrder
    BY Zenon DEF ReaderInv, Typed, TypeOK
<1>1. ASSUME UNCHANGED <<snap, pending, conn, closed, rd, rdConn>>,
             \A j \in Calls : srv[j] = "none" => srv'[j] = "none"
      PROVE  Watched'
    BY Zenon, <1>1 DEF Watched, ReaderOn
<1>2. ASSUME NEW k \in {"unary", "stream"}, Begin(k) PROVE Watched'
    BY Zenon, <1>1, <1>2 DEF Begin, connVars, rdVars, envVars
<1>3. ASSUME NEW i \in Calls, CallerStep(i) PROVE Watched'
    <2>1. CASE Register(i)
        <3>1. /\ pending' = pending \cup {i} /\ srv[i] = "none"
              /\ UNCHANGED <<snap, srv, conn, closed, rd, rdConn>>
            BY Zenon, <1>0, <2>1 DEF Register, CallOrder, connVars, rdVars, envVars
        <3> QED BY Zenon, <3>1 DEF Watched, ReaderOn
    <2>2. CASE Snapshot(i)
        <3>1. /\ UNCHANGED <<pending, srv, conn, closed, rd, rdConn>> /\ srv[i] = "none"
              /\ \A j \in Calls : j # i => snap'[j] = snap[j]
            BY Zenon, <1>0, <2>2 DEF Snapshot, CallOrder, connVars, rdVars, envVars
        <3> QED BY Zenon, <3>1 DEF Watched, ReaderOn
    <2>3. CASE WriteOk(i)
        <3>1. /\ UNCHANGED <<snap, pending, conn, closed, rd, rdConn>>
              /\ pc[i] = "writing"
              /\ \A j \in Calls : j # i => srv'[j] = srv[j]
              /\ srv'[i] # "none" => link[snap[i]] = "up" \/ srv[i] # "none"
            BY Zenon, <1>0, <2>3 DEF WriteOk, connVars, rdVars
        <3>2. link[snap[i]] = "up" /\ ~closed => ReaderOn(snap[i])
            <4> SUFFICES ASSUME link[snap[i]] = "up", ~closed PROVE ReaderOn(snap[i])
                OBVIOUS
            <4>1. snap[i] \in Conns /\ (rd = "install" => snap[i] # rdConn)
                BY Zenon, <3>1 DEF SnapOld
            <4>2. conn = snap[i]
                BY Zenon, <4>1 DEF ConnOwner
            <4>3. rd \in {"top", "read", "deliver"} /\ (rd \in {"read", "deliver"} => rdConn = conn)
                BY Zenon, <1>0, <4>2 DEF ConnOwner
            <4> QED BY Zenon, <4>2, <4>3 DEF ReaderOn
        <3> QED BY Zenon, <3>1, <3>2 DEF Watched, ReaderOn
    <2>4. CASE StreamExit(i)
        <3>1. pending' = pending \ {i} /\ UNCHANGED <<snap, srv, conn, closed, rd, rdConn>>
            BY Zenon, <2>4 DEF StreamExit, connVars, rdVars, envVars
        <3> QED BY Zenon, <3>1 DEF Watched, ReaderOn
    <2>5. CASE \/ EncodeError(i) \/ LockWrite(i) \/ WriteError(i) \/ ImportRecv(i) \/ ImportTimeout(i)
               \/ StreamRecv(i) \/ StreamForward(i) \/ StreamTimeout(i)
        BY Zenon, <1>1, <2>5 DEF EncodeError, LockWrite, WriteError, ImportRecv, ImportTimeout, StreamRecv,
           StreamForward, StreamTimeout, connVars, rdVars, envVars
    <2> QED BY Zenon, <1>3, <2>1, <2>2, <2>3, <2>4, <2>5 DEF CallerStep
<1>4. CASE ReaderStep
    <2>1. CASE ReaderTop
        <3>1. /\ rd = "top" /\ UNCHANGED <<snap, pending, srv, conn, closed>>
              /\ closed \/ conn = NoConn \/ (rd' = "read" /\ rdConn' = conn)
            BY Zenon, <2>1 DEF ReaderTop, callVars, connVars, envVars
        <3>2. ~closed => conn # NoConn
            BY DEF ConnOwner, NoConn, Conns
        <3> QED BY Zenon, <3>1, <3>2 DEF Watched, ReaderOn
    <2>2. CASE ReadFrame \/ SkipFrame \/ Deliver
        <3>1. /\ rd \in {"read", "deliver"} /\ rd' \in {"top", "deliver"}
              /\ UNCHANGED <<snap, srv, conn, closed, rdConn>> /\ pending' \subseteq pending
            BY Zenon, <2>2 DEF ReadFrame, SkipFrame, FrameRead, Deliver, ReaderAt, callVars, connVars, envVars
        <3>2. ~closed => rdConn = conn
            BY Zenon, <3>1 DEF ConnOwner
        <3> QED BY Zenon, <3>1, <3>2 DEF Watched, ReaderOn
    <2>3. CASE ReadError
        <3>1. rd = "read" /\ rd' = "drain" /\ UNCHANGED <<snap, pending, srv, conn, closed, rdConn>>
            BY Zenon, <2>3 DEF ReadError, ReaderAt, callVars, connVars, envVars
        <3> QED BY Zenon, <3>1 DEF Watched, ReaderOn
    <2>4. ASSUME NEW i \in Calls, DrainOne(i) PROVE Watched'
        <3>1. pending' = pending \ {i} /\ UNCHANGED <<snap, srv, conn, closed, rd, rdConn>>
            BY Zenon, <2>4 DEF DrainOne, callVars, connVars, rdVars, envVars
        <3> QED BY Zenon, <3>1 DEF Watched, ReaderOn
    <2>5. CASE DrainDone
        <3>1. pending' = {}
            BY Zenon, <2>5 DEF DrainDone
        <3> QED BY Zenon, <3>1 DEF Watched
    <2>6. CASE ReconnectCheck \/ DialOk \/ DialError \/ Install
        <3>1. rd \in {"check", "dial", "install"} /\ UNCHANGED <<snap, pending, srv, closed>>
            BY Zenon, <2>6 DEF ReconnectCheck, DialOk, DialError, Install, ReaderAt, callVars, connVars, envVars
        <3> QED BY Zenon, <3>1 DEF Watched, ReaderOn
    <2> QED BY Zenon, <1>4, <2>1, <2>2, <2>3, <2>4, <2>5, <2>6 DEF ReaderStep
<1>5. CASE CloseStep
    <2>1. closed' /\ UNCHANGED <<snap, pending, srv>>
        BY Zenon, <1>0, <1>5 DEF CloseStep, CloseMark, CloseConn, ConnOwner, callVars, envVars
    <2> QED BY Zenon, <2>1 DEF Watched
<1>6. CASE EnvStep
    <2>1. UNCHANGED <<snap, pending, conn, closed, rd, rdConn>>
        BY Zenon, <1>6 DEF EnvStep, ServerChunk, ServerEnd, ConnDrop, callVars, connVars, rdVars
    <2>2. \A j \in Calls : srv[j] = "none" => srv'[j] = "none"
        BY Zenon, <1>0, <1>6 DEF EnvStep, ServerChunk, ServerEnd, ConnDrop, CanSend
    <2> QED BY Zenon, <1>1, <2>1, <2>2
<1>7. CASE UNCHANGED vars
    BY Zenon, <1>1, <1>7 DEF vars, callVars, connVars, rdVars, envVars
<1> QED BY Zenon, <1>2, <1>3, <1>4, <1>5, <1>6, <1>7 DEF Next

\* When calls name functions of their own kind, no path of the read loops or of
\* drainPending forgets a caller: an unanswered call is in c.pending, and while the client
\* is open the reader stays on the connection where the server has its request.
THEOREM CallersAreNotForgotten ==
    ASSUME ~Mismatch
    PROVE  Spec => []NoForgottenCaller
<1>1. Spec => []ReaderInv
    BY InitReaderInv, StepReaderInv, PTL DEF Spec
<1>2. Spec => [](ReaderInv /\ ConnOwner)
    <2>1. ReaderInv => Typed
        BY Zenon DEF ReaderInv
    <2> QED BY <1>1, <2>1, InitConnOwner, StepConnOwner, PTL DEF Spec
<1>3. Spec => [](ReaderInv /\ ConnOwner /\ SnapOld /\ Watched)
    <2>1. ReaderInv => Typed
        BY Zenon DEF ReaderInv
    <2> QED BY <1>2, <2>1, InitWatch, StepSnapOld, StepWatched, PTL DEF Spec
<1>4. ReaderInv /\ Watched => NoForgottenCaller
    BY Zenon DEF ReaderInv, Remembered, Watched, NoForgottenCaller, Answered
<1> QED BY <1>3, <1>4, PTL
=============================================================================
