-------------------------- MODULE RustOrderProofs ---------------------------
(***************************************************************************)
(* The frames of every call reach their caller in the Rust client whole    *)
(* and in order, for any number of calls, connections and chunks and any   *)
(* channel capacities.                                                     *)
(***************************************************************************)
EXTENDS RustClientProofs

-----------------------------------------------------------------------------
\* Frames.

\* A frame of the server's fits what the server has done of the call.
Fits(m) ==
    /\ m.id \in Calls /\ srv[m.id] # 0 /\ m.type \in {"stream_chunk", "stream_end", "response", "error"}
    /\ m.type # "stream_chunk" => srvDone[m.id] = TRUE
    /\ m.type = "response" => ~IsStream(m.id)
    /\ m.type \in {"stream_chunk", "stream_end"} => IsStream(m.id)
    /\ m.type = "stream_chunk" => m.seq \in 1..sent[m.id]

In(m, s) == \E p \in 1..Len(s) : s[p] = m

WireFits == \A k \in Conns : \A m \in Frames : In(m, wire[k]) => Fits(m) /\ srv[m.id] = k
QueueFits == \A m \in Frames : In(m, queue) => m.type = "closed" \/ Fits(m)
HandFits == \A m \in Frames : actor = "send" /\ hand = m => Fits(m)
ChanFits == \A i \in Calls : \A m \in Frames : In(m, chan[i]) => m.id = i /\ (m.type = "lost" \/ Fits(m))
CallFits == \A i \in Calls : ~IsStream(i) => sent[i] = 0
FrameInv == WireFits /\ QueueFits /\ HandFits /\ ChanFits /\ CallFits

\* The server keeps a request, and what it has sent of its answer.
LEMMA ServerKept ==
    ASSUME TypeInv, LifeInv, [Next]_vars, NEW i \in Calls, srv[i] # 0
    PROVE  /\ srv'[i] = srv[i] /\ sent[i] \in Nat /\ sent'[i] \in Nat /\ sent[i] <= sent'[i]
           /\ srvDone[i] = TRUE => srvDone'[i] = TRUE /\ sent'[i] = sent[i]
           /\ kind[i] # "none" /\ kind'[i] = kind[i]
  <1>0. /\ srv \in [Calls -> {0} \cup Conns] /\ srvDone \in [Calls -> BOOLEAN] /\ sent \in [Calls -> 0..MaxOut]
        /\ sent[i] \in 0..MaxOut
    BY Zenon DEF TypeInv, SrvTypes
  <1>1. sent[i] \in Nat /\ sent[i] + 1 \in Nat /\ sent[i] <= sent[i] /\ sent[i] <= sent[i] + 1
    BY <1>0, RustClientAssumption
  <1>2. kind[i] # "none" /\ kind'[i] = kind[i]
    <2>1. i \in posted
      BY Zenon DEF LifeInv, BlankInv, Blank
    <2>2. kind[i] # "none"
      BY Zenon, <2>1 DEF LifeInv, PostedInv
    <2>3. QED
      BY Zenon, <2>2, KindKept
  <1>3. CASE UNCHANGED <<srv, srvDone, sent>>
    BY Zenon, <1>1, <1>2, <1>3
  <1>4. ASSUME NEW j \in Calls, ServerChunk(j) \/ ServerAnswer(j) \/ ServerError(j)
        PROVE  /\ srv'[i] = srv[i] /\ sent'[i] \in {sent[i], sent[i] + 1}
               /\ srvDone[i] = TRUE => srvDone'[i] = TRUE /\ sent'[i] = sent[i]
    <2>1. srv' = srv /\ srvDone[j] # TRUE
      BY Zenon, <1>4 DEF ServerChunk, ServerAnswer, ServerError, Reachable
    <2>2. \/ srvDone' = srvDone /\ sent' = [sent EXCEPT ![j] = @ + 1]
          \/ sent' = sent /\ srvDone' = [srvDone EXCEPT ![j] = TRUE]
      BY Zenon, <1>4 DEF ServerChunk, ServerAnswer, ServerError
    <2>3. CASE j = i
      <3>1. sent'[i] = sent[i] + 1 \/ sent'[i] = sent[i]
        BY Zenon, <1>0, <2>2, <2>3
      <3>2. QED
        BY Zenon, <2>1, <2>3, <3>1
    <2>4. CASE j # i
      <3>1. sent'[i] = sent[i] /\ srvDone'[i] = srvDone[i]
        BY Zenon, <1>0, <2>2, <2>4
      <3>2. QED
        BY Zenon, <2>1, <3>1
    <2>5. QED
      BY Zenon, <2>3, <2>4
  <1>5. ASSUME NEW j \in Calls, Requests(j)
        PROVE  UNCHANGED <<srvDone, sent>> /\ srv'[i] = srv[i]
    <2>1. /\ UNCHANGED <<srvDone, sent>> /\ (srv' = srv \/ srv' = [srv EXCEPT ![j] = writer])
          /\ cmds # <<>> /\ j = Head(cmds) /\ cmds' = Tail(cmds)
      BY Zenon, <1>5 DEF Requests
    <2>2. Queued(j)
      BY Zenon, <2>1, TakenLife DEF Queued
    <2>3. i # j
      BY Zenon, <2>2 DEF LifeInv, UntakenInv, Untaken
    <2>4. QED
      BY Zenon, <1>0, <2>1, <2>3
  <1>6. ASSUME NEW j \in Calls,
               (\E k \in Kinds : Begin(j, k)) \/ Post(j) \/ Send(j) \/ SendClose(j) \/ Receive(j) \/ ReceiveNone(j)
                   \/ DropStream(j) \/ DrainTask(j)
        PROVE  UNCHANGED <<srv, srvDone, sent>>
    BY Zenon, <1>6 DEF Begin, Post, Send, SendClose, Receive, ReceiveNone, DropStream, DrainTask, srvVars
  <1>7. ASSUME NEW k \in Conns, ReadFrame(k) \/ ReadClosed(k) \/ ServerCloses(k) \/ ConnDrop(k)
        PROVE  UNCHANGED <<srv, srvDone, sent>>
    BY Zenon, <1>7 DEF ReadFrame, ReadClosed, ServerCloses, ConnDrop, Disconnect, srvVars
  <1>8. ASSUME Close \/ UNCHANGED vars
        PROVE  UNCHANGED <<srv, srvDone, sent>>
    BY Zenon, <1>8 DEF Close, vars, srvVars
  <1>9. CASE \/ Top \/ PumpDone \/ TakeFrame \/ HandOver \/ Redial \/ (\E j \in Calls : Pump(j) \/ RequestFails(j))
             \/ ShutsDown \/ Loses
    BY Zenon, <1>3, <1>9 DEF Top, PumpDone, TakeFrame, HandOver, Redial, Pump, PumpWrite, PumpDry, PumpCheck,
                             RequestFails, ShutsDown, Loses, srvVars
  <1>10. CASE Actor
    BY Zenon, <1>1, <1>2, <1>5, <1>9, <1>10, TwoRequests, TwoLosses DEF Actor
  <1>11. ASSUME NEW j \in Calls, ServerChunk(j) \/ ServerAnswer(j) \/ ServerError(j)
         PROVE  /\ srv'[i] = srv[i] /\ sent[i] \in Nat /\ sent'[i] \in Nat /\ sent[i] <= sent'[i]
                /\ srvDone[i] = TRUE => srvDone'[i] = TRUE /\ sent'[i] = sent[i]
    BY Zenon, <1>1, <1>4, <1>11
  <1>12. CASE Outside
    BY Zenon, <1>2, <1>3, <1>6, <1>7, <1>8, <1>11, <1>12 DEF Outside
  <1>13. QED
    BY Zenon, <1>10, <1>12, Steps

LEMMA FitsKept ==
    ASSUME TypeInv, LifeInv, [Next]_vars, NEW m, Fits(m)
    PROVE  Fits(m)' /\ srv'[m.id] = srv[m.id]
  <1>1. m.id \in Calls /\ srv[m.id] # 0
    BY Zenon DEF Fits
  <1>2. /\ srv'[m.id] = srv[m.id] /\ sent[m.id] \in Nat /\ sent'[m.id] \in Nat /\ sent[m.id] <= sent'[m.id]
        /\ srvDone[m.id] = TRUE => srvDone'[m.id] = TRUE
        /\ kind'[m.id] = kind[m.id]
    BY Zenon, <1>1, ServerKept
  <1>3. IsStream(m.id)' <=> IsStream(m.id)
    BY Zenon, <1>2 DEF IsStream
  <1>4. m.seq \in 1..sent[m.id] => m.seq \in 1..sent'[m.id]
    BY <1>2
  <1>5. QED
    BY Zenon, <1>1, <1>2, <1>3, <1>4 DEF Fits

\* Membership of what is added, taken and emptied.
LEMMA InAppend ==
    ASSUME NEW S, NEW s \in Seq(S), NEW x \in S, NEW m, In(m, Append(s, x))
    PROVE  In(m, s) \/ m = x
  BY AppendFind DEF In

LEMMA InTail ==
    ASSUME NEW S, NEW s \in Seq(S), s # <<>>, NEW m
    PROVE  (In(m, Tail(s)) => In(m, s)) /\ In(Head(s), s)
  <1>1. ASSUME NEW p \in 1..Len(Tail(s)) PROVE p + 1 \in 1..Len(s) /\ Tail(s)[p] = s[p + 1]
    BY Zenon, TailElem
  <1>2. 1 \in 1..Len(s) /\ s[1] = Head(s)
    BY Zenon, TailOf
  <1>3. QED
    BY Zenon, <1>1, <1>2 DEF In

LEMMA InSmall ==
    ASSUME NEW m
    PROVE  ~In(m, <<>>) /\ \A x : In(m, <<x>>) => m = x
  BY DEF In

\* Where the frames of a step come from.
FromWire(k, m) == In(m, wire[k]) \/ (Fits(m)' /\ srv'[m.id] = k)
FromQueue(m) == In(m, queue) \/ m.type = "closed" \/ \E k \in Conns : In(m, wire[k])
Taken(m) == (In(m, queue) /\ m.type # "closed") \/ (actor = "send" /\ hand = m)
FromChan(i, m) == In(m, chan[i]) \/ (m.id = i /\ (m.type = "lost" \/ Taken(m)))

NewWire == \A k \in Conns : \A m \in Frames : In(m, wire'[k]) => FromWire(k, m)
NewQueue == \A m \in Frames : In(m, queue') => FromQueue(m)
NewHand == \A m \in Frames : actor' = "send" /\ hand' = m => Taken(m)
NewChan == \A i \in Calls : \A m \in Frames : In(m, chan'[i]) => FromChan(i, m)

LEMMA NewFrames ==
    ASSUME TypeInv, LifeInv, FrameInv, [Next]_vars, NewWire, NewQueue, NewHand, NewChan, CallFits'
    PROVE  FrameInv'
  <1>1. ASSUME NEW m \in Frames, Fits(m) PROVE Fits(m)' /\ srv'[m.id] = srv[m.id]
    BY Zenon, <1>1, FitsKept
  <1>2. ASSUME NEW m \in Frames, NEW k \in Conns, In(m, wire[k]) PROVE Fits(m)' /\ srv'[m.id] = k
    BY Zenon, <1>1, <1>2 DEF FrameInv, WireFits
  <1>3. WireFits'
    <2>1. ASSUME NEW k \in Conns, NEW m \in Frames, In(m, wire'[k]) PROVE Fits(m)' /\ srv'[m.id] = k
      BY Zenon, <1>2, <2>1 DEF NewWire, FromWire
    <2>2. QED
      BY Zenon, <2>1 DEF WireFits
  <1>4. ASSUME NEW m \in Frames, In(m, queue) PROVE m.type = "closed" \/ Fits(m)'
    BY Zenon, <1>1, <1>4 DEF FrameInv, QueueFits
  <1>5. QueueFits'
    <2>1. ASSUME NEW m \in Frames, In(m, queue') PROVE m.type = "closed" \/ Fits(m)'
      BY Zenon, <1>2, <1>4, <2>1 DEF NewQueue, FromQueue
    <2>2. QED
      BY Zenon, <2>1 DEF QueueFits
  <1>6. ASSUME NEW m \in Frames, Taken(m) PROVE Fits(m)'
    BY Zenon, <1>1, <1>4, <1>6 DEF FrameInv, HandFits, Taken
  <1>7. HandFits'
    <2>1. ASSUME NEW m \in Frames, actor' = "send", hand' = m PROVE Fits(m)'
      BY Zenon, <1>6, <2>1 DEF NewHand
    <2>2. QED
      BY Zenon, <2>1 DEF HandFits
  <1>8. ChanFits'
    <2>1. ASSUME NEW i \in Calls, NEW m \in Frames, In(m, chan'[i]) PROVE m.id = i /\ (m.type = "lost" \/ Fits(m)')
      BY Zenon, <1>1, <1>6, <2>1 DEF NewChan, FromChan, FrameInv, ChanFits
    <2>2. QED
      BY Zenon, <2>1 DEF ChanFits
  <1>9. QED
    BY Zenon, <1>3, <1>5, <1>7, <1>8 DEF FrameInv

\* What is left alone holds what it held.
LEMMA SameFrames ==
    /\ wire' = wire => NewWire
    /\ queue' = queue => NewQueue
    /\ hand' = hand /\ (actor' = "send" => actor = "send") => NewHand
    /\ chan' = chan => NewChan
  BY Zenon DEF NewWire, NewQueue, NewHand, NewChan, FromWire, FromQueue, FromChan, Taken

LEMMA SameCalls ==
    ASSUME TypeInv, FrameInv, [Next]_vars, UNCHANGED sent
    PROVE  CallFits'
  BY Zenon, IsStreamKept DEF FrameInv, CallFits

\* The server's replies fit.
LEMMA ReplyFits ==
    ASSUME TypeInv, LifeInv, FrameInv, [Next]_vars, NEW i \in Calls,
           ServerChunk(i) \/ ServerAnswer(i) \/ ServerError(i)
    PROVE  NewWire /\ CallFits'
  <1>0. /\ srvDone \in [Calls -> BOOLEAN] /\ sent \in [Calls -> 0..MaxOut] /\ wire \in [Conns -> Seq(Frames)]
        /\ srv[i] \in {0} \cup Conns /\ sent[i] \in 0..MaxOut
    BY Zenon DEF TypeInv, SrvTypes, WireType
  <1>1. srv[i] # 0 /\ srv' = srv
    BY Zenon DEF ServerChunk, ServerAnswer, ServerError, Reachable
  <1>2. srv[i] \in Conns /\ i \in Nat /\ sent[i] + 1 \in Nat /\ 0 \in Nat
    BY <1>0, <1>1, IdTypes, RustClientAssumption
  <1>3. kind[i] # "none" /\ kind'[i] = kind[i]
    BY Zenon, <1>1, ServerKept
  <1>4. IsStream(i)' <=> IsStream(i)
    BY Zenon, <1>3 DEF IsStream
  <1>5. ASSUME NEW t \in FrameTypes, NEW n \in Nat, Reply(i, t, n), Fits(Frame(i, t, n))'
        PROVE  NewWire
    <2>0. Frame(i, t, n) \in Frames /\ Frame(i, t, n).id = i
      BY <1>2, FrameType
    <2>1. PICK x \in Frames : x = Frame(i, t, n) /\ x.id = i
      BY Zenon, <2>0
    <2>2. wire' = [wire EXCEPT ![srv[i]] = Append(@, x)]
      BY Zenon, <1>5, <2>1 DEF Reply
    <2>3. Fits(x)'
      BY Zenon, <1>5, <2>1
    <2>4. ASSUME NEW k \in Conns, NEW m \in Frames, In(m, wire'[k]) PROVE FromWire(k, m)
      <3>1. CASE k = srv[i]
        <4>1. wire'[k] = Append(wire[k], x) /\ wire[k] \in Seq(Frames)
          BY Zenon, <1>0, <2>2, <3>1
        <4>2. In(m, Append(wire[k], x))
          BY Zenon, <2>4, <4>1
        <4>3. In(m, wire[k]) \/ m = x
          BY Zenon, <4>1, <4>2, InAppend
        <4>4. QED
          BY Zenon, <1>1, <2>1, <2>3, <3>1, <4>3 DEF FromWire
      <3>2. CASE k # srv[i]
        <4>1. wire'[k] = wire[k]
          BY Zenon, <1>0, <2>2, <3>2
        <4>2. QED
          BY Zenon, <2>4, <4>1 DEF FromWire
      <3>3. QED
        BY Zenon, <3>1, <3>2
    <2>5. QED
      BY Zenon, <2>4 DEF NewWire
  <1>6. CASE ServerChunk(i)
    <2>1. IsStream(i) /\ sent' = [sent EXCEPT ![i] = @ + 1] /\ Reply(i, "stream_chunk", sent[i] + 1)
      BY Zenon, <1>6 DEF ServerChunk
    <2>2. sent'[i] = sent[i] + 1 /\ \A j \in Calls : j # i => sent'[j] = sent[j]
      BY Zenon, <1>0, <2>1
    <2>3. sent[i] + 1 \in 1..(sent[i] + 1) /\ "stream_chunk" \in FrameTypes
      BY <1>0, <1>2 DEF FrameTypes
    <2>4. /\ Frame(i, "stream_chunk", sent[i] + 1).id = i
          /\ Frame(i, "stream_chunk", sent[i] + 1).type = "stream_chunk"
          /\ Frame(i, "stream_chunk", sent[i] + 1).seq = sent[i] + 1
      BY <1>2, <2>3, FrameType
    <2>5. PICK z \in Nat : z = sent[i] + 1
      BY Zenon, <1>2
    <2>6. Fits(Frame(i, "stream_chunk", z))'
      BY <1>1, <1>4, <2>1, <2>2, <2>3, <2>4, <2>5 DEF Fits
    <2>7. NewWire
      BY Zenon, <1>5, <2>1, <2>3, <2>5, <2>6
    <2>8. CallFits'
      BY Zenon, <1>4, <2>1, <2>2, IsStreamKept DEF FrameInv, CallFits
    <2>9. QED
      BY Zenon, <2>7, <2>8
  <1>7. CASE ServerAnswer(i) \/ ServerError(i)
    <2>1. PICK t : /\ sent' = sent /\ srvDone' = [srvDone EXCEPT ![i] = TRUE] /\ Reply(i, t, 0)
                   /\ t = "error" \/ t = (IF IsStream(i) THEN "stream_end" ELSE "response")
      BY Zenon, <1>7 DEF ServerAnswer, ServerError
    <2>2. srvDone'[i] = TRUE
      BY Zenon, <1>0, <2>1
    <2>3. /\ t \in FrameTypes /\ t \in {"stream_chunk", "stream_end", "response", "error"} /\ t # "stream_chunk"
          /\ t = "response" => ~IsStream(i)
          /\ t = "stream_end" => IsStream(i)
      BY <2>1 DEF FrameTypes
    <2>4. Frame(i, t, 0).id = i /\ Frame(i, t, 0).type = t
      BY <1>2, <2>3, FrameType
    <2>5. Fits(Frame(i, t, 0))'
      BY <1>1, <1>4, <2>2, <2>3, <2>4 DEF Fits
    <2>6. QED
      BY Zenon, <1>2, <1>5, <2>1, <2>3, <2>5, SameCalls
  <1>8. QED
    BY Zenon, <1>6, <1>7

\* Readers move what they read.
LEMMA ReadFrames ==
    ASSUME TypeInv, NEW k \in Conns, ReadFrame(k) \/ ReadClosed(k)
    PROVE  NewWire /\ NewQueue
  <1>1. /\ wire \in [Conns -> Seq(Frames)] /\ wire[k] \in Seq(Frames) /\ queue \in Seq(Frames)
        /\ Closed(k) \in Frames /\ Closed(k).type = "closed"
    <2>1. Closed(k) \in Frames /\ Closed(k).type = "closed"
      BY IdTypes, FrameType DEF FrameTypes, Closed
    <2>2. QED
      BY Zenon, <2>1 DEF TypeInv, WireType, ReadTypes
  <1>2. /\ wire' = [wire EXCEPT ![k] = Tail(@)] \/ wire' = [wire EXCEPT ![k] = <<>>]
        /\ wire' = [wire EXCEPT ![k] = Tail(@)] => wire[k] # <<>> \/ wire' = [wire EXCEPT ![k] = <<>>]
        /\ \/ queue' = queue \/ queue' = Append(queue, Closed(k))
           \/ wire[k] # <<>> /\ queue' = Append(queue, Head(wire[k]))
    BY Zenon DEF ReadFrame, ReadClosed
  <1>3. ASSUME NEW j \in Conns, NEW m \in Frames, In(m, wire'[j]) PROVE FromWire(j, m)
    <2>1. CASE j # k
      <3>1. wire'[j] = wire[j]
        BY Zenon, <1>1, <1>2, <2>1
      <3>2. QED
        BY Zenon, <1>3, <3>1 DEF FromWire
    <2>2. CASE j = k /\ wire' = [wire EXCEPT ![k] = <<>>]
      <3>1. wire'[j] = <<>>
        BY Zenon, <1>1, <2>2
      <3>2. QED
        BY Zenon, <1>3, <3>1, InSmall
    <2>3. CASE j = k /\ wire' = [wire EXCEPT ![k] = Tail(@)] /\ wire[k] # <<>>
      <3>1. wire'[j] = Tail(wire[k])
        BY Zenon, <1>1, <2>3
      <3>2. In(m, wire[j])
        BY Zenon, <1>1, <1>3, <2>3, <3>1, InTail
      <3>3. QED
        BY Zenon, <3>2 DEF FromWire
    <2>4. QED
      BY Zenon, <1>2, <2>1, <2>2, <2>3
  <1>4. ASSUME NEW m \in Frames, In(m, queue') PROVE FromQueue(m)
    <2>1. CASE queue' = queue
      BY Zenon, <1>4, <2>1 DEF FromQueue
    <2>2. CASE queue' = Append(queue, Closed(k))
      <3>1. In(m, queue) \/ m = Closed(k)
        BY Zenon, <1>1, <1>4, <2>2, InAppend
      <3>2. QED
        BY Zenon, <1>1, <3>1 DEF FromQueue
    <2>3. CASE wire[k] # <<>> /\ queue' = Append(queue, Head(wire[k]))
      <3>1. Head(wire[k]) \in Frames /\ In(Head(wire[k]), wire[k])
        BY Zenon, <1>1, <2>3, TailOf, InTail
      <3>2. In(m, queue) \/ m = Head(wire[k])
        BY Zenon, <1>1, <1>4, <2>3, <3>1, InAppend
      <3>3. QED
        BY Zenon, <3>1, <3>2 DEF FromQueue
    <2>4. QED
      BY Zenon, <1>2, <2>1, <2>2, <2>3
  <1>5. QED
    BY Zenon, <1>3, <1>4 DEF NewWire, NewQueue

\* The callers and drain_pending's tasks.
LEMMA ChanFrames ==
    ASSUME TypeInv, NEW i \in Calls, Receive(i) \/ DropStream(i) \/ DrainTask(i)
    PROVE  NewChan
  <1>1. chan \in [Calls -> Seq(Frames)] /\ chan[i] \in Seq(Frames)
    BY Zenon DEF TypeInv, ChanType
  <1>2. PICK l \in Frames : l = Frame(i, "lost", 0) /\ l.id = i /\ l.type = "lost"
    <2>1. "lost" \in FrameTypes
      BY DEF FrameTypes
    <2>2. Frame(i, "lost", 0) \in Frames /\ Frame(i, "lost", 0).id = i /\ Frame(i, "lost", 0).type = "lost"
      BY <2>1, IdTypes, FrameType
    <2>3. QED
      BY Zenon, <2>2
  <1>3. \/ chan' = chan \/ chan' = [chan EXCEPT ![i] = <<>>]
        \/ chan[i] # <<>> /\ chan' = [chan EXCEPT ![i] = Tail(@)]
        \/ chan' = [chan EXCEPT ![i] = Append(@, l)]
    BY Zenon, <1>2 DEF Receive, DropStream, DrainTask
  <1>4. ASSUME NEW j \in Calls, NEW m \in Frames, In(m, chan'[j]) PROVE FromChan(j, m)
    <2>1. CASE j # i
      <3>1. chan'[j] = chan[j]
        BY Zenon, <1>1, <1>3, <2>1
      <3>2. QED
        BY Zenon, <1>4, <3>1 DEF FromChan
    <2>2. CASE j = i
      <3>1. \/ chan'[i] = chan[i] \/ chan'[i] = <<>> \/ (chan[i] # <<>> /\ chan'[i] = Tail(chan[i]))
            \/ chan'[i] = Append(chan[i], l)
        BY Zenon, <1>1, <1>3
      <3>2. CASE chan'[i] = chan[i]
        BY Zenon, <1>4, <2>2, <3>2 DEF FromChan
      <3>3. CASE chan'[i] = <<>>
        BY Zenon, <1>4, <2>2, <3>3, InSmall
      <3>4. CASE chan[i] # <<>> /\ chan'[i] = Tail(chan[i])
        <4>1. In(m, chan[i])
          BY Zenon, <1>1, <1>4, <2>2, <3>4, InTail
        <4>2. QED
          BY Zenon, <2>2, <4>1 DEF FromChan
      <3>5. CASE chan'[i] = Append(chan[i], l)
        <4>0. In(m, Append(chan[i], l))
          BY Zenon, <1>4, <2>2, <3>5
        <4>1. In(m, chan[i]) \/ m = l
          BY Zenon, <1>1, <4>0, InAppend
        <4>2. QED
          BY Zenon, <1>2, <2>2, <4>1 DEF FromChan
      <3>6. QED
        BY Zenon, <3>1, <3>2, <3>3, <3>4, <3>5
    <2>3. QED
      BY Zenon, <2>1, <2>2
  <1>5. QED
    BY Zenon, <1>4 DEF NewChan

\* A connection that is given up.
LEMMA DrainFrames ==
    ASSUME TypeInv, NEW S, Drain(S)
    PROVE  NewChan
  <1>1. ASSUME NEW j \in Calls, NEW m \in Frames, In(m, chan'[j]) PROVE FromChan(j, m)
    <2>1. chan'[j] = chan[j] \/ chan'[j] = <<Frame(j, "lost", 0)>>
      BY DEF Drain
    <2>2. Frame(j, "lost", 0).id = j /\ Frame(j, "lost", 0).type = "lost"
      BY DEF Frame
    <2>3. QED
      BY Zenon, <1>1, <2>1, <2>2, InSmall DEF FromChan
  <1>2. QED
    BY Zenon, <1>1 DEF NewChan

LEMMA LossFrames ==
    ASSUME TypeInv, (\E i \in Calls : RequestFails(i)) \/ ShutsDown \/ Loses
    PROVE  NewChan /\ NewHand /\ NewQueue /\ NewWire
  <1>1. PICK S : GivesUp(S)
    BY Zenon DEF RequestFails, ShutsDown, Loses
  <1>2. NewChan
    BY Zenon, <1>1, DrainFrames DEF GivesUp
  <1>3. actor' # "send"
    BY <1>1 DEF GivesUp
  <1>4. NewHand
    BY Zenon, <1>3 DEF NewHand
  <1>5. wire' = wire
    BY Zenon DEF RequestFails, ShutsDown, Loses
  <1>6. queue \in Seq(Frames)
    BY Zenon DEF TypeInv, ReadTypes
  <1>7. queue' = queue \/ queue' = <<>> \/ (queue # <<>> /\ queue' = Tail(queue))
    BY Zenon DEF RequestFails, ShutsDown, Loses
  <1>8. ASSUME NEW m \in Frames, In(m, queue') PROVE In(m, queue)
    <2>1. CASE queue' = queue
      BY Zenon, <1>8, <2>1
    <2>2. CASE queue' = <<>>
      BY Zenon, <1>8, <2>2, InSmall
    <2>3. CASE queue # <<>> /\ queue' = Tail(queue)
      BY Zenon, <1>6, <1>8, <2>3, InTail
    <2>4. QED
      BY Zenon, <1>7, <2>1, <2>2, <2>3
  <1>9. NewQueue
    BY Zenon, <1>8 DEF NewQueue, FromQueue
  <1>10. QED
    BY Zenon, <1>2, <1>4, <1>5, <1>9, SameFrames

\* The actor takes a frame, and hands it over.
LEMMA TakeFrames ==
    ASSUME TypeInv, TakeFrame
    PROVE  NewChan /\ NewHand /\ NewQueue /\ NewWire
  <1>1. queue # <<>> /\ queue \in Seq(Frames) /\ queue' = Tail(queue) /\ wire' = wire /\ Head(queue).type # "closed"
    BY Zenon DEF TakeFrame, TypeInv, ReadTypes
  <1>2. PICK h \in Frames : h = Head(queue) /\ In(h, queue)
    BY Zenon, <1>1, InTail, TailOf
  <1>3. Taken(h)
    BY Zenon, <1>1, <1>2 DEF Taken
  <1>4. NewQueue
    <2>1. ASSUME NEW m \in Frames, In(m, queue') PROVE In(m, queue)
      BY Zenon, <1>1, <2>1, InTail
    <2>2. QED
      BY Zenon, <2>1 DEF NewQueue, FromQueue
  <1>5. \/ hand' = h /\ actor' = "send" /\ chan' = chan
        \/ /\ actor' = "top"
           /\ chan' = chan \/ (h.id \in pending /\ chan' = [chan EXCEPT ![h.id] = <<h>>])
    BY Zenon, <1>2 DEF TakeFrame
  <1>6. CASE hand' = h /\ actor' = "send" /\ chan' = chan
    BY Zenon, <1>1, <1>3, <1>4, <1>6, SameFrames DEF NewHand
  <1>7. CASE /\ actor' = "top"
             /\ chan' = chan \/ (h.id \in pending /\ chan' = [chan EXCEPT ![h.id] = <<h>>])
    <2>1. NewHand
      BY Zenon, <1>7 DEF NewHand
    <2>2. chan \in [Calls -> Seq(Frames)]
      BY Zenon DEF TypeInv, ChanType
    <2>3. ASSUME NEW j \in Calls, NEW m \in Frames, In(m, chan'[j]) PROVE FromChan(j, m)
      <3>1. chan'[j] = chan[j] \/ (j = h.id /\ chan'[j] = <<h>>)
        BY Zenon, <1>7, <2>2
      <3>2. In(m, chan[j]) \/ (j = h.id /\ m = h)
        BY Zenon, <2>3, <3>1, InSmall
      <3>3. QED
        BY Zenon, <1>3, <3>2 DEF FromChan
    <2>4. QED
      BY Zenon, <1>1, <1>4, <2>1, <2>3, SameFrames DEF NewChan
  <1>8. QED
    BY Zenon, <1>5, <1>6, <1>7

LEMMA HandFrames ==
    ASSUME TypeInv, HandOver
    PROVE  NewChan /\ NewHand /\ NewQueue /\ NewWire
  <1>1. /\ actor = "send" /\ actor' = "top" /\ UNCHANGED <<queue, wire>> /\ hand \in Frames
        /\ chan' = chan \/ chan' = [chan EXCEPT ![hand.id] = Append(@, hand)]
        /\ chan \in [Calls -> Seq(Frames)]
    BY Zenon DEF HandOver, rdVars, TypeInv, ActTypes, ChanType
  <1>2. NewHand
    BY Zenon, <1>1 DEF NewHand
  <1>3. ASSUME NEW j \in Calls, NEW m \in Frames, In(m, chan'[j]) PROVE FromChan(j, m)
    <2>1. chan'[j] = chan[j] \/ (j = hand.id /\ chan'[j] = Append(chan[j], hand))
      BY Zenon, <1>1
    <2>2. In(m, chan[j]) \/ (j = hand.id /\ m = hand)
      <3>1. CASE chan'[j] = chan[j]
        BY Zenon, <1>3, <3>1
      <3>2. CASE j = hand.id /\ chan'[j] = Append(chan[j], hand)
        <4>1. In(m, Append(chan[j], hand)) /\ chan[j] \in Seq(Frames)
          BY Zenon, <1>1, <1>3, <3>2
        <4>2. QED
          BY Zenon, <1>1, <3>2, <4>1, InAppend
      <3>3. QED
        BY Zenon, <2>1, <3>1, <3>2
    <2>3. QED
      BY Zenon, <1>1, <2>2 DEF FromChan, Taken
  <1>4. QED
    BY Zenon, <1>1, <1>2, <1>3, SameFrames DEF NewChan

LEMMA StepFrames ==
    ASSUME TypeInv, LifeInv, FrameInv, [Next]_vars
    PROVE  FrameInv'
  <1>1. ASSUME NEW i \in Calls, (\E k \in Kinds : Begin(i, k)) \/ Post(i) \/ Send(i) \/ SendClose(i) \/ ReceiveNone(i)
        PROVE  FrameInv'
    <2>1. UNCHANGED <<wire, queue, hand, actor, chan, sent>>
      BY Zenon, <1>1 DEF Begin, Post, Send, SendClose, ReceiveNone, actVars, rdVars, srvVars
    <2>2. QED
      BY Zenon, <2>1, SameFrames, SameCalls, NewFrames
  <1>2. ASSUME NEW i \in Calls, Receive(i) \/ DropStream(i) \/ DrainTask(i)
        PROVE  FrameInv'
    <2>1. UNCHANGED <<wire, queue, hand, actor, sent>>
      BY Zenon, <1>2 DEF Receive, DropStream, DrainTask, actVars, rdVars, srvVars
    <2>2. QED
      BY Zenon, <1>2, <2>1, ChanFrames, SameFrames, SameCalls, NewFrames
  <1>3. ASSUME NEW i \in Calls, ServerChunk(i) \/ ServerAnswer(i) \/ ServerError(i)
        PROVE  FrameInv'
    <2>1. UNCHANGED <<queue, hand, actor, chan>>
      BY Zenon, <1>3 DEF ServerChunk, ServerAnswer, ServerError, actVars, rdVars
    <2>2. QED
      BY Zenon, <1>3, <2>1, ReplyFits, SameFrames, NewFrames
  <1>4. ASSUME NEW k \in Conns, ReadFrame(k) \/ ReadClosed(k)
        PROVE  FrameInv'
    <2>1. UNCHANGED <<hand, actor, chan, sent>>
      BY Zenon, <1>4 DEF ReadFrame, ReadClosed, actVars, srvVars
    <2>2. QED
      BY Zenon, <1>4, <2>1, ReadFrames, SameFrames, SameCalls, NewFrames
  <1>5. CASE Close \/ UNCHANGED vars \/ \E k \in Conns : ServerCloses(k) \/ ConnDrop(k)
    <2>1. UNCHANGED <<wire, queue, hand, actor, chan, sent>>
      BY Zenon, <1>5 DEF Close, vars, ServerCloses, ConnDrop, Disconnect, actVars, rdVars, srvVars
    <2>2. QED
      BY Zenon, <2>1, SameFrames, SameCalls, NewFrames
  <1>6. CASE Top \/ PumpDone \/ Redial \/ (\E i \in Calls : Pump(i) \/ Requests(i))
    <2>1. UNCHANGED <<wire, queue, hand, chan, sent>>
      BY Zenon, <1>6 DEF Top, PumpDone, Redial, Pump, PumpWrite, PumpDry, PumpCheck, Requests, actVars, rdVars, srvVars
    <2>2. actor' = "send" => actor = "send"
      BY <1>6 DEF Top, PumpDone, Redial, Pump, PumpWrite, PumpDry, PumpCheck, Requests, actVars
    <2>3. QED
      BY Zenon, <2>1, <2>2, SameFrames, SameCalls, NewFrames
  <1>7. CASE (\E i \in Calls : RequestFails(i)) \/ ShutsDown \/ Loses
    <2>1. sent' = sent
      BY Zenon, <1>7 DEF RequestFails, ShutsDown, Loses, srvVars
    <2>2. QED
      BY Zenon, <1>7, <2>1, LossFrames, SameCalls, NewFrames
  <1>8. CASE TakeFrame \/ HandOver
    <2>1. sent' = sent
      BY Zenon, <1>8 DEF TakeFrame, HandOver, srvVars
    <2>2. QED
      BY Zenon, <1>8, <2>1, TakeFrames, HandFrames, SameCalls, NewFrames
  <1>9. CASE Outside
    BY Zenon, <1>1, <1>2, <1>3, <1>4, <1>5, <1>9 DEF Outside
  <1>10. CASE Actor
    BY Zenon, <1>6, <1>7, <1>8, <1>10, TwoRequests, TwoLosses DEF Actor
  <1>11. QED
    BY Zenon, <1>9, <1>10, Steps

LEMMA InitFrames == Init => FrameInv
  <1> SUFFICES ASSUME Init PROVE FrameInv
    OBVIOUS
  <1>1. /\ \A k \in Conns : wire[k] = <<>> /\ queue = <<>> /\ actor # "send"
        /\ \A i \in Calls : chan[i] = <<>> /\ sent[i] = 0
    BY DEF Init
  <1>2. queue = <<>> /\ actor # "send"
    BY DEF Init
  <1>3. QED
    BY Zenon, <1>1, <1>2, InSmall DEF FrameInv, WireFits, QueueFits, HandFits, ChanFits, CallFits

-----------------------------------------------------------------------------
\* The order of a stream's chunks.

\* The frames of stream i, its end being numbered after the z chunks.
Mine(m, i) == m.id = i /\ m.type \in {"stream_chunk", "stream_end"}
Num(m, z) == IF m.type = "stream_chunk" THEN m.seq ELSE z + 1

\* The frames of stream i in w are numbered from b + 1 to s, in order.
Numbering(w, i, z, b, s) ==
    /\ b <= s
    /\ \A p \in 1..Len(w) : Mine(w[p], i) => Num(w[p], z) \in (b + 1)..s
    /\ \A p, q \in 1..Len(w) : Mine(w[p], i) /\ Mine(w[q], i) /\ p < q => Num(w[p], z) < Num(w[q], z)
    /\ \A n \in (b + 1)..s : \E p \in 1..Len(w) : Mine(w[p], i) /\ Num(w[p], z) = n

LEMMA NumType ==
    ASSUME NEW m \in Frames, NEW z \in Nat
    PROVE  Num(m, z) \in Nat
  BY DEF Num, Frames

\* A frame that is taken is the next of its stream, or another's.
LEMMA TailNumbering ==
    ASSUME NEW w \in Seq(Frames), w # <<>>, NEW i, NEW z \in Nat, NEW b \in Nat, NEW s \in Nat, Numbering(w, i, z, b, s)
    PROVE  /\ ~Mine(w[1], i) => Numbering(Tail(w), i, z, b, s)
           /\ Mine(w[1], i) => Num(w[1], z) = b + 1 /\ Numbering(Tail(w), i, z, b + 1, s)
  <1> PICK v : v = Tail(w)
    BY Zenon
  <1>1. /\ Len(w) \in Nat \ {0} /\ Len(v) = Len(w) - 1 /\ 1 \in 1..Len(w)
        /\ \A p \in 1..Len(v) : v[p] = w[p + 1]
        /\ \A p \in 1..Len(w) : w[p] \in Frames
    OBVIOUS
  <1>2. \A p \in 1..Len(w) : Num(w[p], z) \in Nat
    BY Zenon, <1>1, NumType
  <1>3. \A p \in 1..Len(v) : p + 1 \in 2..Len(w) /\ p + 1 \in 1..Len(w)
    BY <1>1
  <1>4. \A p \in 2..Len(w) : p \in 1..Len(w) /\ p - 1 \in 1..Len(v) /\ (p - 1) + 1 = p /\ 1 < p
    BY <1>1
  <1>5. \A p \in 1..Len(w) : p = 1 \/ p \in 2..Len(w)
    BY <1>1
  <1>6. /\ b <= s
        /\ \A p \in 1..Len(w) : Mine(w[p], i) => Num(w[p], z) \in (b + 1)..s
        /\ \A p, q \in 1..Len(w) : Mine(w[p], i) /\ Mine(w[q], i) /\ p < q => Num(w[p], z) < Num(w[q], z)
        /\ \A n \in (b + 1)..s : \E p \in 1..Len(w) : Mine(w[p], i) /\ Num(w[p], z) = n
    BY Zenon DEF Numbering
  <1>7. ASSUME NEW c \in Nat, c <= s,
               \A p \in 2..Len(w) : Mine(w[p], i) => Num(w[p], z) \in (c + 1)..s,
               \A n \in (c + 1)..s : \E p \in 2..Len(w) : Mine(w[p], i) /\ Num(w[p], z) = n
        PROVE  Numbering(v, i, z, c, s)
    <2>1. \A p \in 1..Len(v) : Mine(v[p], i) => Num(v[p], z) \in (c + 1)..s
      BY Zenon, <1>1, <1>3, <1>7
    <2>2. ASSUME NEW p \in 1..Len(v), NEW q \in 1..Len(v), Mine(v[p], i), Mine(v[q], i), p < q
          PROVE  Num(v[p], z) < Num(v[q], z)
      <3>1. p + 1 < q + 1
        BY <1>1, <2>2
      <3>2. v[p] = w[p + 1] /\ v[q] = w[q + 1] /\ p + 1 \in 1..Len(w) /\ q + 1 \in 1..Len(w)
        BY Zenon, <1>1, <1>3
      <3>3. QED
        BY Zenon, <1>6, <2>2, <3>1, <3>2
    <2>3. ASSUME NEW n \in (c + 1)..s
          PROVE  \E p \in 1..Len(v) : Mine(v[p], i) /\ Num(v[p], z) = n
      <3>1. PICK p \in 2..Len(w) : Mine(w[p], i) /\ Num(w[p], z) = n
        BY Zenon, <1>7
      <3>2. p - 1 \in 1..Len(v) /\ v[p - 1] = w[p]
        BY Zenon, <1>1, <1>4
      <3>3. QED
        BY Zenon, <3>1, <3>2
    <2>4. QED
      BY Zenon, <1>7, <2>1, <2>2, <2>3 DEF Numbering
  <1>8. ASSUME ~Mine(w[1], i)
        PROVE  Numbering(v, i, z, b, s)
    <2>1. \A n \in (b + 1)..s : \E p \in 2..Len(w) : Mine(w[p], i) /\ Num(w[p], z) = n
      BY Zenon, <1>5, <1>6, <1>8
    <2>2. QED
      BY Zenon, <1>4, <1>6, <1>7, <2>1
  <1>9. ASSUME Mine(w[1], i)
        PROVE  Num(w[1], z) = b + 1 /\ Numbering(v, i, z, b + 1, s)
    <2>1. Num(w[1], z) \in (b + 1)..s /\ Num(w[1], z) \in Nat
      BY Zenon, <1>1, <1>2, <1>6, <1>9
    <2>2. b + 1 \in (b + 1)..s /\ b + 1 \in Nat /\ b + 1 <= s /\ b + 1 <= Num(w[1], z)
      BY <2>1
    <2>3. PICK p \in 1..Len(w) : Mine(w[p], i) /\ Num(w[p], z) = b + 1
      BY Zenon, <1>6, <2>2
    <2>4. Num(w[1], z) = b + 1
      <3>1. CASE p = 1
        BY Zenon, <2>3, <3>1
      <3>2. CASE p # 1
        <4>1. 1 < p
          BY Zenon, <1>4, <1>5, <3>2
        <4>2. Num(w[1], z) < b + 1
          BY Zenon, <1>1, <1>6, <1>9, <2>3, <4>1
        <4>3. QED
          BY <2>1, <2>2, <4>2
      <3>3. QED
        BY Zenon, <3>1, <3>2
    <2>5. ASSUME NEW q \in 2..Len(w), Mine(w[q], i)
          PROVE  Num(w[q], z) \in ((b + 1) + 1)..s
      <3>1. Num(w[1], z) < Num(w[q], z) /\ Num(w[q], z) \in (b + 1)..s /\ Num(w[q], z) \in Nat
        BY Zenon, <1>1, <1>2, <1>4, <1>6, <1>9, <2>5
      <3>2. QED
        BY <2>4, <3>1
    <2>6. ASSUME NEW n \in ((b + 1) + 1)..s
          PROVE  \E q \in 2..Len(w) : Mine(w[q], i) /\ Num(w[q], z) = n
      <3>1. n \in (b + 1)..s /\ n # b + 1
        BY <2>6
      <3>2. PICK q \in 1..Len(w) : Mine(w[q], i) /\ Num(w[q], z) = n
        BY Zenon, <1>6, <3>1
      <3>3. q # 1
        BY Zenon, <2>4, <3>1, <3>2
      <3>4. QED
        BY Zenon, <1>5, <3>2, <3>3
    <2>7. Numbering(v, i, z, b + 1, s)
      BY Zenon, <1>7, <2>2, <2>5, <2>6
    <2>8. QED
      BY Zenon, <2>4, <2>7
  <1>10. QED
    BY Zenon, <1>8, <1>9

\* A frame that is added has the next number, or does not count.
LEMMA AppendNumbering ==
    ASSUME NEW w \in Seq(Frames), NEW m \in Frames, NEW i, NEW z \in Nat, NEW b \in Nat, NEW s \in Nat, NEW t \in Nat,
           Numbering(w, i, z, b, s),
           (t = s /\ ~Mine(m, i)) \/ (t = s + 1 /\ Mine(m, i) /\ Num(m, z) = s + 1)
    PROVE  Numbering(Append(w, m), i, z, b, t)
  <1> PICK v : v = Append(w, m)
    BY Zenon
  <1> PICK e : e = Len(w) + 1
    BY Zenon
  <1>1. /\ e \in Nat /\ Len(v) = e /\ e \in 1..Len(v) /\ v[e] = m
        /\ \A p \in 1..Len(w) : p \in 1..Len(v) /\ v[p] = w[p]
        /\ \A p \in 1..Len(w) : p < e
        /\ \A p \in 1..Len(v) : ~(e < p)
        /\ \A p \in 1..Len(v) : p \in 1..Len(w) \/ p = e
    OBVIOUS
  <1>2. /\ b <= s
        /\ \A p \in 1..Len(w) : Mine(w[p], i) => Num(w[p], z) \in (b + 1)..s
        /\ \A p, q \in 1..Len(w) : Mine(w[p], i) /\ Mine(w[q], i) /\ p < q => Num(w[p], z) < Num(w[q], z)
        /\ \A n \in (b + 1)..s : \E p \in 1..Len(w) : Mine(w[p], i) /\ Num(w[p], z) = n
    BY Zenon DEF Numbering
  <1>3. /\ b <= t /\ \A n \in (b + 1)..s : n \in (b + 1)..t
        /\ Mine(m, i) => Num(m, z) \in (b + 1)..t /\ \A n \in (b + 1)..s : n < Num(m, z)
        /\ \A n \in (b + 1)..t : n \in (b + 1)..s \/ (n = Num(m, z) /\ Mine(m, i))
    <2>1. b <= s
      BY Zenon, <1>2
    <2>2. CASE t = s /\ ~Mine(m, i)
      BY Zenon, <2>1, <2>2
    <2>3. CASE t = s + 1 /\ Mine(m, i) /\ Num(m, z) = s + 1
      <3>1. /\ b <= s + 1 /\ s + 1 \in (b + 1)..(s + 1)
            /\ \A n \in (b + 1)..s : n \in (b + 1)..(s + 1) /\ n < s + 1
            /\ \A n \in (b + 1)..(s + 1) : n \in (b + 1)..s \/ n = s + 1
        BY <2>1
      <3>2. QED
        BY Zenon, <2>3, <3>1
    <2>4. QED
      BY Zenon, <2>2, <2>3
  <1>4. ASSUME NEW p \in 1..Len(v), Mine(v[p], i)
        PROVE  Num(v[p], z) \in (b + 1)..t
    <2>1. CASE p = e
      BY Zenon, <1>1, <1>3, <1>4, <2>1
    <2>2. CASE p \in 1..Len(w)
      BY Zenon, <1>1, <1>2, <1>3, <1>4, <2>2
    <2>3. QED
      BY Zenon, <1>1, <2>1, <2>2
  <1>5. ASSUME NEW p \in 1..Len(v), NEW q \in 1..Len(v), Mine(v[p], i), Mine(v[q], i), p < q
        PROVE  Num(v[p], z) < Num(v[q], z)
    <2>1. p # e
      BY Zenon, <1>1, <1>5
    <2>2. p \in 1..Len(w) /\ v[p] = w[p] /\ Num(w[p], z) \in (b + 1)..s
      BY Zenon, <1>1, <1>2, <1>5, <2>1
    <2>3. CASE q = e
      BY Zenon, <1>1, <1>3, <1>5, <2>2, <2>3
    <2>4. CASE q \in 1..Len(w)
      BY Zenon, <1>1, <1>2, <1>5, <2>2, <2>4
    <2>5. QED
      BY Zenon, <1>1, <2>3, <2>4
  <1>6. ASSUME NEW n \in (b + 1)..t
        PROVE  \E p \in 1..Len(v) : Mine(v[p], i) /\ Num(v[p], z) = n
    <2>1. CASE n \in (b + 1)..s
      <3>1. PICK p \in 1..Len(w) : Mine(w[p], i) /\ Num(w[p], z) = n
        BY Zenon, <1>2, <2>1
      <3>2. QED
        BY Zenon, <1>1, <3>1
    <2>2. CASE n = Num(m, z) /\ Mine(m, i)
      BY Zenon, <1>1, <2>2
    <2>3. QED
      BY Zenon, <1>3, <2>1, <2>2
  <1>7. QED
    BY Zenon, <1>3, <1>4, <1>5, <1>6 DEF Numbering

\* Without frames of the stream there is nothing to number.
LEMMA NoneNumbering ==
    ASSUME NEW w, NEW i, NEW z, NEW b \in Nat, \A p \in 1..Len(w) : ~Mine(w[p], i)
    PROVE  Numbering(w, i, z, b, b)
  <1>1. b <= b /\ \A n \in (b + 1)..b : FALSE
    OBVIOUS
  <1>2. QED
    BY Zenon, <1>1 DEF Numbering

\* What the end would be numbered matters only to the end.
LEMMA SameNumbering ==
    ASSUME NEW w, NEW i, NEW z, NEW y, NEW b, NEW s, Numbering(w, i, z, b, s),
           \A p \in 1..Len(w) : Mine(w[p], i) => Num(w[p], y) = Num(w[p], z)
    PROVE  Numbering(w, i, y, b, s)
  <1>1. /\ b <= s
        /\ \A p \in 1..Len(w) : Mine(w[p], i) => Num(w[p], z) \in (b + 1)..s
        /\ \A p, q \in 1..Len(w) : Mine(w[p], i) /\ Mine(w[q], i) /\ p < q => Num(w[p], z) < Num(w[q], z)
        /\ \A n \in (b + 1)..s : \E p \in 1..Len(w) : Mine(w[p], i) /\ Num(w[p], z) = n
    BY Zenon DEF Numbering
  <1>2. \A p \in 1..Len(w) : Mine(w[p], i) => Num(w[p], y) \in (b + 1)..s
    BY Zenon, <1>1
  <1>3. ASSUME NEW p \in 1..Len(w), NEW q \in 1..Len(w), Mine(w[p], i), Mine(w[q], i), p < q
        PROVE  Num(w[p], y) < Num(w[q], y)
    <2>1. Num(w[p], z) < Num(w[q], z) /\ Num(w[p], y) = Num(w[p], z) /\ Num(w[q], y) = Num(w[q], z)
      BY Zenon, <1>1, <1>3
    <2>2. QED
      BY Zenon, <2>1
  <1>4. \A n \in (b + 1)..s : \E p \in 1..Len(w) : Mine(w[p], i) /\ Num(w[p], y) = n
    BY Zenon, <1>1
  <1>5. QED
    BY Zenon, <1>1, <1>2, <1>3, <1>4 DEF Numbering

\* The chunks a call has been handed, and those the actor is about to hand it.
Handed(i) == IF hand.id = i THEN 1 ELSE 0
Base(i) == (recv[i] + Len(chan[i])) + Handed(i)

\* No more is received than was sent ...
RecvInv(i) == recv[i] <= sent[i]

\* ... what the caller is about to receive goes on where it is ...
ChanOrder(i) ==
    outcome[i] = "none" => \A n \in 1..Len(chan[i]) : Mine(chan[i][n], i) => Num(chan[i][n], sent[i]) = recv[i] + n

\* ... what the actor has in hand goes on where the channel ends ...
HandOrder(i) ==
    outcome[i] = "none" /\ Mine(hand, i) => Num(hand, sent[i]) = (recv[i] + Len(chan[i])) + 1

\* ... and while the call is pending, what the reader has read and what is on the wire go on
\* from there, up to what the server has sent if it can send more.
Flows(i, b) ==
    \E c \in Nat, s \in Nat :
        /\ Numbering(queue, i, sent[i], b, c)
        /\ Numbering(wire[srv[i]], i, sent[i], c, s)
        /\ Reachable(i) => s = sent[i]
Streaming(i) == i \in pending /\ srv[i] # 0 /\ outcome[i] = "none"
FlowInv(i) == Streaming(i) => \E b \in Nat : b = Base(i) /\ Flows(i, b)

CallOrder(i) == RecvInv(i) /\ ChanOrder(i) /\ HandOrder(i) /\ FlowInv(i)
OrderInv == \A i \in Calls : CallOrder(i)

LEMMA OrderTypes ==
    ASSUME TypeInv, NEW i \in Calls
    PROVE  /\ recv[i] \in Nat /\ sent[i] \in Nat /\ chan[i] \in Seq(Frames) /\ Len(chan[i]) \in Nat
           /\ recv[i] + Len(chan[i]) \in Nat /\ Handed(i) \in Nat /\ Base(i) \in Nat
           /\ hand \in Frames /\ queue \in Seq(Frames) /\ \A k \in Conns : wire[k] \in Seq(Frames)
  <1>1. /\ recv[i] \in Nat /\ sent[i] \in 0..MaxOut /\ chan[i] \in Seq(Frames)
        /\ hand \in Frames /\ queue \in Seq(Frames) /\ \A k \in Conns : wire[k] \in Seq(Frames)
    BY Zenon DEF TypeInv, AppTypes, SrvTypes, ChanType, ActTypes, ReadTypes, WireType
  <1>2. sent[i] \in Nat
    BY <1>1, RustClientAssumption
  <1>3. Len(chan[i]) \in Nat
    BY Zenon, <1>1, Empties
  <1>4. Handed(i) \in Nat
    BY DEF Handed
  <1>5. recv[i] + Len(chan[i]) \in Nat /\ (recv[i] + Len(chan[i])) + Handed(i) \in Nat
    BY <1>1, <1>3, <1>4
  <1>6. QED
    BY Zenon, <1>1, <1>2, <1>3, <1>4, <1>5 DEF Base

\* A call nothing happens to.
Same(i) ==
    /\ recv'[i] = recv[i] /\ chan'[i] = chan[i] /\ sent'[i] = sent[i] /\ srv'[i] = srv[i]
    /\ outcome'[i] = "none" => outcome[i] = "none"

LEMMA CallMoved ==
    ASSUME NEW i \in Calls, CallOrder(i), Same(i), hand' = hand \/ (hand.id # i /\ hand'.id # i),
           i \in pending' => i \in pending,
           ASSUME NEW b \in Nat, Streaming(i), Flows(i, b), i \in pending' PROVE Flows(i, b)'
    PROVE  CallOrder(i)'
  <1>1. RecvInv(i) /\ ChanOrder(i) /\ HandOrder(i) /\ FlowInv(i)
    BY Zenon DEF CallOrder
  <1>2. recv'[i] = recv[i] /\ chan'[i] = chan[i] /\ sent'[i] = sent[i] /\ srv'[i] = srv[i]
    BY Zenon DEF Same
  <1>3. outcome'[i] = "none" => outcome[i] = "none"
    BY Zenon DEF Same
  <1>4. RecvInv(i)'
    BY Zenon, <1>1, <1>2 DEF RecvInv
  <1>5. ChanOrder(i)'
    BY Zenon, <1>1, <1>2, <1>3 DEF ChanOrder
  <1>6. HandOrder(i)'
    BY Zenon, <1>1, <1>2, <1>3 DEF HandOrder, Mine
  <1>7. Base(i)' = Base(i)
    BY Zenon, <1>2 DEF Base, Handed
  <1>8. Streaming(i)' => Streaming(i) /\ i \in pending'
    BY Zenon, <1>2, <1>3 DEF Streaming
  <1>9. FlowInv(i)'
    BY Zenon, <1>1, <1>7, <1>8 DEF FlowInv
  <1>10. QED
    BY Zenon, <1>4, <1>5, <1>6, <1>9 DEF CallOrder

LEMMA CallKept ==
    ASSUME NEW i \in Calls, CallOrder(i), Same(i), hand' = hand \/ (hand.id # i /\ hand'.id # i),
           i \in pending' => /\ i \in pending /\ queue' = queue /\ wire'[srv[i]] = wire[srv[i]]
                             /\ Reachable(i)' => Reachable(i)
    PROVE  CallOrder(i)'
  <1>1. sent'[i] = sent[i] /\ srv'[i] = srv[i]
    BY Zenon DEF Same
  <1>2. ASSUME NEW b \in Nat, Flows(i, b), i \in pending' PROVE Flows(i, b)'
    <2>1. PICK c \in Nat, s \in Nat : /\ Numbering(queue, i, sent[i], b, c)
                                      /\ Numbering(wire[srv[i]], i, sent[i], c, s)
                                      /\ Reachable(i) => s = sent[i]
      BY Zenon, <1>2 DEF Flows
    <2>2. /\ Numbering(queue', i, sent'[i], b, c) /\ Numbering(wire'[srv'[i]], i, sent'[i], c, s)
          /\ Reachable(i)' => s = sent'[i]
      BY Zenon, <1>1, <1>2, <2>1
    <2>3. QED
      BY Zenon, <2>2 DEF Flows
  <1>3. QED
    BY Zenon, <1>2, CallMoved

\* The connections of the server's requests do not come back.
LEMMA ReachKept ==
    ASSUME TypeInv, NEW i \in Calls, srv'[i] = srv[i], srvDone'[i] = srvDone[i],
           \/ link' = link \/ link' = HalfClosed
           \/ \E k \in Conns : link' = [link EXCEPT ![k] = "down"]
    PROVE  Reachable(i)' => Reachable(i)
  <1>1. /\ srv[i] \in {0} \cup Conns /\ link \in [Conns -> {"new", "up", "half", "down"}] /\ writer \in {0} \cup Conns
    BY Zenon DEF TypeInv, SrvTypes, LinkTypes, ActTypes
  <1>2. ASSUME NEW k \in Conns, link'[k] \in {"up", "half"} PROVE link[k] \in {"up", "half"}
    <2>1. CASE link' = link
      BY Zenon, <1>2, <2>1
    <2>2. CASE link' = HalfClosed
      BY <1>1, <1>2, <2>2 DEF HalfClosed
    <2>3. CASE \E j \in Conns : link' = [link EXCEPT ![j] = "down"]
      BY <1>1, <1>2, <2>3
    <2>4. QED
      BY Zenon, <2>1, <2>2, <2>3
  <1>3. srv[i] # 0 => srv[i] \in Conns
    BY Zenon, <1>1
  <1>4. QED
    BY Zenon, <1>2, <1>3 DEF Reachable

\* A step that touches no frame.
LEMMA QuietOrder ==
    ASSUME TypeInv, OrderInv, UNCHANGED <<recv, chan, sent, srv, srvDone, hand, queue, wire>>,
           \A i \in Calls : outcome'[i] = "none" => outcome[i] = "none",
           pending' \subseteq pending,
           \/ link' = link \/ link' = HalfClosed
           \/ \E k \in Conns : link' = [link EXCEPT ![k] = "down"]
    PROVE  OrderInv'
  <1>1. ASSUME NEW i \in Calls PROVE CallOrder(i)'
    <2>1. Same(i) /\ CallOrder(i)
      BY Zenon DEF Same, OrderInv
    <2>2. Reachable(i)' => Reachable(i)
      BY Zenon, ReachKept
    <2>3. QED
      BY Zenon, <2>1, <2>2, CallKept
  <1>2. QED
    BY Zenon, <1>1 DEF OrderInv

\* A call that is over.
LEMMA OverOrder ==
    ASSUME NEW i \in Calls, CallOrder(i), recv'[i] = recv[i], sent'[i] = sent[i], outcome'[i] # "none"
    PROVE  CallOrder(i)'
  BY Zenon DEF CallOrder, RecvInv, ChanOrder, HandOrder, FlowInv, Streaming

\* What happens to one call leaves the others as they are.
LEMMA ApartOrder ==
    ASSUME TypeInv, OrderInv, NEW j \in Calls, UNCHANGED <<sent, srv, srvDone, hand, queue, wire, pending, link>>,
           \A i \in Calls : i # j => recv'[i] = recv[i] /\ chan'[i] = chan[i] /\ outcome'[i] = outcome[i],
           CallOrder(j)'
    PROVE  OrderInv'
  <1>1. ASSUME NEW i \in Calls, i # j PROVE CallOrder(i)'
    <2>1. Same(i) /\ CallOrder(i)
      BY Zenon, <1>1 DEF Same, OrderInv
    <2>2. Reachable(i)' => Reachable(i)
      BY Zenon, ReachKept
    <2>3. QED
      BY Zenon, <2>1, <2>2, CallKept
  <1>2. QED
    BY Zenon, <1>1 DEF OrderInv

\* What a caller receives: the next chunk, or an end after all of them.
LEMMA Received ==
    ASSUME TypeInv, FrameInv, OrderInv, NEW i \in Calls, chan[i] # <<>>, outcome[i] = "none"
    PROVE  /\ Head(chan[i]).type = "stream_chunk" => recv[i] + 1 <= sent[i]
           /\ Head(chan[i]).type = "stream_end" => srvDone[i] = TRUE /\ recv[i] = sent[i]
           /\ Head(chan[i]).type = "response" => srvDone[i] = TRUE /\ recv[i] = sent[i]
  <1>1. recv[i] \in Nat /\ sent[i] \in Nat /\ chan[i] \in Seq(Frames)
    BY Zenon, OrderTypes
  <1>2. PICK h \in Frames : h = Head(chan[i]) /\ h = chan[i][1] /\ 1 \in 1..Len(chan[i]) /\ In(h, chan[i])
    BY Zenon, <1>1, InTail, TailOf
  <1>3. h.id = i /\ (h.type = "lost" \/ Fits(h))
    BY Zenon, <1>2 DEF FrameInv, ChanFits
  <1>4. Mine(h, i) => Num(h, sent[i]) = recv[i] + 1
    BY Zenon, <1>2 DEF OrderInv, CallOrder, ChanOrder
  <1>5. CASE h.type = "stream_chunk"
    <2>1. Fits(h) /\ Mine(h, i)
      BY Zenon, <1>3, <1>5 DEF Mine
    <2>2. h.seq \in 1..sent[i]
      BY Zenon, <1>3, <1>5, <2>1 DEF Fits
    <2>3. h.seq = recv[i] + 1
      BY Zenon, <1>4, <1>5, <2>1 DEF Num
    <2>4. recv[i] + 1 <= sent[i]
      BY <1>1, <2>2, <2>3
    <2>5. QED
      BY Zenon, <1>2, <1>5, <2>4
  <1>6. CASE h.type = "stream_end"
    <2>1. Fits(h) /\ Mine(h, i)
      BY Zenon, <1>3, <1>6 DEF Mine
    <2>2. srvDone[i] = TRUE
      BY Zenon, <1>3, <1>6, <2>1 DEF Fits
    <2>3. sent[i] + 1 = recv[i] + 1
      BY Zenon, <1>4, <1>6, <2>1 DEF Num
    <2>4. recv[i] = sent[i]
      BY <1>1, <2>3
    <2>5. QED
      BY Zenon, <1>2, <1>6, <2>2, <2>4
  <1>7. CASE h.type = "response"
    <2>1. Fits(h)
      BY Zenon, <1>3, <1>7
    <2>2. srvDone[i] = TRUE /\ ~IsStream(i)
      BY Zenon, <1>3, <1>7, <2>1 DEF Fits
    <2>3. sent[i] = 0 /\ recv[i] <= sent[i]
      BY Zenon, <2>2 DEF FrameInv, CallFits, OrderInv, CallOrder, RecvInv
    <2>4. recv[i] = sent[i]
      BY <1>1, <2>3
    <2>5. QED
      BY Zenon, <1>2, <1>7, <2>2, <2>4
  <1>8. CASE h.type \notin {"stream_chunk", "stream_end", "response"}
    BY Zenon, <1>2, <1>8
  <1>9. QED
    BY Zenon, <1>5, <1>6, <1>7, <1>8

\* A chunk that is received moves from one count to the other.
LEMMA Moved ==
    ASSUME NEW r \in Nat, NEW l \in Nat
    PROVE  (r + 1) + l = r + (l + 1)
  OBVIOUS

LEMMA ChunkOrder ==
    ASSUME TypeInv, FrameInv, OrderInv, NEW i \in Calls, chan[i] # <<>>, outcome[i] = "none",
           Head(chan[i]).type = "stream_chunk", chan'[i] = Tail(chan[i]), recv'[i] = recv[i] + 1,
           outcome'[i] = outcome[i], UNCHANGED <<sent, srv, srvDone, hand, queue, wire, pending, link>>
    PROVE  CallOrder(i)'
  <1>1. /\ recv[i] \in Nat /\ sent[i] \in Nat /\ chan[i] \in Seq(Frames) /\ Len(chan[i]) \in Nat
        /\ recv[i] + Len(chan[i]) \in Nat /\ Base(i) \in Nat
    BY Zenon, OrderTypes
  <1>2. Len(chan'[i]) \in Nat /\ Len(chan[i]) = Len(chan'[i]) + 1
    BY Zenon, <1>1, TailOf
  <1>3. RecvInv(i)'
    BY Zenon, Received DEF RecvInv
  <1>4. recv'[i] + Len(chan'[i]) = recv[i] + Len(chan[i])
    <2>1. PICK r \in Nat, l \in Nat : r = recv[i] /\ l = Len(chan'[i])
      BY Zenon, <1>1, <1>2
    <2>2. recv'[i] = r + 1 /\ Len(chan[i]) = l + 1
      BY Zenon, <1>2, <2>1
    <2>3. (r + 1) + l = r + (l + 1)
      BY Zenon, Moved
    <2>4. QED
      BY Zenon, <2>1, <2>2, <2>3
  <1>5. ChanOrder(i)'
    <2>1. ASSUME NEW n \in 1..Len(chan'[i]), Mine(chan'[i][n], i) PROVE Num(chan'[i][n], sent[i]) = recv'[i] + n
      <3>1. n + 1 \in 1..Len(chan[i]) /\ chan'[i][n] = chan[i][n + 1]
        BY Zenon, <1>1, TailElem
      <3>2. Num(chan[i][n + 1], sent[i]) = recv[i] + (n + 1)
        BY Zenon, <2>1, <3>1 DEF OrderInv, CallOrder, ChanOrder
      <3>3. n \in Nat
        BY <1>2
      <3>4. recv[i] + (n + 1) = recv'[i] + n
        BY <1>1, <3>3
      <3>5. QED
        BY Zenon, <3>1, <3>2, <3>4
    <2>2. QED
      BY Zenon, <2>1 DEF ChanOrder
  <1>6. HandOrder(i)'
    BY Zenon, <1>4 DEF OrderInv, CallOrder, HandOrder
  <1>7. Base(i)' = Base(i)
    BY Zenon, <1>4 DEF Base, Handed
  <1>8. FlowInv(i)'
    <2>1. Streaming(i)' => Streaming(i)
      BY Zenon DEF Streaming
    <2>2. Reachable(i)' <=> Reachable(i)
      BY Zenon DEF Reachable
    <2>3. \A b \in Nat : Flows(i, b) => Flows(i, b)'
      BY Zenon, <2>2 DEF Flows
    <2>4. QED
      BY Zenon, <1>7, <2>1, <2>3 DEF OrderInv, CallOrder, FlowInv
  <1>9. QED
    BY Zenon, <1>3, <1>5, <1>6, <1>8 DEF CallOrder

\* The callers.
LEMMA CallerOrder ==
    ASSUME TypeInv, FrameInv, OrderInv, NEW i \in Calls, Receive(i) \/ DropStream(i)
    PROVE  OrderInv'
  <1>1. /\ UNCHANGED <<sent, srv, srvDone, hand, queue, wire, pending, link>>
        /\ outcome[i] = "none"
    BY Zenon DEF Receive, DropStream, srvVars, actVars, rdVars, netVars
  <1>2. /\ recv \in [Calls -> Nat] /\ chan \in [Calls -> Seq(Frames)]
        /\ outcome \in [Calls -> {"none", "answered", "end", "remote", "lost", "silent", "dropped"}]
    BY Zenon DEF TypeInv, AppTypes, ChanType
  <1>3. CASE Receive(i) /\ Head(chan[i]).type = "stream_chunk"
    <2>1. /\ recv' = [recv EXCEPT ![i] = @ + 1] /\ outcome' = outcome /\ chan' = [chan EXCEPT ![i] = Tail(@)]
          /\ chan[i] # <<>>
      BY Zenon, <1>3 DEF Receive
    <2>2. recv'[i] = recv[i] + 1 /\ chan'[i] = Tail(chan[i])
      BY Zenon, <1>2, <2>1
    <2>3. \A j \in Calls : j # i => recv'[j] = recv[j] /\ chan'[j] = chan[j]
      BY Zenon, <1>2, <2>1
    <2>4. CallOrder(i)'
      BY Zenon, <1>1, <1>3, <2>1, <2>2, ChunkOrder
    <2>5. QED
      BY Zenon, <1>1, <2>1, <2>3, <2>4, ApartOrder
  <1>4. CASE DropStream(i) \/ (Receive(i) /\ Head(chan[i]).type # "stream_chunk")
    <2>1. PICK o, s : /\ recv' = recv /\ o # "none" /\ outcome' = [outcome EXCEPT ![i] = o]
                      /\ chan' = [chan EXCEPT ![i] = s]
      BY Zenon, <1>4 DEF Receive, DropStream, End
    <2>2. outcome'[i] # "none"
      BY Zenon, <1>2, <2>1
    <2>3. \A j \in Calls : j # i => recv'[j] = recv[j] /\ chan'[j] = chan[j] /\ outcome'[j] = outcome[j]
      BY Zenon, <1>2, <2>1
    <2>4. CallOrder(i)'
      BY Zenon, <1>1, <2>1, <2>2, OverOrder DEF OrderInv
    <2>5. QED
      BY Zenon, <1>1, <2>3, <2>4, ApartOrder
  <1>5. QED
    BY Zenon, <1>3, <1>4

\* What is told of a loss is no chunk.
LEMMA TaskOrder ==
    ASSUME TypeInv, LifeInv, OrderInv, NEW i \in Calls, DrainTask(i)
    PROVE  OrderInv'
  <1>1. UNCHANGED <<sent, srv, srvDone, hand, queue, wire, pending, link, recv, outcome>> /\ i \in errs
    BY Zenon DEF DrainTask, appVars, srvVars, actVars, rdVars, netVars
  <1>2. i \notin pending /\ hand.id # i
    BY Zenon, <1>1 DEF LifeInv, ErrsInv
  <1>3. chan \in [Calls -> Seq(Frames)] /\ chan[i] \in Seq(Frames) /\ Frame(i, "lost", 0) \in Frames
    <2>1. Frame(i, "lost", 0) \in Frames
      BY IdTypes, FrameType DEF FrameTypes
    <2>2. QED
      BY Zenon, <2>1 DEF TypeInv, ChanType
  <1>4. chan' = chan \/ chan' = [chan EXCEPT ![i] = Append(@, Frame(i, "lost", 0))]
    BY Zenon DEF DrainTask
  <1>5. \A j \in Calls : j # i => chan'[j] = chan[j]
    BY Zenon, <1>3, <1>4
  <1>6. chan'[i] = chan[i] \/ chan'[i] = Append(chan[i], Frame(i, "lost", 0))
    BY Zenon, <1>3, <1>4
  <1>7. ~Mine(Frame(i, "lost", 0), i)
    BY DEF Mine, Frame
  <1>8. ChanOrder(i) /\ RecvInv(i)
    BY Zenon DEF OrderInv, CallOrder
  <1>9. ASSUME NEW n \in 1..Len(chan'[i]), Mine(chan'[i][n], i) PROVE n \in 1..Len(chan[i]) /\ chan'[i][n] = chan[i][n]
    <2>1. CASE chan'[i] = chan[i]
      BY Zenon, <1>9, <2>1
    <2>2. CASE chan'[i] = Append(chan[i], Frame(i, "lost", 0))
      <3>0. PICK l \in Frames : l = Frame(i, "lost", 0)
        BY Zenon, <1>3
      <3>1. PICK s : s = chan'[i] /\ n \in 1..Len(s) /\ s = Append(chan[i], l)
        BY Zenon, <2>2, <3>0
      <3>2. (n \in 1..Len(chan[i]) /\ s[n] = chan[i][n]) \/ s[n] = Frame(i, "lost", 0)
        BY <1>3, <3>0, <3>1, AppendElem
      <3>3. QED
        BY Zenon, <1>7, <1>9, <3>1, <3>2
    <2>3. QED
      BY Zenon, <1>6, <2>1, <2>2
  <1>10. ChanOrder(i)'
    BY Zenon, <1>1, <1>8, <1>9 DEF ChanOrder
  <1>11. HandOrder(i)' /\ FlowInv(i)' /\ RecvInv(i)'
    BY Zenon, <1>1, <1>2, <1>8 DEF HandOrder, Mine, FlowInv, Streaming, RecvInv
  <1>12. QED
    BY Zenon, <1>1, <1>5, <1>10, <1>11, ApartOrder DEF CallOrder

\* Only what flows changes.
LEMMA FlowOrder ==
    ASSUME TypeInv, OrderInv, NEW i \in Calls, UNCHANGED <<recv, chan, outcome, hand, pending>>,
           sent'[i] = sent[i], srv'[i] = srv[i],
           ASSUME NEW b \in Nat, Streaming(i), Flows(i, b) PROVE Flows(i, b)'
    PROVE  CallOrder(i)'
  <1>1. Same(i) /\ CallOrder(i)
    BY Zenon DEF Same, OrderInv
  <1>2. QED
    BY Zenon, <1>1, CallMoved

\* The frames on a wire belong to calls made on its connection.
LEMMA OnWire ==
    ASSUME TypeInv, FrameInv, NEW k \in Conns, NEW i, wire[k] # <<>>, Mine(Head(wire[k]), i)
    PROVE  srv[i] = k
  <1>1. wire[k] \in Seq(Frames)
    BY Zenon DEF TypeInv, WireType
  <1>2. In(Head(wire[k]), wire[k]) /\ Head(wire[k]) \in Frames
    BY Zenon, <1>1, InTail, TailOf
  <1>3. QED
    BY Zenon, <1>2 DEF FrameInv, WireFits, Mine

LEMMA ReadFrameFlow ==
    ASSUME TypeInv, FrameInv, NEW k \in Conns, ReadFrame(k), actor # "exited",
           NEW i \in Calls, NEW b \in Nat, srv[i] \in Conns, Flows(i, b)
    PROVE  Flows(i, b)'
  <1>1. /\ wire[k] # <<>> /\ wire' = [wire EXCEPT ![k] = Tail(@)] /\ queue' = Append(queue, Head(wire[k]))
        /\ UNCHANGED <<sent, srv, srvDone, link>>
    BY Zenon DEF ReadFrame, srvVars, netVars
  <1>2. wire \in [Conns -> Seq(Frames)] /\ queue \in Seq(Frames) /\ wire[k] \in Seq(Frames) /\ sent[i] \in Nat
    BY Zenon, OrderTypes DEF TypeInv, WireType
  <1>3. PICK h \in Frames : h = Head(wire[k]) /\ h = wire[k][1]
    BY Zenon, <1>1, <1>2, TailOf
  <1>4. queue' = Append(queue, h) /\ wire'[k] = Tail(wire[k]) /\ \A j \in Conns : j # k => wire'[j] = wire[j]
    BY Zenon, <1>1, <1>2, <1>3
  <1>5. PICK c \in Nat, s \in Nat : /\ Numbering(queue, i, sent[i], b, c)
                                    /\ Numbering(wire[srv[i]], i, sent[i], c, s)
                                    /\ Reachable(i) => s = sent[i]
    BY Zenon DEF Flows
  <1>6. Reachable(i)' => s = sent'[i]
    BY Zenon, <1>1, <1>5 DEF Reachable
  <1>7. CASE Mine(h, i)
    <2>1. srv[i] = k
      BY Zenon, <1>1, <1>3, <1>7, OnWire
    <2>2. Num(h, sent[i]) = c + 1 /\ Numbering(wire'[k], i, sent[i], c + 1, s)
      <3>1. PICK w \in Seq(Frames) : w = wire[k] /\ w # <<>> /\ wire'[k] = Tail(w) /\ h = w[1]
        BY Zenon, <1>1, <1>2, <1>3, <1>4
      <3>2. Numbering(w, i, sent[i], c, s) /\ Mine(w[1], i)
        BY Zenon, <1>5, <1>7, <2>1, <3>1
      <3>3. Num(w[1], sent[i]) = c + 1 /\ Numbering(Tail(w), i, sent[i], c + 1, s)
        BY Zenon, <1>2, <3>1, <3>2, TailNumbering
      <3>4. QED
        BY Zenon, <3>1, <3>3
    <2>3. c + 1 \in Nat
      OBVIOUS
    <2>4. Numbering(queue', i, sent[i], b, c + 1)
      BY Zenon, <1>2, <1>4, <1>5, <1>7, <2>2, <2>3, AppendNumbering
    <2>5. QED
      BY Zenon, <1>1, <1>6, <2>1, <2>2, <2>3, <2>4 DEF Flows
  <1>8. CASE ~Mine(h, i)
    <2>1. Numbering(queue', i, sent[i], b, c)
      BY Zenon, <1>2, <1>4, <1>5, <1>8, AppendNumbering
    <2>2. Numbering(wire'[srv[i]], i, sent[i], c, s)
      <3>1. CASE srv[i] = k
        BY Zenon, <1>1, <1>2, <1>3, <1>4, <1>5, <1>8, <3>1, TailNumbering
      <3>2. CASE srv[i] # k
        BY Zenon, <1>4, <1>5, <3>2
      <3>3. QED
        BY Zenon, <3>1, <3>2
    <2>3. QED
      BY Zenon, <1>1, <1>6, <2>1, <2>2 DEF Flows
  <1>9. QED
    BY Zenon, <1>7, <1>8

LEMMA ReadClosedFlow ==
    ASSUME TypeInv, NEW k \in Conns, ReadClosed(k), actor # "exited",
           NEW i \in Calls, NEW b \in Nat, srv[i] \in Conns, Flows(i, b)
    PROVE  Flows(i, b)'
  <1>1. /\ wire' = [wire EXCEPT ![k] = <<>>] /\ queue' = Append(queue, Closed(k)) /\ link[k] = "down"
        /\ UNCHANGED <<sent, srv, srvDone, link>>
    BY Zenon DEF ReadClosed, srvVars, netVars
  <1>2. wire \in [Conns -> Seq(Frames)] /\ queue \in Seq(Frames) /\ sent[i] \in Nat
    BY Zenon, OrderTypes DEF TypeInv, WireType
  <1>3. PICK h \in Frames : h = Closed(k) /\ ~Mine(h, i)
    <2>1. Closed(k) \in Frames /\ Closed(k).type = "closed"
      BY IdTypes, FrameType DEF FrameTypes, Closed
    <2>2. QED
      BY Zenon, <2>1 DEF Mine
  <1>4. queue' = Append(queue, h) /\ wire'[k] = <<>> /\ \A j \in Conns : j # k => wire'[j] = wire[j]
    BY Zenon, <1>1, <1>2, <1>3
  <1>5. PICK c \in Nat, s \in Nat : /\ Numbering(queue, i, sent[i], b, c)
                                    /\ Numbering(wire[srv[i]], i, sent[i], c, s)
                                    /\ Reachable(i) => s = sent[i]
    BY Zenon DEF Flows
  <1>6. Numbering(queue', i, sent[i], b, c)
    BY Zenon, <1>2, <1>3, <1>4, <1>5, AppendNumbering
  <1>7. CASE srv[i] = k
    <2>1. ~Reachable(i)'
      BY Zenon, <1>1, <1>7 DEF Reachable
    <2>2. Numbering(wire'[k], i, sent[i], c, c)
      BY Zenon, <1>4, EmptyOf, NoneNumbering
    <2>3. QED
      BY Zenon, <1>1, <1>6, <1>7, <2>1, <2>2 DEF Flows
  <1>8. CASE srv[i] # k
    <2>1. wire'[srv[i]] = wire[srv[i]] /\ (Reachable(i)' => s = sent'[i])
      BY Zenon, <1>1, <1>4, <1>5, <1>8 DEF Reachable
    <2>2. QED
      BY Zenon, <1>1, <1>5, <1>6, <2>1 DEF Flows
  <1>9. QED
    BY Zenon, <1>7, <1>8

LEMMA ReadOrder ==
    ASSUME TypeInv, ActorInv, FrameInv, OrderInv, NEW k \in Conns, ReadFrame(k) \/ ReadClosed(k)
    PROVE  OrderInv'
  <1>1. UNCHANGED <<recv, chan, outcome, hand, pending, sent, srv>>
    BY Zenon DEF ReadFrame, ReadClosed, appVars, actVars, srvVars
  <1>2. ASSUME NEW i \in Calls PROVE CallOrder(i)'
    <2>1. ASSUME NEW b \in Nat, Streaming(i), Flows(i, b) PROVE Flows(i, b)'
      <3>1. srv[i] \in {0} \cup Conns
        BY Zenon DEF TypeInv, SrvTypes
      <3>2. srv[i] \in Conns /\ pending # {}
        BY Zenon, <2>1, <3>1 DEF Streaming
      <3>3. actor # "exited"
        BY Zenon, <3>2 DEF ActorInv, WriterInv
      <3>4. QED
        BY Zenon, <2>1, <3>2, <3>3, ReadFrameFlow, ReadClosedFlow
    <2>2. QED
      BY Zenon, <1>1, <2>1, FlowOrder
  <1>3. QED
    BY Zenon, <1>2 DEF OrderInv

\* Until the server has finished the call its frames are chunks, whatever the end's number.
Unended(i, y, z) ==
    /\ \A p \in 1..Len(queue) : Mine(queue[p], i) => Num(queue[p], y) = Num(queue[p], z)
    /\ \A k \in Conns : \A p \in 1..Len(wire[k]) : Mine(wire[k][p], i) => Num(wire[k][p], y) = Num(wire[k][p], z)
    /\ \A p \in 1..Len(chan[i]) : Mine(chan[i][p], i) => Num(chan[i][p], y) = Num(chan[i][p], z)
    /\ Mine(hand, i) => Num(hand, y) = Num(hand, z)

LEMMA OpenFrames ==
    ASSUME TypeInv, ActorInv, FrameInv, NEW i \in Calls, srvDone[i] # TRUE, NEW y, NEW z
    PROVE  Unended(i, y, z)
  <1>1. ASSUME NEW m \in Frames, m.type = "closed" \/ m.type = "lost" \/ Fits(m), Mine(m, i)
        PROVE  Num(m, y) = Num(m, z)
    <2>1. m.id = i /\ Fits(m)
      BY Zenon, <1>1 DEF Mine
    <2>2. m.type = "stream_chunk"
      BY Zenon, <2>1 DEF Fits
    <2>3. QED
      BY Zenon, <2>2 DEF Num
  <1>2. chan[i] \in Seq(Frames) /\ hand \in Frames /\ queue \in Seq(Frames) /\ \A k \in Conns : wire[k] \in Seq(Frames)
    BY Zenon, OrderTypes
  <1>3. ASSUME NEW p \in 1..Len(queue), Mine(queue[p], i) PROVE Num(queue[p], y) = Num(queue[p], z)
    <2>1. PICK m \in Frames : m = queue[p] /\ In(m, queue)
      BY Zenon, <1>2, ElementOf DEF In
    <2>2. QED
      BY Zenon, <1>1, <1>3, <2>1 DEF FrameInv, QueueFits
  <1>4. ASSUME NEW k \in Conns, NEW p \in 1..Len(wire[k]), Mine(wire[k][p], i)
        PROVE  Num(wire[k][p], y) = Num(wire[k][p], z)
    <2>1. PICK m \in Frames : m = wire[k][p] /\ In(m, wire[k])
      BY Zenon, <1>2, ElementOf DEF In
    <2>2. QED
      BY Zenon, <1>1, <1>4, <2>1 DEF FrameInv, WireFits
  <1>5. ASSUME NEW p \in 1..Len(chan[i]), Mine(chan[i][p], i) PROVE Num(chan[i][p], y) = Num(chan[i][p], z)
    <2>1. PICK m \in Frames : m = chan[i][p] /\ In(m, chan[i])
      BY Zenon, <1>2, ElementOf DEF In
    <2>2. QED
      BY Zenon, <1>1, <1>5, <2>1 DEF FrameInv, ChanFits
  <1>6. ASSUME Mine(hand, i) PROVE Num(hand, y) = Num(hand, z)
    <2>1. hand # NoFrame
      BY <1>6, IdTypes DEF NoFrame, Frame, Mine
    <2>2. actor = "send"
      BY Zenon, <2>1 DEF ActorInv, HandInv
    <2>3. Fits(hand)
      BY Zenon, <1>2, <2>2 DEF FrameInv, HandFits
    <2>4. QED
      BY Zenon, <1>1, <1>2, <1>6, <2>3
  <1>7. QED
    BY Zenon, <1>3, <1>4, <1>5, <1>6 DEF Unended

\* A reply: a frame of call j on the wire of its connection.
Replies(j, m) ==
    /\ Reachable(j) /\ m.id = j /\ srv[j] \in Conns /\ wire' = [wire EXCEPT ![srv[j]] = Append(@, m)]
    /\ UNCHANGED <<recv, chan, outcome, hand, pending, queue, srv, link>>
    /\ \A i \in Calls : i # j => sent'[i] = sent[i] /\ srvDone'[i] = srvDone[i]
    /\ \/ /\ m.type = "stream_chunk" /\ m.seq = sent[j] + 1 /\ sent'[j] = sent[j] + 1
       \/ /\ m.type \in {"stream_end", "response", "error"} /\ sent'[j] = sent[j] /\ srvDone'[j] = TRUE

LEMMA ServerReplies ==
    ASSUME TypeInv, NEW j \in Calls, ServerChunk(j) \/ ServerAnswer(j) \/ ServerError(j)
    PROVE  \E m \in Frames : Replies(j, m)
  <1>0. /\ srvDone \in [Calls -> BOOLEAN] /\ sent \in [Calls -> 0..MaxOut] /\ sent[j] \in Nat
        /\ srv[j] \in {0} \cup Conns
    BY Zenon, OrderTypes DEF TypeInv, SrvTypes
  <1>1. Reachable(j) /\ srv[j] \in Conns
    BY Zenon, <1>0 DEF ServerChunk, ServerAnswer, ServerError, Reachable
  <1>2. UNCHANGED <<recv, chan, outcome, hand, pending, queue, srv, link>>
    BY Zenon DEF ServerChunk, ServerAnswer, ServerError, appVars, actVars, rdVars, netVars
  <1>3. CASE ServerChunk(j)
    <2>1. PICK n \in Nat : n = sent[j] + 1
      BY <1>0
    <2>2. PICK m \in Frames : m = Frame(j, "stream_chunk", n) /\ m.id = j /\ m.type = "stream_chunk" /\ m.seq = n
      <3>1. "stream_chunk" \in FrameTypes
        BY DEF FrameTypes
      <3>2. /\ Frame(j, "stream_chunk", n) \in Frames /\ Frame(j, "stream_chunk", n).id = j
            /\ Frame(j, "stream_chunk", n).type = "stream_chunk" /\ Frame(j, "stream_chunk", n).seq = n
        BY <3>1, IdTypes, FrameType
      <3>3. QED
        BY Zenon, <3>2
    <2>3. /\ sent' = [sent EXCEPT ![j] = @ + 1] /\ srvDone' = srvDone
          /\ wire' = [wire EXCEPT ![srv[j]] = Append(@, m)]
      BY Zenon, <1>3, <2>1, <2>2 DEF ServerChunk, Reply
    <2>4. sent'[j] = sent[j] + 1 /\ \A i \in Calls : i # j => sent'[i] = sent[i] /\ srvDone'[i] = srvDone[i]
      BY Zenon, <1>0, <2>3
    <2>5. Replies(j, m)
      BY Zenon, <1>1, <1>2, <2>1, <2>2, <2>3, <2>4 DEF Replies
    <2>6. QED
      BY Zenon, <2>5
  <1>4. CASE ServerAnswer(j) \/ ServerError(j)
    <2>1. PICK t \in {"stream_end", "response", "error"} :
              sent' = sent /\ srvDone' = [srvDone EXCEPT ![j] = TRUE] /\ Reply(j, t, 0)
      BY <1>4 DEF ServerAnswer, ServerError
    <2>2. PICK m \in Frames : m = Frame(j, t, 0) /\ m.id = j /\ m.type = t
      <3>1. t \in FrameTypes
        BY DEF FrameTypes
      <3>2. Frame(j, t, 0) \in Frames /\ Frame(j, t, 0).id = j /\ Frame(j, t, 0).type = t
        BY <3>1, IdTypes, FrameType
      <3>3. QED
        BY Zenon, <3>2
    <2>3. wire' = [wire EXCEPT ![srv[j]] = Append(@, m)]
      BY Zenon, <2>1, <2>2 DEF Reply
    <2>4. /\ sent'[j] = sent[j] /\ srvDone'[j] = TRUE
          /\ \A i \in Calls : i # j => sent'[i] = sent[i] /\ srvDone'[i] = srvDone[i]
      BY Zenon, <1>0, <2>1
    <2>5. Replies(j, m)
      BY Zenon, <1>1, <1>2, <2>1, <2>2, <2>3, <2>4 DEF Replies
    <2>6. QED
      BY Zenon, <2>5
  <1>5. QED
    BY Zenon, <1>3, <1>4

\* Another call's flow.
LEMMA OtherReply ==
    ASSUME TypeInv, OrderInv, NEW j \in Calls, NEW m \in Frames, Replies(j, m), NEW i \in Calls, i # j
    PROVE  CallOrder(i)'
  <1>1. /\ UNCHANGED <<recv, chan, outcome, hand, pending, queue, srv, link>> /\ m.id = j /\ srv[j] \in Conns
        /\ sent'[i] = sent[i] /\ srvDone'[i] = srvDone[i] /\ wire' = [wire EXCEPT ![srv[j]] = Append(@, m)]
    BY Zenon DEF Replies
  <1>2. wire \in [Conns -> Seq(Frames)] /\ sent[i] \in Nat /\ srv[i] \in {0} \cup Conns
    BY Zenon, OrderTypes DEF TypeInv, WireType, SrvTypes
  <1>3. ~Mine(m, i)
    BY Zenon, <1>1 DEF Mine
  <1>4. ASSUME NEW b \in Nat, Streaming(i), Flows(i, b) PROVE Flows(i, b)'
    <2>1. PICK c \in Nat, s \in Nat : /\ Numbering(queue, i, sent[i], b, c)
                                      /\ Numbering(wire[srv[i]], i, sent[i], c, s)
                                      /\ Reachable(i) => s = sent[i]
      BY Zenon, <1>4 DEF Flows
    <2>2. Reachable(i)' => s = sent[i]
      BY Zenon, <1>1, <2>1 DEF Reachable
    <2>3. srv[i] \in Conns
      BY Zenon, <1>2, <1>4 DEF Streaming
    <2>4. PICK w \in Seq(Frames) : w = wire[srv[i]]
      BY Zenon, <1>2, <2>3
    <2>5. wire'[srv[i]] = w \/ wire'[srv[i]] = Append(w, m)
      BY Zenon, <1>1, <1>2, <2>3, <2>4
    <2>6. Numbering(Append(w, m), i, sent[i], c, s)
      BY Zenon, <1>2, <1>3, <2>1, <2>4, AppendNumbering
    <2>7. Numbering(wire'[srv[i]], i, sent[i], c, s)
      BY Zenon, <2>1, <2>4, <2>5, <2>6
    <2>8. QED
      BY Zenon, <1>1, <2>1, <2>2, <2>7 DEF Flows
  <1>5. QED
    BY Zenon, <1>1, <1>4, FlowOrder

LEMMA OwnReply ==
    ASSUME TypeInv, ActorInv, FrameInv, OrderInv, NEW i \in Calls, NEW m \in Frames, Replies(i, m)
    PROVE  CallOrder(i)'
  <1>1. /\ UNCHANGED <<recv, chan, outcome, hand, pending, queue, srv, link>> /\ m.id = i /\ srv[i] \in Conns
        /\ wire' = [wire EXCEPT ![srv[i]] = Append(@, m)] /\ Reachable(i)
    BY Zenon DEF Replies
  <1>2. /\ wire \in [Conns -> Seq(Frames)] /\ queue \in Seq(Frames) /\ recv[i] \in Nat
    BY Zenon, OrderTypes DEF TypeInv, WireType
  <1>3. srvDone[i] # TRUE
    BY Zenon, <1>1 DEF Reachable
  <1>4. PICK z \in Nat : z = sent[i]
    BY Zenon, OrderTypes
  <1>5. \/ m.type = "stream_chunk" /\ m.seq = z + 1 /\ sent'[i] = z + 1
        \/ m.type \in {"stream_end", "response", "error"} /\ sent'[i] = z /\ srvDone'[i] = TRUE
    BY Zenon, <1>4 DEF Replies
  <1>6. z + 1 \in Nat /\ z <= z + 1 /\ z <= z
    BY <1>4
  <1>7. PICK y \in Nat : y = sent'[i] /\ z <= y
    BY Zenon, <1>4, <1>5, <1>6
  <1>8. /\ \A p \in 1..Len(queue) : Mine(queue[p], i) => Num(queue[p], y) = Num(queue[p], z)
        /\ \A k \in Conns : \A p \in 1..Len(wire[k]) : Mine(wire[k][p], i) => Num(wire[k][p], y) = Num(wire[k][p], z)
        /\ \A p \in 1..Len(chan[i]) : Mine(chan[i][p], i) => Num(chan[i][p], y) = Num(chan[i][p], z)
        /\ Mine(hand, i) => Num(hand, y) = Num(hand, z)
    <2>1. Unended(i, y, z)
      BY Zenon, <1>3, OpenFrames
    <2>2. QED
      BY Zenon, <2>1 DEF Unended
  <1>9. RecvInv(i) /\ ChanOrder(i) /\ HandOrder(i) /\ FlowInv(i)
    BY Zenon DEF OrderInv, CallOrder
  <1>10. RecvInv(i)'
    <2>1. recv[i] <= z
      BY Zenon, <1>4, <1>9 DEF RecvInv
    <2>2. recv[i] <= y
      BY <1>2, <1>4, <1>7, <2>1
    <2>3. QED
      BY Zenon, <1>1, <1>7, <2>2 DEF RecvInv
  <1>11. ChanOrder(i)'
    <2>1. \A n \in 1..Len(chan[i]) :
              outcome[i] = "none" /\ Mine(chan[i][n], i) => Num(chan[i][n], y) = recv[i] + n
      BY Zenon, <1>4, <1>8, <1>9 DEF ChanOrder
    <2>2. QED
      BY Zenon, <1>1, <1>7, <2>1 DEF ChanOrder
  <1>12. HandOrder(i)'
    <2>1. outcome[i] = "none" /\ Mine(hand, i) => Num(hand, y) = (recv[i] + Len(chan[i])) + 1
      BY Zenon, <1>4, <1>8, <1>9 DEF HandOrder
    <2>2. QED
      BY Zenon, <1>1, <1>7, <2>1 DEF HandOrder
  <1>13. ASSUME NEW b \in Nat, Flows(i, b) PROVE Flows(i, b)'
    <2>1. PICK c \in Nat, s \in Nat : /\ Numbering(queue, i, z, b, c) /\ Numbering(wire[srv[i]], i, z, c, s) /\ s = z
      BY Zenon, <1>1, <1>4, <1>13 DEF Flows
    <2>2. PICK w \in Seq(Frames) : w = wire[srv[i]] /\ wire'[srv[i]] = Append(w, m)
      BY Zenon, <1>1, <1>2
    <2>3. \A p \in 1..Len(w) : Mine(w[p], i) => Num(w[p], y) = Num(w[p], z)
      BY Zenon, <1>1, <1>8, <2>2
    <2>4. Numbering(queue', i, y, b, c)
      BY Zenon, <1>1, <1>8, <2>1, SameNumbering
    <2>5. Numbering(w, i, y, c, s)
      BY Zenon, <2>1, <2>2, <2>3, SameNumbering
    <2>6. CASE m.type = "stream_chunk" /\ m.seq = z + 1 /\ y = z + 1
      <3>1. Mine(m, i) /\ Num(m, y) = s + 1 /\ y = s + 1
        BY Zenon, <1>1, <2>1, <2>6 DEF Mine, Num
      <3>2. Numbering(Append(w, m), i, y, c, y)
        BY Zenon, <2>5, <3>1, AppendNumbering
      <3>3. QED
        BY Zenon, <1>1, <1>7, <2>2, <2>4, <3>2 DEF Flows
    <2>7. CASE m.type \in {"stream_end", "response", "error"} /\ y = z /\ srvDone'[i] = TRUE
      <3>1. ~Reachable(i)'
        BY Zenon, <2>7 DEF Reachable
      <3>2. s + 1 \in Nat
        BY Zenon, <1>6, <2>1
      <3>3. \/ Mine(m, i) /\ Num(m, y) = s + 1
            \/ ~Mine(m, i)
        BY Zenon, <1>1, <2>1, <2>7 DEF Mine, Num
      <3>4. \E t \in Nat : Numbering(Append(w, m), i, y, c, t)
        BY Zenon, <2>5, <3>2, <3>3, AppendNumbering
      <3>5. QED
        BY Zenon, <1>1, <1>7, <2>2, <2>4, <3>1, <3>4 DEF Flows
    <2>8. QED
      BY Zenon, <1>5, <1>7, <2>6, <2>7
  <1>14. FlowInv(i)'
    <2>1. Base(i)' = Base(i) /\ (Streaming(i)' <=> Streaming(i))
      BY Zenon, <1>1 DEF Base, Handed, Streaming
    <2>2. QED
      BY Zenon, <1>9, <1>13, <2>1 DEF FlowInv
  <1>15. QED
    BY Zenon, <1>10, <1>11, <1>12, <1>14 DEF CallOrder

LEMMA ServerOrder ==
    ASSUME TypeInv, ActorInv, FrameInv, OrderInv, NEW j \in Calls, ServerChunk(j) \/ ServerAnswer(j) \/ ServerError(j)
    PROVE  OrderInv'
  BY Zenon, ServerReplies, OtherReply, OwnReply DEF OrderInv

-----------------------------------------------------------------------------
\* The actor: a request, of which the server has sent nothing yet.
LEMMA NoFrames ==
    ASSUME TypeInv, FrameInv, NEW i \in Calls, srv[i] = 0
    PROVE  /\ \A p \in 1..Len(queue) : ~Mine(queue[p], i)
           /\ \A k \in Conns : \A p \in 1..Len(wire[k]) : ~Mine(wire[k][p], i)
  <1>1. ASSUME NEW m \in Frames, m.type = "closed" \/ Fits(m) PROVE ~Mine(m, i)
    BY Zenon, <1>1 DEF Fits, Mine
  <1>2. queue \in Seq(Frames) /\ \A k \in Conns : wire[k] \in Seq(Frames)
    BY Zenon DEF TypeInv, ReadTypes, WireType
  <1>3. ASSUME NEW p \in 1..Len(queue) PROVE ~Mine(queue[p], i)
    <2>1. PICK m \in Frames : m = queue[p] /\ In(m, queue)
      BY Zenon, <1>2, ElementOf DEF In
    <2>2. QED
      BY Zenon, <1>1, <2>1 DEF FrameInv, QueueFits
  <1>4. ASSUME NEW k \in Conns, NEW p \in 1..Len(wire[k]) PROVE ~Mine(wire[k][p], i)
    <2>1. PICK m \in Frames : m = wire[k][p] /\ In(m, wire[k])
      BY Zenon, <1>2, ElementOf DEF In
    <2>2. QED
      BY Zenon, <1>1, <2>1 DEF FrameInv, WireFits
  <1>5. QED
    BY Zenon, <1>3, <1>4

LEMMA RequestOrder ==
    ASSUME TypeInv, LifeInv, FrameInv, OrderInv, NEW j \in Calls, Requests(j)
    PROVE  OrderInv'
  <1>1. /\ UNCHANGED <<recv, chan, outcome, hand, queue, wire, sent, srvDone, link>> /\ writer # 0
        /\ pending' = pending \cup {j} /\ (srv' = srv \/ srv' = [srv EXCEPT ![j] = writer])
        /\ cmds # <<>> /\ j = Head(cmds) /\ cmds' = Tail(cmds)
    BY Zenon DEF Requests, appVars, WriteOk
  <1>2. srv \in [Calls -> {0} \cup Conns] /\ writer \in {0} \cup Conns
    BY Zenon DEF TypeInv, SrvTypes, ActTypes
  <1>3. Queued(j)
    BY Zenon, <1>1, TakenLife DEF Queued
  <1>4. srv[j] = 0 /\ chan[j] = <<>> /\ recv[j] = 0 /\ hand.id # j
    BY Zenon, <1>3 DEF LifeInv, UntakenInv, Untaken
  <1>5. sent[j] = 0
    BY Zenon, <1>4 DEF LifeInv, UnsentInv, Unsent
  <1>6. ASSUME NEW i \in Calls, i # j PROVE CallOrder(i)'
    <2>1. Same(i) /\ CallOrder(i) /\ (i \in pending' => i \in pending)
      BY Zenon, <1>1, <1>2, <1>6 DEF Same, OrderInv
    <2>2. Reachable(i)' => Reachable(i)
      BY Zenon, <1>1, <2>1 DEF Reachable, Same
    <2>3. QED
      BY Zenon, <1>1, <2>1, <2>2, CallKept
  <1>7. RecvInv(j)' /\ ChanOrder(j)' /\ HandOrder(j)'
    BY Zenon, <1>1 DEF OrderInv, CallOrder, RecvInv, ChanOrder, HandOrder
  <1>8. Base(j)' = 0
    <2>1. recv'[j] = 0 /\ Len(chan'[j]) = 0 /\ Handed(j)' = 0
      BY <1>1, <1>4 DEF Handed
    <2>2. QED
      BY <2>1 DEF Base
  <1>9. ASSUME srv'[j] # 0 PROVE Flows(j, 0)'
    <2>1. srv'[j] \in Conns
      BY Zenon, <1>1, <1>2, <1>4, <1>9
    <2>2. Numbering(queue, j, 0, 0, 0) /\ \A k \in Conns : Numbering(wire[k], j, 0, 0, 0)
      BY Zenon, <1>4, NoFrames, NoneNumbering, IdTypes
    <2>3. Numbering(queue', j, sent'[j], 0, 0) /\ Numbering(wire'[srv'[j]], j, sent'[j], 0, 0) /\ 0 = sent'[j]
      BY Zenon, <1>1, <1>5, <2>1, <2>2
    <2>4. QED
      BY Zenon, <2>3, IdTypes DEF Flows
  <1>10. FlowInv(j)'
    BY Zenon, <1>8, <1>9, IdTypes DEF FlowInv, Streaming
  <1>11. QED
    BY Zenon, <1>6, <1>7, <1>10 DEF OrderInv, CallOrder

\* A connection that is given up: callers are told, and nothing is pending.
LEMMA LossOrder ==
    ASSUME TypeInv, ActorInv, OrderInv, (\E i \in Calls : RequestFails(i)) \/ ShutsDown \/ Loses
    PROVE  OrderInv'
  <1>1. PICK S : GivesUp(S)
    BY Zenon DEF RequestFails, ShutsDown, Loses
  <1>2. actor = "select" /\ UNCHANGED <<recv, outcome, hand, sent, srv>> /\ pending' = {}
    BY Zenon, <1>1 DEF RequestFails, ShutsDown, Loses, appVars, srvVars, GivesUp, Drain
  <1>3. hand.id = 0
    <2>1. hand = NoFrame
      BY <1>2 DEF ActorInv, HandInv
    <2>2. QED
      BY <2>1 DEF NoFrame, Frame
  <1>4. ASSUME NEW i \in Calls PROVE CallOrder(i)'
    <2>1. chan'[i] = chan[i] \/ chan'[i] = <<Frame(i, "lost", 0)>>
      BY <1>1 DEF GivesUp, Drain
    <2>2. CASE chan'[i] = chan[i]
      <3>1. Same(i) /\ CallOrder(i)
        BY Zenon, <1>2, <2>2 DEF Same, OrderInv
      <3>2. QED
        BY Zenon, <1>2, <3>1, CallKept
    <2>3. CASE chan'[i] = <<Frame(i, "lost", 0)>>
      <3>1. ~Mine(Frame(i, "lost", 0), i) /\ i # 0
        BY IdTypes DEF Mine, Frame
      <3>2. \A n \in 1..Len(chan'[i]) : chan'[i][n] = Frame(i, "lost", 0)
        BY <2>3
      <3>3. ChanOrder(i)'
        BY Zenon, <3>1, <3>2 DEF ChanOrder
      <3>4. RecvInv(i)' /\ HandOrder(i)' /\ FlowInv(i)'
        BY Zenon, <1>2, <1>3, <3>1 DEF OrderInv, CallOrder, RecvInv, HandOrder, Mine, FlowInv, Streaming
      <3>5. QED
        BY Zenon, <3>3, <3>4 DEF CallOrder
    <2>4. QED
      BY Zenon, <2>1, <2>2, <2>3
  <1>5. QED
    BY Zenon, <1>4 DEF OrderInv

\* The actor takes a frame: what is left of the queue goes on behind it.
Takes(h) ==
    /\ h = queue[1] /\ queue # <<>> /\ queue' = Tail(queue) /\ h.type # "closed" /\ Fits(h)
    /\ hand.id = 0 /\ UNCHANGED <<recv, outcome, sent, srv, srvDone, link, wire>>
    /\ pending' = IF h.type = "stream_chunk" THEN pending ELSE pending \ {h.id}
    /\ \/ h.id \in pending /\ IsStream(h.id) /\ hand' = h /\ chan' = chan
       \/ /\ ~(h.id \in pending /\ IsStream(h.id)) /\ hand' = hand
          /\ chan' = chan \/ (h.id \in pending /\ chan' = [chan EXCEPT ![h.id] = <<h>>])

LEMMA TakeTakes ==
    ASSUME TypeInv, ActorInv, FrameInv, TakeFrame
    PROVE  \E h \in Frames : Takes(h)
  <1>1. queue # <<>> /\ queue \in Seq(Frames) /\ queue' = Tail(queue) /\ Head(queue).type # "closed" /\ actor = "select"
    BY Zenon DEF TakeFrame, TypeInv, ReadTypes
  <1>2. PICK h \in Frames : h = Head(queue) /\ h = queue[1] /\ In(h, queue)
    BY Zenon, <1>1, TailOf, InTail
  <1>3. Fits(h) /\ h.type # "closed"
    BY Zenon, <1>1, <1>2 DEF FrameInv, QueueFits
  <1>4. hand.id = 0
    <2>1. hand = NoFrame
      BY <1>1 DEF ActorInv, HandInv
    <2>2. QED
      BY <2>1 DEF NoFrame, Frame
  <1>5. /\ UNCHANGED <<recv, outcome, sent, srv, srvDone, link, wire>>
        /\ pending' = IF h.type = "stream_chunk" THEN pending ELSE pending \ {h.id}
    BY Zenon, <1>2 DEF TakeFrame, appVars, srvVars, netVars
  <1>6. \/ h.id \in pending /\ IsStream(h.id) /\ hand' = h /\ chan' = chan
        \/ /\ ~(h.id \in pending /\ IsStream(h.id)) /\ hand' = hand
           /\ chan' = chan \/ (h.id \in pending /\ chan' = [chan EXCEPT ![h.id] = <<h>>])
    BY Zenon, <1>2 DEF TakeFrame
  <1>7. Takes(h)
    BY Zenon, <1>1, <1>2, <1>3, <1>4, <1>5, <1>6 DEF Takes
  <1>8. QED
    BY Zenon, <1>7

LEMMA TakeOther ==
    ASSUME TypeInv, OrderInv, NEW h \in Frames, Takes(h), NEW i \in Calls, i # h.id
    PROVE  CallOrder(i)'
  <1>1. /\ h = queue[1] /\ queue # <<>> /\ queue' = Tail(queue) /\ hand.id = 0 /\ (hand' = h \/ hand' = hand)
        /\ UNCHANGED <<recv, outcome, sent, srv, srvDone, link, wire>>
        /\ chan' = chan \/ \E c : chan' = [chan EXCEPT ![h.id] = c]
        /\ pending' = IF h.type = "stream_chunk" THEN pending ELSE pending \ {h.id}
    BY Zenon DEF Takes
  <1>2. chan \in [Calls -> Seq(Frames)] /\ queue \in Seq(Frames) /\ sent[i] \in Nat
    BY Zenon, OrderTypes DEF TypeInv, ChanType
  <1>3. chan'[i] = chan[i] /\ (i \in pending' => i \in pending) /\ ~Mine(queue[1], i)
    BY Zenon, <1>1, <1>2 DEF Mine
  <1>4. Same(i) /\ CallOrder(i)
    BY Zenon, <1>1, <1>3 DEF Same, OrderInv
  <1>5. hand' = hand \/ (hand.id # i /\ hand'.id # i)
    BY Zenon, <1>1, IdTypes
  <1>6. ASSUME NEW b \in Nat, Flows(i, b) PROVE Flows(i, b)'
    <2>1. PICK c \in Nat, s \in Nat : /\ Numbering(queue, i, sent[i], b, c)
                                      /\ Numbering(wire[srv[i]], i, sent[i], c, s)
                                      /\ Reachable(i) => s = sent[i]
      BY Zenon, <1>6 DEF Flows
    <2>2. Numbering(queue', i, sent[i], b, c)
      BY Zenon, <1>1, <1>2, <1>3, <2>1, TailNumbering
    <2>3. Reachable(i)' => s = sent[i]
      BY Zenon, <1>1, <2>1 DEF Reachable
    <2>4. QED
      BY Zenon, <1>1, <2>1, <2>2, <2>3 DEF Flows
  <1>7. QED
    BY Zenon, <1>3, <1>4, <1>5, <1>6, CallMoved

LEMMA TakeOwn ==
    ASSUME TypeInv, OrderInv, NEW h \in Frames, Takes(h), NEW i \in Calls, i = h.id
    PROVE  CallOrder(i)'
  <1>1. /\ h = queue[1] /\ queue # <<>> /\ queue' = Tail(queue) /\ Fits(h) /\ hand.id = 0
        /\ UNCHANGED <<recv, outcome, sent, srv, srvDone, link, wire>>
    BY Zenon DEF Takes
  <1>2. /\ queue \in Seq(Frames) /\ sent[i] \in Nat /\ chan \in [Calls -> Seq(Frames)]
        /\ recv[i] + Len(chan[i]) \in Nat
    BY Zenon, OrderTypes DEF TypeInv, ChanType
  <1>3. RecvInv(i)' /\ ChanOrder(i) /\ FlowInv(i)
    BY Zenon, <1>1 DEF OrderInv, CallOrder, RecvInv
  <1>4. CASE i \in pending /\ IsStream(i)
    <2>1. hand' = h /\ chan' = chan
      BY Zenon, <1>4 DEF Takes
    <2>2. ChanOrder(i)'
      BY Zenon, <1>1, <1>3, <2>1 DEF ChanOrder
    <2>3. srv[i] # 0
      BY Zenon, <1>1 DEF Fits
    <2>4. Base(i) = recv[i] + Len(chan[i]) /\ Base(i)' = (recv[i] + Len(chan[i])) + 1
      <3>1. Handed(i) = 0
        BY Zenon, <1>1, IdTypes DEF Handed
      <3>2. Handed(i)' = 1
        BY Zenon, <2>1 DEF Handed
      <3>3. (recv[i] + Len(chan[i])) + 0 = recv[i] + Len(chan[i])
        BY <1>2
      <3>4. QED
        BY Zenon, <1>1, <2>1, <3>1, <3>2, <3>3 DEF Base
    <2>5. ASSUME outcome[i] = "none", Mine(h, i)
          PROVE  /\ Num(h, sent[i]) = (recv[i] + Len(chan[i])) + 1
                 /\ \E d \in Nat : d = (recv[i] + Len(chan[i])) + 1 /\ Flows(i, d)'
      <3>1. PICK b \in Nat : b = recv[i] + Len(chan[i]) /\ Flows(i, b)
        BY Zenon, <1>3, <1>4, <2>3, <2>4, <2>5 DEF FlowInv, Streaming
      <3>2. PICK c \in Nat, s \in Nat : /\ Numbering(queue, i, sent[i], b, c)
                                        /\ Numbering(wire[srv[i]], i, sent[i], c, s)
                                        /\ Reachable(i) => s = sent[i]
        BY Zenon, <3>1 DEF Flows
      <3>3. Num(h, sent[i]) = b + 1 /\ Numbering(queue', i, sent[i], b + 1, c)
        <4>1. Mine(queue[1], i)
          BY Zenon, <1>1, <2>5
        <4>2. Num(queue[1], sent[i]) = b + 1 /\ Numbering(Tail(queue), i, sent[i], b + 1, c)
          BY Zenon, <1>1, <1>2, <3>2, <4>1, TailNumbering
        <4>3. QED
          BY Zenon, <1>1, <4>2
      <3>4. Reachable(i)' => s = sent[i]
        BY Zenon, <1>1, <3>2 DEF Reachable
      <3>5. PICK d \in Nat : d = b + 1
        OBVIOUS
      <3>6. Flows(i, d)'
        BY Zenon, <1>1, <3>2, <3>3, <3>4, <3>5 DEF Flows
      <3>7. QED
        BY Zenon, <3>1, <3>3, <3>5, <3>6
    <2>6. HandOrder(i)'
      BY Zenon, <1>1, <2>1, <2>5 DEF HandOrder
    <2>7. FlowInv(i)'
      <3>1. ASSUME i \in pending' PROVE Mine(h, i)
        <4>1. h.type = "stream_chunk"
          BY Zenon, <3>1 DEF Takes
        <4>2. QED
          BY Zenon, <4>1 DEF Mine
      <3>2. Streaming(i)' => \E d \in Nat : d = Base(i)' /\ Flows(i, d)'
        BY Zenon, <1>1, <2>4, <2>5, <3>1 DEF Streaming
      <3>3. QED
        BY Zenon, <3>2 DEF FlowInv
    <2>8. QED
      BY Zenon, <1>3, <2>2, <2>6, <2>7 DEF CallOrder
  <1>5. CASE ~(i \in pending /\ IsStream(i))
    <2>1. hand' = hand /\ (chan' = chan \/ (i \in pending /\ chan' = [chan EXCEPT ![i] = <<h>>]))
      BY Zenon, <1>5 DEF Takes
    <2>2. i \in pending => ~Mine(h, i)
      BY Zenon, <1>1, <1>5 DEF Fits, Mine
    <2>3. i \notin pending'
      <3>1. CASE h.type = "stream_chunk"
        <4>1. i \notin pending
          BY Zenon, <2>2, <3>1 DEF Mine
        <4>2. QED
          BY Zenon, <3>1, <4>1 DEF Takes
      <3>2. CASE h.type # "stream_chunk"
        BY Zenon, <3>2 DEF Takes
      <3>3. QED
        BY Zenon, <3>1, <3>2
    <2>4. ChanOrder(i)'
      <3>1. CASE chan' = chan
        BY Zenon, <1>1, <1>3, <3>1 DEF ChanOrder
      <3>2. CASE i \in pending /\ chan' = [chan EXCEPT ![i] = <<h>>]
        <4>1. chan'[i] = <<h>> /\ ~Mine(h, i)
          BY Zenon, <1>2, <2>2, <3>2
        <4>2. \A n \in 1..Len(chan'[i]) : chan'[i][n] = h
          BY <4>1
        <4>3. QED
          BY Zenon, <4>1, <4>2 DEF ChanOrder
      <3>3. QED
        BY Zenon, <2>1, <3>1, <3>2
    <2>5. HandOrder(i)' /\ FlowInv(i)'
      BY Zenon, <1>1, <2>1, <2>3, IdTypes DEF HandOrder, Mine, FlowInv, Streaming
    <2>6. QED
      BY Zenon, <1>3, <2>4, <2>5 DEF CallOrder
  <1>6. QED
    BY Zenon, <1>4, <1>5

\* What is handed over moves from one count to the other.
LEMMA HandedOver ==
    ASSUME NEW r \in Nat, NEW l \in Nat
    PROVE  (r + l) + 1 = r + (l + 1) /\ (r + (l + 1)) + 0 = (r + l) + 1
  OBVIOUS

\* The frame in the actor's hand goes to the end of the channel.
LEMMA HandOrders ==
    ASSUME TypeInv, ActorInv, OrderInv, HandOver
    PROVE  OrderInv'
  <1>1. /\ actor = "send" /\ hand' = NoFrame /\ UNCHANGED <<recv, outcome, sent, srv, srvDone, link, wire, queue>>
        /\ pending' = pending \/ (outcome[hand.id] # "none" /\ pending' = pending \ {hand.id})
        /\ outcome[hand.id] = "none" => chan' = [chan EXCEPT ![hand.id] = Append(@, hand)]
        /\ outcome[hand.id] # "none" => chan' = chan
    BY Zenon DEF HandOver, appVars, srvVars, netVars, rdVars
  <1>2. PICK i \in Calls : i = hand.id
    BY Zenon, <1>1 DEF ActorInv, HandInv
  <1>3. /\ chan \in [Calls -> Seq(Frames)] /\ chan[i] \in Seq(Frames) /\ Len(chan[i]) \in Nat /\ hand \in Frames
        /\ recv[i] \in Nat
    BY Zenon, OrderTypes DEF TypeInv, ChanType
  <1>4. hand'.id = 0 /\ i # 0
    BY <1>1, IdTypes DEF NoFrame, Frame
  <1>5. ASSUME NEW j \in Calls, j # i PROVE CallOrder(j)'
    <2>1. chan'[j] = chan[j] /\ (j \in pending' => j \in pending) /\ hand.id # j /\ hand'.id # j
      BY Zenon, <1>1, <1>2, <1>3, <1>4, <1>5, IdTypes
    <2>2. Same(j) /\ CallOrder(j)
      BY Zenon, <1>1, <2>1 DEF Same, OrderInv
    <2>3. Reachable(j)' => Reachable(j)
      BY Zenon, <1>1 DEF Reachable
    <2>4. QED
      BY Zenon, <1>1, <2>1, <2>2, <2>3, CallKept
  <1>6. RecvInv(i) /\ ChanOrder(i) /\ HandOrder(i) /\ FlowInv(i) /\ CallOrder(i)
    BY Zenon DEF OrderInv, CallOrder
  <1>7. ASSUME outcome[i] # "none" PROVE CallOrder(i)'
    BY Zenon, <1>1, <1>6, <1>7, OverOrder
  <1>8. ASSUME outcome[i] = "none" PROVE CallOrder(i)'
    <2>1. chan'[i] = Append(chan[i], hand) /\ pending' = pending
      BY Zenon, <1>1, <1>2, <1>3, <1>8
    <2>2. Len(chan'[i]) = Len(chan[i]) + 1
      BY <1>3, <2>1, AppendLast
    <2>3. (recv[i] + Len(chan[i])) + 1 = recv[i] + (Len(chan[i]) + 1)
      BY Zenon, <1>3, HandedOver
    <2>4. ChanOrder(i)'
      <3>1. ASSUME NEW n \in 1..Len(chan'[i]), Mine(chan'[i][n], i)
            PROVE  Num(chan'[i][n], sent[i]) = recv[i] + n
        <4>1. PICK s : s = chan'[i] /\ s = Append(chan[i], hand) /\ n \in 1..Len(s)
          BY Zenon, <2>1
        <4>2. (n \in 1..Len(chan[i]) /\ s[n] = chan[i][n]) \/ (n = Len(chan[i]) + 1 /\ s[n] = hand)
          BY <1>3, <4>1, AppendElem
        <4>3. CASE n \in 1..Len(chan[i]) /\ s[n] = chan[i][n]
          BY Zenon, <1>6, <1>8, <3>1, <4>1, <4>3 DEF ChanOrder
        <4>4. CASE n = Len(chan[i]) + 1 /\ s[n] = hand
          BY Zenon, <1>6, <1>8, <2>3, <3>1, <4>1, <4>4 DEF HandOrder
        <4>5. QED
          BY Zenon, <4>2, <4>3, <4>4
      <3>2. QED
        BY Zenon, <1>1, <3>1 DEF ChanOrder
    <2>5. RecvInv(i)' /\ HandOrder(i)'
      BY Zenon, <1>1, <1>4, <1>6 DEF RecvInv, HandOrder, Mine
    <2>6. Base(i)' = Base(i)
      <3>1. Handed(i) = 1
        BY Zenon, <1>2 DEF Handed
      <3>2. Handed(i)' = 0
        BY Zenon, <1>4 DEF Handed
      <3>3. (recv[i] + (Len(chan[i]) + 1)) + 0 = (recv[i] + Len(chan[i])) + 1
        BY Zenon, <1>3, HandedOver
      <3>4. QED
        BY Zenon, <1>1, <2>2, <3>1, <3>2, <3>3 DEF Base
    <2>7. FlowInv(i)'
      <3>1. (Streaming(i)' <=> Streaming(i)) /\ (Reachable(i)' <=> Reachable(i))
        BY Zenon, <1>1, <2>1 DEF Streaming, Reachable
      <3>2. \A b \in Nat : Flows(i, b) => Flows(i, b)'
        BY Zenon, <1>1, <3>1 DEF Flows
      <3>3. QED
        BY Zenon, <1>6, <2>6, <3>1, <3>2 DEF FlowInv
    <2>8. QED
      BY Zenon, <2>4, <2>5, <2>7 DEF CallOrder
  <1>9. CallOrder(i)'
    BY Zenon, <1>7, <1>8
  <1>10. QED
    BY Zenon, <1>5, <1>9 DEF OrderInv

LEMMA RedialOrder ==
    ASSUME TypeInv, ActorInv, OrderInv, Redial
    PROVE  OrderInv'
  <1>1. UNCHANGED <<recv, chan, outcome, sent, srv, hand, pending>> /\ actor = "reconnect"
    BY Zenon DEF Redial, appVars, srvVars
  <1>2. pending' = {}
    BY Zenon, <1>1 DEF ActorInv, WriterInv
  <1>3. \A i \in Calls : Same(i) /\ CallOrder(i)
    BY Zenon, <1>1 DEF Same, OrderInv
  <1>4. QED
    BY Zenon, <1>1, <1>2, <1>3, CallKept DEF OrderInv

LEMMA StepOrder ==
    ASSUME TypeInv, ActorInv, LifeInv, FrameInv, OrderInv, [Next]_vars
    PROVE  OrderInv'
  <1>0. outcome \in [Calls -> {"none", "answered", "end", "remote", "lost", "silent", "dropped"}]
    BY Zenon DEF TypeInv, AppTypes
  <1>1. ASSUME NEW i \in Calls, (\E k \in Kinds : Begin(i, k)) \/ Post(i) \/ Send(i) \/ SendClose(i) \/ ReceiveNone(i)
        PROVE  OrderInv'
    <2>1. UNCHANGED <<recv, chan, sent, srv, srvDone, hand, queue, wire, pending, link>>
      BY Zenon, <1>1 DEF Begin, Post, Send, SendClose, ReceiveNone, actVars, rdVars, srvVars, netVars
    <2>2. outcome' = outcome \/ \E o : o # "none" /\ outcome' = [outcome EXCEPT ![i] = o]
      BY Zenon, <1>1 DEF Begin, Post, Send, SendClose, ReceiveNone, End
    <2>3. \A j \in Calls : outcome'[j] = "none" => outcome[j] = "none"
      BY Zenon, <1>0, <2>2
    <2>4. QED
      BY Zenon, <2>1, <2>3, QuietOrder
  <1>2. CASE Close \/ UNCHANGED vars \/ Top \/ PumpDone
    <2>1. UNCHANGED <<recv, chan, sent, srv, srvDone, hand, queue, wire, pending, link, outcome>>
      BY Zenon, <1>2 DEF Close, vars, Top, PumpDone, appVars, actVars, rdVars, srvVars, netVars
    <2>2. QED
      BY Zenon, <2>1, QuietOrder
  <1>3. ASSUME NEW k \in Conns, ServerCloses(k) \/ ConnDrop(k)
        PROVE  OrderInv'
    <2>1. UNCHANGED <<recv, chan, sent, srv, srvDone, hand, queue, wire, pending, outcome>>
      BY Zenon, <1>3 DEF ServerCloses, ConnDrop, Disconnect, appVars, actVars, rdVars, srvVars
    <2>2. link' = [link EXCEPT ![k] = "down"]
      BY Zenon, <1>3 DEF ServerCloses, ConnDrop, Disconnect
    <2>3. QED
      BY Zenon, <2>1, <2>2, QuietOrder
  <1>4. ASSUME NEW i \in Calls, Pump(i)
        PROVE  OrderInv'
    <2>1. UNCHANGED <<recv, chan, sent, srv, srvDone, hand, queue, wire, pending, outcome>>
      BY Zenon, <1>4 DEF Pump, PumpWrite, PumpDry, PumpCheck, appVars, actVars, rdVars, srvVars
    <2>2. link' = link \/ link' = HalfClosed
      BY Zenon, <1>4 DEF Pump, PumpWrite, PumpDry, PumpCheck, netVars
    <2>3. QED
      BY Zenon, <2>1, <2>2, QuietOrder
  <1>5. CASE TakeFrame
    BY Zenon, <1>5, TakeTakes, TakeOther, TakeOwn DEF OrderInv
  <1>6. CASE Outside
    BY ZenonT(40), <1>1, <1>2, <1>3, <1>6, CallerOrder, TaskOrder, ReadOrder, ServerOrder DEF Outside
  <1>7. CASE Actor
    BY ZenonT(40), <1>2, <1>4, <1>5, <1>7, TwoRequests, TwoLosses, RequestOrder, LossOrder, HandOrders, RedialOrder DEF Actor
  <1>8. QED
    BY Zenon, <1>6, <1>7, Steps

LEMMA InitOrder == Init => OrderInv
  <1> SUFFICES ASSUME Init, NEW i \in Calls PROVE CallOrder(i)
    BY DEF OrderInv
  <1>1. recv[i] = 0 /\ sent[i] = 0 /\ chan[i] = <<>> /\ pending = {} /\ hand.id = 0 /\ i # 0
    BY IdTypes DEF Init, NoFrame, Frame
  <1>2. RecvInv(i)
    BY <1>1 DEF RecvInv
  <1>3. ChanOrder(i) /\ HandOrder(i) /\ FlowInv(i)
    BY Zenon, <1>1, EmptyOf DEF ChanOrder, HandOrder, Mine, FlowInv, Streaming
  <1>4. QED
    BY Zenon, <1>2, <1>3 DEF CallOrder
=============================================================================
