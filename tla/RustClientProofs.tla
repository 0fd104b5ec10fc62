-------------------------- MODULE RustClientProofs --------------------------
(***************************************************************************)
(* The invariant behind the theorems about the Rust client, for any number *)
(* of calls, connections and chunks, any channel capacities, with and      *)
(* without reconnection; and what it says of the pending map.              *)
(* RustUploadProofs, RustOrderProofs and RustContractProofs build on it.   *)
(***************************************************************************)
EXTENDS RustClient, TLAPS

FrameTypes == {"stream_chunk", "stream_end", "response", "error", "lost", "closed", "none"}
Frames == [id : Nat, type : FrameTypes, seq : Nat]

AppTypes ==
    /\ reconnect \in Modes /\ closing \in BOOLEAN /\ kind \in [Calls -> Kinds \cup {"none"}]
    /\ posted \subseteq Calls /\ ended \subseteq Calls
    /\ accepted \in [Calls -> 0..MaxIn] /\ recv \in [Calls -> Nat]
    /\ outcome \in [Calls -> {"none", "answered", "end", "remote", "lost", "silent", "dropped"}]
CmdType == cmds \in Seq(Calls \cup {Shutdown})
ChanType == chan \in [Calls -> Seq(Frames)]
ErrType == errs \subseteq Calls
OutType == out \in [Calls -> Seq(0..MaxIn)]
ActTypes ==
    /\ actor \in {"top", "pump", "select", "send", "reconnect", "exited"}
    /\ writer \in {0} \cup Conns /\ pending \subseteq Calls /\ streams \subseteq Calls /\ hand \in Frames
PumpTypes == todo \subseteq Calls /\ at \in {0} \cup Calls /\ dry \in BOOLEAN
ReadTypes == queue \in Seq(Frames) /\ reader \in [Conns -> {"none", "run", "done"}]
LinkTypes == dialled \in Conns /\ link \in [Conns -> {"new", "up", "half", "down"}]
WireType == wire \in [Conns -> Seq(Frames)]
SrvTypes ==
    /\ srv \in [Calls -> {0} \cup Conns] /\ srvDone \in [Calls -> BOOLEAN]
    /\ sent \in [Calls -> 0..MaxOut] /\ upl \in [Calls -> Seq(Nat)] /\ uplEnd \in [Calls -> BOOLEAN]

TypeInv ==
    /\ AppTypes /\ CmdType /\ ChanType /\ ErrType /\ OutType /\ ActTypes /\ PumpTypes /\ ReadTypes
    /\ LinkTypes /\ WireType /\ SrvTypes

-----------------------------------------------------------------------------
\* Sequences.

LEMMA TailOf ==
    ASSUME NEW S, NEW s \in Seq(S), s # <<>>
    PROVE  /\ Tail(s) \in Seq(S) /\ Head(s) \in S /\ Head(s) = s[1] /\ 1 \in 1..Len(s)
           /\ Len(s) \in Nat /\ Len(Tail(s)) \in Nat /\ Len(Tail(s)) = Len(s) - 1 /\ Len(s) = Len(Tail(s)) + 1
           /\ \A p \in 1..Len(Tail(s)) : Tail(s)[p] = s[p + 1] /\ p + 1 \in 1..Len(s) /\ p + 1 # 1 /\ 1 < p + 1
  OBVIOUS

LEMMA AppendOf ==
    ASSUME NEW S, NEW s \in Seq(S), NEW m \in S
    PROVE  /\ Append(s, m) \in Seq(S) /\ Append(s, m) # <<>> /\ Len(s) \in Nat /\ Len(Append(s, m)) = Len(s) + 1
           /\ Append(s, m)[Len(s) + 1] = m /\ Len(s) + 1 \in 1..Len(Append(s, m))
           /\ \A p \in 1..Len(s) : Append(s, m)[p] = s[p] /\ p \in 1..Len(Append(s, m)) /\ p < Len(s) + 1
           /\ \A p \in 1..Len(Append(s, m)) : p \in 1..Len(s) \/ p = Len(s) + 1
  <1>1. /\ Append(s, m) \in Seq(S) /\ Len(s) \in Nat /\ Len(Append(s, m)) = Len(s) + 1
        /\ Append(s, m)[Len(s) + 1] = m
    OBVIOUS
  <1>2. \A p \in 1..Len(s) : Append(s, m)[p] = s[p]
    OBVIOUS
  <1>3. Append(s, m) # <<>>
    BY <1>1
  <1>4. /\ Len(s) + 1 \in 1..(Len(s) + 1)
        /\ \A p \in 1..Len(s) : p \in 1..(Len(s) + 1) /\ p < Len(s) + 1
        /\ \A p \in 1..(Len(s) + 1) : p \in 1..Len(s) \/ p = Len(s) + 1
    BY <1>1
  <1>5. QED
    BY Zenon, <1>1, <1>2, <1>3, <1>4

LEMMA LastOrBefore == \A l \in Nat : \A q \in 1..(l + 1) : q \in 1..l \/ q = l + 1
  OBVIOUS

LEMMA AppendElem ==
    ASSUME NEW S, NEW s \in Seq(S), NEW m \in S, NEW t, t = Append(s, m), NEW p \in 1..Len(t)
    PROVE  (p \in 1..Len(s) /\ t[p] = s[p]) \/ (p = Len(s) + 1 /\ t[p] = m)
  <1>1. Len(s) \in Nat /\ Len(t) = Len(s) + 1 /\ t[Len(s) + 1] = m
    OBVIOUS
  <1>2. \A q \in 1..Len(s) : t[q] = s[q]
    <2>1. \A q \in 1..Len(s) : Append(s, m)[q] = s[q]
      OBVIOUS
    <2>2. QED
      BY Zenon, <2>1
  <1>3. p \in 1..Len(s) \/ p = Len(s) + 1
    BY Zenon, <1>1, LastOrBefore
  <1>4. QED
    BY Zenon, <1>1, <1>2, <1>3

LEMMA TailElem ==
    ASSUME NEW S, NEW s \in Seq(S), s # <<>>, NEW t, t = Tail(s), NEW p \in 1..Len(t)
    PROVE  p + 1 \in 1..Len(s) /\ t[p] = s[p + 1]
  BY Zenon, TailOf

LEMMA AppendLast ==
    ASSUME NEW S, NEW s \in Seq(S), NEW m \in S, NEW t, t = Append(s, m)
    PROVE  /\ t \in Seq(S) /\ t # <<>> /\ Len(s) \in Nat /\ Len(t) = Len(s) + 1
           /\ Len(s) + 1 \in 1..Len(t) /\ t[Len(s) + 1] = m
  BY AppendOf

LEMMA AppendFind ==
    ASSUME NEW S, NEW s \in Seq(S), NEW m \in S, NEW t, t = Append(s, m), NEW x
    PROVE  /\ (\E p \in 1..Len(s) : s[p] = x) => \E p \in 1..Len(t) : t[p] = x
           /\ (\E p \in 1..Len(t) : t[p] = x) => x = m \/ \E p \in 1..Len(s) : s[p] = x
  <1>1. ASSUME NEW p \in 1..Len(s) PROVE p \in 1..Len(t) /\ t[p] = s[p]
    OBVIOUS
  <1>2. ASSUME NEW p \in 1..Len(t) PROVE (p \in 1..Len(s) /\ t[p] = s[p]) \/ t[p] = m
    BY Zenon, AppendElem
  <1>3. QED
    BY Zenon, <1>1, <1>2

LEMMA ElementOf ==
    ASSUME NEW S, NEW s \in Seq(S), NEW p \in 1..Len(s)
    PROVE  s[p] \in S
  OBVIOUS

LEMMA BeforeTail ==
    ASSUME NEW S, NEW s \in Seq(S), s # <<>>, NEW p \in 1..Len(s), p # 1
    PROVE  p - 1 \in 1..Len(Tail(s)) /\ Tail(s)[p - 1] = s[p]
  OBVIOUS

LEMMA Empties ==
    ASSUME NEW S, NEW s \in Seq(S)
    PROVE  Len(s) \in Nat /\ (Len(s) = 0 <=> s = <<>>)
  OBVIOUS

LEMMA EmptyOf ==
    ASSUME NEW S
    PROVE  <<>> \in Seq(S) /\ Len(<<>>) = 0 /\ \A p \in 1..Len(<<>>) : FALSE
  OBVIOUS

LEMMA OneOf ==
    ASSUME NEW S, NEW m \in S
    PROVE  /\ <<m>> \in Seq(S) /\ Len(<<m>>) = 1 /\ <<m>>[1] = m
           /\ \A p \in 1..Len(<<m>>) : p = 1
  OBVIOUS

\* Frames are what the server, the readers and drain_pending make.
LEMMA FrameType ==
    ASSUME NEW i \in Nat, NEW t \in FrameTypes, NEW n \in Nat
    PROVE  /\ Frame(i, t, n) \in Frames /\ Frame(i, t, n).id = i /\ Frame(i, t, n).type = t
           /\ Frame(i, t, n).seq = n
  BY DEF Frame, Frames

LEMMA IdTypes == /\ \A i \in Calls : i \in Nat /\ i # 0
                 /\ \A k \in Conns : k \in Nat /\ k # 0
                 /\ 0 \in Nat
  BY RustClientAssumption DEF Calls, Conns

-----------------------------------------------------------------------------
\* Types.

LEMMA InitTypes == Init => TypeInv
  <1> SUFFICES ASSUME Init PROVE TypeInv
    OBVIOUS
  <1>1. NoFrame \in Frames
    BY DEF NoFrame, Frame, Frames, FrameTypes
  <1>2. 1 \in Conns /\ 0 \in 0..MaxIn /\ 0 \in 0..MaxOut
    BY RustClientAssumption DEF Conns
  <1>3. AppTypes
    BY Zenon, <1>2 DEF Init, AppTypes
  <1>7. SrvTypes
    <2>1. srvDone \in [Calls -> BOOLEAN] /\ uplEnd \in [Calls -> BOOLEAN]
      BY Zenon DEF Init
    <2>2. srv \in [Calls -> {0} \cup Conns] /\ sent \in [Calls -> 0..MaxOut] /\ upl \in [Calls -> Seq(Nat)]
      BY <1>2 DEF Init
    <2>3. QED
      BY Zenon, <2>1, <2>2 DEF SrvTypes
  <1>4. CmdType /\ ChanType /\ ErrType /\ OutType /\ WireType
    BY DEF Init, CmdType, ChanType, ErrType, OutType, WireType
  <1>5. ActTypes /\ PumpTypes
    <2>1. dry \in BOOLEAN
      BY Zenon DEF Init
    <2>2. QED
      BY <1>1, <1>2, <2>1 DEF Init, ActTypes, PumpTypes
  <1>8. ReadTypes
    BY DEF Init, ReadTypes
  <1>9. LinkTypes
    BY <1>2 DEF Init, LinkTypes
  <1>6. QED
    BY Zenon, <1>3, <1>4, <1>5, <1>7, <1>8, <1>9 DEF TypeInv

\* What a step leaves alone keeps its type.
TypesKept ==
    /\ UNCHANGED appVars => AppTypes'
    /\ UNCHANGED cmds => CmdType'
    /\ UNCHANGED chan => ChanType'
    /\ UNCHANGED errs => ErrType'
    /\ UNCHANGED out => OutType'
    /\ UNCHANGED actVars => ActTypes'
    /\ UNCHANGED pumpVars => PumpTypes'
    /\ UNCHANGED rdVars => ReadTypes'
    /\ UNCHANGED netVars => LinkTypes'
    /\ UNCHANGED wire => WireType'
    /\ UNCHANGED srvVars => SrvTypes'

LEMMA KeepTypes ==
    ASSUME TypeInv
    PROVE  TypesKept
  <1>1. UNCHANGED appVars => AppTypes'
    BY Zenon DEF TypeInv, AppTypes, appVars
  <1>2. UNCHANGED cmds => CmdType'
    BY Zenon DEF TypeInv, CmdType
  <1>3. UNCHANGED chan => ChanType'
    BY Zenon DEF TypeInv, ChanType
  <1>4. UNCHANGED errs => ErrType'
    BY Zenon DEF TypeInv, ErrType
  <1>5. UNCHANGED out => OutType'
    BY Zenon DEF TypeInv, OutType
  <1>6. UNCHANGED actVars => ActTypes'
    BY Zenon DEF TypeInv, ActTypes, actVars
  <1>7. UNCHANGED pumpVars => PumpTypes'
    BY Zenon DEF TypeInv, PumpTypes, pumpVars
  <1>8. UNCHANGED rdVars => ReadTypes'
    BY Zenon DEF TypeInv, ReadTypes, rdVars
  <1>9. UNCHANGED netVars => LinkTypes'
    BY Zenon DEF TypeInv, LinkTypes, netVars
  <1>10. UNCHANGED wire => WireType'
    BY Zenon DEF TypeInv, WireType
  <1>11. UNCHANGED srvVars => SrvTypes'
    BY Zenon DEF TypeInv, SrvTypes, srvVars
  <1>12. QED
    BY Zenon, <1>1, <1>2, <1>3, <1>4, <1>5, <1>6, <1>7, <1>8, <1>9, <1>10, <1>11 DEF TypesKept

\* A caller's step that changes neither the actor nor the network.
LEMMA CallerTypes ==
    ASSUME TypeInv, NEW i \in Calls,
           (\E k \in Kinds : Begin(i, k)) \/ Post(i) \/ Send(i) \/ SendClose(i) \/ Receive(i) \/ ReceiveNone(i)
               \/ DropStream(i) \/ Close
    PROVE  TypeInv'
  <1>1. /\ UNCHANGED <<errs, actVars, pumpVars, rdVars, netVars, wire, srvVars>>
    BY Zenon DEF Begin, Post, Send, SendClose, Receive, ReceiveNone, DropStream, Close
  <1>2. ErrType' /\ ActTypes' /\ PumpTypes' /\ ReadTypes' /\ LinkTypes' /\ WireType' /\ SrvTypes'
    BY Zenon, <1>1, KeepTypes DEF TypesKept
  <1>3. AppTypes /\ CmdType /\ ChanType /\ OutType
    BY Zenon DEF TypeInv
  <1>4. SUFFICES AppTypes' /\ CmdType' /\ ChanType' /\ OutType'
    BY Zenon, <1>2 DEF TypeInv
  <1>5. CASE \E k \in Kinds : Begin(i, k)
    <2>1. CmdType' /\ ChanType' /\ OutType'
      BY Zenon, <1>3, <1>5 DEF Begin, CmdType, ChanType, OutType
    <2>2. AppTypes'
      BY <1>3, <1>5 DEF Begin, AppTypes
    <2>3. QED
      BY Zenon, <2>1, <2>2
  <1>6. CASE Post(i)
    <2>1. ChanType' /\ OutType'
      BY Zenon, <1>3, <1>6 DEF Post, ChanType, OutType
    <2>2. AppTypes'
      BY <1>3, <1>6 DEF Post, End, AppTypes
    <2>3. CmdType'
      BY <1>3, <1>6 DEF Post, CmdType
    <2>4. QED
      BY Zenon, <2>1, <2>2, <2>3
  <1>7. CASE Send(i)
    <2>1. CmdType' /\ ChanType'
      BY Zenon, <1>3, <1>7 DEF Send, CmdType, ChanType
    <2>2. accepted[i] + 1 \in 0..MaxIn
      BY <1>3, <1>7, RustClientAssumption DEF Send, AppTypes
    <2>3. AppTypes'
      BY <1>3, <1>7, <2>2 DEF Send, AppTypes
    <2>4. OutType'
      BY <1>3, <1>7, <2>2 DEF Send, OutType
    <2>5. QED
      BY Zenon, <2>1, <2>3, <2>4
  <1>8. CASE SendClose(i)
    <2>1. CmdType' /\ ChanType'
      BY Zenon, <1>3, <1>8 DEF SendClose, CmdType, ChanType
    <2>2. CloseFrame \in 0..MaxIn
      BY RustClientAssumption DEF CloseFrame
    <2>3. AppTypes'
      <3>1. /\ UNCHANGED <<reconnect, kind, closing, posted, accepted, recv>> /\ ended' = ended \cup {i}
            /\ outcome' = outcome \/ outcome' = [outcome EXCEPT ![i] = "lost"]
        BY Zenon, <1>8 DEF SendClose, End
      <3>2. QED
        BY <1>3, <3>1 DEF AppTypes
    <2>4. OutType'
      <3>1. out' = out \/ out' = [out EXCEPT ![i] = Append(@, CloseFrame)]
        BY Zenon, <1>8 DEF SendClose
      <3>2. out \in [Calls -> Seq(0..MaxIn)] /\ out[i] \in Seq(0..MaxIn)
        BY Zenon, <1>3 DEF OutType
      <3>3. PICK s \in Seq(0..MaxIn) : s = Append(out[i], CloseFrame)
        BY Zenon, <2>2, <3>2, AppendOf
      <3>4. out' = out \/ out' = [out EXCEPT ![i] = s]
        BY <3>1, <3>3
      <3>5. QED
        BY <3>2, <3>4 DEF OutType
    <2>5. QED
      BY Zenon, <2>1, <2>3, <2>4
  <1>9. CASE Receive(i)
    <2>1. CmdType' /\ OutType'
      BY Zenon, <1>3, <1>9 DEF Receive, CmdType, OutType
    <2>2. ChanType'
      BY <1>3, <1>9 DEF Receive, ChanType
    <2>3. AppTypes'
      <3>1. PICK o \in {"answered", "end", "remote", "lost"} :
               (outcome' = outcome /\ recv' = [recv EXCEPT ![i] = @ + 1])
                   \/ (outcome' = [outcome EXCEPT ![i] = o] /\ recv' = recv)
        BY <1>9 DEF Receive, End
      <3>2. UNCHANGED <<reconnect, kind, closing, posted, ended, accepted>>
        BY Zenon, <1>9 DEF Receive
      <3>3. QED
        BY <1>3, <3>1, <3>2 DEF AppTypes
    <2>4. QED
      BY Zenon, <2>1, <2>2, <2>3
  <1>10. CASE ReceiveNone(i)
    <2>1. CmdType' /\ OutType' /\ ChanType'
      BY Zenon, <1>3, <1>10 DEF ReceiveNone, CmdType, OutType, ChanType
    <2>2. AppTypes'
      BY <1>3, <1>10 DEF ReceiveNone, End, AppTypes
    <2>3. QED
      BY Zenon, <2>1, <2>2
  <1>11. CASE DropStream(i)
    <2>1. CmdType' /\ OutType'
      BY Zenon, <1>3, <1>11 DEF DropStream, CmdType, OutType
    <2>2. ChanType'
      BY <1>3, <1>11 DEF DropStream, ChanType
    <2>3. AppTypes'
      BY <1>3, <1>11 DEF DropStream, End, AppTypes
    <2>4. QED
      BY Zenon, <2>1, <2>2, <2>3
  <1>12. CASE Close
    <2>1. ChanType' /\ OutType'
      BY Zenon, <1>3, <1>12 DEF Close, ChanType, OutType
    <2>2. CmdType'
      BY <1>3, <1>12 DEF Close, CmdType
    <2>3. AppTypes'
      BY <1>3, <1>12 DEF Close, AppTypes
    <2>4. QED
      BY Zenon, <2>1, <2>2, <2>3
  <1>13. QED
    BY Zenon, <1>5, <1>6, <1>7, <1>8, <1>9, <1>10, <1>11, <1>12

\* drain_pending keeps the types.
LEMMA DrainTypes ==
    ASSUME TypeInv, NEW S, S \subseteq Calls, Drain(S)
    PROVE  ChanType' /\ ErrType' /\ pending' = {}
  <1>1. \A i \in Calls : chan[i] \in Seq(Frames)
    BY DEF TypeInv, ChanType
  <1>2. \A i \in Calls : <<Frame(i, "lost", 0)>> \in Seq(Frames)
    <2>1. SUFFICES ASSUME NEW i \in Calls PROVE <<Frame(i, "lost", 0)>> \in Seq(Frames)
      OBVIOUS
    <2>2. Frame(i, "lost", 0) \in Frames
      BY IdTypes, FrameType DEF FrameTypes
    <2>3. QED
      BY Zenon, <2>2, OneOf
  <1>3. ChanType'
    BY <1>1, <1>2 DEF Drain, ChanType
  <1>4. ErrType'
    BY DEF Drain, TypeInv, ErrType
  <1>5. QED
    BY Zenon, <1>3, <1>4 DEF Drain

LEMMA HalfClosedType ==
    ASSUME TypeInv
    PROVE  HalfClosed \in [Conns -> {"new", "up", "half", "down"}]
  BY Zenon DEF TypeInv, LinkTypes, HalfClosed

\* What is common to the three ways of giving a connection up.
GivesUp(S) ==
    /\ Drain(S) /\ writer' = 0 /\ link' = HalfClosed
    /\ \/ actor' = "reconnect" /\ streams' = streams /\ reconnect
       \/ actor' = "exited" /\ streams' = {} /\ cmds' = <<>> /\ queue' = <<>>

\* The frame at the head of the queue and the command at the head of the channel.
LEMMA HeadTypes ==
    ASSUME TypeInv
    PROVE  /\ queue # <<>> => Head(queue) \in Frames /\ Tail(queue) \in Seq(Frames)
           /\ cmds # <<>> => Tail(cmds) \in Seq(Calls \cup {Shutdown})
                             /\ (Head(cmds) # Shutdown => Head(cmds) \in Calls)
  <1>1. cmds \in Seq(Calls \cup {Shutdown}) /\ queue \in Seq(Frames)
    BY Zenon DEF TypeInv, CmdType, ReadTypes
  <1>2. queue # <<>> => Head(queue) \in Frames /\ Tail(queue) \in Seq(Frames)
    BY Zenon, <1>1, TailOf
  <1>3. cmds # <<>> => Tail(cmds) \in Seq(Calls \cup {Shutdown}) /\ Head(cmds) \in Calls \cup {Shutdown}
    BY Zenon, <1>1, TailOf
  <1>4. QED
    BY <1>2, <1>3

\* The two outcomes of a request.
Requests(i) ==
    /\ actor = "select" /\ cmds # <<>> /\ i = Head(cmds) /\ i # Shutdown /\ WriteOk
    /\ pending' = pending \cup {i}
    /\ streams' = IF HasOut(i) THEN streams \cup {i} ELSE streams
    /\ srv' = IF Reaches THEN [srv EXCEPT ![i] = writer] ELSE srv
    /\ cmds' = Tail(cmds) /\ actor' = "top"
    /\ UNCHANGED <<appVars, chan, errs, out, writer, queue, link, hand, pumpVars, reader, dialled, wire, srvDone,
                   sent, upl, uplEnd>>
RequestFails(i) ==
    /\ actor = "select" /\ cmds # <<>> /\ i = Head(cmds) /\ i # Shutdown
    /\ GivesUp(pending \cup {i})
    /\ cmds' \in {Tail(cmds), <<>>} /\ queue' \in {queue, <<>>}
    /\ actor' = "reconnect" => cmds' = Tail(cmds)
    /\ actor' = "exited" => ~reconnect
    /\ out' = [out EXCEPT ![i] = <<>>]
    /\ UNCHANGED <<appVars, hand, pumpVars, reader, dialled, wire, srvVars>>

LEMMA TwoRequests ==
    ASSUME TypeInv, TakeCall
    PROVE  \E i \in Calls : Requests(i) \/ RequestFails(i)
  <1>1. PICK i : i = Head(cmds)
    BY Zenon
  <1>2. i \in Calls /\ actor = "select" /\ cmds # <<>> /\ i # Shutdown
    BY Zenon, <1>1, HeadTypes DEF TakeCall
  <1>3. UNCHANGED <<appVars, hand, pumpVars, reader, dialled, wire, srvDone, sent, upl, uplEnd>>
    BY Zenon DEF TakeCall
  <1>4. \/ /\ WriteOk
           /\ pending' = pending \cup {i}
           /\ streams' = IF HasOut(i) THEN streams \cup {i} ELSE streams
           /\ srv' = IF Reaches THEN [srv EXCEPT ![i] = writer] ELSE srv
           /\ cmds' = Tail(cmds) /\ actor' = "top"
           /\ UNCHANGED <<chan, errs, out, writer, queue, link>>
        \/ /\ Lost(pending \cup {i}, Tail(cmds), queue)
           /\ out' = [out EXCEPT ![i] = <<>>]
           /\ UNCHANGED srv
    BY Zenon, <1>1 DEF TakeCall
  <1>5. CASE WriteOk /\ UNCHANGED <<chan, errs, out, writer, queue, link>>
             /\ pending' = pending \cup {i} /\ streams' = (IF HasOut(i) THEN streams \cup {i} ELSE streams)
             /\ srv' = (IF Reaches THEN [srv EXCEPT ![i] = writer] ELSE srv)
             /\ cmds' = Tail(cmds) /\ actor' = "top"
    <2>1. Requests(i)
      BY Zenon, <1>1, <1>2, <1>3, <1>5 DEF Requests
    <2>2. QED
      BY Zenon, <1>2, <2>1
  <1>6. CASE Lost(pending \cup {i}, Tail(cmds), queue) /\ out' = [out EXCEPT ![i] = <<>>] /\ srv' = srv
    <2>1. GivesUp(pending \cup {i})
      BY Zenon, <1>6 DEF Lost, Leave, GivesUp
    <2>2. /\ cmds' \in {Tail(cmds), <<>>} /\ queue' \in {queue, <<>>} /\ (actor' = "exited" => ~reconnect)
          /\ actor' = "reconnect" => cmds' = Tail(cmds)
      BY <1>6 DEF Lost, Leave
    <2>3. RequestFails(i)
      BY Zenon, <1>1, <1>2, <1>3, <1>6, <2>1, <2>2 DEF RequestFails, srvVars
    <2>4. QED
      BY Zenon, <1>2, <2>3
  <1>7. QED
    BY Zenon, <1>4, <1>5, <1>6

\* The other two: ActorCommand::Shutdown and ReaderMessage::Closed.
ShutsDown ==
    /\ actor = "select" /\ cmds # <<>> /\ Head(cmds) = Shutdown
    /\ GivesUp(pending) /\ actor' = "exited" /\ cmds' = <<>> /\ queue' = <<>>
    /\ UNCHANGED <<appVars, out, hand, pumpVars, reader, dialled, wire, srvVars>>
Loses ==
    /\ actor = "select" /\ queue # <<>> /\ Head(queue).type = "closed"
    /\ GivesUp(pending)
    /\ cmds' \in {cmds, <<>>} /\ queue' \in {Tail(queue), <<>>}
    /\ actor' = "reconnect" => cmds' = cmds
    /\ actor' = "exited" => ~reconnect
    /\ UNCHANGED <<appVars, out, hand, pumpVars, reader, dialled, wire, srvVars>>

LEMMA TwoLosses ==
    /\ TakeShutdown => ShutsDown
    /\ TakeClosed => Loses
  <1>1. TakeShutdown => ShutsDown
    BY Zenon DEF TakeShutdown, ShutsDown, Leave, GivesUp
  <1>2. ASSUME TakeClosed PROVE Loses
    <2>1. Lost(pending, cmds, Tail(queue))
      BY Zenon, <1>2 DEF TakeClosed
    <2>2. GivesUp(pending)
      BY Zenon, <2>1 DEF Lost, Leave, GivesUp
    <2>3. /\ cmds' \in {cmds, <<>>} /\ queue' \in {Tail(queue), <<>>} /\ (actor' = "exited" => ~reconnect)
          /\ actor' = "reconnect" => cmds' = cmds
      BY <2>1 DEF Lost, Leave
    <2>4. QED
      BY Zenon, <1>2, <2>2, <2>3 DEF TakeClosed, Loses
  <1>3. QED
    BY Zenon, <1>1, <1>2

LEMMA GivesUpTypes ==
    ASSUME TypeInv, NEW S, S \subseteq Calls, GivesUp(S), UNCHANGED hand, UNCHANGED dialled
    PROVE  ChanType' /\ ErrType' /\ ActTypes' /\ LinkTypes'
  <1>1. ChanType' /\ ErrType' /\ pending' = {}
    BY Zenon, DrainTypes DEF GivesUp
  <1>2. LinkTypes'
    BY Zenon, HalfClosedType DEF GivesUp, LinkTypes, TypeInv
  <1>3. (streams' = streams \/ streams' = {}) /\ writer' = 0 /\ actor' \in {"reconnect", "exited"}
    BY Zenon DEF GivesUp
  <1>4. streams \subseteq Calls /\ hand' \in Frames
    BY Zenon DEF TypeInv, ActTypes
  <1>5. ActTypes'
    BY <1>1, <1>3, <1>4 DEF ActTypes
  <1>6. QED
    BY Zenon, <1>1, <1>2, <1>5

\* The actor's steps.
LEMMA PumpStepTypes ==
    ASSUME TypeInv, NEW i \in Calls, Pump(i)
    PROVE  TypeInv'
  <1>1. /\ UNCHANGED <<appVars, cmds, chan, errs, rdVars, wire>>
        /\ UNCHANGED <<pending, hand, dialled, srv, srvDone, sent>>
    BY Zenon DEF Pump, PumpWrite, PumpDry, PumpCheck, actVars, netVars, srvVars
  <1>2. AppTypes' /\ CmdType' /\ ChanType' /\ ErrType' /\ ReadTypes' /\ WireType'
    BY Zenon, <1>1, KeepTypes DEF TypesKept
  <1>3. OutType /\ ActTypes /\ PumpTypes /\ LinkTypes /\ SrvTypes
    BY Zenon DEF TypeInv
  <1>4. SUFFICES OutType' /\ ActTypes' /\ PumpTypes' /\ LinkTypes' /\ SrvTypes'
    BY Zenon, <1>2 DEF TypeInv
  <1>5. out[i] \in Seq(0..MaxIn)
    BY Zenon, <1>3 DEF OutType
  <1>6. CASE PumpWrite(i)
    <2>1. Tail(out[i]) \in Seq(0..MaxIn) /\ Head(out[i]) \in 0..MaxIn
      BY Zenon, <1>5, <1>6, TailOf DEF PumpWrite
    <2>2. out' = [out EXCEPT ![i] = Tail(out[i])]
      BY <1>6 DEF PumpWrite
    <2>3. OutType'
      BY <1>3, <2>1, <2>2 DEF OutType
    <2>4. /\ UNCHANGED <<streams, dry>>
          /\ \/ WriteOk /\ Upload(i, Head(out[i])) /\ at' = i /\ UNCHANGED <<actor, writer, todo, link>>
             \/ /\ writer' = 0 /\ link' = HalfClosed /\ actor' = "select" /\ todo' = {} /\ at' = 0
                /\ UNCHANGED <<upl, uplEnd>>
      BY Zenon, <1>6 DEF PumpWrite
    <2>5. CASE WriteOk /\ Upload(i, Head(out[i])) /\ at' = i /\ UNCHANGED <<actor, writer, todo, link>>
      <3>1. ActTypes' /\ LinkTypes'
        BY Zenon, <1>1, <1>3, <2>4, <2>5 DEF ActTypes, LinkTypes
      <3>2. PumpTypes'
        BY <1>3, <2>4, <2>5 DEF PumpTypes
      <3>3. upl[i] \in Seq(Nat) /\ Head(out[i]) \in Nat
        BY <1>3, <2>1 DEF SrvTypes
      <3>4. Append(upl[i], Head(out[i])) \in Seq(Nat)
        BY Zenon, <3>3, AppendOf
      <3>5. PICK u \in Seq(Nat) : u = Append(upl[i], Head(out[i]))
        BY Zenon, <3>4
      <3>6. /\ upl' = upl \/ upl' = [upl EXCEPT ![i] = u]
            /\ uplEnd' = uplEnd \/ uplEnd' = [uplEnd EXCEPT ![i] = TRUE]
        BY <2>5, <3>5 DEF Upload
      <3>7. upl' \in [Calls -> Seq(Nat)]
        BY Zenon, <1>3, <3>6 DEF SrvTypes
      <3>8. uplEnd' \in [Calls -> BOOLEAN]
        BY Zenon, <1>3, <3>6 DEF SrvTypes
      <3>9. SrvTypes'
        BY Zenon, <1>1, <1>3, <3>7, <3>8 DEF SrvTypes
      <3>10. QED
        BY Zenon, <2>3, <3>1, <3>2, <3>9
    <2>6. CASE /\ writer' = 0 /\ link' = HalfClosed /\ actor' = "select" /\ todo' = {} /\ at' = 0
               /\ UNCHANGED <<upl, uplEnd>>
      <3>1. LinkTypes'
        BY Zenon, <1>1, <1>3, <2>6, HalfClosedType DEF LinkTypes
      <3>2. ActTypes'
        BY <1>1, <1>3, <2>4, <2>6 DEF ActTypes
      <3>3. PumpTypes'
        BY <1>3, <2>4, <2>6 DEF PumpTypes
      <3>4. SrvTypes'
        BY Zenon, <1>1, <1>3, <2>6 DEF SrvTypes
      <3>5. QED
        BY Zenon, <2>3, <3>1, <3>2, <3>3, <3>4
    <2>7. QED
      BY Zenon, <2>4, <2>5, <2>6
  <1>7. CASE PumpDry(i)
    <2>1. OutType' /\ ActTypes' /\ LinkTypes' /\ SrvTypes'
      BY Zenon, <1>7, KeepTypes DEF PumpDry, TypesKept
    <2>2. PumpTypes'
      BY <1>3, <1>7 DEF PumpDry, PumpTypes
    <2>3. QED
      BY Zenon, <2>1, <2>2
  <1>8. CASE PumpCheck(i)
    <2>1. LinkTypes' /\ SrvTypes'
      BY Zenon, <1>8, KeepTypes DEF PumpCheck, TypesKept
    <2>2. /\ todo' = todo \ {i} /\ at' = 0 /\ dry' = FALSE /\ UNCHANGED <<actor, writer>>
          /\ streams' = streams \/ streams' = streams \ {i}
          /\ out' = out \/ out' = [out EXCEPT ![i] = <<>>]
      BY Zenon, <1>8 DEF PumpCheck
    <2>3. PumpTypes'
      BY Zenon, <1>3, <2>2 DEF PumpTypes
    <2>4. ActTypes'
      BY <1>1, <1>3, <2>2 DEF ActTypes
    <2>5. OutType'
      <3>1. <<>> \in Seq(0..MaxIn)
        BY Zenon, EmptyOf
      <3>2. QED
        BY Zenon, <1>3, <2>2, <3>1 DEF OutType
    <2>6. QED
      BY Zenon, <2>1, <2>3, <2>4, <2>5
  <1>9. QED
    BY Zenon, <1>6, <1>7, <1>8 DEF Pump

LEMMA ActorTypes ==
    ASSUME TypeInv, Actor
    PROVE  TypeInv'
  <1>0. /\ AppTypes /\ CmdType /\ ChanType /\ ErrType /\ OutType /\ ActTypes /\ PumpTypes /\ ReadTypes
        /\ LinkTypes /\ WireType /\ SrvTypes
    BY Zenon DEF TypeInv
  <1>1. CASE Top \/ PumpDone
    <2>1. /\ UNCHANGED <<appVars, cmds, chan, errs, out, rdVars, netVars, wire, srvVars>>
          /\ UNCHANGED <<writer, pending, streams, hand, at, dry>>
          /\ actor' \in {"select", "pump"} /\ (todo' = {} \/ todo' = streams \/ todo' = todo)
      BY Zenon, <1>1 DEF Top, PumpDone, pumpVars
    <2>2. ActTypes'
      BY <1>0, <2>1 DEF ActTypes
    <2>3. PumpTypes'
      BY <1>0, <2>1 DEF PumpTypes, ActTypes
    <2>4. QED
      BY Zenon, <2>1, <2>2, <2>3, KeepTypes DEF TypesKept, TypeInv
  <1>2. CASE \E i \in Calls : Pump(i)
    BY Zenon, <1>2, PumpStepTypes
  <1>3. CASE TakeCall
    <2>1. PICK i \in Calls : Requests(i) \/ RequestFails(i)
      BY Zenon, <1>3, TwoRequests
    <2>2. CASE Requests(i)
      <3>1. /\ UNCHANGED <<appVars, chan, errs, out, pumpVars, wire>>
            /\ UNCHANGED <<queue, reader, dialled, link, writer, hand, srvDone, sent, upl, uplEnd>>
            /\ cmds # <<>> /\ cmds' = Tail(cmds) /\ actor' = "top"
            /\ pending' = pending \cup {i} /\ (streams' = streams \cup {i} \/ streams' = streams)
            /\ srv' = [srv EXCEPT ![i] = writer] \/ srv' = srv
        BY Zenon, <2>2 DEF Requests
      <3>2. AppTypes' /\ ChanType' /\ ErrType' /\ OutType' /\ PumpTypes' /\ WireType'
        BY Zenon, <3>1, KeepTypes DEF TypesKept
      <3>3. ReadTypes' /\ LinkTypes'
        BY Zenon, <1>0, <3>1 DEF ReadTypes, LinkTypes
      <3>4. CmdType'
        BY Zenon, <3>1, HeadTypes DEF CmdType
      <3>5. ActTypes'
        BY <1>0, <3>1 DEF ActTypes
      <3>6. srv' \in [Calls -> {0} \cup Conns]
        BY Zenon, <1>0, <3>1 DEF ActTypes, SrvTypes
      <3>7. SrvTypes'
        BY Zenon, <1>0, <3>1, <3>6 DEF SrvTypes
      <3>8. QED
        BY Zenon, <3>2, <3>3, <3>4, <3>5, <3>7 DEF TypeInv
    <2>3. CASE RequestFails(i)
      <3>1. /\ UNCHANGED <<appVars, pumpVars, wire, srvVars, hand, dialled, reader>>
            /\ cmds # <<>> /\ GivesUp(pending \cup {i}) /\ out' = [out EXCEPT ![i] = <<>>]
        BY Zenon, <2>3 DEF RequestFails
      <3>2. (cmds' = Tail(cmds) \/ cmds' = <<>>) /\ (queue' = queue \/ queue' = <<>>)
        BY <2>3 DEF RequestFails
      <3>3. AppTypes' /\ PumpTypes' /\ WireType' /\ SrvTypes'
        BY Zenon, <3>1, KeepTypes DEF TypesKept
      <3>4. CmdType' /\ ReadTypes'
        BY Zenon, <1>0, <3>1, <3>2, HeadTypes, EmptyOf DEF CmdType, ReadTypes
      <3>5. pending \cup {i} \subseteq Calls
        BY <1>0 DEF ActTypes
      <3>6. ChanType' /\ ErrType' /\ ActTypes' /\ LinkTypes'
        BY Zenon, <3>1, <3>5, GivesUpTypes
      <3>7. OutType'
        BY <1>0, <3>1 DEF OutType
      <3>8. QED
        BY Zenon, <3>3, <3>4, <3>6, <3>7 DEF TypeInv
    <2>4. QED
      BY Zenon, <2>1, <2>2, <2>3
  <1>4. CASE TakeShutdown \/ TakeClosed
    <2>1. ShutsDown \/ Loses
      BY Zenon, <1>4, TwoLosses
    <2>2. UNCHANGED <<appVars, out, pumpVars, wire, srvVars, hand, dialled, reader>> /\ GivesUp(pending)
      BY Zenon, <2>1 DEF ShutsDown, Loses
    <2>3. (cmds' = cmds \/ cmds' = <<>>) /\ ((queue # <<>> /\ queue' = Tail(queue)) \/ queue' = <<>>)
      BY <2>1 DEF ShutsDown, Loses
    <2>4. AppTypes' /\ OutType' /\ PumpTypes' /\ WireType' /\ SrvTypes'
      BY Zenon, <2>2, KeepTypes DEF TypesKept
    <2>5. CmdType' /\ ReadTypes'
      BY Zenon, <1>0, <2>2, <2>3, HeadTypes, EmptyOf DEF CmdType, ReadTypes
    <2>6. ChanType' /\ ErrType' /\ ActTypes' /\ LinkTypes'
      BY Zenon, <1>0, <2>2, GivesUpTypes DEF ActTypes
    <2>7. QED
      BY Zenon, <2>4, <2>5, <2>6 DEF TypeInv
  <1>5. CASE TakeFrame
    <2>1. PICK m : m = Head(queue)
      BY Zenon
    <2>2. /\ UNCHANGED <<appVars, cmds, errs, out, pumpVars, netVars, wire, srvVars>>
          /\ UNCHANGED <<writer, streams, reader>>
          /\ queue # <<>> /\ queue' = Tail(queue)
          /\ (pending' = pending \/ pending' = pending \ {m.id})
          /\ (hand' = hand \/ hand' = m) /\ actor' \in {"send", "top"}
          /\ (chan' = chan \/ chan' = [chan EXCEPT ![m.id] = <<m>>])
      BY Zenon, <1>5, <2>1 DEF TakeFrame
    <2>3. AppTypes' /\ CmdType' /\ ErrType' /\ OutType' /\ PumpTypes' /\ LinkTypes' /\ WireType' /\ SrvTypes'
      BY Zenon, <2>2, KeepTypes DEF TypesKept
    <2>4. m \in Frames /\ Tail(queue) \in Seq(Frames)
      BY Zenon, <2>1, <2>2, HeadTypes
    <2>5. ReadTypes'
      BY Zenon, <1>0, <2>2, <2>4 DEF ReadTypes
    <2>6. ActTypes'
      BY <1>0, <2>2, <2>4 DEF ActTypes
    <2>7. <<m>> \in Seq(Frames)
      BY Zenon, <2>4, OneOf
    <2>8. ChanType'
      BY Zenon, <1>0, <2>2, <2>7 DEF ChanType
    <2>9. QED
      BY Zenon, <2>3, <2>5, <2>6, <2>8 DEF TypeInv
  <1>6. CASE HandOver
    <2>1. /\ UNCHANGED <<appVars, cmds, errs, out, pumpVars, rdVars, netVars, wire, srvVars>>
          /\ UNCHANGED <<writer, streams>> /\ hand' = NoFrame /\ actor' = "top"
          /\ (pending' = pending \/ pending' = pending \ {hand.id})
      BY Zenon, <1>6 DEF HandOver
    <2>2. chan' = chan \/ chan' = [chan EXCEPT ![hand.id] = Append(chan[hand.id], hand)]
      BY <1>6 DEF HandOver
    <2>3. /\ AppTypes' /\ CmdType' /\ ErrType' /\ OutType' /\ PumpTypes' /\ ReadTypes' /\ LinkTypes' /\ WireType'
          /\ SrvTypes'
      BY Zenon, <2>1, KeepTypes DEF TypesKept
    <2>4. NoFrame \in Frames
      BY DEF NoFrame, Frame, Frames, FrameTypes
    <2>5. ActTypes'
      BY <1>0, <2>1, <2>4 DEF ActTypes
    <2>6. ChanType'
      <3>1. PICK c : c = chan[hand.id]
        BY Zenon
      <3>2. ASSUME hand.id \in Calls PROVE Append(c, hand) \in Seq(Frames)
        <4>1. c \in Seq(Frames) /\ hand \in Frames
          BY Zenon, <1>0, <3>1, <3>2 DEF ChanType, ActTypes
        <4>2. QED
          BY Zenon, <4>1, AppendOf
      <3>3. QED
        BY Zenon, <1>0, <2>2, <3>1, <3>2 DEF ChanType
    <2>7. QED
      BY Zenon, <2>3, <2>5, <2>6 DEF TypeInv
  <1>7. CASE Redial
    <2>1. /\ UNCHANGED <<appVars, cmds, chan, errs, out, pumpVars, wire, srvVars>>
          /\ UNCHANGED <<pending, streams, hand, queue>>
          /\ dialled < MaxConns /\ dialled' = dialled + 1 /\ writer' = dialled + 1 /\ actor' = "top"
          /\ link' = [link EXCEPT ![dialled + 1] = "up"] /\ reader' = [reader EXCEPT ![dialled + 1] = "run"]
      BY Zenon, <1>7 DEF Redial
    <2>2. AppTypes' /\ CmdType' /\ ChanType' /\ ErrType' /\ OutType' /\ PumpTypes' /\ WireType' /\ SrvTypes'
      BY Zenon, <2>1, KeepTypes DEF TypesKept
    <2>3. dialled + 1 \in Conns
      BY <1>0, <2>1, RustClientAssumption DEF LinkTypes, Conns
    <2>4. LinkTypes' /\ ReadTypes'
      BY <1>0, <2>1, <2>3 DEF LinkTypes, ReadTypes
    <2>5. ActTypes'
      BY <1>0, <2>1, <2>3 DEF ActTypes
    <2>6. QED
      BY Zenon, <2>2, <2>4, <2>5 DEF TypeInv
  <1>8. QED
    BY Zenon, <1>1, <1>2, <1>3, <1>4, <1>5, <1>6, <1>7 DEF Actor

\* The spawned tasks, the readers, the server and the network.
LEMMA WorldTypes ==
    ASSUME TypeInv,
           \/ \E i \in Calls : DrainTask(i) \/ ServerChunk(i) \/ ServerAnswer(i) \/ ServerError(i)
           \/ \E k \in Conns : Read(k) \/ ServerCloses(k) \/ ConnDrop(k)
    PROVE  TypeInv'
  <1>0. /\ ChanType /\ ErrType /\ ReadTypes /\ LinkTypes /\ WireType /\ SrvTypes
    BY Zenon DEF TypeInv
  <1>1. ASSUME NEW i \in Calls, DrainTask(i) PROVE TypeInv'
    <2>1. /\ UNCHANGED <<appVars, cmds, out, actVars, pumpVars, rdVars, netVars, wire, srvVars>>
          /\ errs' = errs \ {i}
      BY Zenon, <1>1 DEF DrainTask
    <2>2. Frame(i, "lost", 0) \in Frames /\ chan[i] \in Seq(Frames)
      BY <1>0, IdTypes, FrameType DEF ChanType, FrameTypes
    <2>3. PICK s \in Seq(Frames) : s = Append(chan[i], Frame(i, "lost", 0))
      BY Zenon, <2>2, AppendOf
    <2>4. chan' = chan \/ chan' = [chan EXCEPT ![i] = s]
      BY <1>1, <2>3 DEF DrainTask
    <2>5. ChanType'
      BY <1>0, <2>4 DEF ChanType
    <2>6. ErrType'
      BY <1>0, <2>1 DEF ErrType
    <2>7. QED
      BY Zenon, <2>1, <2>5, <2>6, KeepTypes DEF TypesKept, TypeInv
  <1>2. ASSUME NEW i \in Calls, ServerChunk(i) \/ ServerAnswer(i) \/ ServerError(i) PROVE TypeInv'
    <2>1. /\ UNCHANGED <<appVars, cmds, chan, errs, out, actVars, pumpVars, rdVars, netVars>>
          /\ UNCHANGED <<srv, upl, uplEnd>> /\ srv[i] # 0
      BY Zenon, <1>2 DEF ServerChunk, ServerAnswer, ServerError, Reachable
    <2>2. srv[i] \in Conns
      BY <1>0, <2>1 DEF SrvTypes
    <2>3. sent[i] \in Nat /\ (sent[i] < MaxOut => sent[i] + 1 \in 0..MaxOut) /\ sent[i] + 1 \in Nat
      BY <1>0, RustClientAssumption DEF SrvTypes
    <2>4. PICK t \in FrameTypes, n \in Nat : Reply(i, t, n)
      BY Zenon, <1>2, <2>3, IdTypes DEF ServerChunk, ServerAnswer, ServerError, FrameTypes
    <2>5. wire[srv[i]] \in Seq(Frames) /\ Frame(i, t, n) \in Frames
      BY Zenon, <1>0, <2>2, IdTypes, FrameType DEF WireType
    <2>6. PICK s \in Seq(Frames) : s = Append(wire[srv[i]], Frame(i, t, n))
      BY Zenon, <2>5, AppendOf
    <2>7. wire' = [wire EXCEPT ![srv[i]] = s]
      BY <2>4, <2>6 DEF Reply
    <2>8. WireType'
      BY Zenon, <1>0, <2>2, <2>7 DEF WireType
    <2>9. sent' = sent \/ (sent[i] < MaxOut /\ sent' = [sent EXCEPT ![i] = sent[i] + 1])
      BY <1>2 DEF ServerChunk, ServerAnswer, ServerError
    <2>10. sent' \in [Calls -> 0..MaxOut]
      BY Zenon, <1>0, <2>3, <2>9 DEF SrvTypes
    <2>11. srvDone' = srvDone \/ srvDone' = [srvDone EXCEPT ![i] = TRUE]
      BY Zenon, <1>2 DEF ServerChunk, ServerAnswer, ServerError
    <2>12. srvDone' \in [Calls -> BOOLEAN]
      BY Zenon, <1>0, <2>11 DEF SrvTypes
    <2>13. SrvTypes'
      BY Zenon, <1>0, <2>1, <2>10, <2>12 DEF SrvTypes
    <2>14. QED
      BY Zenon, <2>1, <2>8, <2>13, KeepTypes DEF TypesKept, TypeInv
  <1>3. ASSUME NEW k \in Conns, Read(k) PROVE TypeInv'
    <2>1. UNCHANGED <<appVars, cmds, chan, errs, out, actVars, pumpVars, netVars, srvVars>>
      BY Zenon, <1>3 DEF Read, ReadFrame, ReadClosed
    <2>2. wire[k] \in Seq(Frames) /\ queue \in Seq(Frames) /\ Closed(k) \in Frames
      BY <1>0, IdTypes, FrameType DEF WireType, ReadTypes, FrameTypes, Closed
    <2>3. PICK m \in Frames, w \in Seq(Frames) :
             /\ wire' = [wire EXCEPT ![k] = w]
             /\ queue' = queue \/ queue' = Append(queue, m)
             /\ reader' = reader \/ reader' = [reader EXCEPT ![k] = "done"]
      <3>1. CASE ReadFrame(k)
        <4>1. Head(wire[k]) \in Frames /\ Tail(wire[k]) \in Seq(Frames)
          BY Zenon, <2>2, <3>1, TailOf DEF ReadFrame
        <4>2. wire' = [wire EXCEPT ![k] = Tail(wire[k])]
          BY <3>1 DEF ReadFrame
        <4>3. QED
          BY Zenon, <3>1, <4>1, <4>2 DEF ReadFrame
      <3>2. CASE ReadClosed(k)
        BY Zenon, <2>2, <3>2, EmptyOf DEF ReadClosed
      <3>3. QED
        BY Zenon, <1>3, <3>1, <3>2 DEF Read
    <2>4. WireType'
      BY <1>0, <2>3 DEF WireType
    <2>5. queue' \in Seq(Frames)
      <3>1. Append(queue, m) \in Seq(Frames)
        BY Zenon, <2>2, <2>3, AppendOf
      <3>2. QED
        BY Zenon, <2>2, <2>3, <3>1
    <2>6. reader' \in [Conns -> {"none", "run", "done"}]
      BY <1>0, <2>3 DEF ReadTypes
    <2>7. ReadTypes'
      BY Zenon, <2>5, <2>6 DEF ReadTypes
    <2>8. QED
      BY Zenon, <2>1, <2>4, <2>7, KeepTypes DEF TypesKept, TypeInv
  <1>4. ASSUME NEW k \in Conns, ServerCloses(k) \/ ConnDrop(k) PROVE TypeInv'
    <2>1. /\ UNCHANGED <<appVars, cmds, chan, errs, out, actVars, pumpVars, rdVars, dialled, wire, srvVars>>
          /\ link' = [link EXCEPT ![k] = "down"]
      BY Zenon, <1>4 DEF ServerCloses, ConnDrop, Disconnect
    <2>2. LinkTypes'
      BY <1>0, <2>1 DEF LinkTypes
    <2>3. QED
      BY Zenon, <2>1, <2>2, KeepTypes DEF TypesKept, TypeInv
  <1>5. QED
    BY Zenon, <1>1, <1>2, <1>3, <1>4

LEMMA StepTypes ==
    ASSUME TypeInv, [Next]_vars
    PROVE  TypeInv'
  <1>1. CASE UNCHANGED vars
    BY Zenon, <1>1, KeepTypes DEF TypesKept, TypeInv, vars
  <1>2. CASE Close
    <2>1. 1 \in Calls
      BY RustClientAssumption DEF Calls
    <2>2. QED
      BY Zenon, <1>2, <2>1, CallerTypes
  <1>3. CASE Next /\ ~Close
    BY Zenon, <1>3, CallerTypes, ActorTypes, WorldTypes DEF Next, Consume
  <1>4. QED
    BY Zenon, <1>1, <1>2, <1>3

-----------------------------------------------------------------------------
\* The actor.

\* The writer is the connection dialled last; without a loop to serve them no call is pending.
WriterInv ==
    /\ writer \in {0, dialled}
    /\ actor \in {"reconnect", "exited"} => writer = 0 /\ pending = {}

\* Only close() ends the loop of a client that reconnects.
ExitInv == actor = "exited" => cmds = <<>> /\ streams = {} /\ (reconnect => closing)
ShutInv == \A n \in 1..Len(cmds) : cmds[n] = Shutdown => closing

\* The frame in the actor's hand belongs to a stream, which stays pending for more chunks.
HandInv ==
    IF actor = "send"
      THEN hand.id \in Calls /\ IsStream(hand.id) /\ (hand.type = "stream_chunk" <=> hand.id \in pending)
      ELSE hand = NoFrame

\* The pump visits queues the actor holds.
TodoInv == todo \subseteq streams /\ (actor # "pump" => todo = {}) /\ (dry => at \in todo)

ActorInv == WriterInv /\ ExitInv /\ ShutInv /\ HandInv /\ TodoInv

\* The steps of everyone but the actor.
Outside ==
    \/ \E i \in Calls : (\E k \in Kinds : Begin(i, k)) \/ Post(i) \/ Send(i) \/ SendClose(i) \/ Receive(i)
                        \/ ReceiveNone(i) \/ DropStream(i) \/ DrainTask(i)
                        \/ ServerChunk(i) \/ ServerAnswer(i) \/ ServerError(i)
    \/ Close
    \/ \E k \in Conns : ReadFrame(k) \/ ReadClosed(k) \/ ServerCloses(k) \/ ConnDrop(k)
    \/ UNCHANGED vars

LEMMA Steps ==
    ASSUME [Next]_vars
    PROVE  Outside \/ Actor
  BY Zenon DEF Next, Outside, Consume, Read

LEMMA OutsideLeaves ==
    ASSUME Outside
    PROVE  UNCHANGED <<actVars, pumpVars, dialled, reconnect>>
  <1>1. ASSUME NEW i \in Calls,
               (\E k \in Kinds : Begin(i, k)) \/ Post(i) \/ Send(i) \/ SendClose(i) \/ Receive(i) \/ ReceiveNone(i)
                   \/ DropStream(i)
        PROVE  UNCHANGED <<actVars, pumpVars, dialled, reconnect>>
    BY Zenon, <1>1 DEF Begin, Post, Send, SendClose, Receive, ReceiveNone, DropStream, netVars
  <1>2. ASSUME NEW i \in Calls, DrainTask(i) \/ ServerChunk(i) \/ ServerAnswer(i) \/ ServerError(i)
        PROVE  UNCHANGED <<actVars, pumpVars, dialled, reconnect>>
    BY Zenon, <1>2 DEF DrainTask, ServerChunk, ServerAnswer, ServerError, netVars, appVars
  <1>3. ASSUME NEW k \in Conns, ReadFrame(k) \/ ReadClosed(k) \/ ServerCloses(k) \/ ConnDrop(k)
        PROVE  UNCHANGED <<actVars, pumpVars, dialled, reconnect>>
    BY Zenon, <1>3 DEF ReadFrame, ReadClosed, ServerCloses, ConnDrop, Disconnect, netVars, appVars
  <1>4. ASSUME Close \/ UNCHANGED vars
        PROVE  UNCHANGED <<actVars, pumpVars, dialled, reconnect>>
    BY Zenon, <1>4 DEF Close, vars, netVars, appVars
  <1>5. QED
    BY Zenon, <1>1, <1>2, <1>3, <1>4 DEF Outside

\* Calls do not change their pattern.
LEMMA KindKept ==
    ASSUME TypeInv, [Next]_vars
    PROVE  \A i \in Calls : kind[i] # "none" => kind'[i] = kind[i]
  <1>1. kind' = kind \/ \E i \in Calls, k \in Kinds : Begin(i, k)
    <2>1. ASSUME NEW i \in Calls,
                 Post(i) \/ Send(i) \/ SendClose(i) \/ Receive(i) \/ ReceiveNone(i) \/ DropStream(i)
          PROVE  kind' = kind
      BY Zenon, <2>1 DEF Post, Send, SendClose, Receive, ReceiveNone, DropStream
    <2>2. ASSUME NEW i \in Calls, DrainTask(i) \/ ServerChunk(i) \/ ServerAnswer(i) \/ ServerError(i)
          PROVE  kind' = kind
      BY Zenon, <2>2 DEF DrainTask, ServerChunk, ServerAnswer, ServerError, appVars
    <2>3. ASSUME NEW k \in Conns, ReadFrame(k) \/ ReadClosed(k) \/ ServerCloses(k) \/ ConnDrop(k)
          PROVE  kind' = kind
      BY Zenon, <2>3 DEF ReadFrame, ReadClosed, ServerCloses, ConnDrop, Disconnect, appVars
    <2>4. ASSUME Close \/ UNCHANGED vars
          PROVE  kind' = kind
      BY Zenon, <2>4 DEF Close, vars, appVars
    <2>5. ASSUME Actor PROVE kind' = kind
      BY Zenon, <2>5 DEF Actor, Top, Pump, PumpWrite, PumpDry, PumpCheck, PumpDone, TakeCall, TakeShutdown,
                         TakeFrame, HandOver, TakeClosed, Redial, appVars
    <2>6. QED
      BY Zenon, <2>1, <2>2, <2>3, <2>4, <2>5, Steps DEF Outside
  <1>2. ASSUME NEW i \in Calls, NEW k \in Kinds, Begin(i, k), NEW j \in Calls, kind[j] # "none"
        PROVE  kind'[j] = kind[j]
    BY <1>2 DEF Begin, TypeInv, AppTypes
  <1>3. QED
    BY Zenon, <1>1, <1>2

\* What everyone but the actor does to the commands.
LEMMA OutsideCmds ==
    ASSUME TypeInv, Outside
    PROVE  /\ \/ UNCHANGED <<cmds, closing>>
              \/ /\ actor # "exited" /\ closing' = closing
                 /\ \E i \in Calls : i \notin posted /\ posted' = posted \cup {i} /\ cmds' = Append(cmds, i)
              \/ /\ closing' = TRUE
                 /\ cmds' = cmds \/ (actor # "exited" /\ cmds' = Append(cmds, Shutdown))
  <1>1. ASSUME NEW i \in Calls,
               (\E k \in Kinds : Begin(i, k)) \/ Send(i) \/ SendClose(i) \/ Receive(i) \/ ReceiveNone(i)
                   \/ DropStream(i)
        PROVE  UNCHANGED <<cmds, closing>>
    BY Zenon, <1>1 DEF Begin, Send, SendClose, Receive, ReceiveNone, DropStream
  <1>2. ASSUME NEW i \in Calls, DrainTask(i) \/ ServerChunk(i) \/ ServerAnswer(i) \/ ServerError(i)
        PROVE  UNCHANGED <<cmds, closing>>
    BY Zenon, <1>2 DEF DrainTask, ServerChunk, ServerAnswer, ServerError, appVars
  <1>3. ASSUME NEW k \in Conns, ReadFrame(k) \/ ReadClosed(k) \/ ServerCloses(k) \/ ConnDrop(k)
        PROVE  UNCHANGED <<cmds, closing>>
    BY Zenon, <1>3 DEF ReadFrame, ReadClosed, ServerCloses, ConnDrop, Disconnect, appVars
  <1>4. ASSUME UNCHANGED vars
        PROVE  UNCHANGED <<cmds, closing>>
    BY Zenon, <1>4 DEF vars, appVars
  <1>5. ASSUME NEW i \in Calls, Post(i)
        PROVE  \/ UNCHANGED <<cmds, closing>>
               \/ /\ actor # "exited" /\ closing' = closing
                  /\ i \notin posted /\ posted' = posted \cup {i} /\ cmds' = Append(cmds, i)
    BY Zenon, <1>5 DEF Post
  <1>6. ASSUME Close
        PROVE  closing' = TRUE /\ (cmds' = cmds \/ (actor # "exited" /\ cmds' = Append(cmds, Shutdown)))
    BY Zenon, <1>6 DEF Close
  <1>7. QED
    BY Zenon, <1>1, <1>2, <1>3, <1>4, <1>5, <1>6 DEF Outside

LEMMA OutsideActor ==
    ASSUME TypeInv, TypeInv', ActorInv, Outside, [Next]_vars
    PROVE  ActorInv'
  <1>1. UNCHANGED <<actor, writer, pending, streams, hand, todo, at, dry, dialled, reconnect>>
    BY Zenon, OutsideLeaves DEF actVars, pumpVars
  <1>2. WriterInv' /\ TodoInv'
    BY Zenon, <1>1 DEF ActorInv, WriterInv, TodoInv
  <1>3. HandInv'
    <2>1. CASE actor = "send"
      <3>1. hand.id \in Calls /\ IsStream(hand.id) /\ (hand.type = "stream_chunk" <=> hand.id \in pending)
        BY Zenon, <2>1 DEF ActorInv, HandInv
      <3>2. kind[hand.id] # "none"
        BY <3>1 DEF IsStream
      <3>3. IsStream(hand.id)'
        BY Zenon, <1>1, <3>1, <3>2, KindKept DEF IsStream
      <3>4. QED
        BY Zenon, <1>1, <2>1, <3>1, <3>3 DEF HandInv
    <2>2. CASE actor # "send"
      BY Zenon, <1>1, <2>2 DEF ActorInv, HandInv
    <2>3. QED
      BY Zenon, <2>1, <2>2
  <1>4. cmds \in Seq(Calls \cup {Shutdown}) /\ closing \in BOOLEAN
    BY Zenon DEF TypeInv, CmdType, AppTypes
  <1>5. CASE UNCHANGED <<cmds, closing>>
    <2>1. ExitInv' /\ ShutInv'
      BY Zenon, <1>1, <1>5 DEF ActorInv, ExitInv, ShutInv
    <2>2. QED
      BY Zenon, <1>2, <1>3, <2>1 DEF ActorInv
  <1>6. ASSUME actor # "exited", closing' = closing, NEW i \in Calls, cmds' = Append(cmds, i)
        PROVE  ExitInv' /\ ShutInv'
    <2>1. ExitInv'
      BY Zenon, <1>1, <1>6 DEF ExitInv
    <2>2. i # Shutdown /\ i \in Calls \cup {Shutdown}
      BY IdTypes DEF Shutdown
    <2>3. ASSUME NEW n \in 1..Len(cmds'), cmds'[n] = Shutdown PROVE closing
      <3>0. (n \in 1..Len(cmds) /\ cmds'[n] = cmds[n]) \/ cmds'[n] = i
        BY Zenon, <1>4, <1>6, <2>2, AppendElem
      <3>1. n \in 1..Len(cmds) /\ cmds[n] = Shutdown
        BY Zenon, <2>2, <2>3, <3>0
      <3>2. QED
        BY Zenon, <3>1 DEF ActorInv, ShutInv
    <2>4. QED
      BY Zenon, <1>6, <2>1, <2>3 DEF ShutInv
  <1>7. ASSUME closing' = TRUE, cmds' = cmds \/ (actor # "exited" /\ cmds' = Append(cmds, Shutdown))
        PROVE  ExitInv' /\ ShutInv'
    BY Zenon, <1>1, <1>7 DEF ActorInv, ExitInv, ShutInv
  <1>8. QED
    BY Zenon, <1>2, <1>3, <1>5, <1>6, <1>7, OutsideCmds DEF ActorInv

LEMMA IsStreamKept ==
    ASSUME TypeInv, [Next]_vars, NEW i \in Calls
    PROVE  (IsStream(i) => IsStream(i)') /\ (kind[i] # "none" => (IsStream(i)' <=> IsStream(i)))
  <1>1. IsStream(i) => kind[i] # "none"
    BY DEF IsStream
  <1>2. kind[i] # "none" => kind'[i] = kind[i]
    BY Zenon, KindKept
  <1>3. QED
    BY Zenon, <1>1, <1>2 DEF IsStream

LEMMA GivesUpActor ==
    ASSUME TypeInv, ActorInv, NEW S, GivesUp(S), actor = "select",
           UNCHANGED <<hand, todo, at, dry, dialled, reconnect, closing>>, actor' = "exited" => ~reconnect \/ closing,
           \A n \in 1..Len(cmds') : cmds'[n] = Shutdown => closing
    PROVE  ActorInv'
  <1>1. /\ writer' = 0 /\ pending' = {} /\ actor' \in {"reconnect", "exited"}
        /\ actor' = "exited" => cmds' = <<>> /\ streams' = {}
    BY Zenon DEF GivesUp, Drain
  <1>2. todo = {} /\ hand = NoFrame /\ TodoInv
    BY Zenon DEF ActorInv, TodoInv, HandInv
  <1>3. actor' # "send" /\ actor' # "pump"
    BY <1>1
  <1>4. WriterInv' /\ ExitInv' /\ ShutInv'
    BY Zenon, <1>1 DEF WriterInv, ExitInv, ShutInv
  <1>5. HandInv' /\ TodoInv'
    BY Zenon, <1>2, <1>3 DEF HandInv, TodoInv
  <1>6. QED
    BY Zenon, <1>4, <1>5 DEF ActorInv

\* Commands that stay in the channel.
LEMMA ShutTail ==
    ASSUME TypeInv, ActorInv, closing' = closing, cmds' = cmds \/ (cmds # <<>> /\ cmds' = Tail(cmds)) \/ cmds' = <<>>
    PROVE  ShutInv'
  <1>1. cmds \in Seq(Calls \cup {Shutdown}) /\ ShutInv
    BY Zenon DEF TypeInv, CmdType, ActorInv
  <1>2. SUFFICES ASSUME NEW n \in 1..Len(cmds'), cmds'[n] = Shutdown PROVE closing
    BY Zenon DEF ShutInv
  <1>3. CASE cmds' = cmds
    BY Zenon, <1>1, <1>2, <1>3 DEF ShutInv
  <1>4. CASE cmds # <<>> /\ cmds' = Tail(cmds)
    BY Zenon, <1>1, <1>2, <1>4, TailElem DEF ShutInv
  <1>5. CASE cmds' = <<>>
    BY Zenon, <1>2, <1>5, EmptyOf
  <1>6. QED
    BY Zenon, <1>3, <1>4, <1>5

LEMMA ActorActor ==
    ASSUME TypeInv, TypeInv', ActorInv, Actor, [Next]_vars
    PROVE  ActorInv'
  <1>0. WriterInv /\ ExitInv /\ ShutInv /\ HandInv /\ TodoInv
    BY Zenon DEF ActorInv
  <1>1. CASE Top
    <2>1. /\ UNCHANGED <<writer, dialled, pending, cmds, closing, streams, hand, at, dry>> /\ actor = "top"
          /\ actor' \in {"select", "pump"} /\ ((actor' = "select" /\ todo' = {}) \/ (actor' = "pump" /\ todo' = streams))
      BY <1>1 DEF Top, appVars, netVars
    <2>2. actor' # "send" /\ actor # "send" /\ actor' \notin {"reconnect", "exited"}
      BY <2>1
    <2>3. WriterInv' /\ ExitInv' /\ ShutInv'
      BY Zenon, <1>0, <2>1, <2>2 DEF WriterInv, ExitInv, ShutInv
    <2>4. HandInv' /\ TodoInv'
      BY Zenon, <1>0, <2>1, <2>2 DEF HandInv, TodoInv
    <2>5. QED
      BY Zenon, <2>3, <2>4 DEF ActorInv
  <1>2. ASSUME NEW i \in Calls, Pump(i) PROVE ActorInv'
    <2>1. /\ UNCHANGED <<dialled, pending, cmds, closing, hand>>
          /\ \/ UNCHANGED <<actor, writer>> /\ (UNCHANGED <<todo, streams>>
                                                \/ (todo' = todo \ {i} /\ streams' \in {streams, streams \ {i}}))
             \/ writer' = 0 /\ actor' = "select" /\ todo' = {}
      BY <1>2 DEF Pump, PumpWrite, PumpDry, PumpCheck, actVars, netVars, appVars
    <2>2. actor = "pump" /\ actor' \in {"pump", "select"}
      BY <1>2, <2>1 DEF Pump, PumpWrite, PumpDry, PumpCheck, Pumping
    <2>3. actor' # "send" /\ actor # "send" /\ actor' \notin {"reconnect", "exited"}
      BY <2>2
    <2>4. WriterInv' /\ ExitInv' /\ ShutInv'
      BY Zenon, <1>0, <2>1, <2>3 DEF WriterInv, ExitInv, ShutInv
    <2>5. HandInv'
      BY Zenon, <1>0, <2>1, <2>3 DEF HandInv
    <2>6. TodoInv'
      <3>1. todo' \subseteq streams' /\ (actor' # "pump" => todo' = {})
        BY <1>0, <2>1, <2>2 DEF TodoInv
      <3>2. dry' => at' \in todo'
        BY Zenon, <1>0, <1>2 DEF TodoInv, Pump, PumpWrite, PumpDry, PumpCheck, Pumping
      <3>3. QED
        BY Zenon, <3>1, <3>2 DEF TodoInv
    <2>7. QED
      BY Zenon, <2>4, <2>5, <2>6 DEF ActorInv
  <1>3. CASE PumpDone
    <2>1. UNCHANGED <<writer, dialled, pending, cmds, closing, streams, hand, todo, at, dry>> /\ actor = "pump"
          /\ actor' = "select" /\ todo = {}
      BY Zenon, <1>3 DEF PumpDone, appVars, netVars, pumpVars
    <2>2. actor' # "send" /\ actor # "send" /\ actor' \notin {"reconnect", "exited"}
      BY <2>1
    <2>3. WriterInv' /\ ExitInv' /\ ShutInv'
      BY Zenon, <1>0, <2>1, <2>2 DEF WriterInv, ExitInv, ShutInv
    <2>4. HandInv' /\ TodoInv'
      BY Zenon, <1>0, <2>1, <2>2 DEF HandInv, TodoInv
    <2>5. QED
      BY Zenon, <2>3, <2>4 DEF ActorInv
  <1>4. CASE TakeCall
    <2>1. PICK i \in Calls : Requests(i) \/ RequestFails(i)
      BY Zenon, <1>4, TwoRequests
    <2>2. CASE Requests(i)
      <3>1. /\ UNCHANGED <<closing, writer, hand, todo, at, dry, dialled>> /\ actor = "select" /\ actor' = "top"
            /\ cmds # <<>> /\ cmds' = Tail(cmds) /\ (streams' = streams \/ streams' = streams \cup {i})
        BY Zenon, <2>2 DEF Requests, appVars, pumpVars
      <3>2. actor' # "send" /\ actor # "send" /\ actor' \notin {"reconnect", "exited"} /\ actor # "pump"
        BY <3>1
      <3>3. WriterInv' /\ ExitInv' /\ ShutInv'
        BY Zenon, <1>0, <3>1, <3>2, ShutTail DEF WriterInv, ExitInv
      <3>4. HandInv'
        BY Zenon, <1>0, <3>1, <3>2 DEF HandInv
      <3>5. TodoInv'
        <4>1. streams \subseteq streams'
          BY <3>1
        <4>2. QED
          BY Zenon, <1>0, <3>1, <3>2, <4>1 DEF TodoInv
      <3>6. QED
        BY Zenon, <3>3, <3>4, <3>5 DEF ActorInv
    <2>3. CASE RequestFails(i)
      <3>1. /\ UNCHANGED <<closing, reconnect, hand, todo, at, dry, dialled>> /\ actor = "select"
            /\ cmds # <<>> /\ GivesUp(pending \cup {i}) /\ (actor' = "exited" => ~reconnect)
        BY Zenon, <2>3 DEF RequestFails, appVars, pumpVars
      <3>2. cmds' = Tail(cmds) \/ cmds' = <<>>
        BY <2>3 DEF RequestFails
      <3>3. ShutInv'
        BY Zenon, <3>1, <3>2, ShutTail
      <3>4. QED
        BY Zenon, <3>1, <3>3, GivesUpActor DEF ShutInv
    <2>4. QED
      BY Zenon, <2>1, <2>2, <2>3
  <1>5. CASE TakeShutdown
    <2>1. /\ UNCHANGED <<closing, reconnect, hand, todo, at, dry, dialled>> /\ actor = "select" /\ GivesUp(pending)
          /\ cmds # <<>> /\ Head(cmds) = Shutdown /\ cmds' = <<>>
      BY Zenon, <1>5, TwoLosses DEF ShutsDown, appVars, pumpVars
    <2>2. cmds \in Seq(Calls \cup {Shutdown})
      BY Zenon DEF TypeInv, CmdType
    <2>3. closing
      BY Zenon, <1>0, <2>1, <2>2, TailOf DEF ShutInv
    <2>4. ShutInv'
      BY Zenon, <2>1, ShutTail
    <2>5. QED
      BY Zenon, <2>1, <2>3, <2>4, GivesUpActor DEF ShutInv
  <1>6. CASE TakeClosed
    <2>1. /\ UNCHANGED <<closing, reconnect, hand, todo, at, dry, dialled>> /\ actor = "select" /\ GivesUp(pending)
          /\ (actor' = "exited" => ~reconnect)
      BY Zenon, <1>6, TwoLosses DEF Loses, appVars, pumpVars
    <2>2. cmds' = cmds \/ cmds' = <<>>
      BY <1>6, TwoLosses DEF Loses
    <2>3. ShutInv'
      BY Zenon, <2>1, <2>2, ShutTail
    <2>4. QED
      BY Zenon, <2>1, <2>3, GivesUpActor DEF ShutInv
  <1>7. CASE TakeFrame
    <2>1. PICK m : m = Head(queue)
      BY Zenon
    <2>2. /\ UNCHANGED <<closing, writer, todo, at, dry, dialled, cmds, streams, kind>> /\ actor = "select"
          /\ pending' = IF m.type = "stream_chunk" THEN pending ELSE pending \ {m.id}
          /\ \/ m.id \in pending /\ IsStream(m.id) /\ hand' = m /\ actor' = "send"
             \/ actor' = "top" /\ hand' = hand
      BY Zenon, <1>7, <2>1 DEF TakeFrame, appVars, pumpVars, netVars
    <2>3. actor # "send" /\ actor # "pump" /\ actor' # "pump" /\ actor' \notin {"reconnect", "exited"}
      BY <2>2
    <2>4. WriterInv' /\ ExitInv' /\ ShutInv' /\ TodoInv'
      BY Zenon, <1>0, <2>2, <2>3 DEF WriterInv, ExitInv, ShutInv, TodoInv
    <2>5. HandInv'
      <3>1. CASE actor' = "top" /\ hand' = hand
        <4>1. actor' # "send"
          BY <3>1
        <4>2. QED
          BY Zenon, <1>0, <2>3, <3>1, <4>1 DEF HandInv
      <3>2. CASE m.id \in pending /\ IsStream(m.id) /\ hand' = m /\ actor' = "send"
        <4>1. m.id \in Calls
          BY <3>2 DEF TypeInv, ActTypes
        <4>2. IsStream(m.id)'
          BY Zenon, <2>2, <3>2 DEF IsStream
        <4>3. m.type = "stream_chunk" <=> m.id \in pending'
          BY <2>2, <3>2
        <4>4. QED
          BY Zenon, <3>2, <4>1, <4>2, <4>3 DEF HandInv
      <3>3. QED
        BY Zenon, <2>2, <3>1, <3>2
    <2>6. QED
      BY Zenon, <2>4, <2>5 DEF ActorInv
  <1>8. CASE HandOver
    <2>1. UNCHANGED <<closing, writer, todo, at, dry, dialled, cmds, streams>> /\ actor = "send" /\ actor' = "top"
          /\ hand' = NoFrame
      BY Zenon, <1>8 DEF HandOver, appVars, pumpVars, netVars
    <2>2. actor' # "send" /\ actor # "pump" /\ actor' \notin {"reconnect", "exited"}
      BY <2>1
    <2>3. WriterInv' /\ ExitInv' /\ ShutInv' /\ TodoInv'
      BY Zenon, <1>0, <2>1, <2>2 DEF WriterInv, ExitInv, ShutInv, TodoInv
    <2>4. QED
      BY Zenon, <2>1, <2>2, <2>3 DEF ActorInv, HandInv
  <1>9. CASE Redial
    <2>1. UNCHANGED <<closing, pending, todo, at, dry, cmds, streams, hand>> /\ actor = "reconnect" /\ actor' = "top"
          /\ writer' = dialled'
      BY Zenon, <1>9 DEF Redial, appVars, pumpVars
    <2>2. actor' # "send" /\ actor # "send" /\ actor # "pump" /\ actor' \notin {"reconnect", "exited"}
      BY <2>1
    <2>3. WriterInv' /\ ExitInv' /\ ShutInv' /\ TodoInv' /\ HandInv'
      BY Zenon, <1>0, <2>1, <2>2 DEF WriterInv, ExitInv, ShutInv, TodoInv, HandInv
    <2>4. QED
      BY Zenon, <2>3 DEF ActorInv
  <1>10. QED
    BY Zenon, <1>1, <1>2, <1>3, <1>4, <1>5, <1>6, <1>7, <1>8, <1>9 DEF Actor

LEMMA StepActor ==
    ASSUME TypeInv, TypeInv', ActorInv, [Next]_vars
    PROVE  ActorInv'
  BY Zenon, Steps, OutsideActor, ActorActor

LEMMA InitActor == Init => ActorInv
  <1> SUFFICES ASSUME Init PROVE ActorInv
    OBVIOUS
  <1>1. actor # "send" /\ actor # "pump" /\ actor \notin {"reconnect", "exited"}
    BY DEF Init
  <1>2. WriterInv /\ ExitInv /\ HandInv /\ TodoInv
    BY Zenon, <1>1 DEF Init, WriterInv, ExitInv, HandInv, TodoInv
  <1>3. ShutInv
    BY Zenon, EmptyOf DEF Init, ShutInv
  <1>4. QED
    BY Zenon, <1>2, <1>3 DEF ActorInv

-----------------------------------------------------------------------------
\* The life of a call.

\* Whatever holds a call's identifier got it from a command.
PostedInv ==
    /\ \A i \in Calls : kind[i] = "none" => i \notin posted
    /\ pending \subseteq posted /\ errs \subseteq posted /\ streams \subseteq posted /\ ended \subseteq posted
    /\ \A n \in 1..Len(cmds) : cmds[n] # Shutdown => cmds[n] \in posted
    /\ actor = "send" => hand.id \in posted

\* Before its command nothing has happened to a call.
Blank(i) ==
    /\ outcome[i] = "none" /\ srv[i] = 0 /\ out[i] = <<>> /\ chan[i] = <<>>
    /\ accepted[i] = 0 /\ recv[i] = 0
BlankInv == \A i \in Calls : i \notin posted => Blank(i)

\* While its command waits the actor knows nothing of it.
Untaken(i) ==
    /\ i \notin pending /\ i \notin errs /\ i \notin streams /\ hand.id # i
    /\ srv[i] = 0 /\ chan[i] = <<>> /\ recv[i] = 0
UntakenInv == \A i \in Calls : Queued(i) => Untaken(i)

\* A stream that a task of drain_pending tells of the loss is told nothing else.
ErrsInv == \A i \in errs : i \notin pending /\ IsStream(i) /\ hand.id # i

\* Every call has one command.
OnceInv == \A p, q \in 1..Len(cmds) : p < q /\ cmds[p] = cmds[q] => cmds[p] = Shutdown

\* The server has a request on one connection, that of a pending call being the current one.
SrvInv == \A i \in Calls : srv[i] \in 0..dialled /\ (i \in pending => srv[i] \in {0, dialled})
Unsent(i) == sent[i] = 0 /\ srvDone[i] = FALSE /\ upl[i] = <<>> /\ uplEnd[i] = FALSE
UnsentInv == \A i \in Calls : srv[i] = 0 => Unsent(i)

LifeInv == PostedInv /\ BlankInv /\ UntakenInv /\ ErrsInv /\ OnceInv /\ SrvInv /\ UnsentInv

\* What a step leaves alone.
LifeKept ==
    /\ UNCHANGED <<kind, posted, pending, errs, streams, ended, cmds, actor, hand>> => PostedInv'
    /\ UNCHANGED <<posted, outcome, srv, out, chan, accepted, recv>> => BlankInv'
    /\ UNCHANGED <<cmds, pending, errs, streams, hand, srv, chan, recv>> => UntakenInv'
    /\ UNCHANGED <<errs, pending, kind, hand>> => ErrsInv'
    /\ UNCHANGED cmds => OnceInv'
    /\ UNCHANGED <<srv, dialled, pending>> => SrvInv'
    /\ UNCHANGED <<srv, sent, srvDone, upl, uplEnd>> => UnsentInv'

LEMMA KeepLife ==
    ASSUME LifeInv
    PROVE  LifeKept
  <1> USE DEF LifeInv
  <1>1. UNCHANGED <<kind, posted, pending, errs, streams, ended, cmds, actor, hand>> => PostedInv'
    BY Zenon DEF PostedInv
  <1>2. UNCHANGED <<posted, outcome, srv, out, chan, accepted, recv>> => BlankInv'
    BY Zenon DEF BlankInv, Blank
  <1>3. UNCHANGED <<cmds, pending, errs, streams, hand, srv, chan, recv>> => UntakenInv'
    BY Zenon DEF UntakenInv, Untaken, Queued
  <1>4. UNCHANGED <<errs, pending, kind, hand>> => ErrsInv'
    BY Zenon DEF ErrsInv, IsStream
  <1>5. UNCHANGED cmds => OnceInv'
    BY Zenon DEF OnceInv
  <1>6. UNCHANGED <<srv, dialled, pending>> => SrvInv'
    BY Zenon DEF SrvInv
  <1>7. UNCHANGED <<srv, sent, srvDone, upl, uplEnd>> => UnsentInv'
    BY Zenon DEF UnsentInv, Unsent
  <1>8. QED
    BY Zenon, <1>1, <1>2, <1>3, <1>4, <1>5, <1>6, <1>7 DEF LifeKept

\* A caller's step on a call it has posted.
CallerStep(i) ==
    /\ UNCHANGED <<kind, closing, posted, cmds, errs, actVars, pumpVars, rdVars, netVars, wire, srvVars>>
    /\ i \in posted /\ (ended' = ended \/ ended' = ended \cup {i})
    /\ \A j \in Calls : j # i => /\ outcome'[j] = outcome[j] /\ out'[j] = out[j] /\ chan'[j] = chan[j]
                                 /\ accepted'[j] = accepted[j] /\ recv'[j] = recv[j]
    /\ \/ chan'[i] = chan[i] /\ recv'[i] = recv[i]
       \/ chan'[i] = <<>> /\ recv'[i] = recv[i]
       \/ chan[i] # <<>>

LEMMA CallerSteps ==
    ASSUME TypeInv, LifeInv, NEW i \in Calls,
           Send(i) \/ SendClose(i) \/ Receive(i) \/ ReceiveNone(i) \/ DropStream(i)
    PROVE  CallerStep(i)
  <1>1. /\ UNCHANGED <<kind, closing, posted, cmds, errs, actVars, pumpVars, rdVars, netVars, wire, srvVars>>
        /\ ended' = ended \/ ended' = ended \cup {i}
    BY Zenon DEF Send, SendClose, Receive, ReceiveNone, DropStream
  <1>2. i \in posted
    <2>1. chan[i] # <<>> => i \in posted
      BY Zenon DEF LifeInv, BlankInv, Blank
    <2>2. QED
      BY <2>1 DEF Send, SendClose, Receive, ReceiveNone, DropStream
  <1>3. /\ outcome \in [Calls -> {"none", "answered", "end", "remote", "lost", "silent", "dropped"}]
        /\ out \in [Calls -> Seq(0..MaxIn)] /\ chan \in [Calls -> Seq(Frames)]
        /\ accepted \in [Calls -> 0..MaxIn] /\ recv \in [Calls -> Nat]
    BY Zenon DEF TypeInv, AppTypes, OutType, ChanType
  <1>4. \A j \in Calls : j # i => outcome'[j] = outcome[j]
    <2>1. outcome' = outcome \/ \E o : outcome' = [outcome EXCEPT ![i] = o]
      BY Zenon DEF Send, SendClose, Receive, ReceiveNone, DropStream, End
    <2>2. QED
      BY Zenon, <1>3, <2>1
  <1>5. \A j \in Calls : j # i => out'[j] = out[j]
    <2>1. out' = out \/ \E o : out' = [out EXCEPT ![i] = o]
      BY Zenon DEF Send, SendClose, Receive, ReceiveNone, DropStream
    <2>2. QED
      BY Zenon, <1>3, <2>1
  <1>6. \A j \in Calls : j # i => accepted'[j] = accepted[j]
    <2>1. accepted' = accepted \/ \E o : accepted' = [accepted EXCEPT ![i] = o]
      BY Zenon DEF Send, SendClose, Receive, ReceiveNone, DropStream
    <2>2. QED
      BY Zenon, <1>3, <2>1
  <1>7. \A j \in Calls : j # i => chan'[j] = chan[j]
    <2>1. chan' = chan \/ \E o : chan' = [chan EXCEPT ![i] = o]
      BY Zenon DEF Send, SendClose, Receive, ReceiveNone, DropStream
    <2>2. QED
      BY Zenon, <1>3, <2>1
  <1>8. \A j \in Calls : j # i => recv'[j] = recv[j]
    <2>1. recv' = recv \/ \E o : recv' = [recv EXCEPT ![i] = o]
      BY Zenon DEF Send, SendClose, Receive, ReceiveNone, DropStream
    <2>2. QED
      BY Zenon, <1>3, <2>1
  <1>9. \/ chan'[i] = chan[i] /\ recv'[i] = recv[i]
        \/ chan'[i] = <<>> /\ recv'[i] = recv[i]
        \/ chan[i] # <<>>
    <2>1. \/ UNCHANGED <<chan, recv>>
          \/ recv' = recv /\ chan' = [chan EXCEPT ![i] = <<>>]
          \/ chan[i] # <<>>
      BY Zenon DEF Send, SendClose, Receive, ReceiveNone, DropStream
    <2>2. QED
      BY Zenon, <1>3, <2>1
  <1>10. QED
    BY Zenon, <1>1, <1>2, <1>4, <1>5, <1>6, <1>7, <1>8, <1>9 DEF CallerStep

LEMMA CallerLife ==
    ASSUME TypeInv, LifeInv, NEW i \in Calls, CallerStep(i)
    PROVE  LifeInv'
  <1>1. UNCHANGED <<kind, posted, cmds, errs, actor, pending, streams, hand, dialled, srv, sent, srvDone, upl, uplEnd>>
    BY Zenon DEF CallerStep, actVars, netVars, srvVars
  <1>2. ErrsInv' /\ OnceInv' /\ SrvInv' /\ UnsentInv'
    BY Zenon, <1>1, KeepLife DEF LifeKept
  <1>3. PostedInv'
    <2>1. ended' \subseteq posted
      BY DEF CallerStep, LifeInv, PostedInv
    <2>2. QED
      BY Zenon, <1>1, <2>1 DEF LifeInv, PostedInv
  <1>4. BlankInv'
    BY Zenon, <1>1 DEF LifeInv, BlankInv, Blank, CallerStep
  <1>5. UntakenInv'
    <2>1. ASSUME NEW j \in Calls, Queued(j)' PROVE Untaken(j)'
      <3>1. Untaken(j)
        BY Zenon, <1>1, <2>1 DEF LifeInv, UntakenInv, Queued
      <3>2. chan'[j] = <<>> /\ recv'[j] = recv[j]
        BY Zenon, <3>1 DEF Untaken, CallerStep
      <3>3. QED
        BY Zenon, <1>1, <3>1, <3>2 DEF Untaken
    <2>2. QED
      BY Zenon, <2>1 DEF UntakenInv
  <1>6. QED
    BY Zenon, <1>2, <1>3, <1>4, <1>5 DEF LifeInv

LEMMA BeginLife ==
    ASSUME TypeInv, LifeInv, NEW i \in Calls, NEW k \in Kinds, Begin(i, k)
    PROVE  LifeInv'
  <1>1. /\ UNCHANGED <<posted, cmds, errs, actor, pending, streams, hand, dialled, srv, sent, srvDone, upl, uplEnd>>
        /\ UNCHANGED <<outcome, out, chan, accepted, recv, ended>>
    BY Zenon DEF Begin, actVars, netVars, srvVars
  <1>2. BlankInv' /\ UntakenInv' /\ OnceInv' /\ SrvInv' /\ UnsentInv'
    BY Zenon, <1>1, KeepLife DEF LifeKept
  <1>3. \A j \in Calls : kind'[j] = kind[j] \/ (j = i /\ kind[i] = "none" /\ kind'[i] # "none")
    BY RustClientAssumption DEF Begin, TypeInv, AppTypes, AllKinds
  <1>4. PostedInv'
    BY Zenon, <1>1, <1>3 DEF LifeInv, PostedInv
  <1>5. \A j \in Calls : IsStream(j) => kind[j] # "none"
    BY DEF IsStream
  <1>6. errs \subseteq Calls
    BY Zenon DEF TypeInv, ErrType
  <1>7. ErrsInv'
    BY Zenon, <1>1, <1>3, <1>5, <1>6 DEF LifeInv, ErrsInv, IsStream
  <1>8. QED
    BY Zenon, <1>2, <1>4, <1>7 DEF LifeInv

\* A command is added to the channel.
LEMMA AppendLife ==
    ASSUME TypeInv, LifeInv, NEW i \in Calls \cup {Shutdown}, cmds' = Append(cmds, i),
           i = Shutdown \/ i \notin posted
    PROVE  /\ OnceInv'
           /\ \A n \in 1..Len(cmds') : cmds'[n] = i \/ \E p \in 1..Len(cmds) : cmds'[n] = cmds[p]
  <1>1. cmds \in Seq(Calls \cup {Shutdown})
    BY Zenon DEF TypeInv, CmdType
  <1>2. ASSUME NEW n \in 1..Len(cmds')
        PROVE  (n \in 1..Len(cmds) /\ cmds'[n] = cmds[n]) \/ (n = Len(cmds) + 1 /\ cmds'[n] = i)
    <2>1. PICK S : cmds \in Seq(S) /\ i \in S
      BY <1>1
    <2>2. QED
      BY <2>1
  <1>3. \A p \in 1..Len(cmds) : ~(Len(cmds) + 1 < p)
    BY <1>1
  <1>4. ASSUME NEW p \in 1..Len(cmds'), NEW q \in 1..Len(cmds'), p < q, cmds'[p] = cmds'[q]
        PROVE  cmds'[p] = Shutdown
    <2>1. Len(cmds) + 1 \in Nat /\ ~(Len(cmds) + 1 < Len(cmds) + 1)
      BY <1>1
    <2>2. p \in 1..Len(cmds) /\ cmds'[p] = cmds[p]
      BY Zenon, <1>2, <1>3, <1>4, <2>1
    <2>3. CASE q \in 1..Len(cmds) /\ cmds'[q] = cmds[q]
      BY Zenon, <1>4, <2>2, <2>3 DEF LifeInv, OnceInv
    <2>4. CASE cmds'[q] = i
      BY Zenon, <1>4, <2>2, <2>4 DEF LifeInv, PostedInv
    <2>5. QED
      BY Zenon, <1>2, <2>3, <2>4
  <1>5. OnceInv'
    BY Zenon, <1>4 DEF OnceInv
  <1>6. QED
    BY Zenon, <1>2, <1>5

LEMMA PostLife ==
    ASSUME TypeInv, ActorInv, LifeInv, NEW i \in Calls, Post(i)
    PROVE  LifeInv'
  <1>1. /\ UNCHANGED <<kind, ended, errs, actor, pending, streams, hand, dialled, srv, sent, srvDone, upl, uplEnd>>
        /\ UNCHANGED <<out, chan, accepted, recv>>
        /\ kind[i] # "none" /\ i \notin posted /\ posted' = posted \cup {i}
        /\ \/ cmds' = Append(cmds, i) /\ outcome' = outcome
           \/ cmds' = cmds /\ outcome' = [outcome EXCEPT ![i] = "lost"]
    BY Zenon DEF Post, End, actVars, netVars, srvVars
  <1>2. ErrsInv' /\ SrvInv' /\ UnsentInv'
    BY Zenon, <1>1, KeepLife DEF LifeKept
  <1>3. i \in Calls \cup {Shutdown} /\ i # 0 /\ i # Shutdown
    BY IdTypes DEF Shutdown
  <1>4. OnceInv' /\ \A n \in 1..Len(cmds') : cmds'[n] = i \/ \E p \in 1..Len(cmds) : cmds'[n] = cmds[p]
    <2>1. CASE cmds' = Append(cmds, i)
      BY Zenon, <1>1, <1>3, <2>1, AppendLife
    <2>2. CASE cmds' = cmds
      BY Zenon, <2>2, KeepLife DEF LifeKept
    <2>3. QED
      BY Zenon, <1>1, <2>1, <2>2
  <1>5. PostedInv'
    <2>1. /\ \A j \in Calls : kind'[j] = "none" => j \notin posted'
          /\ actor' = "send" => hand'.id \in posted'
          /\ pending' \subseteq posted' /\ errs' \subseteq posted' /\ streams' \subseteq posted'
          /\ ended' \subseteq posted'
      BY <1>1 DEF LifeInv, PostedInv
    <2>2. \A n \in 1..Len(cmds') : cmds'[n] # Shutdown => cmds'[n] \in posted'
      <3>1. \A j \in posted : j \in posted'
        BY <1>1
      <3>2. i \in posted'
        BY <1>1
      <3>3. QED
        BY Zenon, <1>4, <3>1, <3>2 DEF LifeInv, PostedInv
    <2>3. QED
      BY Zenon, <2>1, <2>2 DEF PostedInv
  <1>6. BlankInv'
    <2>1. ASSUME NEW j \in Calls, j \notin posted' PROVE Blank(j)'
      <3>1. j # i /\ j \notin posted
        BY <1>1, <2>1
      <3>2. outcome'[j] = outcome[j]
        BY <1>1, <3>1 DEF TypeInv, AppTypes
      <3>3. QED
        BY Zenon, <1>1, <3>1, <3>2 DEF LifeInv, BlankInv, Blank
    <2>2. QED
      BY Zenon, <2>1 DEF BlankInv
  <1>7. UntakenInv'
    <2>1. ASSUME NEW j \in Calls, Queued(j)' PROVE Untaken(j)'
      <3>1. j = i \/ Queued(j)
        BY Zenon, <1>4, <2>1 DEF Queued
      <3>2. Untaken(i)
        <4>1. i \notin pending /\ i \notin errs /\ i \notin streams
          BY <1>1 DEF LifeInv, PostedInv
        <4>2. hand.id # i
          <5>1. CASE actor = "send"
            BY Zenon, <1>1, <5>1 DEF LifeInv, PostedInv
          <5>2. CASE actor # "send"
            <6>1. hand = NoFrame
              BY Zenon, <5>2 DEF ActorInv, HandInv
            <6>2. QED
              BY <1>3, <6>1 DEF NoFrame, Frame
          <5>3. QED
            BY Zenon, <5>1, <5>2
        <4>3. Blank(i)
          BY Zenon, <1>1 DEF LifeInv, BlankInv
        <4>4. QED
          BY Zenon, <4>1, <4>2, <4>3 DEF Untaken, Blank
      <3>3. Untaken(j)
        BY Zenon, <3>1, <3>2 DEF LifeInv, UntakenInv
      <3>4. QED
        BY Zenon, <1>1, <3>3 DEF Untaken
    <2>2. QED
      BY Zenon, <2>1 DEF UntakenInv
  <1>8. QED
    BY Zenon, <1>2, <1>4, <1>5, <1>6, <1>7 DEF LifeInv

LEMMA CloseLife ==
    ASSUME TypeInv, LifeInv, Close
    PROVE  LifeInv'
  <1>1. /\ UNCHANGED <<kind, posted, ended, errs, actor, pending, streams, hand, dialled, srv, sent, srvDone, upl>>
        /\ UNCHANGED <<out, chan, accepted, recv, outcome, uplEnd>>
        /\ cmds' = cmds \/ cmds' = Append(cmds, Shutdown)
    BY Zenon DEF Close, actVars, netVars, srvVars
  <1>2. BlankInv' /\ ErrsInv' /\ SrvInv' /\ UnsentInv'
    BY Zenon, <1>1, KeepLife DEF LifeKept
  <1>3. OnceInv' /\ \A n \in 1..Len(cmds') : cmds'[n] = Shutdown \/ \E p \in 1..Len(cmds) : cmds'[n] = cmds[p]
    <2>1. CASE cmds' = Append(cmds, Shutdown)
      <3>1. Shutdown \in Calls \cup {Shutdown}
        OBVIOUS
      <3>2. QED
        BY Zenon, <2>1, <3>1, AppendLife
    <2>2. CASE cmds' = cmds
      BY Zenon, <2>2, KeepLife DEF LifeKept
    <2>3. QED
      BY Zenon, <1>1, <2>1, <2>2
  <1>4. PostedInv'
    BY Zenon, <1>1, <1>3 DEF LifeInv, PostedInv
  <1>5. \A j \in Calls : j # Shutdown
    BY IdTypes DEF Shutdown
  <1>6. \A j \in Calls : Queued(j)' => Queued(j)
    BY Zenon, <1>3, <1>5 DEF Queued
  <1>7. UntakenInv'
    BY Zenon, <1>1, <1>6 DEF LifeInv, UntakenInv, Untaken
  <1>8. QED
    BY Zenon, <1>2, <1>3, <1>4, <1>7 DEF LifeInv

\* Calls of which the actor tells the callers that the connection is lost.
LEMMA DrainLife ==
    ASSUME TypeInv, LifeInv, NEW S, Drain(S)
    PROVE  /\ \A j \in Calls : j \notin S => chan'[j] = chan[j]
           /\ errs' \subseteq errs \cup S /\ pending' = {}
           /\ \A j \in errs' : j \in errs \/ (j \in S /\ IsStream(j))
  <1>1. \A j \in Calls : j \notin S => chan'[j] = chan[j]
    BY DEF Drain
  <1>2. errs' = errs \cup {j \in S : IsStream(j)} /\ pending' = {}
    BY Zenon DEF Drain
  <1>3. QED
    BY <1>1, <1>2

\* Steps of the tasks, the server, the readers, the network, and those of the actor that
\* leave the calls to others.
LEMMA QuietLife ==
    ASSUME LifeInv,
           UNCHANGED <<kind, posted, pending, errs, streams, ended, cmds, actor, hand, outcome, srv, out, chan,
                       accepted, recv, dialled, upl, uplEnd, sent, srvDone>>
    PROVE  LifeInv'
  BY Zenon, KeepLife DEF LifeKept, LifeInv

LEMMA WorldLife ==
    ASSUME TypeInv, LifeInv,
           \/ \E k \in Conns : ReadFrame(k) \/ ReadClosed(k) \/ ServerCloses(k) \/ ConnDrop(k)
           \/ UNCHANGED vars
    PROVE  LifeInv'
  <1>1. UNCHANGED <<kind, posted, ended, outcome, accepted, recv, cmds, chan, errs, out>>
    BY Zenon DEF ReadFrame, ReadClosed, ServerCloses, ConnDrop, Disconnect, vars, appVars
  <1>2. UNCHANGED <<actor, pending, streams, hand, dialled>>
    BY Zenon DEF ReadFrame, ReadClosed, ServerCloses, ConnDrop, Disconnect, vars, actVars, netVars
  <1>3. UNCHANGED <<srv, srvDone, sent, upl, uplEnd>>
    BY Zenon DEF ReadFrame, ReadClosed, ServerCloses, ConnDrop, Disconnect, vars, srvVars
  <1>4. QED
    BY Zenon, <1>1, <1>2, <1>3, QuietLife

LEMMA TaskLife ==
    ASSUME TypeInv, LifeInv, NEW i \in Calls, DrainTask(i)
    PROVE  LifeInv'
  <1>1. /\ UNCHANGED <<kind, posted, ended, outcome, accepted, recv, cmds, out, actor, pending, streams, hand>>
        /\ UNCHANGED <<dialled, srv, srvDone, sent, upl, uplEnd>>
        /\ i \in errs /\ errs' = errs \ {i}
    BY Zenon DEF DrainTask, appVars, actVars, netVars, srvVars
  <1>2. OnceInv' /\ SrvInv' /\ UnsentInv'
    BY Zenon, <1>1, KeepLife DEF LifeKept
  <1>3. errs' \subseteq errs
    BY Zenon, <1>1
  <1>4. PostedInv'
    BY Zenon, <1>1, <1>3 DEF LifeInv, PostedInv
  <1>5. ErrsInv'
    BY Zenon, <1>1, <1>3 DEF LifeInv, ErrsInv, IsStream
  <1>6. \A j \in Calls : j # i => chan'[j] = chan[j]
    BY Zenon DEF DrainTask, TypeInv, ChanType
  <1>7. i \in posted /\ ~Queued(i)
    BY <1>1 DEF LifeInv, PostedInv, UntakenInv, Untaken
  <1>8. BlankInv'
    BY Zenon, <1>1, <1>6, <1>7 DEF LifeInv, BlankInv, Blank
  <1>9. \A j \in Calls : Queued(j)' => Queued(j) /\ j # i
    BY Zenon, <1>1, <1>7 DEF Queued
  <1>10. UntakenInv'
    BY Zenon, <1>1, <1>3, <1>6, <1>9 DEF LifeInv, UntakenInv, Untaken
  <1>11. QED
    BY Zenon, <1>2, <1>4, <1>5, <1>8, <1>10 DEF LifeInv

LEMMA ServerLife ==
    ASSUME TypeInv, LifeInv, NEW i \in Calls, ServerChunk(i) \/ ServerAnswer(i) \/ ServerError(i)
    PROVE  LifeInv'
  <1>1. /\ UNCHANGED <<kind, posted, ended, outcome, accepted, recv, cmds, chan, errs, out, actor, pending>>
        /\ UNCHANGED <<streams, hand, dialled, srv, upl, uplEnd>>
    BY Zenon DEF ServerChunk, ServerAnswer, ServerError, appVars, actVars, netVars
  <1>2. srv[i] # 0 /\ \A j \in Calls : j # i => sent'[j] = sent[j] /\ srvDone'[j] = srvDone[j]
    BY DEF ServerChunk, ServerAnswer, ServerError, Reachable, TypeInv, SrvTypes
  <1>3. UnsentInv'
    BY Zenon, <1>1, <1>2 DEF LifeInv, UnsentInv, Unsent
  <1>4. QED
    BY Zenon, <1>1, <1>3, KeepLife DEF LifeKept, LifeInv

LEMMA PumpLife ==
    ASSUME TypeInv, ActorInv, LifeInv, NEW i \in Calls, Pump(i)
    PROVE  LifeInv'
  <1>1. /\ UNCHANGED <<kind, posted, ended, outcome, accepted, recv, cmds, chan, errs, pending, hand>>
        /\ UNCHANGED <<dialled, srv, srvDone, sent>>
        /\ streams' = streams \/ streams' = streams \ {i}
    BY Zenon DEF Pump, PumpWrite, PumpDry, PumpCheck, appVars, actVars, netVars, srvVars
  <1>2. actor = "pump" /\ actor' \in {"pump", "select"}
    BY DEF Pump, PumpWrite, PumpDry, PumpCheck, Pumping, actVars
  <1>3. ErrsInv' /\ OnceInv' /\ SrvInv'
    BY Zenon, <1>1, KeepLife DEF LifeKept
  <1>4. streams' \subseteq streams
    BY Zenon, <1>1
  <1>5. PostedInv'
    BY Zenon, <1>1, <1>2, <1>4 DEF LifeInv, PostedInv
  <1>6. UntakenInv'
    BY Zenon, <1>1, <1>4 DEF LifeInv, UntakenInv, Untaken, Queued
  <1>7. ASSUME NEW j \in Calls, j \notin posted PROVE out'[j] = <<>>
    <2>1. out[j] = <<>>
      BY Zenon, <1>7 DEF LifeInv, BlankInv, Blank
    <2>2. CASE PumpWrite(i)
      <3>1. out[i] # <<>> /\ out' = [out EXCEPT ![i] = Tail(@)]
        BY Zenon, <2>2 DEF PumpWrite
      <3>2. QED
        BY <2>1, <3>1 DEF TypeInv, OutType
    <2>3. CASE PumpDry(i)
      BY Zenon, <2>1, <2>3 DEF PumpDry
    <2>4. CASE PumpCheck(i)
      <3>1. out' = out \/ out' = [out EXCEPT ![i] = <<>>]
        BY Zenon, <2>4 DEF PumpCheck
      <3>2. QED
        BY Zenon, <2>1, <3>1 DEF TypeInv, OutType
    <2>5. QED
      BY Zenon, <2>2, <2>3, <2>4 DEF Pump
  <1>8. BlankInv'
    BY Zenon, <1>1, <1>7 DEF LifeInv, BlankInv, Blank
  <1>9. UnsentInv'
    <2>1. CASE UNCHANGED <<upl, uplEnd>>
      BY Zenon, <1>1, <2>1, KeepLife DEF LifeKept
    <2>2. CASE PumpWrite(i) /\ WriteOk /\ Upload(i, Head(out[i])) /\ Reaches /\ srv[i] = writer
      <3>1. srv[i] # 0
        BY Zenon, <2>2 DEF WriteOk
      <3>2. \A j \in Calls : j # i => upl'[j] = upl[j] /\ uplEnd'[j] = uplEnd[j]
        BY <2>2 DEF Upload, TypeInv, SrvTypes
      <3>3. QED
        BY Zenon, <1>1, <3>1, <3>2 DEF LifeInv, UnsentInv, Unsent
    <2>3. QED
      BY Zenon, <2>1, <2>2 DEF Pump, PumpWrite, PumpDry, PumpCheck, Upload, srvVars
  <1>10. QED
    BY Zenon, <1>3, <1>5, <1>6, <1>8, <1>9 DEF LifeInv

LEMMA TopLife ==
    ASSUME TypeInv, LifeInv, Top \/ PumpDone
    PROVE  LifeInv'
  <1>1. /\ UNCHANGED <<kind, posted, ended, outcome, accepted, recv, cmds, chan, errs, out, pending, streams, hand>>
        /\ UNCHANGED <<dialled, srv, srvDone, sent, upl, uplEnd>>
    BY Zenon DEF Top, PumpDone, appVars, netVars, srvVars
  <1>2. actor' # "send"
    BY DEF Top, PumpDone
  <1>3. PostedInv'
    BY Zenon, <1>1, <1>2 DEF LifeInv, PostedInv
  <1>4. QED
    BY Zenon, <1>1, <1>3, KeepLife DEF LifeKept, LifeInv

\* A command that is taken is gone, and the others stay what they were.
LEMMA TakenLife ==
    ASSUME TypeInv, LifeInv, cmds # <<>>, cmds' = Tail(cmds) \/ cmds' = <<>>
    PROVE  /\ OnceInv' /\ \A n \in 1..Len(cmds') : \E p \in 1..Len(cmds) : cmds'[n] = cmds[p]
           /\ \A n \in 1..Len(cmds') : cmds'[n] = Head(cmds) => Head(cmds) = Shutdown
           /\ \E p \in 1..Len(cmds) : cmds[p] = Head(cmds)
  <1>1. cmds \in Seq(Calls \cup {Shutdown})
    BY Zenon DEF TypeInv, CmdType
  <1>2. 1 \in 1..Len(cmds) /\ Head(cmds) = cmds[1] /\ \A p \in 1..Len(Tail(cmds)) : 1 < p + 1
    BY <1>1, TailOf
  <1>3. CASE cmds' = Tail(cmds)
    <2>1. ASSUME NEW n \in 1..Len(cmds') PROVE n + 1 \in 1..Len(cmds) /\ cmds'[n] = cmds[n + 1]
      BY Zenon, <1>1, <1>3, TailElem
    <2>2. ASSUME NEW p \in 1..Len(cmds'), NEW q \in 1..Len(cmds'), p < q, cmds'[p] = cmds'[q]
          PROVE  cmds'[p] = Shutdown
      <3>1. p + 1 < q + 1
        BY <1>1, <1>3, <2>2
      <3>2. QED
        BY Zenon, <2>1, <2>2, <3>1 DEF LifeInv, OnceInv
    <2>3. OnceInv'
      BY Zenon, <2>2 DEF OnceInv
    <2>4. ASSUME NEW n \in 1..Len(cmds'), cmds'[n] = Head(cmds) PROVE Head(cmds) = Shutdown
      <3>1. 1 < n + 1
        BY Zenon, <1>2, <1>3
      <3>2. QED
        BY Zenon, <1>2, <2>1, <2>4, <3>1 DEF LifeInv, OnceInv
    <2>5. QED
      BY Zenon, <1>2, <2>1, <2>3, <2>4
  <1>4. CASE cmds' = <<>>
    <2>1. \A n \in 1..Len(cmds') : FALSE
      BY Zenon, <1>4, EmptyOf
    <2>2. QED
      BY Zenon, <1>2, <2>1 DEF OnceInv
  <1>5. QED
    BY Zenon, <1>3, <1>4

LEMMA RequestLife ==
    ASSUME TypeInv, ActorInv, LifeInv, NEW i \in Calls, Requests(i)
    PROVE  LifeInv'
  <1>1. /\ UNCHANGED <<kind, posted, ended, outcome, accepted, recv, chan, errs, out, writer, hand>>
        /\ UNCHANGED <<dialled, srvDone, sent, upl, uplEnd>>
        /\ cmds # <<>> /\ cmds' = Tail(cmds) /\ i = Head(cmds) /\ i # Shutdown /\ actor = "select" /\ actor' = "top"
        /\ pending' = pending \cup {i} /\ (streams' = streams \/ streams' = streams \cup {i})
        /\ writer # 0 /\ (srv' = srv \/ srv' = [srv EXCEPT ![i] = writer])
    BY Zenon DEF Requests, appVars, WriteOk
  <1>2. /\ OnceInv' /\ \A n \in 1..Len(cmds') : \E p \in 1..Len(cmds) : cmds'[n] = cmds[p]
        /\ \A n \in 1..Len(cmds') : cmds'[n] # i
        /\ Queued(i)
    BY Zenon, <1>1, TakenLife DEF Queued
  <1>3. Untaken(i) /\ i \in posted
    BY Zenon, <1>1, <1>2 DEF LifeInv, UntakenInv, PostedInv, Queued
  <1>4. writer = dialled
    BY <1>1 DEF ActorInv, WriterInv
  <1>5. \A j \in Calls : j # i => srv'[j] = srv[j]
    BY Zenon, <1>1 DEF TypeInv, SrvTypes
  <1>6. srv'[i] \in {0, dialled} /\ dialled \in Nat
    <2>1. srv[i] = 0
      BY Zenon, <1>3 DEF Untaken
    <2>2. dialled \in Nat
      BY Zenon, IdTypes DEF TypeInv, LinkTypes
    <2>3. QED
      BY <1>1, <1>4, <2>1, <2>2 DEF TypeInv, SrvTypes
  <1>7. PostedInv'
    <2>1. actor' # "send"
      BY <1>1
    <2>2. \A n \in 1..Len(cmds') : cmds'[n] # Shutdown => cmds'[n] \in posted
      BY Zenon, <1>2 DEF LifeInv, PostedInv
    <2>3. pending' \subseteq posted /\ streams' \subseteq posted
      BY <1>1, <1>3 DEF LifeInv, PostedInv
    <2>4. QED
      BY Zenon, <1>1, <2>1, <2>2, <2>3 DEF LifeInv, PostedInv
  <1>8. BlankInv'
    BY Zenon, <1>1, <1>3, <1>5 DEF LifeInv, BlankInv, Blank
  <1>9. UntakenInv'
    <2>1. ASSUME NEW j \in Calls, Queued(j)' PROVE Untaken(j)'
      <3>1. Queued(j) /\ j # i
        BY Zenon, <1>2, <2>1 DEF Queued
      <3>2. Untaken(j)
        BY Zenon, <3>1 DEF LifeInv, UntakenInv
      <3>3. j \notin pending' /\ j \notin streams'
        BY <1>1, <3>1, <3>2 DEF Untaken
      <3>4. QED
        BY Zenon, <1>1, <1>5, <3>1, <3>2, <3>3 DEF Untaken
    <2>2. QED
      BY Zenon, <2>1 DEF UntakenInv
  <1>10. ErrsInv'
    <2>1. ASSUME NEW j \in errs' PROVE j \notin pending' /\ IsStream(j)' /\ (hand.id # j)'
      <3>1. j \in errs /\ j # i
        BY Zenon, <1>1, <1>3, <2>1 DEF Untaken
      <3>2. j \notin pending /\ IsStream(j) /\ hand.id # j
        BY Zenon, <3>1 DEF LifeInv, ErrsInv
      <3>3. j \notin pending'
        BY <1>1, <3>1, <3>2
      <3>4. QED
        BY Zenon, <1>1, <3>2, <3>3 DEF IsStream
    <2>2. QED
      BY Zenon, <2>1 DEF ErrsInv
  <1>11. SrvInv'
    <2>1. ASSUME NEW j \in Calls PROVE srv'[j] \in 0..dialled /\ (j \in pending' => srv'[j] \in {0, dialled})
      <3>1. CASE j = i
        BY <1>6, <3>1
      <3>2. CASE j # i
        <4>1. srv[j] \in 0..dialled /\ (j \in pending => srv[j] \in {0, dialled})
          BY Zenon DEF LifeInv, SrvInv
        <4>2. j \in pending' => j \in pending
          BY <1>1, <3>2
        <4>3. QED
          BY Zenon, <1>5, <3>2, <4>1, <4>2
      <3>3. QED
        BY Zenon, <3>1, <3>2
    <2>2. QED
      BY Zenon, <1>1, <2>1 DEF SrvInv
  <1>12. UnsentInv'
    <2>1. \A j \in Calls : srv'[j] = 0 => srv[j] = 0
      BY Zenon, <1>3, <1>5 DEF Untaken
    <2>2. QED
      BY Zenon, <1>1, <2>1 DEF LifeInv, UnsentInv, Unsent
  <1>13. QED
    BY Zenon, <1>2, <1>7, <1>8, <1>9, <1>10, <1>11, <1>12 DEF LifeInv

LEMMA GivesUpLife ==
    ASSUME TypeInv, TypeInv', ActorInv, LifeInv, NEW S, S \subseteq posted, GivesUp(S), actor = "select",
           UNCHANGED <<kind, posted, ended, outcome, accepted, recv, hand, dialled, srvVars>>,
           OnceInv', \A n \in 1..Len(cmds') : \E p \in 1..Len(cmds) : cmds'[n] = cmds[p],
           \A j \in Calls : Queued(j)' => j \notin S,
           out' = out \/ \E i \in S : out' = [out EXCEPT ![i] = <<>>]
    PROVE  LifeInv'
  <1>1. /\ \A j \in Calls : j \notin S => chan'[j] = chan[j]
        /\ errs' \subseteq errs \cup S /\ pending' = {}
        /\ \A j \in errs' : j \in errs \/ (j \in S /\ IsStream(j))
    BY Zenon, DrainLife DEF GivesUp
  <1>2. actor' # "send" /\ (streams' = streams \/ streams' = {})
    BY DEF GivesUp
  <1>3. UNCHANGED <<srv, sent, srvDone, upl, uplEnd>>
    BY Zenon DEF srvVars
  <1>4. UnsentInv'
    BY Zenon, <1>3, KeepLife DEF LifeKept
  <1>5. SrvInv'
    BY Zenon, <1>1, <1>3 DEF LifeInv, SrvInv
  <1>6. PostedInv'
    <2>1. \A n \in 1..Len(cmds') : cmds'[n] # Shutdown => cmds'[n] \in posted
      BY Zenon DEF LifeInv, PostedInv
    <2>2. pending' \subseteq posted /\ streams' \subseteq posted /\ errs' \subseteq posted
      BY <1>1, <1>2 DEF LifeInv, PostedInv
    <2>3. QED
      BY Zenon, <1>2, <2>1, <2>2 DEF LifeInv, PostedInv
  <1>7. BlankInv'
    <2>1. ASSUME NEW j \in Calls, j \notin posted PROVE Blank(j)'
      <3>1. Blank(j) /\ j \notin S
        BY Zenon, <2>1 DEF LifeInv, BlankInv
      <3>2. chan'[j] = chan[j]
        BY Zenon, <1>1, <3>1
      <3>3. out'[j] = out[j]
        BY Zenon, <3>1 DEF TypeInv, OutType
      <3>4. QED
        BY Zenon, <1>3, <3>1, <3>2, <3>3 DEF Blank
    <2>2. QED
      BY Zenon, <2>1 DEF BlankInv
  <1>8. UntakenInv'
    <2>1. ASSUME NEW j \in Calls, Queued(j)' PROVE Untaken(j)'
      <3>1. Queued(j) /\ j \notin S
        BY Zenon, <2>1 DEF Queued
      <3>2. Untaken(j)
        BY Zenon, <3>1 DEF LifeInv, UntakenInv
      <3>3. j \notin pending' /\ j \notin streams' /\ j \notin errs'
        BY <1>1, <1>2, <3>1, <3>2 DEF Untaken
      <3>4. chan'[j] = chan[j]
        BY Zenon, <1>1, <3>1
      <3>5. QED
        BY Zenon, <1>3, <3>2, <3>3, <3>4 DEF Untaken
    <2>2. QED
      BY Zenon, <2>1 DEF UntakenInv
  <1>9. ErrsInv'
    <2>1. hand = NoFrame
      BY DEF ActorInv, HandInv
    <2>2. \A j \in Calls : hand.id # j
      BY <2>1, IdTypes DEF NoFrame, Frame
    <2>3. errs' \subseteq Calls
      BY Zenon DEF TypeInv, ErrType
    <2>4. ASSUME NEW j \in errs' PROVE j \notin pending' /\ IsStream(j)' /\ (hand.id # j)'
      <3>1. IsStream(j)
        BY Zenon, <1>1, <2>4 DEF LifeInv, ErrsInv
      <3>2. j \notin pending' /\ hand.id # j
        BY <1>1, <2>2, <2>3, <2>4
      <3>3. QED
        BY Zenon, <3>1, <3>2 DEF IsStream
    <2>5. QED
      BY ZenonT(40), <2>4 DEF ErrsInv
  <1>10. QED
    BY Zenon, <1>4, <1>5, <1>6, <1>7, <1>8, <1>9 DEF LifeInv

LEMMA LossLife ==
    ASSUME TypeInv, TypeInv', ActorInv, LifeInv,
           (\E i \in Calls : RequestFails(i)) \/ ShutsDown \/ Loses
    PROVE  LifeInv'
  <1>1. pending \subseteq posted /\ \A j \in pending : ~Queued(j)
    BY DEF LifeInv, PostedInv, UntakenInv, Untaken, TypeInv, ActTypes
  <1>2. ASSUME NEW i \in Calls, RequestFails(i) PROVE LifeInv'
    <2>1. /\ UNCHANGED <<kind, posted, ended, outcome, accepted, recv, hand, dialled, srvVars>>
          /\ cmds # <<>> /\ i = Head(cmds) /\ i # Shutdown /\ GivesUp(pending \cup {i}) /\ actor = "select"
          /\ out' = [out EXCEPT ![i] = <<>>]
      BY Zenon, <1>2 DEF RequestFails, appVars
    <2>2. cmds' = Tail(cmds) \/ cmds' = <<>>
      BY <1>2 DEF RequestFails
    <2>3. /\ OnceInv' /\ \A n \in 1..Len(cmds') : \E p \in 1..Len(cmds) : cmds'[n] = cmds[p]
          /\ \A n \in 1..Len(cmds') : cmds'[n] # i
          /\ Queued(i)
      BY Zenon, <2>1, <2>2, TakenLife DEF Queued
    <2>4. i \in posted
      BY Zenon, <2>1, <2>3 DEF LifeInv, PostedInv, Queued
    <2>5. PICK S : S = pending \cup {i}
      BY Zenon
    <2>6. \A j \in Calls : Queued(j)' => j \notin S
      <3>1. \A j \in Calls : Queued(j)' => Queued(j) /\ j # i
        BY Zenon, <2>3 DEF Queued
      <3>2. QED
        BY <1>1, <2>5, <3>1
    <2>7. S \subseteq posted /\ i \in S /\ GivesUp(S)
      BY <1>1, <2>1, <2>4, <2>5
    <2>8. QED
      BY Zenon, <2>1, <2>3, <2>6, <2>7, GivesUpLife
  <1>3. ASSUME ShutsDown \/ Loses PROVE LifeInv'
    <2>1. /\ UNCHANGED <<kind, posted, ended, outcome, accepted, recv, hand, dialled, srvVars, out>>
          /\ GivesUp(pending) /\ actor = "select"
      BY Zenon, <1>3 DEF ShutsDown, Loses, appVars
    <2>2. cmds' = cmds \/ cmds' = <<>>
      BY <1>3 DEF ShutsDown, Loses
    <2>3. OnceInv' /\ \A n \in 1..Len(cmds') : \E p \in 1..Len(cmds) : cmds'[n] = cmds[p]
      <3>1. CASE cmds' = cmds
        BY Zenon, <3>1, KeepLife DEF LifeKept
      <3>2. CASE cmds' = <<>>
        BY Zenon, <3>2, EmptyOf DEF OnceInv
      <3>3. QED
        BY Zenon, <2>2, <3>1, <3>2
    <2>4. \A j \in Calls : Queued(j)' => j \notin pending
      BY Zenon, <1>1, <2>3 DEF Queued
    <2>5. QED
      BY Zenon, <1>1, <2>1, <2>3, <2>4, GivesUpLife
  <1>4. QED
    BY Zenon, <1>2, <1>3

LEMMA FrameLife ==
    ASSUME TypeInv, TypeInv', ActorInv, LifeInv, TakeFrame \/ HandOver
    PROVE  LifeInv'
  <1>1. /\ UNCHANGED <<kind, posted, ended, outcome, accepted, recv, cmds, errs, out, streams>>
        /\ UNCHANGED <<dialled, srv, srvDone, sent, upl, uplEnd>>
    BY Zenon DEF TakeFrame, HandOver, appVars, netVars, srvVars
  <1>2. OnceInv' /\ UnsentInv'
    BY Zenon, <1>1, KeepLife DEF LifeKept
  <1>3. /\ pending' \subseteq pending /\ (actor' = "send" => hand'.id \in pending)
        /\ \A j \in Calls : chan'[j] = chan[j] \/ (j \in posted /\ ~Queued(j))
        /\ \A j \in Calls : hand'.id = j => j \in pending
    <2>1. \A j \in Calls : NoFrame.id # j
      BY IdTypes DEF NoFrame, Frame
    <2>2. CASE TakeFrame
      <3>1. PICK m : m = Head(queue)
        BY Zenon
      <3>2. /\ actor = "select" /\ (pending' = pending \/ pending' = pending \ {m.id})
            /\ \/ m.id \in pending /\ hand' = m /\ chan' = chan
               \/ m.id \in pending /\ actor' = "top" /\ hand' = hand /\ chan' = [chan EXCEPT ![m.id] = <<m>>]
               \/ actor' = "top" /\ hand' = hand /\ chan' = chan
        BY Zenon, <2>2, <3>1 DEF TakeFrame
      <3>3. hand = NoFrame
        BY <3>2 DEF ActorInv, HandInv
      <3>4. pending' \subseteq pending
        BY <3>2
      <3>5. actor' = "send" => hand'.id \in pending
        BY <3>2
      <3>6. \A j \in Calls : hand'.id = j => j \in pending
        BY Zenon, <2>1, <3>2, <3>3
      <3>7. \A j \in pending : j \in posted /\ ~Queued(j)
        BY DEF LifeInv, PostedInv, UntakenInv, Untaken, TypeInv, ActTypes
      <3>8. \A j \in Calls : chan'[j] = chan[j] \/ j \in pending
        BY <3>2 DEF TypeInv, ChanType
      <3>9. QED
        BY Zenon, <3>4, <3>5, <3>6, <3>7, <3>8
    <2>3. CASE HandOver
      <3>1. /\ actor = "send" /\ (pending' = pending \/ pending' = pending \ {hand.id})
            /\ actor' = "top" /\ hand' = NoFrame
        BY Zenon, <2>3 DEF HandOver
      <3>2. \A j \in Calls : chan'[j] = chan[j] \/ j = hand.id
        BY <2>3 DEF HandOver, TypeInv, ChanType
      <3>3. hand.id \in posted
        BY Zenon, <3>1 DEF LifeInv, PostedInv
      <3>4. \A j \in Calls : j = hand.id => ~Queued(j)
        BY Zenon DEF LifeInv, UntakenInv, Untaken
      <3>5. pending' \subseteq pending /\ actor' # "send"
        BY Zenon, <3>1
      <3>6. QED
        BY Zenon, <2>1, <3>1, <3>2, <3>3, <3>4, <3>5
    <2>4. QED
      BY Zenon, <2>2, <2>3
  <1>4. PostedInv'
    BY Zenon, <1>1, <1>3 DEF LifeInv, PostedInv
  <1>5. BlankInv'
    BY Zenon, <1>1, <1>3 DEF LifeInv, BlankInv, Blank
  <1>6. UntakenInv'
    <2>1. ASSUME NEW j \in Calls, Queued(j)' PROVE Untaken(j)'
      <3>1. Queued(j)
        BY Zenon, <1>1, <2>1 DEF Queued
      <3>2. Untaken(j)
        BY Zenon, <3>1 DEF LifeInv, UntakenInv
      <3>3. j \notin pending' /\ hand'.id # j /\ chan'[j] = chan[j]
        BY Zenon, <1>3, <3>1, <3>2 DEF Untaken
      <3>4. QED
        BY Zenon, <1>1, <3>2, <3>3 DEF Untaken
    <2>2. QED
      BY Zenon, <2>1 DEF UntakenInv
  <1>7. ErrsInv'
    <2>1. errs \subseteq Calls
      BY Zenon DEF TypeInv, ErrType
    <2>2. ASSUME NEW j \in errs' PROVE j \notin pending' /\ IsStream(j)' /\ (hand.id # j)'
      <3>1. j \notin pending /\ IsStream(j) /\ j \in Calls
        BY Zenon, <1>1, <2>1, <2>2 DEF LifeInv, ErrsInv
      <3>2. QED
        BY Zenon, <1>1, <1>3, <3>1 DEF IsStream
    <2>3. QED
      BY Zenon, <2>2 DEF ErrsInv
  <1>8. SrvInv'
    BY Zenon, <1>1, <1>3 DEF LifeInv, SrvInv
  <1>9. QED
    BY Zenon, <1>2, <1>4, <1>5, <1>6, <1>7, <1>8 DEF LifeInv

LEMMA RedialLife ==
    ASSUME TypeInv, ActorInv, LifeInv, Redial
    PROVE  LifeInv'
  <1>1. /\ UNCHANGED <<kind, posted, ended, outcome, accepted, recv, cmds, chan, errs, out, pending, streams, hand>>
        /\ UNCHANGED <<srv, srvDone, sent, upl, uplEnd>>
        /\ actor = "reconnect" /\ actor' = "top" /\ dialled' = dialled + 1
    BY Zenon DEF Redial, appVars, srvVars
  <1>2. actor' # "send" /\ pending = {}
    BY <1>1 DEF ActorInv, WriterInv
  <1>3. PostedInv'
    BY Zenon, <1>1, <1>2 DEF LifeInv, PostedInv
  <1>4. dialled \in Nat
    BY Zenon, IdTypes DEF TypeInv, LinkTypes
  <1>5. \A n \in 0..dialled : n \in 0..(dialled + 1)
    BY <1>4
  <1>6. SrvInv'
    BY Zenon, <1>1, <1>2, <1>5 DEF LifeInv, SrvInv
  <1>7. QED
    BY Zenon, <1>1, <1>3, <1>6, KeepLife DEF LifeKept, LifeInv

LEMMA StepLife ==
    ASSUME TypeInv, TypeInv', ActorInv, LifeInv, [Next]_vars
    PROVE  LifeInv'
  <1>1. CASE Outside
    BY Zenon, <1>1, BeginLife, PostLife, CallerSteps, CallerLife, TaskLife, ServerLife, CloseLife, WorldLife
       DEF Outside
  <1>2. CASE Actor
    BY Zenon, <1>2, TopLife, PumpLife, TwoRequests, TwoLosses, RequestLife, LossLife, FrameLife, RedialLife
       DEF Actor
  <1>3. QED
    BY Zenon, <1>1, <1>2, Steps

LEMMA InitLife == Init => LifeInv
  <1> SUFFICES ASSUME Init PROVE LifeInv
    OBVIOUS
  <1>1. \A n \in 1..Len(cmds) : FALSE
    BY Zenon, EmptyOf DEF Init
  <1>2. actor # "send"
    BY DEF Init
  <1>3. PostedInv
    BY Zenon, <1>1, <1>2 DEF Init, PostedInv
  <1>4. BlankInv
    BY Zenon DEF Init, BlankInv, Blank
  <1>5. UntakenInv /\ OnceInv /\ ErrsInv
    BY Zenon, <1>1 DEF Init, UntakenInv, OnceInv, ErrsInv, Queued
  <1>6. SrvInv
    BY DEF Init, SrvInv
  <1>7. UnsentInv
    BY Zenon DEF Init, UnsentInv, Unsent
  <1>8. QED
    BY Zenon, <1>3, <1>4, <1>5, <1>6, <1>7 DEF LifeInv

-----------------------------------------------------------------------------
\* Pending calls stay watched.

Watched == reader[dialled] = "run" \/ \E n \in 1..Len(queue) : queue[n] = Closed(dialled)
WatchInv == writer # 0 \/ pending # {} => Watched

\* A step that reads no frame and takes none.
LEMMA WatchKept ==
    ASSUME WatchInv, UNCHANGED <<queue, reader, dialled>>, writer' # 0 \/ pending' # {} => writer # 0 \/ pending # {}
    PROVE  WatchInv'
  BY Zenon DEF WatchInv, Watched

\* What the readers do, as seen by everyone but them.
LEMMA OutsideQueue ==
    ASSUME Outside
    PROVE  UNCHANGED rdVars \/ \E k \in Conns : ReadFrame(k) \/ ReadClosed(k)
  <1>1. ASSUME NEW i \in Calls,
               (\E k \in Kinds : Begin(i, k)) \/ Post(i) \/ Send(i) \/ SendClose(i) \/ Receive(i) \/ ReceiveNone(i)
                   \/ DropStream(i)
        PROVE  UNCHANGED rdVars
    BY Zenon, <1>1 DEF Begin, Post, Send, SendClose, Receive, ReceiveNone, DropStream
  <1>2. ASSUME NEW i \in Calls, DrainTask(i) \/ ServerChunk(i) \/ ServerAnswer(i) \/ ServerError(i)
        PROVE  UNCHANGED rdVars
    BY Zenon, <1>2 DEF DrainTask, ServerChunk, ServerAnswer, ServerError
  <1>3. ASSUME NEW k \in Conns, ServerCloses(k) \/ ConnDrop(k)
        PROVE  UNCHANGED rdVars
    BY Zenon, <1>3 DEF ServerCloses, ConnDrop, Disconnect
  <1>4. ASSUME Close \/ UNCHANGED vars
        PROVE  UNCHANGED rdVars
    BY Zenon, <1>4 DEF Close, vars
  <1>5. QED
    BY Zenon, <1>1, <1>2, <1>3, <1>4 DEF Outside

LEMMA ReadWatch ==
    ASSUME TypeInv, ActorInv, WatchInv, NEW k \in Conns, ReadFrame(k) \/ ReadClosed(k)
    PROVE  WatchInv'
  <1>1. UNCHANGED <<writer, pending, dialled>>
    BY Zenon DEF ReadFrame, ReadClosed, actVars, netVars
  <1>2. SUFFICES ASSUME writer # 0 \/ pending # {} PROVE Watched'
    BY Zenon, <1>1 DEF WatchInv
  <1>3. Watched
    BY Zenon, <1>2 DEF WatchInv
  <1>4. actor # "exited"
    BY Zenon, <1>2 DEF ActorInv, WriterInv
  <1>5. queue \in Seq(Frames) /\ wire[k] \in Seq(Frames) /\ Closed(k) \in Frames
    BY IdTypes, FrameType DEF TypeInv, ReadTypes, WireType, FrameTypes, Closed
  <1>6. PICK m \in Frames : /\ queue' = Append(queue, m)
                            /\ reader' = reader \/ (m = Closed(k) /\ reader' = [reader EXCEPT ![k] = "done"])
    <2>1. CASE ReadFrame(k)
      <3>1. Head(wire[k]) \in Frames
        BY Zenon, <1>5, <2>1, TailOf DEF ReadFrame
      <3>2. QED
        BY Zenon, <1>4, <2>1, <3>1 DEF ReadFrame
    <2>2. CASE ReadClosed(k)
      BY Zenon, <1>4, <1>5, <2>2 DEF ReadClosed
    <2>3. QED
      BY Zenon, <2>1, <2>2
  <1>7. /\ \A n \in 1..Len(queue) : n \in 1..Len(queue') /\ queue'[n] = queue[n]
        /\ Len(queue) + 1 \in 1..Len(queue') /\ queue'[Len(queue) + 1] = m
    BY <1>5, <1>6, AppendOf
  <1>8. reader \in [Conns -> {"none", "run", "done"}]
    BY Zenon DEF TypeInv, ReadTypes
  <1>9. CASE reader' = reader
    BY Zenon, <1>1, <1>3, <1>7, <1>9 DEF Watched
  <1>10. CASE m = Closed(k) /\ reader' = [reader EXCEPT ![k] = "done"]
    <2>1. CASE k = dialled
      BY Zenon, <1>1, <1>7, <1>10, <2>1 DEF Watched
    <2>2. CASE k # dialled
      <3>1. reader'[dialled] = reader[dialled]
        BY <1>8, <1>10, <2>2
      <3>2. QED
        BY Zenon, <1>1, <1>3, <1>7, <3>1 DEF Watched
    <2>3. QED
      BY Zenon, <2>1, <2>2
  <1>11. QED
    BY Zenon, <1>6, <1>9, <1>10

LEMMA StepWatch ==
    ASSUME TypeInv, ActorInv, WatchInv, [Next]_vars
    PROVE  WatchInv'
  <1>1. CASE Outside
    <2>1. UNCHANGED <<writer, pending, dialled>>
      BY Zenon, <1>1, OutsideLeaves DEF actVars
    <2>2. CASE UNCHANGED rdVars
      BY Zenon, <2>1, <2>2, WatchKept DEF rdVars
    <2>3. QED
      BY Zenon, <1>1, <2>2, OutsideQueue, ReadWatch
  <1>2. CASE Top \/ PumpDone \/ HandOver \/ \E i \in Calls : Pump(i)
    <2>1. UNCHANGED <<queue, reader, dialled>> /\ (writer' = writer \/ writer' = 0)
      BY Zenon, <1>2 DEF Top, PumpDone, HandOver, Pump, PumpWrite, PumpDry, PumpCheck, rdVars, netVars, actVars
    <2>2. pending' = pending \/ (HandOver /\ pending' = pending \ {hand.id})
      BY Zenon, <1>2 DEF Top, PumpDone, HandOver, Pump, PumpWrite, PumpDry, PumpCheck, actVars
    <2>3. writer' # 0 \/ pending' # {} => writer # 0 \/ pending # {}
      BY <2>1, <2>2
    <2>4. QED
      BY Zenon, <2>1, <2>3, WatchKept
  <1>3. CASE TakeCall
    <2>1. PICK i \in Calls : Requests(i) \/ RequestFails(i)
      BY Zenon, <1>3, TwoRequests
    <2>2. CASE Requests(i)
      <3>1. UNCHANGED <<queue, reader, dialled>> /\ writer # 0
        BY Zenon, <2>2 DEF Requests, WriteOk
      <3>2. QED
        BY Zenon, <3>1, WatchKept
    <2>3. CASE RequestFails(i)
      BY Zenon, <2>3 DEF RequestFails, GivesUp, Drain, WatchInv
    <2>4. QED
      BY Zenon, <2>1, <2>2, <2>3
  <1>4. CASE TakeShutdown \/ TakeClosed
    BY Zenon, <1>4, TwoLosses DEF ShutsDown, Loses, GivesUp, Drain, WatchInv
  <1>5. CASE TakeFrame
    <2>1. /\ UNCHANGED <<writer, reader, dialled>> /\ queue # <<>> /\ queue' = Tail(queue)
          /\ Head(queue).type # "closed" /\ (pending' = pending \/ pending' = pending \ {Head(queue).id})
      BY Zenon, <1>5 DEF TakeFrame, netVars
    <2>2. writer' # 0 \/ pending' # {} => writer # 0 \/ pending # {}
      BY <2>1
    <2>3. SUFFICES ASSUME writer # 0 \/ pending # {} PROVE Watched'
      BY Zenon, <2>2 DEF WatchInv
    <2>4. Watched
      BY Zenon, <2>3 DEF WatchInv
    <2>5. queue \in Seq(Frames)
      BY Zenon DEF TypeInv, ReadTypes
    <2>6. ASSUME NEW n \in 1..Len(queue), queue[n] = Closed(dialled)
          PROVE  \E p \in 1..Len(queue') : queue'[p] = Closed(dialled)
      <3>1. Closed(dialled).type = "closed"
        BY DEF Closed, Frame
      <3>2. n # 1
        <4>1. Head(queue) = queue[1]
          BY Zenon, <2>1, <2>5, TailOf
        <4>2. QED
          BY Zenon, <2>1, <2>6, <3>1, <4>1
      <3>3. n - 1 \in 1..Len(Tail(queue)) /\ Tail(queue)[n - 1] = queue[n]
        BY Zenon, <2>1, <2>5, <3>2, BeforeTail
      <3>4. QED
        BY Zenon, <2>1, <2>6, <3>3
    <2>7. QED
      BY Zenon, <2>1, <2>4, <2>6 DEF Watched
  <1>6. CASE Redial
    <2>1. dialled' = dialled + 1 /\ reader' = [reader EXCEPT ![dialled + 1] = "run"] /\ dialled < MaxConns
      BY Zenon, <1>6 DEF Redial
    <2>2. dialled + 1 \in Conns
      BY <2>1, RustClientAssumption DEF Conns, TypeInv, LinkTypes
    <2>3. reader'[dialled'] = "run"
      BY Zenon, <2>1, <2>2 DEF TypeInv, ReadTypes
    <2>4. QED
      BY Zenon, <2>3 DEF WatchInv, Watched
  <1>7. QED
    BY Zenon, <1>1, <1>2, <1>3, <1>4, <1>5, <1>6, Steps DEF Actor

LEMMA InitWatch == Init => WatchInv
  BY RustClientAssumption DEF Init, WatchInv, Watched, Conns

ClientInv == TypeInv /\ ActorInv /\ LifeInv /\ WatchInv

LEMMA InitClient == Init => ClientInv
  BY Zenon, InitTypes, InitActor, InitLife, InitWatch DEF ClientInv

LEMMA StepClient ==
    ASSUME ClientInv, [Next]_vars
    PROVE  ClientInv'
  BY Zenon, StepTypes, StepActor, StepLife, StepWatch DEF ClientInv

\* No entry of the pending map survives the connection it was made on, and while there is
\* one its reader runs or its Closed is queued (run_actor, spawn_reader, drain_pending).
THEOREM PendingStaysCurrent == Spec => []PendingOnCurrent
  <1>1. ClientInv => PendingOnCurrent
    <2> SUFFICES ASSUME ClientInv, pending # {} PROVE PendingOnCurrent
      BY Zenon DEF PendingOnCurrent
    <2>1. actor # "exited"
      BY Zenon DEF ClientInv, ActorInv, WriterInv
    <2>2. Watched
      BY Zenon DEF ClientInv, WatchInv
    <2>3. \A i \in pending : srv[i] \in {0, dialled}
      BY Zenon DEF ClientInv, LifeInv, SrvInv, TypeInv, ActTypes
    <2>4. QED
      BY Zenon, <2>1, <2>2, <2>3 DEF PendingOnCurrent, Watched
  <1>2. QED
    BY <1>1, InitClient, StepClient, PTL DEF Spec
=============================================================================
