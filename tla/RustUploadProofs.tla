-------------------------- MODULE RustUploadProofs --------------------------
(***************************************************************************)
(* What the server gets of an upload to it, and when a stream of the Rust  *)
(* client ends without a word, for any number of calls, connections and    *)
(* chunks.                                                                 *)
(***************************************************************************)
EXTENDS RustClientProofs

-----------------------------------------------------------------------------
\* Uploads.

\* Payloads that go on after the first u, without and with the terminal one.
Run(s, u) == \A n \in 1..Len(s) : s[n] = u + n
ClosedRun(s, u) ==
    /\ s # <<>> /\ s[Len(s)] = CloseFrame
    /\ \A n \in 1..Len(s) : n < Len(s) => s[n] = u + n

\* What is queued goes on where the server is.
Going(i) ==
    /\ i \notin ended /\ uplEnd[i] = FALSE
    /\ Len(upl[i]) + Len(out[i]) = accepted[i] /\ Run(out[i], Len(upl[i]))
Ending(i) ==
    /\ i \in ended /\ uplEnd[i] = FALSE
    /\ Len(upl[i]) + Len(out[i]) = accepted[i] + 1 /\ ClosedRun(out[i], Len(upl[i]))
Over(i) == i \in ended /\ uplEnd[i] = TRUE /\ out[i] = <<>> /\ Len(upl[i]) = accepted[i]
Whole(i) == Going(i) \/ Ending(i) \/ Over(i)

\* The queue of a call will reach the server that has its request, or its request is yet to
\* be written.
Carried(i) == Queued(i) \/ (i \in streams /\ srv[i] = writer /\ writer # 0 /\ link[writer] = "up")

UplInv(i) ==
    /\ upl[i] = [n \in 1..Len(upl[i]) |-> n]
    /\ uplEnd[i] = TRUE => i \in ended /\ Len(upl[i]) = accepted[i]
CarryInv(i) == Carried(i) => Whole(i)
UploadInv == \A i \in Calls : UplInv(i) /\ CarryInv(i)

LEMMA Payloads ==
    ASSUME NEW s \in Seq(0..MaxIn)
    PROVE  s \in Seq(Nat) /\ Len(s) \in Nat
  <1>1. \A n \in 1..Len(s) : s[n] \in Nat
    <2>1. ASSUME NEW n \in 1..Len(s) PROVE s[n] \in 0..MaxIn
      BY Zenon, ElementOf
    <2>2. \A m \in 0..MaxIn : m \in Nat
      BY RustClientAssumption
    <2>3. QED
      BY Zenon, <2>1, <2>2
  <1>2. Len(s) \in Nat /\ s = [n \in 1..Len(s) |-> s[n]]
    OBVIOUS
  <1>3. QED
    BY <1>1, <1>2

LEMMA OneMore ==
    ASSUME NEW a \in Nat, NEW b \in Nat
    PROVE  (a + b) + 1 = a + (b + 1)
  OBVIOUS

LEMMA ShiftOne ==
    ASSUME NEW a \in Nat, NEW b \in Nat
    PROVE  (a + 1) + (b - 1) = a + b
  OBVIOUS

LEMMA SameCount ==
    ASSUME NEW a \in Nat, NEW m, NEW b \in 0..m, NEW l, l = 1, a + l = b + 1
    PROVE  a = b
  OBVIOUS

LEMMA RunTail ==
    ASSUME NEW s \in Seq(Nat), NEW u \in Nat, s # <<>>, Run(s, u)
    PROVE  Head(s) = u + 1 /\ Run(Tail(s), u + 1) /\ Len(Tail(s)) = Len(s) - 1 /\ Len(s) \in Nat
  <1>1. Len(s) \in Nat \ {0} /\ Head(s) = s[1] /\ Len(Tail(s)) = Len(s) - 1 /\ 1 \in 1..Len(s)
    OBVIOUS
  <1>2. ASSUME NEW n \in 1..Len(Tail(s)) PROVE Tail(s)[n] = (u + 1) + n
    <2>1. n + 1 \in 1..Len(s) /\ Tail(s)[n] = s[n + 1] /\ n \in Nat
      BY <1>1
    <2>2. s[n + 1] = u + (n + 1)
      BY Zenon, <2>1 DEF Run
    <2>3. u + (n + 1) = (u + 1) + n
      BY <2>1
    <2>4. QED
      BY Zenon, <2>1, <2>2, <2>3
  <1>3. Head(s) = u + 1
    BY Zenon, <1>1 DEF Run
  <1>4. Run(Tail(s), u + 1)
    BY Zenon, <1>2 DEF Run
  <1>5. QED
    BY <1>1, <1>3, <1>4

LEMMA RunAppend ==
    ASSUME NEW s \in Seq(Nat), NEW u \in Nat, Run(s, u)
    PROVE  /\ Run(Append(s, u + (Len(s) + 1)), u) /\ ClosedRun(Append(s, CloseFrame), u)
           /\ Len(Append(s, u + (Len(s) + 1))) = Len(s) + 1 /\ Len(Append(s, CloseFrame)) = Len(s) + 1
           /\ Len(s) \in Nat
  <1>1. Len(s) \in Nat
    OBVIOUS
  <1>2. ASSUME NEW m \in Nat
        PROVE  /\ Len(Append(s, m)) = Len(s) + 1 /\ Append(s, m)[Len(s) + 1] = m /\ Append(s, m) # <<>>
               /\ \A n \in 1..Len(s) : Append(s, m)[n] = s[n]
    OBVIOUS
  <1>3. \A n \in 1..(Len(s) + 1) : n \in 1..Len(s) \/ n = Len(s) + 1
    BY <1>1
  <1>4. u + (Len(s) + 1) \in Nat /\ CloseFrame \in Nat
    BY <1>1 DEF CloseFrame
  <1>5. Run(Append(s, u + (Len(s) + 1)), u)
    BY ZenonT(40), <1>2, <1>3, <1>4 DEF Run
  <1>6. \A n \in 1..(Len(s) + 1) : n < Len(s) + 1 => n \in 1..Len(s)
    BY <1>1
  <1>7. ClosedRun(Append(s, CloseFrame), u)
    BY Zenon, <1>2, <1>4, <1>6 DEF Run, ClosedRun
  <1>8. QED
    BY Zenon, <1>1, <1>2, <1>4, <1>5, <1>7

LEMMA ClosedRunTail ==
    ASSUME NEW s \in Seq(Nat), NEW u \in Nat, ClosedRun(s, u)
    PROVE  /\ Len(s) \in Nat \ {0} /\ Len(Tail(s)) = Len(s) - 1
           /\ Len(s) = 1 => Head(s) = CloseFrame /\ Tail(s) = <<>>
           /\ Len(s) # 1 => Head(s) = u + 1 /\ ClosedRun(Tail(s), u + 1)
  <1>0. s # <<>> /\ s[Len(s)] = CloseFrame /\ \A n \in 1..Len(s) : n < Len(s) => s[n] = u + n
    BY Zenon DEF ClosedRun
  <1>1. Len(s) \in Nat \ {0} /\ Head(s) = s[1] /\ Len(Tail(s)) = Len(s) - 1 /\ 1 \in 1..Len(s)
        /\ Tail(s) \in Seq(Nat)
    BY <1>0
  <1>2. ASSUME Len(s) = 1 PROVE Head(s) = CloseFrame /\ Tail(s) = <<>>
    <2>1. Len(Tail(s)) = 0
      BY <1>1, <1>2
    <2>2. QED
      BY Zenon, <1>0, <1>1, <1>2, <2>1, Empties
  <1>3. ASSUME Len(s) # 1 PROVE Head(s) = u + 1 /\ ClosedRun(Tail(s), u + 1)
    <2>1. 1 < Len(s)
      BY <1>1, <1>3
    <2>2. Head(s) = u + 1
      BY Zenon, <1>0, <1>1, <2>1
    <2>3. Len(Tail(s)) # 0 /\ Len(Tail(s)) \in 1..Len(Tail(s)) /\ Len(Tail(s)) + 1 = Len(s)
      BY <1>1, <1>3
    <2>9. Tail(s) # <<>>
      BY Zenon, <1>1, <2>3, Empties
    <2>4. \A n \in 1..Len(Tail(s)) : Tail(s)[n] = s[n + 1] /\ n + 1 \in 1..Len(s)
      BY <1>0, <1>1
    <2>5. Tail(s)[Len(Tail(s))] = CloseFrame
      BY Zenon, <1>0, <2>3, <2>4
    <2>6. ASSUME NEW n \in 1..Len(Tail(s)), n < Len(Tail(s)) PROVE Tail(s)[n] = (u + 1) + n
      <3>1. n + 1 < Len(s) /\ n \in Nat
        BY <1>1, <2>6
      <3>2. s[n + 1] = u + (n + 1)
        BY Zenon, <1>0, <2>4, <3>1
      <3>3. u + (n + 1) = (u + 1) + n
        BY <3>1
      <3>4. QED
        BY Zenon, <2>4, <3>2, <3>3
    <2>7. ClosedRun(Tail(s), u + 1)
      BY Zenon, <2>3, <2>5, <2>6, <2>9 DEF ClosedRun
    <2>8. QED
      BY Zenon, <2>2, <2>7
  <1>4. QED
    BY Zenon, <1>1, <1>2, <1>3

LEMMA CountNext ==
    ASSUME NEW t \in Seq(Nat), t = [n \in 1..Len(t) |-> n]
    PROVE  /\ Append(t, Len(t) + 1) = [n \in 1..Len(Append(t, Len(t) + 1)) |-> n]
           /\ Len(Append(t, Len(t) + 1)) = Len(t) + 1 /\ Len(t) \in Nat
  <1>1. Len(t) \in Nat /\ Len(t) + 1 \in Nat
    OBVIOUS
  <1>2. PICK w \in Seq(Nat) : w = Append(t, Len(t) + 1)
    BY Zenon, <1>1, AppendOf
  <1>3. Len(w) = Len(t) + 1 /\ w[Len(t) + 1] = Len(t) + 1 /\ \A n \in 1..Len(t) : w[n] = t[n]
    BY <1>1, <1>2
  <1>4. \A n \in 1..Len(t) : t[n] = n
    BY Zenon
  <1>5. \A n \in 1..(Len(t) + 1) : n \in 1..Len(t) \/ n = Len(t) + 1
    BY <1>1
  <1>6. \A n \in 1..Len(w) : w[n] = n
    BY Zenon, <1>3, <1>4, <1>5
  <1>7. w = [n \in 1..Len(w) |-> w[n]]
    OBVIOUS
  <1>8. w = [n \in 1..Len(w) |-> n]
    BY <1>6, <1>7
  <1>9. QED
    BY Zenon, <1>1, <1>2, <1>3, <1>8

\* A call whose upload a step leaves alone.
LEMMA OtherUpload ==
    ASSUME UploadInv, NEW j \in Calls, upl'[j] = upl[j], uplEnd'[j] = uplEnd[j], out'[j] = out[j],
           accepted'[j] = accepted[j], j \in ended' <=> j \in ended, Carried(j)' => Carried(j)
    PROVE  UplInv(j)' /\ CarryInv(j)'
  <1>1. UplInv(j) /\ CarryInv(j)
    BY Zenon DEF UploadInv
  <1>2. UplInv(j)'
    BY Zenon, <1>1 DEF UplInv
  <1>3. Going(j) => Going(j)'
    BY Zenon DEF Going
  <1>4. Ending(j) => Ending(j)'
    BY Zenon DEF Ending
  <1>5. Over(j) => Over(j)'
    BY Zenon DEF Over
  <1>6. QED
    BY Zenon, <1>1, <1>2, <1>3, <1>4, <1>5 DEF CarryInv, Whole

LEMMA QuietUpload ==
    ASSUME UploadInv, UNCHANGED <<upl, uplEnd, out, accepted, ended>>, \A j \in Calls : Carried(j)' => Carried(j)
    PROVE  UploadInv'
  <1>1. ASSUME NEW j \in Calls PROVE UplInv(j)' /\ CarryInv(j)'
    BY Zenon, OtherUpload
  <1>2. QED
    BY Zenon, <1>1 DEF UploadInv

\* Commands leave the channel only when the actor takes them.
LEMMA QueuedOutside ==
    ASSUME TypeInv, Outside, NEW j \in Calls
    PROVE  (Queued(j) => Queued(j)') /\ (Queued(j)' => Queued(j) \/ (j \notin posted /\ j \in posted'))
  <1>1. cmds \in Seq(Calls \cup {Shutdown})
    BY Zenon DEF TypeInv, CmdType
  <1>2. CASE cmds' = cmds
    BY Zenon, <1>2 DEF Queued
  <1>3. ASSUME NEW m \in Calls \cup {Shutdown}, cmds' = Append(cmds, m)
        PROVE  (Queued(j) => Queued(j)') /\ (Queued(j)' => Queued(j) \/ m = j)
    <2>0. PICK S : cmds \in Seq(S) /\ m \in S
      BY <1>1
    <2>1. /\ (\E p \in 1..Len(cmds) : cmds[p] = j) => \E p \in 1..Len(cmds') : cmds'[p] = j
          /\ (\E p \in 1..Len(cmds') : cmds'[p] = j) => j = m \/ \E p \in 1..Len(cmds) : cmds[p] = j
      BY <1>3, <2>0, AppendFind
    <2>2. QED
      BY Zenon, <2>1 DEF Queued
  <1>4. ASSUME NEW i \in Calls, i \notin posted, posted' = posted \cup {i}, cmds' = Append(cmds, i)
        PROVE  (Queued(j) => Queued(j)') /\ (Queued(j)' => Queued(j) \/ (j \notin posted /\ j \in posted'))
    <2>1. i \in Calls \cup {Shutdown} /\ i \in posted'
      BY <1>4
    <2>2. QED
      BY Zenon, <1>3, <1>4, <2>1
  <1>5. CASE cmds' = Append(cmds, Shutdown)
    <2>1. Shutdown \in Calls \cup {Shutdown} /\ j # Shutdown
      BY IdTypes DEF Shutdown
    <2>2. QED
      BY Zenon, <1>3, <1>5, <2>1
  <1>6. QED
    BY Zenon, <1>2, <1>4, <1>5, OutsideCmds

\* Steps of the tasks, the server, the readers and the network.
LEMMA WorldUpload ==
    ASSUME TypeInv, UploadInv,
           \/ \E i \in Calls : (\E k \in Kinds : Begin(i, k)) \/ Receive(i) \/ ReceiveNone(i) \/ DropStream(i)
                               \/ DrainTask(i) \/ ServerChunk(i) \/ ServerAnswer(i) \/ ServerError(i)
           \/ Close
           \/ \E k \in Conns : ReadFrame(k) \/ ReadClosed(k) \/ ServerCloses(k) \/ ConnDrop(k)
           \/ UNCHANGED vars
    PROVE  UploadInv'
  <1>1. UNCHANGED <<accepted, ended, posted, out>>
    BY Zenon DEF Begin, Receive, ReceiveNone, DropStream, DrainTask, ServerChunk, ServerAnswer, ServerError, Close,
                 ReadFrame, ReadClosed, ServerCloses, ConnDrop, Disconnect, vars, appVars
  <1>2. UNCHANGED <<srv, upl, uplEnd>>
    BY Zenon DEF Begin, Receive, ReceiveNone, DropStream, DrainTask, ServerChunk, ServerAnswer, ServerError, Close,
                 ReadFrame, ReadClosed, ServerCloses, ConnDrop, Disconnect, vars, srvVars
  <1>3. UNCHANGED <<streams, writer>>
    BY Zenon DEF Begin, Receive, ReceiveNone, DropStream, DrainTask, ServerChunk, ServerAnswer, ServerError, Close,
                 ReadFrame, ReadClosed, ServerCloses, ConnDrop, Disconnect, vars, actVars
  <1>4. link' = link \/ \E k \in Conns : link' = [link EXCEPT ![k] = "down"]
    BY Zenon DEF Begin, Receive, ReceiveNone, DropStream, DrainTask, ServerChunk, ServerAnswer, ServerError, Close,
                 ReadFrame, ReadClosed, ServerCloses, ConnDrop, Disconnect, vars, netVars
  <1>5. \A k \in Conns : link'[k] = "up" => link[k] = "up"
    BY <1>4 DEF TypeInv, LinkTypes
  <1>6. writer # 0 => writer \in Conns
    BY DEF TypeInv, ActTypes
  <1>7. Outside
    BY Zenon DEF Outside
  <1>8. ASSUME NEW j \in Calls, Carried(j)' PROVE Carried(j)
    <2>1. Queued(j)' => Queued(j)
      BY Zenon, <1>1, <1>7, QueuedOutside
    <2>2. QED
      BY Zenon, <1>2, <1>3, <1>5, <1>6, <1>8, <2>1 DEF Carried
  <1>9. QED
    BY Zenon, <1>1, <1>2, <1>8, QuietUpload

\* A new command starts an upload of nothing.
LEMMA PostUpload ==
    ASSUME TypeInv, LifeInv, UploadInv, NEW i \in Calls, Post(i)
    PROVE  UploadInv'
  <1>1. /\ UNCHANGED <<accepted, ended, out, srv, upl, uplEnd, streams, writer, link>>
        /\ i \notin posted /\ posted' = posted \cup {i}
    BY Zenon DEF Post, srvVars, actVars, netVars
  <1>2. Outside
    BY Zenon DEF Outside
  <1>3. ASSUME NEW j \in Calls, j # i PROVE UplInv(j)' /\ CarryInv(j)'
    <2>1. j \notin posted => j \notin posted'
      BY <1>1, <1>3
    <2>2. Queued(j)' => Queued(j)
      BY Zenon, <1>2, <2>1, QueuedOutside
    <2>3. Carried(j)' => Carried(j)
      BY Zenon, <1>1, <2>2 DEF Carried
    <2>4. QED
      BY Zenon, <1>1, <2>3, OtherUpload
  <1>4. UplInv(i)' /\ CarryInv(i)'
    <2>1. Blank(i) /\ i \notin ended
      BY Zenon, <1>1 DEF LifeInv, BlankInv, PostedInv
    <2>2. Unsent(i)
      BY Zenon, <2>1 DEF LifeInv, UnsentInv, Blank
    <2>3. UplInv(i)
      BY Zenon DEF UploadInv
    <2>4. Len(<<>>) = 0 /\ 0 + 0 = 0 /\ \A n \in 1..Len(<<>>) : FALSE
      OBVIOUS
    <2>5. Going(i)
      BY Zenon, <2>1, <2>2, <2>4 DEF Going, Blank, Unsent, Run
    <2>6. UplInv(i)' /\ Going(i)'
      BY Zenon, <1>1, <2>3, <2>5 DEF UplInv, Going
    <2>7. QED
      BY Zenon, <2>6 DEF CarryInv, Whole
  <1>5. QED
    BY Zenon, <1>3, <1>4 DEF UploadInv

\* send() and close_send() add to the queue what comes next.
LEMMA SendUpload ==
    ASSUME TypeInv, UploadInv, NEW i \in Calls, Send(i) \/ SendClose(i)
    PROVE  UploadInv'
  <1>1. /\ UNCHANGED <<posted, cmds, srv, upl, uplEnd, streams, writer, link>> /\ i \notin ended
    BY Zenon DEF Send, SendClose, srvVars, actVars, netVars
  <1>2. \A j \in Calls : Carried(j)' => Carried(j)
    BY Zenon, <1>1 DEF Carried, Queued
  <1>3. /\ out \in [Calls -> Seq(0..MaxIn)] /\ accepted \in [Calls -> 0..MaxIn] /\ upl[i] \in Seq(Nat)
        /\ out[i] \in Seq(0..MaxIn)
    BY Zenon DEF TypeInv, OutType, AppTypes, SrvTypes
  <1>4. out[i] \in Seq(Nat) /\ Len(upl[i]) \in Nat /\ Len(out[i]) \in Nat /\ accepted[i] \in Nat
    <2>1. Len(upl[i]) \in Nat
      BY <1>3
    <2>2. accepted[i] \in Nat
      BY <1>3, RustClientAssumption
    <2>3. QED
      BY Zenon, <1>3, <2>1, <2>2, Payloads
  <1>5. uplEnd[i] # TRUE
    BY Zenon, <1>1 DEF UploadInv, UplInv
  <1>6. UplInv(i)'
    BY Zenon, <1>1, <1>5 DEF UploadInv, UplInv
  <1>7. \A j \in Calls : j # i => out'[j] = out[j] /\ accepted'[j] = accepted[j] /\ (j \in ended' <=> j \in ended)
    <2>1. (out' = out \/ \E o : out' = [out EXCEPT ![i] = o]) /\ (ended' = ended \/ ended' = ended \cup {i})
          /\ (accepted' = accepted \/ \E o : accepted' = [accepted EXCEPT ![i] = o])
      BY Zenon DEF Send, SendClose
    <2>2. QED
      BY Zenon, <1>3, <2>1
  <1>8. ASSUME NEW j \in Calls, j # i PROVE UplInv(j)' /\ CarryInv(j)'
    BY Zenon, <1>1, <1>2, <1>7, <1>8, OtherUpload
  <1>9. Carried(i) => Going(i)
    BY Zenon, <1>1 DEF UploadInv, CarryInv, Whole, Ending, Over
  <1>10. CASE Send(i)
    <2>1. /\ ended' = ended /\ out'[i] = Append(out[i], accepted[i] + 1) /\ accepted'[i] = accepted[i] + 1
      BY Zenon, <1>3, <1>10 DEF Send
    <2>2. ASSUME Going(i) PROVE Going(i)'
      <3>1. Run(out[i], Len(upl[i])) /\ Len(upl[i]) + Len(out[i]) = accepted[i] /\ uplEnd[i] = FALSE
        BY Zenon, <2>2 DEF Going
      <3>2. accepted[i] + 1 = Len(upl[i]) + (Len(out[i]) + 1)
        BY Zenon, <1>4, <3>1, OneMore
      <3>3. Run(out'[i], Len(upl[i])) /\ Len(out'[i]) = Len(out[i]) + 1
        <4>1. /\ Run(Append(out[i], Len(upl[i]) + (Len(out[i]) + 1)), Len(upl[i]))
              /\ Len(Append(out[i], Len(upl[i]) + (Len(out[i]) + 1))) = Len(out[i]) + 1
          BY Zenon, <1>4, <3>1, RunAppend
        <4>2. out'[i] = Append(out[i], Len(upl[i]) + (Len(out[i]) + 1))
          BY Zenon, <2>1, <3>2
        <4>3. QED
          BY Zenon, <4>1, <4>2
      <3>4. QED
        BY Zenon, <1>1, <2>1, <3>1, <3>2, <3>3 DEF Going
    <2>3. CarryInv(i)'
      BY Zenon, <1>2, <1>9, <2>2 DEF CarryInv, Whole
    <2>4. QED
      BY Zenon, <1>6, <1>8, <2>3 DEF UploadInv
  <1>11. CASE SendClose(i)
    <2>1. accepted' = accepted /\ ended' = ended \cup {i} /\ i \in ended'
      BY Zenon, <1>11 DEF SendClose
    <2>2. CASE QueueAlive(i) /\ out' = [out EXCEPT ![i] = Append(@, CloseFrame)]
      <3>1. out'[i] = Append(out[i], CloseFrame)
        BY Zenon, <1>3, <2>2
      <3>2. ASSUME Going(i) PROVE Ending(i)'
        <4>1. Run(out[i], Len(upl[i])) /\ Len(upl[i]) + Len(out[i]) = accepted[i] /\ uplEnd[i] = FALSE
          BY Zenon, <3>2 DEF Going
        <4>2. accepted[i] + 1 = Len(upl[i]) + (Len(out[i]) + 1)
          BY Zenon, <1>4, <4>1, OneMore
        <4>3. ClosedRun(out'[i], Len(upl[i])) /\ Len(out'[i]) = Len(out[i]) + 1
          BY Zenon, <1>4, <3>1, <4>1, RunAppend
        <4>4. QED
          BY Zenon, <1>1, <2>1, <4>1, <4>2, <4>3 DEF Ending
      <3>3. CarryInv(i)'
        BY Zenon, <1>2, <1>9, <3>2 DEF CarryInv, Whole
      <3>4. QED
        BY Zenon, <1>6, <1>8, <3>3 DEF UploadInv
    <2>3. CASE ~QueueAlive(i)
      <3>1. ~Carried(i)
        BY Zenon, <2>3 DEF QueueAlive, Carried
      <3>2. CarryInv(i)'
        BY Zenon, <1>2, <3>1 DEF CarryInv
      <3>3. QED
        BY Zenon, <1>6, <1>8, <3>2 DEF UploadInv
    <2>4. QED
      BY Zenon, <1>11, <2>2, <2>3 DEF SendClose
  <1>12. QED
    BY Zenon, <1>10, <1>11

\* The pump writes the next payload, or drops it with the connection.
LEMMA PumpWriteUpload ==
    ASSUME TypeInv, ActorInv, LifeInv, UploadInv, NEW i \in Calls, PumpWrite(i)
    PROVE  UploadInv'
  <1>1. /\ UNCHANGED <<accepted, ended, cmds, srv, streams>> /\ out[i] # <<>> /\ i \in todo
        /\ out' = [out EXCEPT ![i] = Tail(@)]
        /\ \/ WriteOk /\ Upload(i, Head(out[i])) /\ UNCHANGED <<writer, link>>
           \/ writer' = 0 /\ UNCHANGED <<upl, uplEnd>>
    BY Zenon DEF PumpWrite, Pumping, appVars
  <1>2. out \in [Calls -> Seq(0..MaxIn)] /\ upl \in [Calls -> Seq(Nat)] /\ uplEnd \in [Calls -> BOOLEAN]
        /\ out[i] \in Seq(0..MaxIn) /\ upl[i] \in Seq(Nat)
    BY Zenon DEF TypeInv, OutType, SrvTypes
  <1>3. out[i] \in Seq(Nat) /\ Len(out[i]) \in Nat /\ Len(upl[i]) \in Nat /\ out'[i] = Tail(out[i])
    BY Zenon, <1>1, <1>2, Payloads, Empties
  <1>4. i \in streams /\ ~Queued(i)
    <2>1. i \in streams
      BY <1>1 DEF ActorInv, TodoInv
    <2>2. QED
      BY Zenon, <2>1 DEF LifeInv, UntakenInv, Untaken
  <1>5. /\ \A j \in Calls : j # i => out'[j] = out[j]
        /\ \A j \in Calls : j # i => upl'[j] = upl[j] /\ uplEnd'[j] = uplEnd[j]
    <2>1. (upl' = upl \/ \E o : upl' = [upl EXCEPT ![i] = o])
          /\ (uplEnd' = uplEnd \/ \E o : uplEnd' = [uplEnd EXCEPT ![i] = o])
      BY Zenon, <1>1 DEF Upload
    <2>2. QED
      BY Zenon, <1>1, <1>2, <2>1
  <1>6. \A j \in Calls : Carried(j)' => Carried(j)
    BY Zenon, <1>1 DEF Carried, Queued
  <1>7. ASSUME NEW j \in Calls, j # i PROVE UplInv(j)' /\ CarryInv(j)'
    BY Zenon, <1>1, <1>5, <1>6, <1>7, OtherUpload
  <1>8. CASE UNCHANGED <<upl, uplEnd>> /\ ~Carried(i)'
    <2>1. UplInv(i)'
      BY Zenon, <1>1, <1>8 DEF UploadInv, UplInv
    <2>2. QED
      BY Zenon, <1>7, <1>8, <2>1 DEF UploadInv, CarryInv
  <1>9. CASE writer' = 0 /\ UNCHANGED <<upl, uplEnd>>
    BY Zenon, <1>1, <1>4, <1>8, <1>9 DEF Carried, Queued
  <1>10. CASE WriteOk /\ ~(Reaches /\ srv[i] = writer) /\ Upload(i, Head(out[i])) /\ UNCHANGED <<writer, link>>
    <2>1. UNCHANGED <<upl, uplEnd>>
      BY Zenon, <1>10 DEF Upload
    <2>2. QED
      BY Zenon, <1>1, <1>4, <1>8, <1>10, <2>1 DEF Carried, Queued, Reaches
  <1>11. CASE WriteOk /\ Reaches /\ srv[i] = writer /\ Upload(i, Head(out[i])) /\ UNCHANGED <<writer, link>>
    <2>1. Whole(i) /\ UplInv(i)
      BY Zenon, <1>4, <1>11 DEF UploadInv, CarryInv, Carried, WriteOk, Reaches
    <2>2. ASSUME Head(out[i]) = Len(upl[i]) + 1
          PROVE  /\ upl'[i] = Append(upl[i], Len(upl[i]) + 1) /\ uplEnd' = uplEnd
                 /\ Len(upl'[i]) = Len(upl[i]) + 1 /\ upl'[i] = [n \in 1..Len(upl'[i]) |-> n]
      <3>1. Head(out[i]) # CloseFrame
        BY <1>3, <2>2 DEF CloseFrame
      <3>2. upl' = [upl EXCEPT ![i] = Append(@, Head(out[i]))] /\ uplEnd' = uplEnd
        BY Zenon, <1>11, <3>1 DEF Upload
      <3>3. upl'[i] = Append(upl[i], Len(upl[i]) + 1)
        BY Zenon, <1>2, <2>2, <3>2
      <3>4. QED
        BY Zenon, <1>2, <2>1, <3>2, <3>3, CountNext DEF UplInv
    <2>3. CASE Going(i)
      <3>1. i \notin ended /\ uplEnd[i] = FALSE /\ Len(upl[i]) + Len(out[i]) = accepted[i] /\ Run(out[i], Len(upl[i]))
        BY Zenon, <2>3 DEF Going
      <3>2. /\ Head(out[i]) = Len(upl[i]) + 1 /\ Run(Tail(out[i]), Len(upl[i]) + 1)
            /\ Len(Tail(out[i])) = Len(out[i]) - 1
        BY Zenon, <1>1, <1>3, <3>1, RunTail
      <3>3. (Len(upl[i]) + 1) + (Len(out[i]) - 1) = Len(upl[i]) + Len(out[i])
        BY Zenon, <1>3, ShiftOne
      <3>4. Going(i)'
        BY Zenon, <1>1, <1>3, <2>2, <3>1, <3>2, <3>3 DEF Going
      <3>5. UplInv(i)'
        BY Zenon, <2>2, <3>1, <3>2 DEF UplInv
      <3>6. QED
        BY Zenon, <1>7, <3>4, <3>5 DEF UploadInv, CarryInv, Whole
    <2>4. CASE Ending(i)
      <3>1. /\ i \in ended /\ uplEnd[i] = FALSE /\ Len(upl[i]) + Len(out[i]) = accepted[i] + 1
            /\ ClosedRun(out[i], Len(upl[i]))
        BY Zenon, <2>4 DEF Ending
      <3>2. /\ Len(Tail(out[i])) = Len(out[i]) - 1
            /\ Len(out[i]) = 1 => Head(out[i]) = CloseFrame /\ Tail(out[i]) = <<>>
            /\ Len(out[i]) # 1 => Head(out[i]) = Len(upl[i]) + 1 /\ ClosedRun(Tail(out[i]), Len(upl[i]) + 1)
        BY Zenon, <1>3, <3>1, ClosedRunTail
      <3>3. CASE Len(out[i]) # 1
        <4>1. (Len(upl[i]) + 1) + (Len(out[i]) - 1) = Len(upl[i]) + Len(out[i])
          BY Zenon, <1>3, ShiftOne
        <4>2. Ending(i)'
          BY Zenon, <1>1, <1>3, <2>2, <3>1, <3>2, <3>3, <4>1 DEF Ending
        <4>3. UplInv(i)'
          BY Zenon, <2>2, <3>1, <3>2, <3>3 DEF UplInv
        <4>4. QED
          BY Zenon, <1>7, <4>2, <4>3 DEF UploadInv, CarryInv, Whole
      <3>4. CASE Len(out[i]) = 1
        <4>1. uplEnd' = [uplEnd EXCEPT ![i] = TRUE] /\ upl' = upl
          BY Zenon, <1>11, <3>2, <3>4 DEF Upload
        <4>2. uplEnd'[i] = TRUE
          BY Zenon, <1>2, <4>1
        <4>3. accepted[i] \in 0..MaxIn
          BY Zenon DEF TypeInv, AppTypes
        <4>4. Len(upl[i]) = accepted[i]
          BY Zenon, <1>3, <3>1, <3>4, <4>3, SameCount
        <4>5. Over(i)' /\ UplInv(i)'
          BY Zenon, <1>1, <1>3, <2>1, <3>1, <3>2, <3>4, <4>1, <4>2, <4>4 DEF Over, UplInv
        <4>6. QED
          BY Zenon, <1>7, <4>5 DEF UploadInv, CarryInv, Whole
      <3>5. QED
        BY Zenon, <3>3, <3>4
    <2>5. CASE Over(i)
      BY Zenon, <1>1, <2>5 DEF Over
    <2>6. QED
      BY Zenon, <2>1, <2>3, <2>4, <2>5 DEF Whole
  <1>12. QED
    BY Zenon, <1>1, <1>9, <1>10, <1>11

\* A queue is forgotten only after the actor has taken its call.
LEMMA PumpCheckUpload ==
    ASSUME TypeInv, ActorInv, LifeInv, UploadInv, NEW i \in Calls, PumpCheck(i)
    PROVE  UploadInv'
  <1>1. /\ UNCHANGED <<accepted, ended, cmds, srv, upl, uplEnd, writer, link>> /\ at = i /\ dry = TRUE
        /\ \/ streams' = streams \ {i} /\ out' = [out EXCEPT ![i] = <<>>]
           \/ UNCHANGED <<streams, out>>
    BY Zenon DEF PumpCheck, appVars, netVars, srvVars
  <1>2. streams' \subseteq streams
    BY <1>1
  <1>3. \A j \in Calls : Carried(j)' => Carried(j)
    BY Zenon, <1>1, <1>2 DEF Carried, Queued
  <1>4. CASE UNCHANGED <<streams, out>>
    BY Zenon, <1>1, <1>3, <1>4, QuietUpload
  <1>5. CASE streams' = streams \ {i} /\ out' = [out EXCEPT ![i] = <<>>]
    <2>1. i \in streams
      BY <1>1 DEF ActorInv, TodoInv
    <2>2. ~Queued(i)
      BY Zenon, <2>1 DEF LifeInv, UntakenInv, Untaken
    <2>3. i \notin streams'
      BY <1>5
    <2>4. ~Carried(i)'
      BY Zenon, <1>1, <2>2, <2>3 DEF Carried, Queued
    <2>5. UplInv(i)' /\ CarryInv(i)'
      BY Zenon, <1>1, <2>4 DEF UploadInv, UplInv, CarryInv
    <2>6. \A j \in Calls : j # i => out'[j] = out[j]
      BY Zenon, <1>5 DEF TypeInv, OutType
    <2>7. ASSUME NEW j \in Calls, j # i PROVE UplInv(j)' /\ CarryInv(j)'
      BY Zenon, <1>1, <1>3, <2>6, <2>7, OtherUpload
    <2>8. QED
      BY Zenon, <2>5, <2>7 DEF UploadInv
  <1>6. QED
    BY Zenon, <1>1, <1>4, <1>5

\* Requests, losses and reconnections.
LEMMA ConnUpload ==
    ASSUME TypeInv, ActorInv, LifeInv, UploadInv,
           (\E i \in Calls : Requests(i) \/ RequestFails(i)) \/ ShutsDown \/ Loses \/ Redial
    PROVE  UploadInv'
  <1>1. ASSUME NEW i \in Calls, Requests(i) PROVE UploadInv'
    <2>1. /\ UNCHANGED <<accepted, ended, out, upl, uplEnd, writer, link>>
          /\ cmds # <<>> /\ i = Head(cmds) /\ i # Shutdown /\ cmds' = Tail(cmds)
          /\ (streams' = streams \/ streams' = streams \cup {i}) /\ (srv' = srv \/ srv' = [srv EXCEPT ![i] = writer])
      BY Zenon, <1>1 DEF Requests, appVars
    <2>2. Queued(i) /\ \A j \in Calls : Queued(j)' => Queued(j)
      <3>1. /\ \A n \in 1..Len(cmds') : \E p \in 1..Len(cmds) : cmds'[n] = cmds[p]
            /\ \E p \in 1..Len(cmds) : cmds[p] = Head(cmds)
        BY Zenon, <2>1, TakenLife
      <3>2. \E p \in 1..Len(cmds) : cmds[p] = i
        BY Zenon, <2>1, <3>1
      <3>3. ASSUME NEW j \in Calls, Queued(j)' PROVE Queued(j)
        BY Zenon, <3>1, <3>3 DEF Queued
      <3>4. QED
        BY Zenon, <3>2, <3>3 DEF Queued
    <2>3. \A j \in Calls : j # i => srv'[j] = srv[j] /\ (j \in streams' => j \in streams)
      BY <2>1 DEF TypeInv, SrvTypes
    <2>4. \A j \in Calls : Carried(j)' => Carried(j)
      BY Zenon, <2>1, <2>2, <2>3 DEF Carried
    <2>5. QED
      BY Zenon, <2>1, <2>4, QuietUpload
  <1>2. ASSUME NEW i \in Calls, RequestFails(i) PROVE UploadInv'
    <2>1. /\ UNCHANGED <<accepted, ended, upl, uplEnd>> /\ writer' = 0 /\ out' = [out EXCEPT ![i] = <<>>]
          /\ cmds # <<>> /\ i = Head(cmds) /\ i # Shutdown
      BY Zenon, <1>2 DEF RequestFails, GivesUp, appVars, srvVars
    <2>2. cmds' = Tail(cmds) \/ cmds' = <<>>
      BY <1>2 DEF RequestFails
    <2>3. ~Queued(i)' /\ \A j \in Calls : Queued(j)' => Queued(j)
      <3>1. /\ \A n \in 1..Len(cmds') : \E p \in 1..Len(cmds) : cmds'[n] = cmds[p]
            /\ \A n \in 1..Len(cmds') : cmds'[n] = Head(cmds) => Head(cmds) = Shutdown
        BY Zenon, <2>1, <2>2, TakenLife
      <3>2. QED
        BY Zenon, <2>1, <3>1 DEF Queued
    <2>4. ~Carried(i)' /\ \A j \in Calls : Carried(j)' => Carried(j)
      BY Zenon, <2>1, <2>3 DEF Carried
    <2>5. UplInv(i)' /\ CarryInv(i)'
      BY Zenon, <2>1, <2>4 DEF UploadInv, UplInv, CarryInv
    <2>6. \A j \in Calls : j # i => out'[j] = out[j]
      BY Zenon, <2>1 DEF TypeInv, OutType
    <2>7. ASSUME NEW j \in Calls, j # i PROVE UplInv(j)' /\ CarryInv(j)'
      BY Zenon, <2>1, <2>4, <2>6, <2>7, OtherUpload
    <2>8. QED
      BY Zenon, <2>5, <2>7 DEF UploadInv
  <1>3. CASE ShutsDown \/ Loses
    <2>1. UNCHANGED <<accepted, ended, out, upl, uplEnd>> /\ writer' = 0
      BY Zenon, <1>3 DEF ShutsDown, Loses, GivesUp, appVars, srvVars
    <2>2. cmds' = cmds \/ cmds' = <<>>
      BY <1>3 DEF ShutsDown, Loses
    <2>3. \A j \in Calls : Queued(j)' => Queued(j)
      BY Zenon, <2>2, EmptyOf DEF Queued
    <2>4. \A j \in Calls : Carried(j)' => Carried(j)
      BY Zenon, <2>1, <2>3 DEF Carried
    <2>5. QED
      BY Zenon, <2>1, <2>4, QuietUpload
  <1>4. CASE Redial
    <2>1. UNCHANGED <<accepted, ended, out, upl, uplEnd, cmds, srv>> /\ writer' = dialled + 1
      BY Zenon, <1>4 DEF Redial, appVars, srvVars
    <2>2. \A j \in Calls : srv[j] # dialled + 1
      BY IdTypes DEF LifeInv, SrvInv, TypeInv, LinkTypes
    <2>3. \A j \in Calls : Carried(j)' => Carried(j)
      BY Zenon, <2>1, <2>2 DEF Carried, Queued
    <2>4. QED
      BY Zenon, <2>1, <2>3, QuietUpload
  <1>5. QED
    BY Zenon, <1>1, <1>2, <1>3, <1>4

LEMMA StepUpload ==
    ASSUME TypeInv, ActorInv, LifeInv, UploadInv, [Next]_vars
    PROVE  UploadInv'
  <1>1. CASE Top \/ PumpDone \/ TakeFrame \/ HandOver \/ \E i \in Calls : PumpDry(i)
    <2>1. UNCHANGED <<accepted, ended, out, upl, uplEnd, cmds, srv, writer, link, streams>>
      BY Zenon, <1>1 DEF Top, PumpDone, TakeFrame, HandOver, PumpDry, appVars, srvVars, netVars, actVars
    <2>2. \A j \in Calls : Carried(j)' => Carried(j)
      BY Zenon, <2>1 DEF Carried, Queued
    <2>3. QED
      BY Zenon, <2>1, <2>2, QuietUpload
  <1>2. CASE Outside
    BY Zenon, <1>2, WorldUpload, PostUpload, SendUpload DEF Outside
  <1>3. CASE Actor
    BY Zenon, <1>1, <1>3, PumpWriteUpload, PumpCheckUpload, ConnUpload, TwoRequests, TwoLosses DEF Actor, Pump
  <1>4. QED
    BY Zenon, <1>2, <1>3, Steps

LEMMA InitUpload == Init => UploadInv
  <1> SUFFICES ASSUME Init, NEW i \in Calls PROVE UplInv(i) /\ CarryInv(i)
    BY Zenon DEF UploadInv
  <1>1. \A n \in 1..Len(<<>>) : FALSE
    BY Zenon, EmptyOf
  <1>2. upl[i] = <<>> /\ uplEnd[i] = FALSE /\ cmds = <<>> /\ i \notin streams
    BY DEF Init
  <1>3. <<>> = [n \in 1..Len(<<>>) |-> n]
    OBVIOUS
  <1>4. QED
    BY Zenon, <1>1, <1>2, <1>3 DEF UplInv, CarryInv, Carried, Queued

\* The server's view of an upload is a prefix of what send() accepted, whole once it has
\* seen the terminator, whatever writes fail and however often the client reconnects
\* (the pump of run_actor, ExportStream, BidiStream).
THEOREM UploadsArriveInOrder == Spec => []UploadInOrder
  <1>1. ClientInv /\ UploadInv => UploadInOrder
    <2> SUFFICES ASSUME ClientInv, UploadInv, NEW i \in Calls
                 PROVE  upl[i] = [n \in 1..Len(upl[i]) |-> n] /\ (uplEnd[i] => Len(upl[i]) = accepted[i])
      BY Zenon DEF UploadInOrder
    <2>1. uplEnd[i] \in BOOLEAN
      BY Zenon DEF ClientInv, TypeInv, SrvTypes
    <2>2. QED
      BY Zenon, <2>1 DEF UploadInv, UplInv
  <1>2. Init => ClientInv /\ UploadInv
    BY Zenon, InitClient, InitUpload
  <1>3. (ClientInv /\ UploadInv) /\ [Next]_vars => (ClientInv /\ UploadInv)'
    BY Zenon, StepClient, StepUpload DEF ClientInv
  <1>4. QED
    BY <1>1, <1>2, <1>3, PTL DEF Spec

-----------------------------------------------------------------------------
\* Streams that end without a word.

\* While close() is not called an open stream has a sender, or a last word in its channel.
HasWord(i) == \E n \in 1..Len(chan[i]) : chan[i][n].type # "stream_chunk"
Awaits(i) == i \in posted /\ IsStream(i) /\ outcome[i] = "none" /\ reconnect = TRUE /\ closing = FALSE
Told(i) == Awaits(i) => HasSender(i) \/ HasWord(i)
ToldInv == \A i \in Calls : Told(i)

\* A call ends once, and silently only when it finds its channel dropped.
LEMMA Outcomes ==
    ASSUME TypeInv, [Next]_vars, NEW j \in Calls
    PROVE  /\ outcome'[j] = "none" => outcome[j] = "none"
           /\ outcome'[j] = "silent" => outcome[j] = "silent" \/ ReceiveNone(j)
  <1>0. outcome \in [Calls -> {"none", "answered", "end", "remote", "lost", "silent", "dropped"}]
    BY Zenon DEF TypeInv, AppTypes
  <1>1. CASE outcome' = outcome
    BY Zenon, <1>1
  <1>2. ASSUME NEW i \in Calls, NEW o, outcome' = [outcome EXCEPT ![i] = o], o # "none", o = "silent" => ReceiveNone(i)
        PROVE  /\ outcome'[j] = "none" => outcome[j] = "none"
               /\ outcome'[j] = "silent" => outcome[j] = "silent" \/ ReceiveNone(j)
    <2>1. CASE j = i
      <3>1. outcome'[j] = o
        BY Zenon, <1>0, <1>2, <2>1
      <3>2. QED
        BY Zenon, <1>2, <2>1, <3>1
    <2>2. CASE j # i
      <3>1. outcome'[j] = outcome[j]
        BY ZenonT(40), <1>0, <1>2, <2>2
      <3>2. QED
        BY Zenon, <3>1
    <2>3. QED
      BY Zenon, <2>1, <2>2
  <1>3. ASSUME NEW i \in Calls, Post(i) \/ SendClose(i) \/ DropStream(i)
        PROVE  outcome' = outcome \/ \E o \in {"lost", "dropped"} : outcome' = [outcome EXCEPT ![i] = o]
    BY <1>3 DEF Post, SendClose, DropStream, End
  <1>4. ASSUME NEW i \in Calls, Receive(i)
        PROVE  outcome' = outcome
               \/ \E o \in {"answered", "end", "remote", "lost"} : outcome' = [outcome EXCEPT ![i] = o]
    BY <1>4 DEF Receive, End
  <1>5. ASSUME NEW i \in Calls, ReceiveNone(i)
        PROVE  \E o \in {"silent", "lost"} : outcome' = [outcome EXCEPT ![i] = o]
    BY Zenon, <1>5 DEF ReceiveNone, End
  <1>6. \A o \in {"answered", "end", "remote", "lost", "dropped"} : o # "none" /\ o # "silent"
    OBVIOUS
  <1>7. ASSUME NEW i \in Calls, (\E k \in Kinds : Begin(i, k)) \/ Send(i)
        PROVE  outcome' = outcome
    BY Zenon, <1>7 DEF Begin, Send
  <1>8. ASSUME NEW i \in Calls, DrainTask(i) \/ ServerChunk(i) \/ ServerAnswer(i) \/ ServerError(i)
        PROVE  outcome' = outcome
    BY Zenon, <1>8 DEF DrainTask, ServerChunk, ServerAnswer, ServerError, appVars
  <1>9. ASSUME NEW k \in Conns, ReadFrame(k) \/ ReadClosed(k) \/ ServerCloses(k) \/ ConnDrop(k)
        PROVE  outcome' = outcome
    BY Zenon, <1>9 DEF ReadFrame, ReadClosed, ServerCloses, ConnDrop, Disconnect, appVars
  <1>10. ASSUME Close \/ UNCHANGED vars
        PROVE  outcome' = outcome
    BY Zenon, <1>10 DEF Close, vars, appVars
  <1>11. ASSUME Actor PROVE outcome' = outcome
    BY Zenon, <1>11 DEF Actor, Top, Pump, PumpWrite, PumpDry, PumpCheck, PumpDone, TakeCall, TakeShutdown,
                       TakeFrame, HandOver, TakeClosed, Redial, appVars
  <1>12. ASSUME NEW i \in Calls, Post(i) \/ SendClose(i) \/ DropStream(i) \/ Receive(i)
         PROVE  /\ outcome'[j] = "none" => outcome[j] = "none"
                /\ outcome'[j] = "silent" => outcome[j] = "silent" \/ ReceiveNone(j)
    <2>1. \/ outcome' = outcome
          \/ \E o \in {"answered", "end", "remote", "lost", "dropped"} : outcome' = [outcome EXCEPT ![i] = o]
      BY <1>3, <1>4, <1>12
    <2>2. QED
      BY Zenon, <1>1, <1>2, <1>6, <2>1
  <1>13. ASSUME NEW i \in Calls, ReceiveNone(i)
         PROVE  /\ outcome'[j] = "none" => outcome[j] = "none"
                /\ outcome'[j] = "silent" => outcome[j] = "silent" \/ ReceiveNone(j)
    <2>1. PICK o : o # "none" /\ outcome' = [outcome EXCEPT ![i] = o]
      BY <1>5, <1>13
    <2>2. QED
      BY Zenon, <1>2, <1>13, <2>1
  <1>14. QED
    BY Zenon, <1>1, <1>7, <1>8, <1>9, <1>10, <1>11, <1>12, <1>13, Steps DEF Outside

\* close() is for good, and the mode of the client does not change.
LEMMA ModeKept ==
    ASSUME TypeInv, [Next]_vars
    PROVE  reconnect' = reconnect /\ (closing' = closing \/ closing' = TRUE)
  <1>1. CASE Outside
    <2>1. reconnect' = reconnect
      BY Zenon, <1>1, OutsideLeaves
    <2>2. QED
      BY Zenon, <1>1, <2>1, OutsideCmds
  <1>2. CASE Actor
    BY Zenon, <1>2 DEF Actor, Top, Pump, PumpWrite, PumpDry, PumpCheck, PumpDone, TakeCall, TakeShutdown,
                       TakeFrame, HandOver, TakeClosed, Redial, appVars
  <1>3. QED
    BY Zenon, <1>1, <1>2, Steps

\* Who waits has waited before.
LEMMA AwaitsKept ==
    ASSUME TypeInv, LifeInv, [Next]_vars, NEW j \in Calls, j \in posted, Awaits(j)'
    PROVE  Awaits(j)
  <1>1. outcome[j] = "none"
    BY Zenon, Outcomes DEF Awaits
  <1>2. kind[j] # "none"
    BY Zenon DEF LifeInv, PostedInv
  <1>3. IsStream(j)
    BY Zenon, <1>2, IsStreamKept DEF Awaits
  <1>4. QED
    BY Zenon, <1>1, <1>3, ModeKept DEF Awaits

LEMMA ToldKept ==
    ASSUME TypeInv, LifeInv, [Next]_vars, ToldInv, NEW j \in Calls, j \in posted,
           HasSender(j) => HasSender(j)' \/ HasWord(j)' \/ ~Awaits(j)',
           HasWord(j) => HasWord(j)' \/ ~Awaits(j)'
    PROVE  Told(j)'
  <1>1. Awaits(j)' => Awaits(j)
    BY Zenon, AwaitsKept
  <1>2. Told(j)
    BY Zenon DEF ToldInv
  <1>3. QED
    BY Zenon, <1>1, <1>2 DEF Told

\* A step that leaves the channels, the senders and the last words alone.
LEMMA QuietTold ==
    ASSUME TypeInv, LifeInv, [Next]_vars, ToldInv, UNCHANGED <<posted, chan, pending, errs, hand>>,
           \A j \in Calls : Queued(j) => Queued(j)'
    PROVE  ToldInv'
  <1>1. ASSUME NEW j \in Calls, j \in posted PROVE Told(j)'
    <2>1. HasSender(j) => HasSender(j)'
      BY Zenon DEF HasSender
    <2>2. HasWord(j) => HasWord(j)'
      BY Zenon DEF HasWord
    <2>3. QED
      BY Zenon, <1>1, <2>1, <2>2, ToldKept
  <1>2. ASSUME NEW j \in Calls, j \notin posted PROVE Told(j)'
    BY Zenon, <1>2 DEF Told, Awaits
  <1>3. QED
    BY Zenon, <1>1, <1>2 DEF ToldInv

\* Callers.
LEMMA CallerTold ==
    ASSUME TypeInv, LifeInv, [Next]_vars, ToldInv, NEW i \in Calls,
           Receive(i) \/ ReceiveNone(i) \/ DropStream(i)
    PROVE  ToldInv'
  <1>1. UNCHANGED <<posted, cmds, pending, errs, hand>>
    BY Zenon DEF Receive, ReceiveNone, DropStream, actVars
  <1>2. ASSUME NEW j \in Calls PROVE HasSender(j) => HasSender(j)'
    BY Zenon, <1>1 DEF HasSender, Queued
  <1>3. chan \in [Calls -> Seq(Frames)]
        /\ outcome \in [Calls -> {"none", "answered", "end", "remote", "lost", "silent", "dropped"}]
    BY Zenon DEF TypeInv, ChanType, AppTypes
  <1>4. ASSUME NEW j \in Calls, j # i PROVE HasWord(j) => HasWord(j)'
    <2>1. chan' = chan \/ \E o : chan' = [chan EXCEPT ![i] = o]
      BY Zenon DEF Receive, ReceiveNone, DropStream
    <2>2. chan'[j] = chan[j]
      BY Zenon, <1>3, <1>4, <2>1
    <2>3. QED
      BY Zenon, <2>2 DEF HasWord
  <1>5. outcome'[i] # "none" \/ (Receive(i) /\ Head(chan[i]).type = "stream_chunk")
    <2>1. CASE Receive(i) /\ Head(chan[i]).type # "stream_chunk"
      <3>1. PICK o \in {"answered", "end", "remote", "lost"} : outcome' = [outcome EXCEPT ![i] = o]
        BY <2>1 DEF Receive, End
      <3>2. outcome'[i] = o
        BY Zenon, <1>3, <3>1
      <3>3. QED
        BY <3>2
    <2>2. CASE ReceiveNone(i) \/ DropStream(i)
      <3>1. PICK o \in {"silent", "lost", "dropped"} : outcome' = [outcome EXCEPT ![i] = o]
        BY <2>2 DEF ReceiveNone, DropStream, End
      <3>2. outcome'[i] = o
        BY Zenon, <1>3, <3>1
      <3>3. QED
        BY Zenon, <3>1, <3>2
    <2>3. QED
      BY Zenon, <2>1, <2>2
  <1>6. HasWord(i) => HasWord(i)' \/ ~Awaits(i)'
    <2>1. CASE outcome'[i] # "none"
      BY Zenon, <2>1 DEF Awaits
    <2>2. CASE Receive(i) /\ Head(chan[i]).type = "stream_chunk"
      <3>1. chan[i] # <<>> /\ chan'[i] = Tail(chan[i]) /\ chan[i] \in Seq(Frames)
        BY Zenon, <1>3, <2>2 DEF Receive
      <3>2. ASSUME NEW n \in 1..Len(chan[i]), chan[i][n].type # "stream_chunk" PROVE HasWord(i)'
        <4>1. Head(chan[i]) = chan[i][1]
          BY Zenon, <3>1, TailOf
        <4>2. n # 1
          BY Zenon, <2>2, <3>2, <4>1
        <4>3. n - 1 \in 1..Len(chan'[i]) /\ chan'[i][n - 1] = chan[i][n]
          BY Zenon, <3>1, <4>2, BeforeTail
        <4>4. QED
          BY Zenon, <3>2, <4>3 DEF HasWord
      <3>3. QED
        BY Zenon, <3>2 DEF HasWord
    <2>3. QED
      BY Zenon, <1>5, <2>1, <2>2
  <1>7. ASSUME NEW j \in Calls, j \in posted PROVE Told(j)'
    BY Zenon, <1>2, <1>4, <1>6, <1>7, ToldKept
  <1>8. ASSUME NEW j \in Calls, j \notin posted PROVE Told(j)'
    BY Zenon, <1>1, <1>8 DEF Told, Awaits
  <1>9. QED
    BY Zenon, <1>7, <1>8 DEF ToldInv

\* A new call has its command for a sender, unless it is over at once.
LEMMA PostTold ==
    ASSUME TypeInv, LifeInv, [Next]_vars, ToldInv, NEW i \in Calls, Post(i)
    PROVE  ToldInv'
  <1>1. UNCHANGED <<chan, pending, errs, hand>> /\ posted' = posted \cup {i} /\ i \notin posted
    BY Zenon DEF Post, actVars
  <1>2. Outside
    BY Zenon DEF Outside
  <1>3. ASSUME NEW j \in Calls, j \in posted PROVE Told(j)'
    <2>1. HasSender(j) => HasSender(j)'
      BY Zenon, <1>1, <1>2, QueuedOutside DEF HasSender
    <2>2. HasWord(j) => HasWord(j)'
      BY Zenon, <1>1 DEF HasWord
    <2>3. QED
      BY Zenon, <1>3, <2>1, <2>2, ToldKept
  <1>4. Told(i)'
    <2>1. CASE cmds' = Append(cmds, i)
      <3>1. cmds \in Seq(Calls \cup {Shutdown}) /\ i \in Calls \cup {Shutdown}
        BY DEF TypeInv, CmdType
      <3>2. Len(cmds) + 1 \in 1..Len(cmds') /\ cmds'[Len(cmds) + 1] = i
        BY <2>1, <3>1, AppendLast
      <3>3. QED
        BY Zenon, <3>2 DEF Told, HasSender, Queued
    <2>2. CASE outcome' = [outcome EXCEPT ![i] = "lost"]
      <3>1. outcome'[i] = "lost"
        BY Zenon, <2>2 DEF TypeInv, AppTypes
      <3>2. outcome'[i] # "none"
        BY <3>1
      <3>3. QED
        BY Zenon, <3>2 DEF Told, Awaits
    <2>3. QED
      BY Zenon, <2>1, <2>2 DEF Post, End
  <1>5. ASSUME NEW j \in Calls, j \notin posted, j # i PROVE Told(j)'
    <2>1. j \notin posted'
      BY <1>1, <1>5
    <2>2. QED
      BY Zenon, <2>1 DEF Told, Awaits
  <1>6. QED
    BY Zenon, <1>3, <1>4, <1>5 DEF ToldInv

\* The task of drain_pending gives way to its message.
LEMMA TaskTold ==
    ASSUME TypeInv, LifeInv, [Next]_vars, ToldInv, NEW i \in Calls, DrainTask(i)
    PROVE  ToldInv'
  <1>1. /\ UNCHANGED <<posted, cmds, pending, hand, outcome>> /\ errs' = errs \ {i}
        /\ \/ outcome[i] # "none" /\ UNCHANGED chan
           \/ chan' = [chan EXCEPT ![i] = Append(@, Frame(i, "lost", 0))]
    BY Zenon DEF DrainTask, appVars, actVars
  <1>2. chan \in [Calls -> Seq(Frames)]
    BY Zenon DEF TypeInv, ChanType
  <1>3. ASSUME NEW j \in Calls, j # i PROVE (HasSender(j) => HasSender(j)') /\ (HasWord(j) => HasWord(j)')
    <2>1. j \in errs => j \in errs'
      BY <1>1, <1>3
    <2>2. chan'[j] = chan[j]
      BY Zenon, <1>1, <1>2, <1>3
    <2>3. QED
      BY Zenon, <1>1, <2>1, <2>2 DEF HasSender, HasWord, Queued
  <1>4. HasWord(i)' \/ ~Awaits(i)'
    <2>1. CASE outcome[i] # "none"
      BY Zenon, <1>1, <2>1 DEF Awaits
    <2>2. CASE chan' = [chan EXCEPT ![i] = Append(@, Frame(i, "lost", 0))]
      <3>1. Frame(i, "lost", 0) \in Frames /\ Frame(i, "lost", 0).type = "lost"
        BY IdTypes, FrameType DEF FrameTypes
      <3>2. chan'[i] = Append(chan[i], Frame(i, "lost", 0)) /\ chan[i] \in Seq(Frames)
        BY Zenon, <1>2, <2>2
      <3>3. Len(chan[i]) + 1 \in 1..Len(chan'[i]) /\ chan'[i][Len(chan[i]) + 1] = Frame(i, "lost", 0)
        BY <3>1, <3>2, AppendLast
      <3>4. "lost" # "stream_chunk"
        OBVIOUS
      <3>5. QED
        BY Zenon, <3>1, <3>3, <3>4 DEF HasWord
    <2>3. QED
      BY Zenon, <1>1, <2>1, <2>2
  <1>5. ASSUME NEW j \in Calls, j \in posted PROVE Told(j)'
    BY Zenon, <1>3, <1>4, <1>5, ToldKept
  <1>6. ASSUME NEW j \in Calls, j \notin posted PROVE Told(j)'
    BY Zenon, <1>1, <1>6 DEF Told, Awaits
  <1>7. QED
    BY Zenon, <1>5, <1>6 DEF ToldInv

\* A command that is taken leaves the others where they are.
LEMMA OthersQueued ==
    ASSUME TypeInv, cmds # <<>>, cmds' = Tail(cmds), NEW j \in Calls, j # Head(cmds), Queued(j)
    PROVE  Queued(j)'
  <1>1. cmds \in Seq(Calls \cup {Shutdown})
    BY Zenon DEF TypeInv, CmdType
  <1>2. PICK n \in 1..Len(cmds) : cmds[n] = j
    BY Zenon DEF Queued
  <1>3. Head(cmds) = cmds[1]
    BY Zenon, <1>1, TailOf
  <1>4. n # 1
    BY Zenon, <1>2, <1>3
  <1>5. n - 1 \in 1..Len(cmds') /\ cmds'[n - 1] = cmds[n]
    BY Zenon, <1>1, <1>4, BeforeTail
  <1>6. QED
    BY Zenon, <1>2, <1>5 DEF Queued

LEMMA RequestTold ==
    ASSUME TypeInv, LifeInv, [Next]_vars, ToldInv, NEW i \in Calls, Requests(i)
    PROVE  ToldInv'
  <1>1. /\ UNCHANGED <<posted, chan, errs, hand>> /\ pending' = pending \cup {i}
        /\ cmds # <<>> /\ i = Head(cmds) /\ cmds' = Tail(cmds)
    BY Zenon DEF Requests, appVars
  <1>2. ASSUME NEW j \in Calls, HasSender(j) PROVE HasSender(j)'
    <2>1. j \in pending \/ j = i => j \in pending'
      BY <1>1
    <2>2. Queued(j) /\ j # i => Queued(j)'
      BY Zenon, <1>1, OthersQueued
    <2>3. QED
      BY Zenon, <1>1, <1>2, <2>1, <2>2 DEF HasSender
  <1>3. ASSUME NEW j \in Calls, j \in posted PROVE Told(j)'
    <2>1. HasWord(j) => HasWord(j)'
      BY Zenon, <1>1 DEF HasWord
    <2>2. QED
      BY Zenon, <1>2, <1>3, <2>1, ToldKept
  <1>4. ASSUME NEW j \in Calls, j \notin posted PROVE Told(j)'
    BY Zenon, <1>1, <1>4 DEF Told, Awaits
  <1>5. QED
    BY Zenon, <1>3, <1>4 DEF ToldInv

\* Every stream that loses its connection is told so.
LEMMA LossTold ==
    ASSUME TypeInv, ActorInv, ActorInv', LifeInv, [Next]_vars, ToldInv,
           (\E i \in Calls : RequestFails(i)) \/ ShutsDown \/ Loses
    PROVE  ToldInv'
  <1>1. /\ UNCHANGED <<posted, hand>> /\ actor = "select" /\ actor' \in {"reconnect", "exited"}
    BY Zenon DEF RequestFails, ShutsDown, Loses, GivesUp, appVars
  <1>2. CASE actor' = "exited"
    <2>1. reconnect' => closing'
      BY Zenon, <1>2 DEF ActorInv, ExitInv
    <2>2. ASSUME NEW j \in Calls PROVE Told(j)'
      <3>1. reconnect' = TRUE => closing' # FALSE
        BY <2>1
      <3>2. QED
        BY Zenon, <3>1 DEF Told, Awaits
    <2>3. QED
      BY Zenon, <2>2 DEF ToldInv
  <1>3. ASSUME actor' = "reconnect", NEW S, Drain(S), pending \subseteq S,
               \A j \in Calls : Queued(j) => Queued(j)' \/ j \in S
        PROVE  ToldInv'
    <2>1. ASSUME NEW j \in Calls, j \in posted, Awaits(j)' PROVE Told(j)'
      <3>1. Awaits(j)
        BY Zenon, <2>1, AwaitsKept
      <3>2. IsStream(j)
        BY ZenonT(40), <3>1 DEF Awaits
      <3>3. chan'[j] = chan[j]
        <4>1. chan' = [i \in Calls |-> IF i \in S /\ ~IsStream(i) /\ outcome[i] = "none"
                                         THEN <<Frame(i, "lost", 0)>> ELSE chan[i]]
          BY Zenon, <1>3 DEF Drain
        <4>2. QED
          BY Zenon, <3>2, <4>1
      <3>4. (j \in S => j \in errs') /\ (j \in errs => j \in errs') /\ (j \in pending => j \in S)
        BY <1>3, <3>2 DEF Drain
      <3>5. HasSender(j) => HasSender(j)'
        BY Zenon, <1>1, <1>3, <3>4 DEF HasSender
      <3>6. HasWord(j) => HasWord(j)'
        BY Zenon, <3>3 DEF HasWord
      <3>7. QED
        BY Zenon, <2>1, <3>5, <3>6, ToldKept
    <2>2. ASSUME NEW j \in Calls, j \notin posted PROVE Told(j)'
      BY Zenon, <1>1, <2>2 DEF Told, Awaits
    <2>3. QED
      BY Zenon, <2>1, <2>2 DEF ToldInv, Told
  <1>4. ASSUME NEW i \in Calls, RequestFails(i), actor' = "reconnect" PROVE ToldInv'
    <2>1. PICK S : S = pending \cup {i}
      BY Zenon
    <2>2. Drain(S) /\ cmds # <<>> /\ i = Head(cmds) /\ cmds' = Tail(cmds)
      BY Zenon, <1>4, <2>1 DEF RequestFails, GivesUp
    <2>3. pending \subseteq S /\ i \in S
      BY <2>1
    <2>4. \A j \in Calls : Queued(j) => Queued(j)' \/ j \in S
      BY Zenon, <2>2, <2>3, OthersQueued
    <2>5. QED
      BY Zenon, <1>3, <1>4, <2>2, <2>3, <2>4
  <1>5. CASE Loses /\ actor' = "reconnect"
    <2>1. Drain(pending) /\ cmds' = cmds
      BY Zenon, <1>5 DEF Loses, GivesUp
    <2>2. \A j \in Calls : Queued(j) => Queued(j)' \/ j \in pending
      BY Zenon, <2>1 DEF Queued
    <2>3. pending \subseteq pending
      OBVIOUS
    <2>4. QED
      BY Zenon, <1>3, <1>5, <2>1, <2>2, <2>3
  <1>6. CASE ShutsDown
    BY Zenon, <1>2, <1>6 DEF ShutsDown
  <1>7. actor' = "reconnect" \/ actor' = "exited"
    BY <1>1
  <1>8. QED
    BY Zenon, <1>2, <1>4, <1>5, <1>6, <1>7

\* A frame for a stream is in the actor's hand or in the channel.
LEMMA FrameTold ==
    ASSUME TypeInv, ActorInv, LifeInv, [Next]_vars, ToldInv, TakeFrame
    PROVE  ToldInv'
  <1>1. PICK m : m = Head(queue)
    BY Zenon
  <1>2. /\ UNCHANGED <<posted, kind, cmds, errs>> /\ actor = "select"
        /\ pending' = pending \/ pending' = pending \ {m.id}
        /\ \/ m.id \in pending /\ IsStream(m.id) /\ hand' = m /\ UNCHANGED chan
           \/ /\ ~(m.id \in pending /\ IsStream(m.id)) /\ UNCHANGED hand
              /\ chan' = chan \/ (m.id \in pending /\ chan' = [chan EXCEPT ![m.id] = <<m>>])
    BY Zenon, <1>1 DEF TakeFrame, appVars
  <1>3. ASSUME NEW j \in Calls, j # m.id PROVE (HasSender(j) => HasSender(j)') /\ (HasWord(j) => HasWord(j)')
    <2>1. j \in pending => j \in pending'
      BY <1>2, <1>3
    <2>2. chan'[j] = chan[j]
      BY Zenon, <1>2, <1>3 DEF TypeInv, ChanType
    <2>3. j # hand.id
      BY <1>2, IdTypes DEF ActorInv, HandInv, NoFrame, Frame
    <2>4. QED
      BY Zenon, <1>2, <2>1, <2>2, <2>3 DEF HasSender, HasWord, Queued
  <1>4. ASSUME NEW j \in Calls, j = m.id, j \in posted, Awaits(j)'
        PROVE  (HasSender(j) => HasSender(j)') /\ (HasWord(j) => HasWord(j)')
    <2>1. IsStream(j)
      BY Zenon, <1>2, <1>4 DEF Awaits, IsStream
    <2>2. CASE j \in pending
      BY Zenon, <1>2, <1>4, <2>1, <2>2 DEF HasSender, HasWord
    <2>3. CASE j \notin pending
      <3>1. UNCHANGED <<chan, hand>>
        BY Zenon, <1>2, <1>4, <2>3
      <3>2. QED
        BY Zenon, <1>2, <2>3, <3>1 DEF HasSender, HasWord, Queued
    <2>4. QED
      BY Zenon, <2>2, <2>3
  <1>5. ASSUME NEW j \in Calls, j \in posted PROVE Told(j)'
    BY Zenon, <1>3, <1>4, <1>5, ToldKept
  <1>6. ASSUME NEW j \in Calls, j \notin posted PROVE Told(j)'
    BY Zenon, <1>2, <1>6 DEF Told, Awaits
  <1>7. QED
    BY Zenon, <1>5, <1>6 DEF ToldInv

LEMMA HandTold ==
    ASSUME TypeInv, ActorInv, LifeInv, [Next]_vars, ToldInv, HandOver
    PROVE  ToldInv'
  <1>1. PICK i : i = hand.id
    BY Zenon
  <1>2. /\ UNCHANGED <<posted, outcome, cmds, errs>> /\ actor = "send"
        /\ \/ chan' = [chan EXCEPT ![i] = Append(@, hand)] /\ UNCHANGED pending
           \/ outcome[i] # "none" /\ pending' = pending \ {i} /\ UNCHANGED chan
    BY Zenon, <1>1 DEF HandOver, appVars
  <1>3. i \in Calls /\ (hand.type = "stream_chunk" => i \in pending)
    BY Zenon, <1>1, <1>2 DEF ActorInv, HandInv
  <1>4. chan \in [Calls -> Seq(Frames)] /\ hand \in Frames
    BY Zenon DEF TypeInv, ChanType, ActTypes
  <1>5. ASSUME NEW j \in Calls, j # i PROVE (HasSender(j) => HasSender(j)') /\ (HasWord(j) => HasWord(j)')
    <2>1. j \in pending => j \in pending'
      BY <1>2, <1>5
    <2>2. chan'[j] = chan[j]
      BY Zenon, <1>2, <1>4, <1>5
    <2>3. QED
      BY Zenon, <1>1, <1>2, <1>5, <2>1, <2>2 DEF HasSender, HasWord, Queued
  <1>6. HasSender(i)' \/ HasWord(i)' \/ ~Awaits(i)'
    <2>1. CASE outcome[i] # "none"
      BY Zenon, <1>2, <2>1 DEF Awaits
    <2>2. CASE pending' = pending /\ i \in pending
      BY Zenon, <2>2 DEF HasSender
    <2>3. CASE chan' = [chan EXCEPT ![i] = Append(@, hand)] /\ hand.type # "stream_chunk"
      <3>1. chan'[i] = Append(chan[i], hand) /\ chan[i] \in Seq(Frames)
        BY Zenon, <1>3, <1>4, <2>3
      <3>2. Len(chan[i]) + 1 \in 1..Len(chan'[i]) /\ chan'[i][Len(chan[i]) + 1] = hand
        BY <1>4, <3>1, AppendLast
      <3>3. QED
        BY Zenon, <2>3, <3>2 DEF HasWord
    <2>4. QED
      BY Zenon, <1>2, <1>3, <2>1, <2>2, <2>3
  <1>7. ASSUME NEW j \in Calls, j \in posted PROVE Told(j)'
    <2>1. CASE j = i
      BY Zenon, <1>6, <2>1 DEF Told
    <2>2. CASE j # i
      BY Zenon, <1>5, <1>7, <2>2, ToldKept
    <2>3. QED
      BY Zenon, <2>1, <2>2
  <1>8. ASSUME NEW j \in Calls, j \notin posted PROVE Told(j)'
    BY Zenon, <1>2, <1>8 DEF Told, Awaits
  <1>9. QED
    BY Zenon, <1>7, <1>8 DEF ToldInv

LEMMA StepTold ==
    ASSUME TypeInv, ActorInv, ActorInv', LifeInv, ToldInv, [Next]_vars
    PROVE  ToldInv'
  <1>1. CASE Outside /\ UNCHANGED <<posted, chan, pending, errs, hand>>
    BY Zenon, <1>1, QueuedOutside, QuietTold
  <1>2. ASSUME NEW i \in Calls,
               (\E k \in Kinds : Begin(i, k)) \/ Send(i) \/ SendClose(i) \/ ServerChunk(i) \/ ServerAnswer(i)
                   \/ ServerError(i)
        PROVE  UNCHANGED <<posted, chan, pending, errs, hand>>
    BY Zenon, <1>2 DEF Begin, Send, SendClose, ServerChunk, ServerAnswer, ServerError, appVars, actVars
  <1>3. ASSUME NEW k \in Conns, ReadFrame(k) \/ ReadClosed(k) \/ ServerCloses(k) \/ ConnDrop(k)
        PROVE  UNCHANGED <<posted, chan, pending, errs, hand>>
    BY Zenon, <1>3 DEF ReadFrame, ReadClosed, ServerCloses, ConnDrop, Disconnect, appVars, actVars
  <1>4. ASSUME Close \/ UNCHANGED vars
        PROVE  UNCHANGED <<posted, chan, pending, errs, hand>>
    BY Zenon, <1>4 DEF Close, vars, appVars, actVars
  <1>5. CASE Outside
    BY Zenon, <1>1, <1>2, <1>3, <1>4, <1>5, CallerTold, PostTold, TaskTold DEF Outside
  <1>6. CASE Top \/ PumpDone \/ Redial \/ \E i \in Calls : Pump(i)
    <2>1. UNCHANGED <<posted, chan, pending, errs, hand, cmds>>
      BY Zenon, <1>6 DEF Top, PumpDone, Redial, Pump, PumpWrite, PumpDry, PumpCheck, appVars, actVars
    <2>2. \A j \in Calls : Queued(j) => Queued(j)'
      BY Zenon, <2>1 DEF Queued
    <2>3. QED
      BY Zenon, <2>1, <2>2, QuietTold
  <1>7. CASE Actor
    BY Zenon, <1>6, <1>7, RequestTold, LossTold, FrameTold, HandTold, TwoRequests, TwoLosses DEF Actor
  <1>8. QED
    BY Zenon, <1>5, <1>7, Steps

\* A stream of a client that reconnects ends without an error or an end frame only after
\* close() (drain_pending, ImportStream::poll_next, Client::close).
THEOREM SilenceNeedsClose == Spec => []SilentOnlyAfterClose
  <1>1. Init => ClientInv /\ ToldInv /\ SilentOnlyAfterClose
    <2> SUFFICES ASSUME Init PROVE ToldInv /\ SilentOnlyAfterClose
      BY Zenon, InitClient
    <2>1. posted = {} /\ \A i \in Calls : outcome[i] # "silent"
      BY DEF Init
    <2>2. QED
      BY <2>1 DEF ToldInv, Told, Awaits, SilentOnlyAfterClose
  <1>2. (ClientInv /\ ToldInv /\ SilentOnlyAfterClose) /\ [Next]_vars
            => (ClientInv /\ ToldInv /\ SilentOnlyAfterClose)'
    <2> SUFFICES ASSUME ClientInv, ToldInv, SilentOnlyAfterClose, [Next]_vars
                 PROVE  ClientInv' /\ ToldInv' /\ SilentOnlyAfterClose'
      OBVIOUS
    <2>1. ClientInv'
      BY Zenon, StepClient
    <2>2. ToldInv'
      BY Zenon, <2>1, StepTold DEF ClientInv
    <2>3. ASSUME NEW j \in Calls, outcome'[j] = "silent", reconnect' PROVE closing'
      <3>1. TypeInv /\ LifeInv /\ reconnect \in BOOLEAN /\ closing \in BOOLEAN /\ closing' \in BOOLEAN
        BY RustClientAssumption, <2>1 DEF ClientInv, TypeInv, AppTypes
      <3>2. reconnect /\ (closing => closing')
        BY Zenon, <2>3, <3>1, ModeKept
      <3>3. outcome[j] = "silent" \/ ReceiveNone(j)
        BY Zenon, <2>3, <3>1, Outcomes
      <3>4. ASSUME ReceiveNone(j) PROVE closing
        <4>1. j \in posted /\ chan[j] = <<>> /\ outcome[j] = "none" /\ ~HasSender(j)
          BY Zenon, <3>4 DEF ReceiveNone
        <4>2. outcome'[j] = IF kind[j] = "stream" THEN "silent" ELSE "lost"
          BY Zenon, <3>1, <3>4 DEF ReceiveNone, End, TypeInv, AppTypes
        <4>3. IsStream(j)
          BY <2>3, <4>2 DEF IsStream
        <4>4. ~HasWord(j)
          BY Zenon, <4>1, EmptyOf DEF HasWord
        <4>5. Told(j)
          BY Zenon DEF ToldInv
        <4>6. ~Awaits(j)
          BY Zenon, <4>1, <4>4, <4>5 DEF Told
        <4>7. QED
          BY Zenon, <3>1, <3>2, <4>1, <4>3, <4>6 DEF Awaits
      <3>5. QED
        BY Zenon, <3>2, <3>3, <3>4 DEF SilentOnlyAfterClose
    <2>4. SilentOnlyAfterClose'
      BY Zenon, <2>3 DEF SilentOnlyAfterClose
    <2>5. QED
      BY Zenon, <2>1, <2>2, <2>4
  <1>3. QED
    BY <1>1, <1>2, PTL DEF Spec
=============================================================================
