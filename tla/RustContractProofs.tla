------------------------- MODULE RustContractProofs -------------------------
(***************************************************************************)
(* The Rust client keeps the contract of all clients, and no channel of it *)
(* ever holds more than its capacity.                                      *)
(***************************************************************************)
EXTENDS RustOrderProofs

-----------------------------------------------------------------------------
\* The contract.

\* The calls as the contract sees them.
Statuses == [i \in Calls |->
                 CASE kind[i] = "none" -> "idle"
                   [] kind[i] # "none" /\ outcome[i] = "none" -> "open"
                   [] outcome[i] \in {"answered", "end"} -> "answered"
                   [] OTHER -> "failed"]

LEMMA StatusOf ==
    ASSUME NEW i \in Calls
    PROVE  /\ kind[i] = "none" /\ outcome[i] = "none" => Statuses[i] = "idle"
           /\ kind[i] # "none" /\ outcome[i] = "none" => Statuses[i] = "open"
           /\ kind[i] # "none" /\ outcome[i] \in {"answered", "end"} => Statuses[i] = "answered"
           /\ kind[i] # "none" /\ outcome[i] \notin {"none", "answered", "end"} => Statuses[i] = "failed"
  <1>1. Statuses[i] = CASE kind[i] = "none" -> "idle"
                        [] kind[i] # "none" /\ outcome[i] = "none" -> "open"
                        [] outcome[i] \in {"answered", "end"} -> "answered"
                        [] OTHER -> "failed"
    BY Zenon DEF Statuses
  <1>2. CASE kind[i] = "none" /\ outcome[i] = "none"
    BY <1>1, <1>2
  <1>3. CASE kind[i] # "none" /\ outcome[i] = "none"
    BY <1>1, <1>3
  <1>4. CASE kind[i] # "none" /\ outcome[i] \in {"answered", "end"}
    BY <1>1, <1>4
  <1>5. CASE kind[i] # "none" /\ outcome[i] \notin {"none", "answered", "end"}
    BY <1>1, <1>5
  <1>6. QED
    BY Zenon, <1>2, <1>3, <1>4, <1>5

LEMMA StatusesAre == Statuses = [i \in Calls |-> Statuses[i]]
  BY DEF Statuses

LEMMA ContractInit ==
    ASSUME Init
    PROVE  Contract!Init
  <1>1. /\ \A i \in Calls : kind[i] = "none" /\ outcome[i] = "none"
        /\ sent = [i \in Calls |-> 0] /\ srvDone = [i \in Calls |-> FALSE] /\ recv = [i \in Calls |-> 0]
    BY DEF Init
  <1>2. Statuses = [i \in Calls |-> "idle"]
    <2>1. Statuses = [i \in Calls |-> Statuses[i]]
      BY Zenon, StatusesAre
    <2>2. \A i \in Calls : Statuses[i] = "idle"
      BY Zenon, <1>1, StatusOf
    <2>3. QED
      BY <2>1, <2>2
  <1>3. QED
    BY Zenon, <1>1, <1>2 DEF Contract!Init, Statuses

LEMMA ContractSteps ==
    ASSUME NEW i \in Calls
    PROVE  /\ /\ Statuses[i] = "idle" /\ Statuses' = [Statuses EXCEPT ![i] = "open"] /\ UNCHANGED <<sent, srvDone, recv>>
              => Contract!Open(i)
           /\ /\ Statuses[i] # "idle" /\ ~srvDone[i] /\ sent' = [sent EXCEPT ![i] = @ + 1]
              /\ Statuses' = Statuses /\ UNCHANGED <<srvDone, recv>>
              => Contract!Produce(i)
           /\ /\ Statuses[i] # "idle" /\ ~srvDone[i] /\ srvDone' = [srvDone EXCEPT ![i] = TRUE]
              /\ Statuses' = Statuses /\ UNCHANGED <<sent, recv>>
              => Contract!Finish(i)
           /\ /\ Statuses[i] = "open" /\ recv[i] < sent[i] /\ recv' = [recv EXCEPT ![i] = @ + 1]
              /\ Statuses' = Statuses /\ UNCHANGED <<sent, srvDone>>
              => Contract!Deliver(i)
           /\ /\ Statuses[i] = "open" /\ srvDone[i] /\ recv[i] = sent[i]
              /\ Statuses' = [Statuses EXCEPT ![i] = "answered"] /\ UNCHANGED <<sent, srvDone, recv>>
              => Contract!Answer(i)
           /\ /\ Statuses[i] = "open" /\ Statuses' = [Statuses EXCEPT ![i] = "failed"]
              /\ UNCHANGED <<sent, srvDone, recv>>
              => Contract!Fail(i)
  BY Zenon DEF Statuses, Contract!Open, Contract!Produce, Contract!Finish, Contract!Deliver, Contract!Answer, Contract!Fail

LEMMA ContractNext ==
    /\ (\E i \in Calls : \/ Contract!Open(i) \/ Contract!Produce(i) \/ Contract!Finish(i) \/ Contract!Deliver(i)
                         \/ Contract!Answer(i) \/ Contract!Fail(i))
       => [Contract!Next]_(Contract!contractVars)
    /\ Statuses' = Statuses /\ UNCHANGED <<sent, srvDone, recv>> => [Contract!Next]_(Contract!contractVars)
  BY Zenon DEF Statuses, Contract!Next, Contract!contractVars

\* One call changes.
LEMMA StatusSet ==
    ASSUME NEW i \in Calls, NEW v, Statuses'[i] = v,
           \A j \in Calls : j # i => kind'[j] = kind[j] /\ outcome'[j] = outcome[j]
    PROVE  Statuses' = [Statuses EXCEPT ![i] = v]
  <1>1. \A j \in Calls : j # i => Statuses'[j] = Statuses[j]
    BY DEF Statuses
  <1>2. PICK f, g : f = Statuses /\ g = Statuses'
    BY Zenon
  <1>3. f = [j \in Calls |-> f[j]] /\ g = [j \in Calls |-> g[j]]
    <2>1. Statuses = [j \in Calls |-> Statuses[j]]
      BY Zenon, StatusesAre
    <2>2. Statuses' = [j \in Calls |-> Statuses'[j]]
      BY DEF Statuses
    <2>3. QED
      BY Zenon, <1>2, <2>1, <2>2
  <1>4. \A j \in Calls : g[j] = IF j = i THEN v ELSE f[j]
    BY Zenon, <1>1, <1>2
  <1>5. g = [f EXCEPT ![i] = v]
    BY <1>3, <1>4
  <1>6. QED
    BY Zenon, <1>2, <1>5

LEMMA StatusSame == kind' = kind /\ outcome' = outcome => Statuses' = Statuses
  BY DEF Statuses

LEMMA StatusAfter ==
    ASSUME NEW i \in Calls
    PROVE  /\ kind'[i] # "none" /\ outcome'[i] = "none" => Statuses'[i] = "open"
           /\ kind'[i] # "none" /\ outcome'[i] \in {"answered", "end"} => Statuses'[i] = "answered"
           /\ kind'[i] # "none" /\ outcome'[i] \notin {"none", "answered", "end"} => Statuses'[i] = "failed"
  <1>1. Statuses'[i] = CASE kind'[i] = "none" -> "idle"
                         [] kind'[i] # "none" /\ outcome'[i] = "none" -> "open"
                         [] outcome'[i] \in {"answered", "end"} -> "answered"
                         [] OTHER -> "failed"
    BY Zenon DEF Statuses
  <1>2. CASE kind'[i] # "none" /\ outcome'[i] = "none"
    BY <1>1, <1>2
  <1>3. CASE kind'[i] # "none" /\ outcome'[i] \in {"answered", "end"}
    BY <1>1, <1>3
  <1>4. CASE kind'[i] # "none" /\ outcome'[i] \notin {"none", "answered", "end"}
    BY <1>1, <1>4
  <1>5. CASE kind'[i] = "none"
    BY Zenon, <1>5
  <1>6. QED
    BY Zenon, <1>2, <1>3, <1>4, <1>5

ContractStep == [Contract!Next]_(Contract!contractVars)

\* A call that ends.
LEMMA CallEnds ==
    ASSUME TypeInv, NEW i \in Calls, kind[i] # "none", outcome[i] = "none", kind' = kind,
           UNCHANGED <<sent, srvDone, recv>>, NEW o, o # "none", outcome' = [outcome EXCEPT ![i] = o],
           o \in {"answered", "end"} => srvDone[i] = TRUE /\ recv[i] = sent[i]
    PROVE  ContractStep
  <1>1. outcome \in [Calls -> {"none", "answered", "end", "remote", "lost", "silent", "dropped"}]
    BY Zenon DEF TypeInv, AppTypes
  <1>2. outcome'[i] = o /\ (\A j \in Calls : j # i => kind'[j] = kind[j] /\ outcome'[j] = outcome[j])
    BY Zenon, <1>1
  <1>3. Statuses[i] = "open"
    BY Zenon, StatusOf
  <1>4. CASE o \in {"answered", "end"}
    <2>1. Statuses'[i] = "answered"
      BY Zenon, <1>2, <1>4, StatusAfter
    <2>2. Statuses' = [Statuses EXCEPT ![i] = "answered"]
      BY Zenon, <1>2, <2>1, StatusSet
    <2>3. Contract!Answer(i)
      BY Zenon, <1>3, <1>4, <2>2, ContractSteps
    <2>4. QED
      BY Zenon, <2>3, ContractNext DEF ContractStep
  <1>5. CASE o \notin {"answered", "end"}
    <2>1. Statuses'[i] = "failed"
      BY Zenon, <1>2, <1>5, StatusAfter
    <2>2. Statuses' = [Statuses EXCEPT ![i] = "failed"]
      BY Zenon, <1>2, <2>1, StatusSet
    <2>3. Contract!Fail(i)
      BY Zenon, <1>3, <2>2, ContractSteps
    <2>4. QED
      BY Zenon, <2>3, ContractNext DEF ContractStep
  <1>6. QED
    BY Zenon, <1>4, <1>5

LEMMA Stutters ==
    ASSUME UNCHANGED <<kind, outcome, sent, srvDone, recv>>
    PROVE  ContractStep
  BY Zenon, StatusSame, ContractNext DEF ContractStep

LEMMA BeginContract ==
    ASSUME TypeInv, LifeInv, NEW i \in Calls, NEW k \in Kinds, Begin(i, k)
    PROVE  ContractStep
  <1>1. kind[i] = "none" /\ kind' = [kind EXCEPT ![i] = k] /\ UNCHANGED <<outcome, sent, srvDone, recv>>
    BY Zenon DEF Begin, srvVars
  <1>2. kind \in [Calls -> Kinds \cup {"none"}]
    BY Zenon DEF TypeInv, AppTypes
  <1>3. k # "none"
    BY RustClientAssumption DEF AllKinds
  <1>4. outcome[i] = "none"
    BY Zenon, <1>1 DEF LifeInv, PostedInv, BlankInv, Blank
  <1>5. kind'[i] = k /\ \A j \in Calls : j # i => kind'[j] = kind[j]
    BY Zenon, <1>1, <1>2
  <1>6. Statuses'[i] = "open" /\ Statuses[i] = "idle"
    BY Zenon, <1>1, <1>3, <1>4, <1>5, StatusOf, StatusAfter
  <1>7. Statuses' = [Statuses EXCEPT ![i] = "open"]
    BY Zenon, <1>1, <1>5, <1>6, StatusSet
  <1>8. Contract!Open(i)
    BY Zenon, <1>1, <1>6, <1>7, ContractSteps
  <1>9. QED
    BY Zenon, <1>8, ContractNext DEF ContractStep

\* The callers.
LEMMA CallerContract ==
    ASSUME TypeInv, LifeInv, NEW i \in Calls,
           Post(i) \/ Send(i) \/ SendClose(i) \/ ReceiveNone(i) \/ DropStream(i)
    PROVE  ContractStep
  <1>1. UNCHANGED <<kind, sent, srvDone, recv>>
    BY Zenon DEF Post, Send, SendClose, ReceiveNone, DropStream, srvVars
  <1>2. \/ outcome' = outcome
        \/ \E o : o \notin {"none", "answered", "end"} /\ outcome' = [outcome EXCEPT ![i] = o]
    BY Zenon DEF Post, Send, SendClose, ReceiveNone, DropStream, End
  <1>3. kind[i] # "none" /\ outcome[i] = "none"
    <2>1. i \in posted \/ Post(i)
      BY Zenon DEF Send, SendClose, ReceiveNone, DropStream
    <2>2. kind[i] # "none"
      BY Zenon, <2>1 DEF LifeInv, PostedInv, Post
    <2>3. Post(i) => outcome[i] = "none"
      BY Zenon DEF LifeInv, BlankInv, Blank, Post
    <2>4. QED
      BY Zenon, <2>2, <2>3 DEF Send, SendClose, ReceiveNone, DropStream
  <1>4. QED
    BY Zenon, <1>1, <1>2, <1>3, Stutters, CallEnds

LEMMA ReceiveContract ==
    ASSUME TypeInv, LifeInv, FrameInv, OrderInv, NEW i \in Calls, Receive(i)
    PROVE  ContractStep
  <1>1. UNCHANGED <<kind, sent, srvDone>> /\ chan[i] # <<>> /\ outcome[i] = "none"
    BY Zenon DEF Receive, srvVars
  <1>2. kind[i] # "none"
    BY Zenon, <1>1 DEF LifeInv, PostedInv, BlankInv, Blank
  <1>3. PICK t : t = Head(chan[i]).type
    BY Zenon
  <1>4. recv[i] \in Nat /\ sent[i] \in Nat
    BY Zenon, OrderTypes
  <1>5. CASE t = "stream_chunk"
    <2>1. recv' = [recv EXCEPT ![i] = @ + 1] /\ outcome' = outcome
      BY Zenon, <1>3, <1>5 DEF Receive
    <2>2. recv[i] + 1 <= sent[i]
      BY Zenon, <1>1, <1>3, <1>5, Received
    <2>3. recv[i] < sent[i]
      BY <1>4, <2>2
    <2>4. Statuses[i] = "open" /\ Statuses' = Statuses
      BY Zenon, <1>1, <1>2, <2>1, StatusOf, StatusSame
    <2>5. Contract!Deliver(i)
      BY Zenon, <1>1, <2>1, <2>3, <2>4, ContractSteps
    <2>6. QED
      BY Zenon, <2>5, ContractNext DEF ContractStep
  <1>6. CASE t # "stream_chunk"
    <2>1. recv' = recv
      BY Zenon, <1>3, <1>6 DEF Receive
    <2>2. \E o : /\ outcome' = [outcome EXCEPT ![i] = o] /\ o # "none"
                 /\ o \in {"answered", "end"} => t \in {"response", "stream_end"}
      <3>1. PICK o : o = CASE t = "response" -> "answered" [] t = "stream_end" -> "end"
                           [] t = "error" -> "remote" [] OTHER -> "lost"
        BY Zenon
      <3>2. outcome' = [outcome EXCEPT ![i] = o]
        BY Zenon, <1>3, <1>6, <3>1 DEF Receive, End
      <3>3. o # "none" /\ (o \in {"answered", "end"} => t \in {"response", "stream_end"})
        BY <3>1
      <3>4. QED
        BY Zenon, <3>2, <3>3
    <2>3. t \in {"response", "stream_end"} => srvDone[i] = TRUE /\ recv[i] = sent[i]
      BY Zenon, <1>1, <1>3, Received
    <2>4. QED
      BY Zenon, <1>1, <1>2, <2>1, <2>2, <2>3, CallEnds
  <1>7. QED
    BY Zenon, <1>5, <1>6

LEMMA ServerContract ==
    ASSUME TypeInv, LifeInv, [Next]_vars, NEW i \in Calls, ServerChunk(i) \/ ServerAnswer(i) \/ ServerError(i)
    PROVE  ContractStep
  <1>1. UNCHANGED <<kind, outcome, recv>> /\ Reachable(i)
    BY Zenon DEF ServerChunk, ServerAnswer, ServerError, appVars
  <1>2. srv[i] # 0 /\ ~srvDone[i]
    BY Zenon, <1>1 DEF Reachable
  <1>3. kind[i] # "none"
    BY Zenon, <1>2, ServerKept
  <1>4. Statuses[i] # "idle" /\ Statuses' = Statuses
    BY Zenon, <1>1, <1>3, StatusOf, StatusSame
  <1>5. CASE ServerChunk(i)
    <2>1. sent' = [sent EXCEPT ![i] = @ + 1] /\ srvDone' = srvDone
      BY Zenon, <1>5 DEF ServerChunk
    <2>2. Contract!Produce(i)
      BY Zenon, <1>1, <1>2, <1>4, <2>1, ContractSteps
    <2>3. QED
      BY Zenon, <2>2, ContractNext DEF ContractStep
  <1>6. CASE ServerAnswer(i) \/ ServerError(i)
    <2>1. srvDone' = [srvDone EXCEPT ![i] = TRUE] /\ sent' = sent
      BY Zenon, <1>6 DEF ServerAnswer, ServerError
    <2>2. Contract!Finish(i)
      BY Zenon, <1>1, <1>2, <1>4, <2>1, ContractSteps
    <2>3. QED
      BY Zenon, <2>2, ContractNext DEF ContractStep
  <1>7. QED
    BY Zenon, <1>5, <1>6

\* Every step is a step of the contract's, or none.
LEMMA StepContract ==
    ASSUME TypeInv, LifeInv, FrameInv, OrderInv, [Next]_vars
    PROVE  ContractStep
  <1>1. ASSUME NEW i \in Calls, DrainTask(i) \/ Pump(i) PROVE UNCHANGED <<kind, outcome, sent, srvDone, recv>>
    BY Zenon, <1>1 DEF DrainTask, Pump, PumpWrite, PumpDry, PumpCheck, appVars, srvVars
  <1>2. ASSUME NEW k \in Conns, ReadFrame(k) \/ ReadClosed(k) \/ ServerCloses(k) \/ ConnDrop(k)
        PROVE  UNCHANGED <<kind, outcome, sent, srvDone, recv>>
    BY Zenon, <1>2 DEF ReadFrame, ReadClosed, ServerCloses, ConnDrop, Disconnect, appVars, srvVars
  <1>3. ASSUME Close \/ UNCHANGED vars PROVE UNCHANGED <<kind, outcome, sent, srvDone, recv>>
    BY Zenon, <1>3 DEF Close, vars, appVars, srvVars
  <1>4. CASE Top \/ PumpDone \/ TakeFrame \/ HandOver \/ Redial \/ TakeCall \/ TakeShutdown \/ TakeClosed
    <2>1. UNCHANGED <<kind, outcome, sent, srvDone, recv>>
      BY Zenon, <1>4 DEF Top, PumpDone, TakeFrame, HandOver, Redial, TakeCall, TakeShutdown, TakeClosed, appVars, srvVars
    <2>2. QED
      BY Zenon, <2>1, Stutters
  <1>5. CASE Actor
    BY Zenon, <1>1, <1>4, <1>5, Stutters DEF Actor
  <1>6. CASE Outside
    BY ZenonT(40), <1>1, <1>2, <1>3, <1>6, Stutters, BeginContract, CallerContract, ReceiveContract, ServerContract DEF Outside
  <1>7. QED
    BY Zenon, <1>5, <1>6, Steps

-----------------------------------------------------------------------------
StreamInv == ClientInv /\ FrameInv /\ OrderInv

LEMMA InitStreams == Init => StreamInv
  BY Zenon, InitClient, InitFrames, InitOrder DEF StreamInv

LEMMA StepStreams ==
    ASSUME StreamInv, [Next]_vars
    PROVE  StreamInv'
  BY Zenon, StepClient, StepFrames, StepOrder DEF StreamInv, ClientInv

\* The Rust client keeps the contract of all clients, for any number of calls, connections
\* and chunks and any channel capacities: an answer is the server's answer to this call, and
\* a stream that ends has delivered every chunk (run_actor, spawn_reader, poll_next, recv).
THEOREM KeepsContract == Spec => ImplementsContract
  <1>1. Init => StreamInv /\ Contract!Init
    BY InitStreams, ContractInit
  <1>2. StreamInv /\ [Next]_vars => StreamInv'
    BY StepStreams
  <1>3. StreamInv /\ [Next]_vars => [Contract!Next]_(Contract!contractVars)
    BY StepContract DEF StreamInv, ClientInv, ContractStep
  <1>4. QED
    BY <1>1, <1>2, <1>3, PTL DEF Spec, ImplementsContract, Contract!Spec

-----------------------------------------------------------------------------
\* No channel holds more than its capacity.

Short(s, n) == Len(s) <= n
Room(i) == IF IsStream(i) THEN QueueCap ELSE 1
CmdsShort == Short(cmds, CmdCap)
QueueShort == Short(queue, QueueCap)
OutShort == \A i \in Calls : Short(out[i], QueueCap)
ChanShort == \A i \in Calls : Short(chan[i], Room(i))
CapInv == CmdsShort /\ QueueShort /\ OutShort /\ ChanShort

\* What a step does to a channel of capacity n.
Moves(s, t, S, n) ==
    \/ t = s \/ t = <<>> \/ (s # <<>> /\ t = Tail(s))
    \/ \E m \in S : t = <<m>> \/ (Len(s) < n /\ t = Append(s, m))

LEMMA StaysShort ==
    ASSUME NEW S, NEW s \in Seq(S), NEW n \in Nat \ {0}, Short(s, n), NEW t, Moves(s, t, S, n)
    PROVE  Short(t, n)
  <1>1. Len(s) \in Nat /\ Len(s) <= n
    BY DEF Short
  <1>2. CASE t = s
    BY Zenon, <1>2
  <1>3. CASE t = <<>>
    BY <1>3 DEF Short
  <1>4. CASE s # <<>> /\ t = Tail(s)
    <2>1. Len(t) \in Nat /\ Len(s) = Len(t) + 1
      BY Zenon, <1>4, TailOf
    <2>2. QED
      BY <1>1, <2>1 DEF Short
  <1>5. ASSUME NEW m \in S, t = <<m>> PROVE Short(t, n)
    BY <1>5 DEF Short
  <1>6. ASSUME NEW m \in S, Len(s) < n, t = Append(s, m) PROVE Short(t, n)
    <2>1. Len(t) = Len(s) + 1
      BY Zenon, <1>6, AppendOf
    <2>2. QED
      BY <1>1, <1>6, <2>1 DEF Short
  <1>7. QED
    BY Zenon, <1>2, <1>3, <1>4, <1>5, <1>6 DEF Moves

LEMMA RoomType ==
    /\ CmdCap \in Nat \ {0} /\ QueueCap \in Nat \ {0}
    /\ \A i \in Calls : Room(i) \in Nat \ {0} /\ (IsStream(i) => Room(i) = QueueCap)
  BY RustClientAssumption DEF Room

LEMMA CmdMoves ==
    ASSUME TypeInv, [Next]_vars
    PROVE  Moves(cmds, cmds', Calls \cup {Shutdown}, CmdCap)
  <1>1. ASSUME NEW i \in Calls,
               (\E k \in Kinds : Begin(i, k)) \/ Send(i) \/ SendClose(i) \/ Receive(i) \/ ReceiveNone(i)
                   \/ DropStream(i)
        PROVE  cmds' = cmds
    BY Zenon, <1>1 DEF Begin, Send, SendClose, Receive, ReceiveNone, DropStream
  <1>2. ASSUME NEW i \in Calls, DrainTask(i) \/ ServerChunk(i) \/ ServerAnswer(i) \/ ServerError(i)
        PROVE  cmds' = cmds
    BY Zenon, <1>2 DEF DrainTask, ServerChunk, ServerAnswer, ServerError
  <1>3. ASSUME NEW k \in Conns, ReadFrame(k) \/ ReadClosed(k) \/ ServerCloses(k) \/ ConnDrop(k)
        PROVE  cmds' = cmds
    BY Zenon, <1>3 DEF ReadFrame, ReadClosed, ServerCloses, ConnDrop, Disconnect
  <1>4. ASSUME NEW i \in Calls, Post(i)
        PROVE  Moves(cmds, cmds', Calls \cup {Shutdown}, CmdCap)
    BY Zenon, <1>4 DEF Post, Moves
  <1>5. ASSUME Close
        PROVE  Moves(cmds, cmds', Calls \cup {Shutdown}, CmdCap)
    BY Zenon, <1>5 DEF Close, Moves
  <1>6. CASE Outside
    BY ZenonT(40), <1>1, <1>2, <1>3, <1>4, <1>5, <1>6 DEF Outside, Moves, vars
  <1>7. ASSUME NEW i \in Calls, Requests(i) \/ RequestFails(i)
        PROVE  Moves(cmds, cmds', Calls \cup {Shutdown}, CmdCap)
    <2>1. cmds # <<>> /\ cmds' \in {Tail(cmds), <<>>}
      BY <1>7 DEF Requests, RequestFails
    <2>2. cmds' = Tail(cmds) \/ cmds' = <<>>
      BY Zenon, <2>1
    <2>3. QED
      BY Zenon, <2>1, <2>2 DEF Moves
  <1>8. CASE Top \/ PumpDone \/ TakeFrame \/ HandOver \/ Redial \/ \E i \in Calls : Pump(i)
    BY Zenon, <1>8 DEF Top, PumpDone, TakeFrame, HandOver, Redial, Pump, PumpWrite, PumpDry, PumpCheck, Moves
  <1>9. CASE ShutsDown \/ Loses
    <2>1. cmds' = cmds \/ cmds' = <<>>
      BY Zenon, <1>9 DEF ShutsDown, Loses
    <2>2. QED
      BY Zenon, <2>1 DEF Moves
  <1>10. CASE Actor
    BY ZenonT(40), <1>7, <1>8, <1>9, <1>10, TwoRequests, TwoLosses DEF Actor
  <1>11. QED
    BY Zenon, <1>6, <1>10, Steps

LEMMA QueueMoves ==
    ASSUME TypeInv, [Next]_vars
    PROVE  Moves(queue, queue', Frames, QueueCap)
  <1>1. ASSUME NEW i \in Calls,
               (\E k \in Kinds : Begin(i, k)) \/ Post(i) \/ Send(i) \/ SendClose(i) \/ Receive(i) \/ ReceiveNone(i)
                   \/ DropStream(i)
        PROVE  queue' = queue
    BY Zenon, <1>1 DEF Begin, Post, Send, SendClose, Receive, ReceiveNone, DropStream, rdVars
  <1>2. ASSUME NEW i \in Calls, DrainTask(i) \/ ServerChunk(i) \/ ServerAnswer(i) \/ ServerError(i)
        PROVE  queue' = queue
    BY Zenon, <1>2 DEF DrainTask, ServerChunk, ServerAnswer, ServerError, rdVars
  <1>3. ASSUME NEW k \in Conns, ReadFrame(k)
        PROVE  Moves(queue, queue', Frames, QueueCap)
    <2>1. wire[k] \in Seq(Frames) /\ wire[k] # <<>>
      BY Zenon, <1>3 DEF ReadFrame, TypeInv, WireType
    <2>2. Head(wire[k]) \in Frames
      BY Zenon, <2>1, TailOf
    <2>3. QED
      BY Zenon, <1>3, <2>2 DEF ReadFrame, Moves
  <1>4. ASSUME NEW k \in Conns, ReadClosed(k)
        PROVE  Moves(queue, queue', Frames, QueueCap)
    <2>1. Closed(k) \in Frames
      BY IdTypes, FrameType DEF Closed, FrameTypes
    <2>2. QED
      BY Zenon, <1>4, <2>1 DEF ReadClosed, Moves
  <1>5. CASE Close \/ UNCHANGED vars \/ \E k \in Conns : ServerCloses(k) \/ ConnDrop(k)
    BY Zenon, <1>5 DEF Close, vars, ServerCloses, ConnDrop, Disconnect, rdVars, Moves
  <1>6. CASE Outside
    BY ZenonT(40), <1>1, <1>2, <1>3, <1>4, <1>5, <1>6 DEF Outside, Moves
  <1>7. CASE Top \/ PumpDone \/ HandOver \/ Redial \/ \E i \in Calls : Pump(i) \/ Requests(i)
    BY Zenon, <1>7 DEF Top, PumpDone, HandOver, Redial, Pump, PumpWrite, PumpDry, PumpCheck, Requests, rdVars, Moves
  <1>8. ASSUME NEW i \in Calls, RequestFails(i)
        PROVE  queue' = queue \/ queue' = <<>>
    BY Zenon, <1>8 DEF RequestFails
  <1>9. CASE ShutsDown \/ Loses \/ TakeFrame
    <2>1. queue' = <<>> \/ (queue # <<>> /\ queue' = Tail(queue))
      BY Zenon, <1>9 DEF ShutsDown, Loses, TakeFrame
    <2>2. QED
      BY Zenon, <2>1 DEF Moves
  <1>10. CASE Actor
    BY ZenonT(40), <1>7, <1>8, <1>9, <1>10, TwoRequests, TwoLosses DEF Actor, Moves
  <1>11. QED
    BY Zenon, <1>6, <1>10, Steps

LEMMA OutMoves ==
    ASSUME TypeInv, [Next]_vars, NEW j \in Calls
    PROVE  Moves(out[j], out'[j], 0..MaxIn, QueueCap)
  <1>0. out \in [Calls -> Seq(0..MaxIn)]
    BY Zenon DEF TypeInv, OutType
  <1>1. ASSUME NEW i \in Calls,
               (\E k \in Kinds : Begin(i, k)) \/ Post(i) \/ Receive(i) \/ ReceiveNone(i) \/ DropStream(i)
        PROVE  out' = out
    BY Zenon, <1>1 DEF Begin, Post, Receive, ReceiveNone, DropStream
  <1>2. ASSUME NEW i \in Calls, DrainTask(i) \/ ServerChunk(i) \/ ServerAnswer(i) \/ ServerError(i)
        PROVE  out' = out
    BY Zenon, <1>2 DEF DrainTask, ServerChunk, ServerAnswer, ServerError
  <1>3. ASSUME NEW k \in Conns, ReadFrame(k) \/ ReadClosed(k) \/ ServerCloses(k) \/ ConnDrop(k)
        PROVE  out' = out
    BY Zenon, <1>3 DEF ReadFrame, ReadClosed, ServerCloses, ConnDrop, Disconnect
  <1>4. ASSUME NEW i \in Calls, Send(i) \/ SendClose(i)
        PROVE  Moves(out[j], out'[j], 0..MaxIn, QueueCap)
    <2>1. PICK a \in Nat : a = accepted[i] /\ (Send(i) => a < MaxIn)
      <3>1. accepted[i] \in 0..MaxIn
        BY Zenon DEF TypeInv, AppTypes
      <3>2. accepted[i] \in Nat
        BY <3>1
      <3>3. QED
        BY Zenon, <3>2 DEF Send
    <2>2. 0 \in 0..MaxIn /\ (a < MaxIn => a + 1 \in 0..MaxIn)
      BY RustClientAssumption
    <2>3. \/ out' = out
          \/ \E m \in 0..MaxIn : Len(out[i]) < QueueCap /\ out' = [out EXCEPT ![i] = Append(@, m)]
      BY ZenonT(40), <1>4, <2>1, <2>2 DEF Send, SendClose, CloseFrame
    <2>4. QED
      BY Zenon, <1>0, <2>3 DEF Moves
  <1>5. CASE Outside
    BY ZenonT(40), <1>1, <1>2, <1>3, <1>4, <1>5 DEF Outside, Moves, vars, Close
  <1>6. CASE Top \/ PumpDone \/ HandOver \/ Redial \/ TakeFrame \/ ShutsDown \/ Loses \/ \E i \in Calls : Requests(i)
    BY Zenon, <1>6 DEF Top, PumpDone, HandOver, Redial, TakeFrame, ShutsDown, Loses, Requests, Moves
  <1>7. ASSUME NEW i \in Calls, RequestFails(i) \/ Pump(i)
        PROVE  Moves(out[j], out'[j], 0..MaxIn, QueueCap)
    <2>1. out' = out \/ out' = [out EXCEPT ![i] = <<>>] \/ (out[i] # <<>> /\ out' = [out EXCEPT ![i] = Tail(@)])
      BY Zenon, <1>7 DEF RequestFails, Pump, PumpWrite, PumpDry, PumpCheck
    <2>2. QED
      BY Zenon, <1>0, <2>1 DEF Moves
  <1>8. CASE Actor
    BY ZenonT(40), <1>6, <1>7, <1>8, TwoRequests, TwoLosses DEF Actor
  <1>9. QED
    BY Zenon, <1>5, <1>8, Steps

LEMMA ChanMoves ==
    ASSUME TypeInv, ActorInv, LifeInv, [Next]_vars, NEW j \in Calls
    PROVE  Moves(chan[j], chan'[j], Frames, Room(j))
  <1>0. chan \in [Calls -> Seq(Frames)]
    BY Zenon DEF TypeInv, ChanType
  <1>1. PICK l \in Frames : l = Frame(j, "lost", 0)
    BY IdTypes, FrameType DEF FrameTypes
  <1>2. ASSUME NEW i \in Calls,
               (\E k \in Kinds : Begin(i, k)) \/ Post(i) \/ Send(i) \/ SendClose(i) \/ ReceiveNone(i)
        PROVE  chan' = chan
    BY Zenon, <1>2 DEF Begin, Post, Send, SendClose, ReceiveNone
  <1>3. ASSUME NEW i \in Calls, ServerChunk(i) \/ ServerAnswer(i) \/ ServerError(i)
        PROVE  chan' = chan
    BY Zenon, <1>3 DEF ServerChunk, ServerAnswer, ServerError
  <1>4. ASSUME NEW k \in Conns, ReadFrame(k) \/ ReadClosed(k) \/ ServerCloses(k) \/ ConnDrop(k)
        PROVE  chan' = chan
    BY Zenon, <1>4 DEF ReadFrame, ReadClosed, ServerCloses, ConnDrop, Disconnect
  <1>5. ASSUME NEW i \in Calls, Receive(i) \/ DropStream(i)
        PROVE  Moves(chan[j], chan'[j], Frames, Room(j))
    <2>1. chan' = [chan EXCEPT ![i] = <<>>] \/ (chan[i] # <<>> /\ chan' = [chan EXCEPT ![i] = Tail(@)])
      BY Zenon, <1>5 DEF Receive, DropStream
    <2>2. QED
      BY Zenon, <1>0, <2>1 DEF Moves
  <1>6. ASSUME NEW i \in Calls, DrainTask(i)
        PROVE  Moves(chan[j], chan'[j], Frames, Room(j))
    <2>1. IsStream(i)
      BY Zenon, <1>6 DEF DrainTask, LifeInv, ErrsInv
    <2>2. chan' = chan \/ (Len(chan[i]) < QueueCap /\ chan' = [chan EXCEPT ![i] = Append(@, Frame(i, "lost", 0))])
      BY Zenon, <1>6 DEF DrainTask
    <2>3. CASE i # j
      BY Zenon, <1>0, <2>2, <2>3 DEF Moves
    <2>4. CASE i = j
      <3>1. chan'[j] = chan[j] \/ (Len(chan[j]) < QueueCap /\ chan'[j] = Append(chan[j], l))
        BY ZenonT(40), <1>0, <1>1, <2>2, <2>4
      <3>2. Room(j) = QueueCap
        BY Zenon, <2>1, <2>4, RoomType
      <3>3. QED
        BY Zenon, <3>1, <3>2 DEF Moves
    <2>5. QED
      BY Zenon, <2>3, <2>4
  <1>7. CASE Outside
    BY ZenonT(40), <1>2, <1>3, <1>4, <1>5, <1>6, <1>7 DEF Outside, Moves, vars, Close
  <1>8. CASE Top \/ PumpDone \/ Redial \/ \E i \in Calls : Requests(i) \/ Pump(i)
    BY Zenon, <1>8 DEF Top, PumpDone, Redial, Requests, Pump, PumpWrite, PumpDry, PumpCheck, Moves
  <1>9. ASSUME NEW S, Drain(S) PROVE Moves(chan[j], chan'[j], Frames, Room(j))
    <2>1. chan'[j] = chan[j] \/ chan'[j] = <<Frame(j, "lost", 0)>>
      BY <1>9 DEF Drain
    <2>2. QED
      BY Zenon, <1>1, <2>1 DEF Moves
  <1>10. CASE (\E i \in Calls : RequestFails(i)) \/ ShutsDown \/ Loses
    BY Zenon, <1>9, <1>10 DEF RequestFails, ShutsDown, Loses, GivesUp
  <1>11. CASE TakeFrame
    <2>1. queue # <<>> /\ queue \in Seq(Frames)
      BY Zenon, <1>11 DEF TakeFrame, TypeInv, ReadTypes
    <2>2. PICK h \in Frames : h = Head(queue)
      BY Zenon, <2>1, TailOf
    <2>3. chan' = chan \/ chan' = [chan EXCEPT ![h.id] = <<h>>]
      BY Zenon, <1>11, <2>2 DEF TakeFrame
    <2>4. chan'[j] = chan[j] \/ chan'[j] = <<h>>
      BY Zenon, <1>0, <2>3
    <2>5. QED
      BY Zenon, <2>4 DEF Moves
  <1>12. CASE HandOver
    <2>1. PICK i \in Calls : i = hand.id /\ IsStream(i)
      BY Zenon, <1>12 DEF HandOver, ActorInv, HandInv
    <2>2. hand \in Frames
      BY Zenon DEF TypeInv, ActTypes
    <2>3. chan' = chan \/ (Len(chan[i]) < QueueCap /\ chan' = [chan EXCEPT ![i] = Append(@, hand)])
      BY Zenon, <1>12, <2>1 DEF HandOver
    <2>4. Room(i) = QueueCap
      BY Zenon, <2>1, RoomType
    <2>5. chan'[j] = chan[j] \/ (Len(chan[j]) < Room(j) /\ chan'[j] = Append(chan[j], hand))
      BY Zenon, <1>0, <2>3, <2>4
    <2>6. QED
      BY Zenon, <2>2, <2>5 DEF Moves
  <1>13. CASE Actor
    BY ZenonT(40), <1>8, <1>10, <1>11, <1>12, <1>13, TwoRequests, TwoLosses DEF Actor
  <1>14. QED
    BY Zenon, <1>7, <1>13, Steps

\* A channel keeps its capacity: a call whose pattern is yet to be chosen has an empty one.
LEMMA RoomKept ==
    ASSUME TypeInv, LifeInv, [Next]_vars, NEW i \in Calls
    PROVE  Room(i)' = Room(i) \/ chan'[i] = <<>>
  <1>1. CASE kind[i] # "none"
    <2>1. IsStream(i)' <=> IsStream(i)
      BY Zenon, <1>1, IsStreamKept
    <2>2. QED
      BY Zenon, <2>1 DEF Room
  <1>2. CASE kind[i] = "none" /\ kind' = kind
    BY Zenon, <1>2 DEF Room, IsStream
  <1>3. CASE kind[i] = "none" /\ kind' # kind
    <2>1. chan[i] = <<>>
      BY Zenon, <1>3 DEF LifeInv, PostedInv, BlankInv, Blank
    <2>2. PICK j \in Calls, k \in Kinds : Begin(j, k)
      <3>1. ASSUME NEW j \in Calls,
                   Post(j) \/ Send(j) \/ SendClose(j) \/ Receive(j) \/ ReceiveNone(j) \/ DropStream(j)
            PROVE  FALSE
        BY Zenon, <1>3, <3>1 DEF Post, Send, SendClose, Receive, ReceiveNone, DropStream
      <3>2. ASSUME NEW j \in Calls, DrainTask(j) \/ ServerChunk(j) \/ ServerAnswer(j) \/ ServerError(j)
            PROVE  FALSE
        BY Zenon, <1>3, <3>2 DEF DrainTask, ServerChunk, ServerAnswer, ServerError, appVars
      <3>3. ASSUME NEW k \in Conns, ReadFrame(k) \/ ReadClosed(k) \/ ServerCloses(k) \/ ConnDrop(k)
            PROVE  FALSE
        BY Zenon, <1>3, <3>3 DEF ReadFrame, ReadClosed, ServerCloses, ConnDrop, Disconnect, appVars
      <3>4. ASSUME Actor PROVE FALSE
        BY ZenonT(40), <1>3, <3>4 DEF Actor, Top, Pump, PumpWrite, PumpDry, PumpCheck, PumpDone, TakeCall, TakeShutdown,
                                 TakeFrame, HandOver, TakeClosed, Redial, appVars
      <3>5. QED
        BY ZenonT(40), <1>3, <3>1, <3>2, <3>3, <3>4, Steps DEF Outside, Close, vars, appVars
    <2>3. chan' = chan
      BY ZenonT(40), <2>2 DEF Begin
    <2>4. QED
      BY Zenon, <2>1, <2>3
  <1>4. QED
    BY Zenon, <1>1, <1>2, <1>3

LEMMA StepCaps ==
    ASSUME TypeInv, ActorInv, LifeInv, CapInv, [Next]_vars
    PROVE  CapInv'
  <1>1. CmdsShort'
    <2>1. cmds \in Seq(Calls \cup {Shutdown}) /\ Short(cmds, CmdCap)
      BY Zenon DEF TypeInv, CmdType, CapInv, CmdsShort
    <2>2. Short(cmds', CmdCap)
      BY ZenonT(40), <2>1, CmdMoves, RoomType, StaysShort
    <2>3. QED
      BY Zenon, <2>2 DEF CmdsShort, Short
  <1>2. QueueShort'
    <2>1. queue \in Seq(Frames) /\ Short(queue, QueueCap)
      BY Zenon DEF TypeInv, ReadTypes, CapInv, QueueShort
    <2>2. Short(queue', QueueCap)
      BY ZenonT(40), <2>1, QueueMoves, RoomType, StaysShort
    <2>3. QED
      BY Zenon, <2>2 DEF QueueShort, Short
  <1>3. ASSUME NEW i \in Calls PROVE Short(out'[i], QueueCap)
    <2>1. out[i] \in Seq(0..MaxIn) /\ Short(out[i], QueueCap)
      BY Zenon DEF TypeInv, OutType, CapInv, OutShort
    <2>2. QED
      BY Zenon, <2>1, OutMoves, RoomType, StaysShort
  <1>4. OutShort'
    BY Zenon, <1>3 DEF OutShort, Short
  <1>5. ASSUME NEW i \in Calls PROVE Short(chan[i], Room(i))'
    <2>1. chan[i] \in Seq(Frames) /\ Short(chan[i], Room(i))
      BY Zenon DEF TypeInv, ChanType, CapInv, ChanShort
    <2>2. Short(chan'[i], Room(i))
      BY Zenon, <2>1, ChanMoves, RoomType, StaysShort
    <2>3. CASE Room(i)' = Room(i)
      BY Zenon, <2>2, <2>3 DEF Short
    <2>4. CASE chan'[i] = <<>>
      <3>1. IsStream(i)' \/ ~IsStream(i)'
        OBVIOUS
      <3>2. Room(i)' = QueueCap \/ Room(i)' = 1
        BY Zenon, <3>1 DEF Room
      <3>3. PICK r : r = Room(i)'
        BY Zenon
      <3>4. Len(<<>>) <= r
        BY <3>2, <3>3, RustClientAssumption
      <3>5. QED
        BY Zenon, <2>4, <3>3, <3>4 DEF Short
    <2>5. QED
      BY Zenon, <2>3, <2>4, RoomKept
  <1>6. ChanShort'
    BY Zenon, <1>5 DEF ChanShort
  <1>7. QED
    BY Zenon, <1>1, <1>2, <1>4, <1>6 DEF CapInv

LEMMA InitCaps == Init => CapInv
  <1> SUFFICES ASSUME Init PROVE CapInv
    OBVIOUS
  <1>1. cmds = <<>> /\ queue = <<>> /\ \A i \in Calls : chan[i] = <<>> /\ out[i] = <<>>
    BY DEF Init
  <1>2. \A n \in Nat \ {0} : Short(<<>>, n)
    BY DEF Short
  <1>3. QED
    BY Zenon, <1>1, <1>2, RoomType DEF CapInv, CmdsShort, QueueShort, OutShort, ChanShort

\* The state is always well formed and no channel holds more than its capacity: senders wait,
\* or fail on purpose, and no task overfills a channel (Client::call, send, spawn_reader,
\* run_actor, drain_pending).
THEOREM TypesHold == Spec => []TypeOK
  <1>1. Init => StreamInv /\ CapInv
    BY InitStreams, InitCaps
  <1>2. (StreamInv /\ CapInv) /\ [Next]_vars => (StreamInv /\ CapInv)'
    BY StepStreams, StepCaps DEF StreamInv, ClientInv
  <1>3. StreamInv /\ CapInv => TypeOK
    <2> SUFFICES ASSUME StreamInv, CapInv PROVE TypeOK
      OBVIOUS
    <2>1. TypeInv
      BY Zenon DEF StreamInv, ClientInv
    <2>2. recv \in [Calls -> 0..MaxOut]
      <3>1. recv \in [Calls -> Nat] /\ sent \in [Calls -> 0..MaxOut]
        BY Zenon, <2>1 DEF TypeInv, AppTypes, SrvTypes
      <3>2. \A i \in Calls : recv[i] <= sent[i]
        BY Zenon DEF StreamInv, OrderInv, CallOrder, RecvInv
      <3>3. ASSUME NEW i \in Calls PROVE recv[i] \in 0..MaxOut
        <4>1. PICK r \in Nat, s \in 0..MaxOut : r = recv[i] /\ s = sent[i] /\ r <= s
          BY Zenon, <3>1, <3>2
        <4>2. r \in 0..MaxOut
          BY <4>1, RustClientAssumption
        <4>3. QED
          BY Zenon, <4>1, <4>2
      <3>4. QED
        BY Zenon, <3>1, <3>3
    <2>3. \A i \in Calls : out[i] \in Seq(0..MaxIn) /\ Len(out[i]) <= QueueCap
      BY Zenon, <2>1 DEF TypeInv, OutType, CapInv, OutShort, Short
    <2>4. \A i \in Calls : Len(chan[i]) <= (IF IsStream(i) THEN QueueCap ELSE 1)
      BY Zenon DEF CapInv, ChanShort, Short, Room
    <2>5. Len(cmds) <= CmdCap /\ Len(queue) <= QueueCap
      BY Zenon DEF CapInv, CmdsShort, QueueShort, Short
    <2>6. QED
      BY ZenonT(40), <2>1, <2>2, <2>3, <2>4, <2>5 DEF TypeOK, TypeInv, AppTypes, CmdType, ErrType, ActTypes, PumpTypes,
                                              ReadTypes, LinkTypes, SrvTypes
  <1>4. QED
    BY <1>1, <1>2, <1>3, PTL DEF Spec
=============================================================================
