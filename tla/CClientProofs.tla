---------------------------- MODULE CClientProofs ----------------------------
(***************************************************************************)
(* A program that ends each call before the next, and calls no function    *)
(* that streams as if it did not, reads only frames of the call it is in,  *)
(* and its streams come whole, until a read fails with more of its answer  *)
(* to come: for any number of calls and of chunks, and whatever the        *)
(* handlers, the connection and the failures of writes do.  What was       *)
(* received before such a read stays whole.                                *)
(***************************************************************************)
EXTENDS CClient, TLAPS

Frames == [id : Calls, type : Types, n : Nat]
AnyUse == (UNION {Uses[i] : i \in Calls}) \cup {NoCall}

\* The types of what the argument is about.
TypeInv ==
    /\ link \in {"up", "lost"} /\ (link = "lost" => toServer = <<>>)
    /\ toServer \in Seq(Frames) /\ toClient \in Seq(Frames)
    /\ next_id \in 0..MaxCalls /\ open \in 0..next_id
    /\ call \in [Calls -> AnyUse]
    /\ op \in {"none", "await", "recv", "killed"}
    /\ op \in {"await", "recv"} => open # 0
    /\ thread \in [Calls -> {"none", "run", "done"}]
    /\ emitted \in [Calls -> Nat] /\ got \in [Calls -> Seq(Nat)]
    /\ strayed \in BOOLEAN /\ adrift \in 0..next_id /\ (skewed => adrift # 0)

\* What is waited for is one frame, and a call that waits for one has a handler that does
\* not stream, or is refused.
CallInv ==
    /\ open # 0 => ~(call[open].handler = "stream" /\ call[open].how \in Waiting \cup {"export"})
    /\ op = "await" => call[open].how \in Waiting \cup {"export"}

\* The server works on the open call only; its request is under way at most once, and
\* before anything else of it happens.
ThreadInv ==
    /\ \A i \in Calls : i > next_id => thread[i] = "none"
    /\ \A i \in Calls : thread[i] = "none" => emitted[i] = 0 /\ got[i] = <<>>
    /\ \A i \in Calls : thread[i] = "run" => ~Refuses(i) /\ (link = "up" => i = open)
    /\ \A k \in DOMAIN toServer : toServer[k].type = "request" =>
         /\ toServer[k].id = open /\ thread[open] = "none"
         /\ \A j \in DOMAIN toServer : toServer[j].type = "request" => j = k

\* Every frame on its way to the client is of the open call: chunks numbered on from what
\* was received, then at most one other frame, the call's last.
FramesInv ==
    \A k \in DOMAIN toClient :
        /\ toClient[k].id = open /\ thread[open] # "none"
        /\ toClient[k].type = "stream_chunk" =>
             call[open].how \in {"stream", "bidi"} /\ toClient[k].n = Len(got[open]) + k
        /\ toClient[k].type # "stream_chunk" => k = Len(toClient) /\ thread[open] = "done"
        /\ toClient[k].type = "stream_end" =>
             open \in completed /\ Len(got[open]) + k - 1 = emitted[open]

\* What has been received is what was emitted, up to what is on its way.
StreamInv ==
    /\ \A i \in Calls : got[i] = [k \in 1..Len(got[i]) |-> k]
    /\ \A i \in ended :
         i \in Calls /\ i # open /\ i \in completed /\ Len(got[i]) = emitted[i] /\ thread[i] = "done"
    /\ (link = "up" /\ open # 0 /\ thread[open] = "run") => Len(got[open]) + Len(toClient) = emitted[open]

\* The inductive invariant: all of it, until the program strays or a read fails with more of
\* its answer to come.
OrderlyInv == ~mixed /\ CallInv /\ ThreadInv /\ FramesInv /\ StreamInv
OwnInv == TypeInv /\ (strayed \/ adrift # 0 \/ OrderlyInv)

\* After such a read: what was received up to that call stays as it was, since no function
\* reads for those calls any more and no thread of an ended one will run again.
LeftInv ==
    /\ open = 0 \/ open > adrift
    /\ \A i \in Calls : i <= adrift => got[i] = [k \in 1..Len(got[i]) |-> k]
    /\ \A i \in ended : i <= adrift =>
         i \in Calls /\ i \in completed /\ Len(got[i]) = emitted[i] /\ thread[i] = "done"
    /\ \A k \in DOMAIN toServer :
         toServer[k].type = "request" /\ toServer[k].id <= adrift => toServer[k].id \notin ended
DriftInv == strayed \/ adrift = 0 \/ LeftInv

-----------------------------------------------------------------------------
\* Sequences.

\* The rest of a queue, with its first element taken.
LEMMA TailFacts ==
    ASSUME NEW S, NEW q \in Seq(S), q # <<>>
    PROVE  /\ Tail(q) \in Seq(S) /\ Len(Tail(q)) = Len(q) - 1
           /\ 1 \in DOMAIN q /\ Head(q) = q[1] /\ Head(q) \in S
           /\ \A k \in DOMAIN Tail(q) : k + 1 \in DOMAIN q /\ Tail(q)[k] = q[k + 1] /\ k \in Nat \ {0}
  OBVIOUS

\* Every frame of a queue has the id of a call.
LEMMA IdsAreCalls ==
    ASSUME NEW q \in Seq(Frames)
    PROVE  \A k \in DOMAIN q : q[k].id \in Calls /\ q[k].id # 0
  <1>1. \A k \in DOMAIN q : q[k] \in Frames
    OBVIOUS
  <1>2. \A i \in Calls : i # 0
    BY CClientAssumption DEF Calls
  <1>3. QED
    BY <1>1, <1>2 DEF Frames

\* A queue with one more element at its end.
LEMMA AppendFacts ==
    ASSUME NEW S, NEW q \in Seq(S), NEW e \in S
    PROVE  /\ Append(q, e) \in Seq(S) /\ Len(Append(q, e)) = Len(q) + 1 /\ Len(q) \in Nat
           /\ \A k \in DOMAIN Append(q, e) :
                \/ k \in DOMAIN q /\ Append(q, e)[k] = q[k]
                \/ k = Len(q) + 1 /\ Append(q, e)[k] = e
  OBVIOUS

-----------------------------------------------------------------------------
\* The invariant holds when the client has connected.
LEMMA OwnInitInv == Init => OwnInv
  <1> SUFFICES ASSUME Init PROVE OwnInv
    OBVIOUS
  <1> USE CClientAssumption
  <1>1. TypeInv
    <2>1. NoCall \in AnyUse
      BY DEF AnyUse
    <2>2. call \in [Calls -> AnyUse] /\ got \in [Calls -> Seq(Nat)]
      BY <2>1 DEF Init
    <2>3. next_id \in 0..MaxCalls /\ open \in 0..next_id
      BY DEF Init
    <2>4. thread \in [Calls -> {"none", "run", "done"}] /\ emitted \in [Calls -> Nat]
      BY DEF Init
    <2>5. toServer \in Seq(Frames) /\ toClient \in Seq(Frames)
      BY DEF Init
    <2>6. QED
      BY Zenon, <2>2, <2>3, <2>4, <2>5 DEF Init, TypeInv
  <1>2. CallInv /\ ThreadInv /\ FramesInv
    BY DEF Init, CallInv, ThreadInv, FramesInv, Calls
  <1>3. StreamInv
    BY DEF Init, StreamInv, Calls
  <1>4. QED
    BY <1>1, <1>2, <1>3 DEF OwnInv, OrderlyInv, Init

\* Steps that touch no frame, no thread and nothing received keep the invariant: refused
\* arguments, writes that fail, calls of recv, a handler reading its input, SIGPIPE.
LEMMA QuietInv ==
    ASSUME OwnInv,
           UNCHANGED <<linkVars, call, open, got, ended, thread, emitted, completed, strayed, mixed, adrift, skewed>>,
           next_id' \in {next_id, next_id + 1}, next_id' <= MaxCalls,
           op' \in {op, "none", "killed", "recv"}, op' = "recv" => open # 0
    PROVE  OwnInv'
  <1> USE CClientAssumption
  <1>1. TypeInv'
    BY DEF OwnInv, TypeInv, linkVars
  <1>2. ASSUME OrderlyInv PROVE OrderlyInv'
    <2>1. CallInv'
      BY <1>2 DEF OrderlyInv, CallInv, linkVars
    <2>2. ThreadInv'
      <3>1. \A i \in Calls : i > next_id' => i > next_id
        BY DEF OwnInv, TypeInv, Calls
      <3>2. \A i \in Calls : Refuses(i)' <=> Refuses(i)
        BY DEF Refuses
      <3>3. QED
        BY <1>2, <3>1, <3>2 DEF OrderlyInv, ThreadInv, linkVars
    <2>3. FramesInv' /\ StreamInv'
      BY <1>2 DEF OrderlyInv, FramesInv, StreamInv, linkVars
    <2>4. QED
      BY <1>2, <2>1, <2>2, <2>3 DEF OrderlyInv
  <1>3. QED
    BY <1>1, <1>2 DEF OwnInv

\* A chunk or an end written by the client: toServer gains no request.
LEMMA UploadInv ==
    ASSUME OwnInv, open # 0,
           NEW t \in {"stream_chunk", "stream_close", "stream_end"}, Writes(Frame(open, t)),
           op' = op \/ (op' = "await" /\ call[open].how = "export"),
           UNCHANGED <<next_id, call, open, downVars, thread, emitted, completed, strayed, mixed, adrift, skewed>>
    PROVE  OwnInv'
  <1> USE CClientAssumption
  <1> DEFINE f == Frame(open, t)
  <1>1. open \in Calls /\ f \in Frames /\ f.type # "request"
    <2>1. open \in Calls
      BY DEF OwnInv, TypeInv, Calls
    <2>2. t \in Types /\ 0 \in Nat
      BY Zenon DEF Types
    <2>3. QED
      BY Zenon, <2>1, <2>2 DEF Frames, Frame
  <1> HIDE DEF f
  <1>2. /\ Append(toServer, f) \in Seq(Frames)
        /\ \A k \in DOMAIN Append(toServer, f) :
             Append(toServer, f)[k].type = "request" =>
               k \in DOMAIN toServer /\ Append(toServer, f)[k] = toServer[k]
    <2>1. toServer \in Seq(Frames)
      BY Zenon DEF OwnInv, TypeInv
    <2>2. QED
      BY <1>1, <2>1, AppendFacts
  <1>3. /\ toServer' = IF link = "up" THEN Append(toServer, f) ELSE toServer
        /\ link' = link /\ toClient' = toClient
    BY DEF Writes, f
  <1>4. TypeInv'
    BY Zenon, <1>1, <1>2, <1>3 DEF OwnInv, TypeInv, downVars, driftVars
  <1>5. ASSUME OrderlyInv PROVE OrderlyInv'
    <2>1. CallInv'
      BY <1>5 DEF OrderlyInv, CallInv
    <2>2. \A k \in DOMAIN toServer' : toServer'[k].type = "request" =>
            k \in DOMAIN toServer /\ toServer'[k] = toServer[k]
      BY <1>2, <1>3
    <2>3. ThreadInv'
      BY <1>5, <1>3, <2>2 DEF OrderlyInv, ThreadInv, downVars, driftVars, Refuses
    <2>4. FramesInv' /\ StreamInv'
      BY <1>5, <1>3 DEF OrderlyInv, FramesInv, StreamInv, downVars, driftVars
    <2>5. QED
      BY <1>5, <2>1, <2>3, <2>4 DEF OrderlyInv
  <1>6. QED
    BY Zenon, <1>4, <1>5 DEF OwnInv

\* A call is begun: if the program has not strayed, nothing is left of the last one.
LEMMA RequestInv ==
    ASSUME OwnInv, NEW u \in Uses[next_id + 1], Request(u),
           op' = op \/ (op' = "await" /\ u.how \in Waiting)
    PROVE  OwnInv'
  <1> USE CClientAssumption
  <1> DEFINE n == next_id + 1
             f == Frame(n, "request")
  <1>1. n \in Calls /\ f \in Frames /\ f.id = n /\ next_id' = n /\ open' = n /\ op = "none"
    <2>1. next_id < MaxCalls /\ next_id' = n /\ open' = n /\ op = "none"
      BY Zenon DEF Request, NewId
    <2>2. next_id \in 0..MaxCalls
      BY Zenon DEF OwnInv, TypeInv
    <2>3. n \in Calls
      BY <2>1, <2>2 DEF Calls
    <2>4. f \in Frames /\ f.id = n
      BY <2>3 DEF Frames, Types, Frame
    <2>5. QED
      BY Zenon, <2>1, <2>3, <2>4
  <1>2. call \in [Calls -> AnyUse] /\ u \in AnyUse /\ call' = [call EXCEPT ![n] = u]
    BY <1>1 DEF OwnInv, TypeInv, AnyUse, Request
  <1>3. /\ toServer' = IF link = "up" THEN Append(toServer, f) ELSE toServer
        /\ link' = link /\ toClient' = toClient
        /\ UNCHANGED <<got, ended, thread, emitted, completed, mixed, adrift, skewed>>
        /\ strayed' = (strayed \/ Strays(u))
    BY DEF Request, Writes, downVars, serverVars, driftVars
  <1> HIDE DEF f
  <1>4. /\ Append(toServer, f) \in Seq(Frames)
        /\ \A k \in DOMAIN Append(toServer, f) :
             \/ k \in DOMAIN toServer /\ Append(toServer, f)[k] = toServer[k]
             \/ k = Len(toServer) + 1 /\ Append(toServer, f)[k] = f
    BY <1>1, AppendFacts DEF OwnInv, TypeInv
  <1>5. call' \in [Calls -> AnyUse]
    BY <1>1, <1>2
  <1>6. TypeInv'
    <2>1. n \in 0..MaxCalls /\ n \in 0..n /\ n # 0
      BY <1>1 DEF Calls
    <2>2. adrift \in 0..n
      BY <1>1 DEF OwnInv, TypeInv
    <2> HIDE DEF n
    <2>3. QED
      BY Zenon, <1>1, <1>3, <1>4, <1>5, <2>1, <2>2 DEF OwnInv, TypeInv
  <1>7. ASSUME OrderlyInv, ~strayed' PROVE OrderlyInv'
    <2>1. open = 0 /\ ~(u.handler = "stream" /\ u.how \in Waiting \cup {"export"})
      BY Zenon, <1>7, <1>3 DEF Strays
    <2>2. toClient = <<>>
      <3>1. \A k \in DOMAIN toClient : toClient[k].id # 0
        BY IdsAreCalls DEF OwnInv, TypeInv
      <3>2. \A k \in DOMAIN toClient : toClient[k].id = 0
        BY Zenon, <1>7, <2>1 DEF OrderlyInv, FramesInv
      <3>3. QED
        BY Zenon, <3>1, <3>2, TailFacts DEF OwnInv, TypeInv
    <2>3. \A k \in DOMAIN toServer : toServer[k].type # "request"
      <3>1. \A k \in DOMAIN toServer : toServer[k].id # 0
        BY Zenon, IdsAreCalls DEF OwnInv, TypeInv
      <3>2. QED
        BY Zenon, <1>7, <2>1, <3>1 DEF OrderlyInv, ThreadInv
    <2>4. call'[n] = u /\ (\A i \in Calls : i # n => call'[i] = call[i])
      BY Zenon, <1>1, <1>2
    <2>5. thread[n] = "none" /\ \A i \in Calls : thread[i] = "run" => i # n
      BY <1>1, <1>7 DEF OrderlyInv, ThreadInv, OwnInv, TypeInv
    <2>6. CallInv'
      BY <1>1, <2>1, <2>4 DEF CallInv
    <2>7. \A k \in DOMAIN toServer' : toServer'[k].type = "request" =>
            toServer'[k] = f /\ k = Len(toServer) + 1
      BY Zenon, <1>3, <1>4, <2>3
    <2>8. ThreadInv'
      <3>1. \A i \in Calls : thread[i] = "run" => ~Refuses(i)' /\ link # "up"
        BY <1>7, <2>1, <2>4, <2>5 DEF OrderlyInv, ThreadInv, Refuses, Calls
      <3>2. \A i \in Calls : i > next_id' => thread[i] = "none"
        BY <1>1, <1>7 DEF OrderlyInv, ThreadInv, OwnInv, TypeInv, Calls
      <3>3. f.id = n
        BY Zenon DEF f, Frame
      <3> HIDE DEF n
      <3>4. QED
        BY <1>1, <1>3, <1>7, <2>5, <2>7, <3>1, <3>2, <3>3 DEF OrderlyInv, ThreadInv
    <2>9. FramesInv'
      BY <1>3, <2>2 DEF FramesInv
    <2>10. StreamInv'
      BY Zenon, <1>1, <1>3, <1>7, <2>5 DEF OrderlyInv, StreamInv
    <2>11. QED
      BY Zenon, <1>3, <1>7, <2>6, <2>8, <2>9, <2>10 DEF OrderlyInv
  <1>8. QED
    BY Zenon, <1>3, <1>6, <1>7 DEF OwnInv

-----------------------------------------------------------------------------
\* The client reads.

\* What is read is the head of the queue; the rest of the queue, one place on.
LEMMA ReadFacts ==
    ASSUME OwnInv, ReadsFrame
    PROVE  /\ toClient' \in Seq(Frames) /\ Len(toClient') = Len(toClient) - 1 /\ Len(toClient) \in Nat
           /\ 1 \in DOMAIN toClient /\ NextFrame = toClient[1] /\ NextFrame \in Frames
           /\ \A k \in DOMAIN toClient' :
                k + 1 \in DOMAIN toClient /\ toClient'[k] = toClient[k + 1] /\ k \in Nat \ {0}
           /\ link' = link /\ toServer' = toServer
           /\ mixed' = (mixed \/ NextFrame.id # open)
  <1>1. toClient \in Seq(Frames) /\ toClient # <<>> /\ toClient' = Tail(toClient)
    BY DEF OwnInv, TypeInv, ReadsFrame
  <1>2. QED
    BY <1>1, TailFacts DEF ReadsFrame, NextFrame

\* In an orderly program the frame read is of the open call, and nothing follows it unless
\* it is a chunk.
LEMMA ReadOwn ==
    ASSUME OwnInv, OrderlyInv, ReadsFrame
    PROVE  /\ ~mixed' /\ open \in Calls
           /\ NextFrame.type # "stream_chunk" => toClient' = <<>> /\ thread[open] = "done"
  <1>1. toClient[1].id = open /\ toClient[1].id \in Calls /\ ~mixed'
    BY Zenon, ReadFacts, IdsAreCalls DEF OrderlyInv, FramesInv, OwnInv, TypeInv
  <1>2. NextFrame.type # "stream_chunk" => 1 = Len(toClient) /\ thread[open] = "done"
    BY ReadFacts DEF OrderlyInv, FramesInv
  <1>3. Len(toClient') = 0 => toClient' = <<>>
    BY ReadFacts
  <1>4. QED
    BY <1>1, <1>2, <1>3, ReadFacts

\* The program leaves a call with nothing of it on its way to the client, and no thread of
\* it at work on a connection that is up.
LEMMA LeaveInv ==
    ASSUME OwnInv, OrderlyInv, TypeInv', open' = 0, op' = "none",
           ~mixed', toClient' = <<>>, link' = link, toServer' = toServer,
           open \in Calls, link = "up" => thread[open] = "done",
           UNCHANGED <<next_id, call, got, thread, emitted, completed>>,
           \/ ended' = ended
           \/ /\ ended' = ended \cup {open} /\ open \in completed
              /\ Len(got[open]) = emitted[open] /\ thread[open] = "done"
    PROVE  OrderlyInv'
  <1>1. CallInv' /\ FramesInv'
    BY DEF CallInv, FramesInv
  <1>2. ThreadInv'
    <2>1. \A k \in DOMAIN toServer : toServer[k].type # "request"
      <3>1. link = "up" => \A k \in DOMAIN toServer : toServer[k].type # "request"
        BY DEF OrderlyInv, ThreadInv
      <3>2. link # "up" => \A k \in DOMAIN toServer : toServer[k].type # "request"
        BY DEF OwnInv, TypeInv
      <3>3. QED
        BY <3>1, <3>2
    <2>2. \A i \in Calls : Refuses(i)' <=> Refuses(i)
      BY DEF Refuses
    <2>3. \A i \in Calls : thread[i] = "run" => link # "up"
      BY Zenon DEF OrderlyInv, ThreadInv
    <2>4. QED
      BY <2>1, <2>2, <2>3 DEF OrderlyInv, ThreadInv
  <1>3. StreamInv'
    <2>1. \A i \in Calls : i # 0
      BY CClientAssumption DEF Calls
    <2>2. QED
      BY Zenon, <2>1 DEF OrderlyInv, StreamInv
  <1>4. QED
    BY <1>1, <1>2, <1>3 DEF OrderlyInv

\* recv has its frame.
LEMMA ReceiveInv ==
    ASSUME OwnInv, Receive
    PROVE  OwnInv'
  <1> DEFINE r == Gets(NextFrame.type)
  <1>1. /\ ReadsFrame /\ op = "recv" /\ op' = "none" /\ open # 0 /\ open \in Calls
        /\ got' = IF r = "ok" THEN [got EXCEPT ![open] = Append(@, NextFrame.n)] ELSE got
        /\ ended' = IF r = "end" THEN ended \cup {open} ELSE ended
        /\ open' = IF r = "ok" THEN open ELSE 0
        /\ UNCHANGED <<next_id, call, thread, emitted, completed, strayed, adrift, skewed>>
    <2>1. open \in Calls /\ open # 0
      BY CClientAssumption DEF OwnInv, TypeInv, Calls, Receive
    <2>2. QED
      BY Zenon, <2>1 DEF Receive, serverVars, driftVars
  <1>2. /\ r = "ok" <=> NextFrame.type = "stream_chunk"
        /\ r = "end" <=> NextFrame.type = "stream_end"
    BY Zenon DEF Gets
  <1>3. NextFrame \in Frames /\ NextFrame.n \in Nat
    BY <1>1, ReadFacts DEF Frames
  <1> HIDE DEF r
  <1>4. got \in [Calls -> Seq(Nat)] /\ Append(got[open], NextFrame.n) \in Seq(Nat)
    BY <1>1, <1>3 DEF OwnInv, TypeInv
  <1>5. got' \in [Calls -> Seq(Nat)]
    BY Zenon, <1>1, <1>4
  <1>6. TypeInv'
    <2>1. open' \in 0..next_id /\ next_id \in 0..MaxCalls
      BY <1>1 DEF OwnInv, TypeInv
    <2>2. QED
      BY Zenon, <1>1, <1>5, <2>1, ReadFacts DEF OwnInv, TypeInv
  <1>7. ASSUME OrderlyInv, r # "ok" PROVE OrderlyInv'
    <2>1. /\ ~mixed' /\ toClient' = <<>> /\ thread[open] = "done"
          /\ link' = link /\ toServer' = toServer
      BY <1>1, <1>2, <1>7, ReadOwn, ReadFacts
    <2>2. r = "end" => open \in completed /\ Len(got[open]) = emitted[open]
      <3>1. r = "end" => open \in completed /\ Len(got[open]) + 1 - 1 = emitted[open]
        BY <1>1, <1>2, <1>7, ReadFacts DEF OrderlyInv, FramesInv
      <3>2. Len(got[open]) \in Nat
        BY <1>1, <1>4
      <3>3. QED
        BY <3>1, <3>2
    <2>3. QED
      BY <1>1, <1>6, <1>7, <2>1, <2>2, LeaveInv
  <1>8. ASSUME OrderlyInv, r = "ok" PROVE OrderlyInv'
    <2>1. ~mixed' /\ open' = open
      BY <1>1, <1>8, ReadOwn
    <2>2. /\ got'[open] = Append(got[open], NextFrame.n)
          /\ Len(got'[open]) = Len(got[open]) + 1 /\ Len(got[open]) \in Nat
          /\ \A i \in Calls : i # open => got'[i] = got[i]
      BY <1>1, <1>4, <1>8
    <2>3. NextFrame.n = Len(got[open]) + 1 /\ thread[open] # "none"
      BY <1>1, <1>2, <1>8, ReadFacts DEF OrderlyInv, FramesInv
    <2>4. CallInv'
      BY <1>1, <1>8, <2>1 DEF CallInv, OrderlyInv
    <2>5. ThreadInv'
      <3>1. \A i \in Calls : Refuses(i)' <=> Refuses(i)
        BY <1>1 DEF Refuses
      <3>2. \A i \in Calls : thread[i] = "none" => got'[i] = got[i]
        BY <2>2, <2>3
      <3>3. link' = link /\ toServer' = toServer
        BY <1>1, ReadFacts
      <3>4. QED
        BY Zenon, <1>1, <1>8, <2>1, <3>1, <3>2, <3>3 DEF OrderlyInv, ThreadInv
    <2>6. FramesInv'
      <3> SUFFICES ASSUME NEW k \in DOMAIN toClient'
                   PROVE  /\ toClient'[k].id = open /\ thread[open] # "none"
                          /\ toClient'[k].type = "stream_chunk" =>
                               /\ call[open].how \in {"stream", "bidi"}
                               /\ toClient'[k].n = Len(got'[open]) + k
                          /\ toClient'[k].type # "stream_chunk" =>
                               k = Len(toClient') /\ thread[open] = "done"
                          /\ toClient'[k].type = "stream_end" =>
                               open \in completed /\ Len(got'[open]) + k - 1 = emitted[open]
        BY <1>1, <2>1 DEF FramesInv
      <3>1. /\ k + 1 \in DOMAIN toClient /\ toClient'[k] = toClient[k + 1] /\ k \in Nat
            /\ Len(toClient') = Len(toClient) - 1 /\ Len(toClient) \in Nat
        BY <1>1, ReadFacts
      <3>2. /\ toClient[k + 1].id = open /\ thread[open] # "none"
            /\ toClient[k + 1].type = "stream_chunk" =>
                 call[open].how \in {"stream", "bidi"} /\ toClient[k + 1].n = Len(got[open]) + (k + 1)
            /\ toClient[k + 1].type # "stream_chunk" => k + 1 = Len(toClient) /\ thread[open] = "done"
            /\ toClient[k + 1].type = "stream_end" =>
                 open \in completed /\ Len(got[open]) + (k + 1) - 1 = emitted[open]
        BY <1>8, <3>1 DEF OrderlyInv, FramesInv
      <3>3. /\ Len(got[open]) + (k + 1) = Len(got'[open]) + k
            /\ Len(got[open]) + (k + 1) - 1 = Len(got'[open]) + k - 1
            /\ k + 1 = Len(toClient) => k = Len(toClient')
        <4> DEFINE a == Len(got[open])
                   b == Len(got'[open])
                   c == Len(toClient)
                   d == Len(toClient')
        <4>1. a \in Nat /\ c \in Nat /\ b = a + 1 /\ d = c - 1 /\ k \in Nat
          BY <3>1, <2>2
        <4> HIDE DEF a, b, c, d
        <4>2. a + (k + 1) = b + k /\ a + (k + 1) - 1 = b + k - 1 /\ (k + 1 = c => k = d)
          BY <4>1
        <4>3. QED
          BY Zenon, <4>2 DEF a, b, c, d
      <3>4. QED
        BY <3>1, <3>2, <3>3
    <2>7. StreamInv'
      <3>1. got'[open] = [k \in 1..Len(got'[open]) |-> k]
        <4>1. got[open] = [k \in 1..Len(got[open]) |-> k]
          BY Zenon, <1>1, <1>8 DEF OrderlyInv, StreamInv
        <4>2. QED
          BY <4>1, <2>2, <2>3, <1>4
      <3>2. \A i \in Calls : got'[i] = [k \in 1..Len(got'[i]) |-> k]
        BY Zenon, <1>8, <2>2, <3>1 DEF OrderlyInv, StreamInv
      <3>3. ended' = ended /\ \A i \in ended :
              /\ i \in Calls /\ i # open /\ i \in completed
              /\ Len(got'[i]) = emitted[i] /\ thread[i] = "done"
        BY <1>1, <1>8, <2>2 DEF OrderlyInv, StreamInv
      <3>4. ASSUME link' = "up", thread[open] = "run"
            PROVE  Len(got'[open]) + Len(toClient') = emitted[open]
        <4>1. Len(got[open]) + Len(toClient) = emitted[open]
          BY <1>1, <1>8, <3>4, ReadFacts DEF OrderlyInv, StreamInv
        <4>2. Len(toClient') = Len(toClient) - 1 /\ Len(toClient) \in Nat
          BY <1>1, ReadFacts
        <4>3. QED
          BY <2>2, <4>1, <4>2
      <3>5. QED
        BY Zenon, <1>1, <2>1, <3>2, <3>3, <3>4 DEF StreamInv
    <2>8. QED
      BY <2>1, <2>4, <2>5, <2>6, <2>7 DEF OrderlyInv
  <1>9. QED
    BY Zenon, <1>1, <1>6, <1>7, <1>8 DEF OwnInv

\* A unary call or an upload has its answer.
LEMMA AnsweredInv ==
    ASSUME OwnInv, Answered
    PROVE  OwnInv'
  <1>1. /\ ReadsFrame /\ op = "await" /\ op' = "none" /\ open' = 0 /\ open \in Calls
        /\ UNCHANGED <<next_id, call, got, ended, thread, emitted, completed, strayed, adrift, skewed>>
    <2>1. open \in Calls
      BY CClientAssumption DEF OwnInv, TypeInv, Calls, Answered
    <2>2. QED
      BY <2>1 DEF Answered, downVars, serverVars, driftVars
  <1>2. TypeInv'
    <2>1. 0 \in 0..next_id
      BY DEF OwnInv, TypeInv
    <2>2. QED
      BY Zenon, <1>1, <2>1, ReadFacts DEF OwnInv, TypeInv
  <1>3. ASSUME OrderlyInv PROVE OrderlyInv'
    <2>1. NextFrame.type # "stream_chunk"
      <3>1. call[open].how \in Waiting \cup {"export"}
        BY <1>1, <1>3 DEF OrderlyInv, CallInv
      <3>2. call[open].how \notin {"stream", "bidi"}
        BY <3>1 DEF Waiting
      <3>3. QED
        BY <1>1, <1>3, <3>2, ReadFacts DEF OrderlyInv, FramesInv
    <2>2. /\ ~mixed' /\ toClient' = <<>> /\ thread[open] = "done"
          /\ link' = link /\ toServer' = toServer
      BY <1>1, <1>3, <2>1, ReadOwn, ReadFacts
    <2>3. QED
      BY <1>1, <1>2, <1>3, <2>2, LeaveInv
  <1>4. QED
    BY <1>1, <1>2, <1>3 DEF OwnInv

\* The read of a function fails.
LEMMA ReadFailsInv ==
    ASSUME OwnInv, ReadFails
    PROVE  OwnInv'
  <1>1. /\ op' = "none" /\ open' = 0 /\ open \in Calls /\ link = "lost" /\ (toClient = <<>> \/ skewed)
        /\ UNCHANGED <<linkVars, next_id, call, got, ended, thread, emitted, completed, strayed, mixed, adrift, skewed>>
    <2>1. open \in Calls
      BY CClientAssumption DEF OwnInv, TypeInv, Calls, ReadFails, Waits
    <2>2. QED
      BY <2>1 DEF ReadFails, downVars, serverVars, driftVars
  <1>2. TypeInv'
    <2>1. 0 \in 0..next_id
      BY DEF OwnInv, TypeInv
    <2>2. QED
      BY <1>1, <2>1 DEF OwnInv, TypeInv, linkVars
  <1>3. ASSUME OrderlyInv, adrift = 0 PROVE OrderlyInv'
    <2>1. ~mixed' /\ toClient' = <<>> /\ link' = link /\ toServer' = toServer /\ link # "up"
      BY <1>1, <1>3 DEF OrderlyInv, OwnInv, TypeInv, linkVars
    <2>2. QED
      BY <1>1, <1>2, <1>3, <2>1, LeaveInv
  <1>4. QED
    BY <1>1, <1>2, <1>3 DEF OwnInv

\* The codec refuses the frame read: the call's last, or a chunk.
LEMMA ReadRefusedInv ==
    ASSUME OwnInv, ReadRefused
    PROVE  OwnInv'
  <1>1. /\ ReadsFrame /\ op' = "none" /\ open' = 0 /\ open \in Calls /\ open # 0
        /\ UNCHANGED <<next_id, call, got, ended, thread, emitted, completed, strayed, skewed>>
        /\ adrift' = IF NextFrame.type = "stream_chunk" /\ adrift = 0 THEN open ELSE adrift
    <2>1. open \in Calls /\ open # 0
      BY CClientAssumption DEF OwnInv, TypeInv, Calls, ReadRefused, Waits
    <2>2. QED
      BY <2>1 DEF ReadRefused, Drifts, downVars, serverVars
  <1>2. TypeInv'
    <2>1. 0 \in 0..next_id /\ adrift' \in 0..next_id /\ (skewed => adrift' # 0)
      BY <1>1 DEF OwnInv, TypeInv
    <2>2. QED
      BY Zenon, <1>1, <2>1, ReadFacts DEF OwnInv, TypeInv
  <1>3. ASSUME OrderlyInv, NextFrame.type # "stream_chunk" PROVE OrderlyInv'
    <2>1. /\ ~mixed' /\ toClient' = <<>> /\ thread[open] = "done"
          /\ link' = link /\ toServer' = toServer
      BY <1>1, <1>3, ReadOwn, ReadFacts
    <2>2. QED
      BY <1>1, <1>2, <1>3, <2>1, LeaveInv
  <1>4. QED
    BY <1>1, <1>2, <1>3 DEF OwnInv

\* The read is cut short, or what is read is the rest of a frame that was.
LEMMA ReadCutInv ==
    ASSUME OwnInv, ReadCut \/ ReadSkewed
    PROVE  OwnInv'
  <1>1. open \in Calls /\ open # 0 /\ open \in 0..next_id
    <2>1. op \in {"await", "recv"}
      BY Zenon DEF ReadCut, ReadSkewed, Waits
    <2>2. QED
      BY <2>1, CClientAssumption DEF OwnInv, TypeInv, Calls
  <1>2. /\ op' = "none" /\ open' \in {0, open} /\ adrift' \in {adrift, open} /\ adrift' # 0
        /\ UNCHANGED <<linkVars, next_id, call, thread, emitted, strayed>>
    <2>1. CASE ReadCut
      BY <1>1, <2>1 DEF ReadCut, Drifts, serverVars
    <2>2. CASE ReadSkewed
      BY <1>1, <2>2 DEF ReadSkewed, serverVars, driftVars, OwnInv, TypeInv
    <2>3. QED
      BY <2>1, <2>2
  <1>3. got' \in [Calls -> Seq(Nat)]
    <2>1. got \in [Calls -> Seq(Nat)] /\ Append(got[open], 0) \in Seq(Nat)
      BY <1>1 DEF OwnInv, TypeInv
    <2>2. got' = got \/ got' = [got EXCEPT ![open] = Append(@, 0)]
      BY Zenon DEF ReadCut, ReadSkewed, downVars
    <2>3. QED
      BY Zenon, <2>1, <2>2
  <1>4. open' \in 0..next_id /\ adrift' \in 0..next_id
    BY <1>1, <1>2 DEF OwnInv, TypeInv
  <1>5. TypeInv'
    BY ZenonT(60), <1>2, <1>3, <1>4 DEF OwnInv, TypeInv, linkVars
  <1>6. QED
    BY Zenon, <1>2, <1>5 DEF OwnInv

-----------------------------------------------------------------------------
\* The server.

\* The rest of what the client has written, one place on.
LEMMA TakeFacts ==
    ASSUME OwnInv, TakesFrame
    PROVE  /\ toServer' \in Seq(Frames)
           /\ 1 \in DOMAIN toServer /\ Incoming = toServer[1] /\ Incoming.id \in Calls
           /\ \A k \in DOMAIN toServer' :
                k + 1 \in DOMAIN toServer /\ toServer'[k] = toServer[k + 1] /\ k + 1 # 1
           /\ link = "up" /\ link' = "up"
  <1>1. toServer \in Seq(Frames) /\ toServer # <<>> /\ toServer' = Tail(toServer)
    BY DEF OwnInv, TypeInv, TakesFrame
  <1>2. 1 \in DOMAIN toServer /\ Incoming = toServer[1] /\ toServer' \in Seq(Frames)
    BY <1>1, TailFacts DEF Incoming
  <1>3. \A k \in DOMAIN toServer' :
          k + 1 \in DOMAIN toServer /\ toServer'[k] = toServer[k + 1] /\ k \in Nat \ {0}
    BY <1>1, TailFacts
  <1>4. QED
    BY <1>1, <1>2, <1>3, IdsAreCalls DEF TakesFrame

\* Requests still under way after one frame was taken are those that were before; and none
\* if the frame was a request.
LEMMA TakeRequests ==
    ASSUME OwnInv, OrderlyInv, TakesFrame
    PROVE  /\ Incoming.type = "request" =>
                /\ Incoming.id = open /\ thread[open] = "none"
                /\ \A k \in DOMAIN toServer' : toServer'[k].type # "request"
           /\ \A k \in DOMAIN toServer' : toServer'[k].type = "request" =>
                /\ toServer'[k].id = open /\ thread[open] = "none"
                /\ \A j \in DOMAIN toServer' : toServer'[j].type = "request" => j = k
  <1>1. \A k \in DOMAIN toServer : toServer[k].type = "request" =>
          /\ toServer[k].id = open /\ thread[open] = "none"
          /\ \A j \in DOMAIN toServer : toServer[j].type = "request" => j = k
    BY DEF OrderlyInv, ThreadInv
  <1>2. Incoming.type = "request" => \A k \in DOMAIN toServer' : toServer'[k].type # "request"
    BY <1>1, TakeFacts
  <1>3. ASSUME NEW k \in DOMAIN toServer', toServer'[k].type = "request",
               NEW j \in DOMAIN toServer', toServer'[j].type = "request"
        PROVE  j = k
    <2>1. j + 1 = k + 1
      BY <1>1, <1>3, TakeFacts
    <2>2. toServer' \in Seq(Frames)
      BY TakeFacts
    <2>3. j \in Nat /\ k \in Nat
      BY <2>2
    <2>4. QED
      BY <2>1, <2>3
  <1>4. QED
    BY <1>1, <1>2, <1>3, TakeFacts

\* The read loop takes a request: it starts a thread, or refuses.
LEMMA ServerRequestInv ==
    ASSUME OwnInv, ServerRequest
    PROVE  OwnInv'
  <1> DEFINE i == Incoming.id
             e == Frame(i, "error")
  <1>1. /\ TakesFrame /\ Incoming.type = "request" /\ i \in Calls /\ link = "up" /\ link' = "up"
        /\ UNCHANGED <<next_id, call, open, op, got, ended, emitted, completed, strayed, mixed, adrift, skewed>>
    BY TakeFacts DEF ServerRequest, downVars, driftVars
  <1>2. \/ Refuses(i) /\ toClient' = Append(toClient, e) /\ thread' = [thread EXCEPT ![i] = "done"]
        \/ ~Refuses(i) /\ toClient' = toClient /\ thread' = [thread EXCEPT ![i] = "run"]
    BY DEF ServerRequest, Answers
  <1>3. e \in Frames /\ e.id = i /\ e.type = "error"
    <2>1. "error" \in Types /\ 0 \in Nat
      BY Zenon DEF Types
    <2>2. QED
      BY <1>1, <2>1 DEF Frame, Frames
  <1> HIDE DEF i, e
  <1>4. Append(toClient, e) \in Seq(Frames)
    BY <1>3 DEF OwnInv, TypeInv
  <1>5. thread \in [Calls -> {"none", "run", "done"}]
    BY Zenon DEF OwnInv, TypeInv
  <1>6. TypeInv'
    <2>1. toClient' \in Seq(Frames)
      BY Zenon, <1>2, <1>4 DEF OwnInv, TypeInv
    <2>2. thread' \in [Calls -> {"none", "run", "done"}]
      BY <1>2, <1>5
    <2>3. QED
      BY Zenon, <1>1, <2>1, <2>2, TakeFacts DEF OwnInv, TypeInv
  <1>7. ASSUME OrderlyInv PROVE OrderlyInv'
    <2>1. /\ i = open /\ thread[open] = "none" /\ open \in Calls
          /\ \A k \in DOMAIN toServer' : toServer'[k].type # "request"
      BY <1>1, <1>7, TakeRequests DEF i
    <2>2. toClient = <<>>
      <3>1. \A k \in DOMAIN toClient : FALSE
        BY <1>7, <2>1 DEF OrderlyInv, FramesInv
      <3>2. QED
        BY <3>1, TailFacts DEF OwnInv, TypeInv
    <2>3. /\ \A j \in Calls : j # open => thread'[j] = thread[j]
          /\ thread'[open] = IF Refuses(open) THEN "done" ELSE "run"
      BY <1>2, <1>5, <2>1
    <2>4. emitted[open] = 0 /\ got[open] = <<>>
      BY <1>7, <2>1 DEF OrderlyInv, ThreadInv
    <2>5. CallInv'
      BY <1>1, <1>7 DEF OrderlyInv, CallInv
    <2>6. ThreadInv'
      <3>1. \A j \in Calls : Refuses(j)' <=> Refuses(j)
        BY <1>1 DEF Refuses
      <3>2. \A j \in Calls : j > next_id => j # open
        BY DEF OwnInv, TypeInv, Calls
      <3>3. \A j \in Calls : thread'[j] = "none" => thread[j] = "none"
        BY Zenon, <2>3
      <3>4. \A j \in Calls : thread'[j] = "run" => ~Refuses(j) /\ j = open
        BY <1>1, <1>7, <2>3 DEF OrderlyInv, ThreadInv
      <3>5. QED
        BY <1>1, <1>7, <2>1, <2>3, <3>1, <3>2, <3>3, <3>4 DEF OrderlyInv, ThreadInv
    <2>7. FramesInv'
      <3>1. CASE ~Refuses(i)
        BY <1>2, <2>2, <3>1 DEF FramesInv
      <3>2. CASE Refuses(i)
        <4>1. toClient' = <<e>>
          BY <1>2, <2>2, <3>2
        <4>2. \A k \in DOMAIN toClient' : toClient'[k] = e /\ k = 1 /\ k = Len(toClient')
          BY <4>1
        <4>3. thread'[open] = "done"
          BY Zenon, <2>1, <2>3, <3>2
        <4>4. QED
          BY Zenon, <1>1, <1>3, <2>1, <4>2, <4>3 DEF FramesInv
      <3>3. QED
        BY Zenon, <3>1, <3>2
    <2>8. StreamInv'
      <3>1. \A j \in ended : j # open /\ j \in Calls /\ thread'[j] = "done"
        BY Zenon, <1>7, <2>3 DEF OrderlyInv, StreamInv
      <3>2. thread'[open] = "run" => toClient' = <<>>
        BY Zenon, <1>2, <2>1, <2>2, <2>3
      <3>3. thread'[open] = "run" => Len(got[open]) + Len(toClient') = emitted[open]
        BY <2>4, <3>2
      <3>4. QED
        BY Zenon, <1>1, <1>7, <3>1, <3>3 DEF OrderlyInv, StreamInv
    <2>9. QED
      BY <1>1, <1>7, <2>5, <2>6, <2>7, <2>8 DEF OrderlyInv
  <1>8. QED
    BY <1>1, <1>6, <1>7 DEF OwnInv

\* The read loop takes a chunk or an end.
LEMMA ServerInputInv ==
    ASSUME OwnInv, ServerInput
    PROVE  OwnInv'
  <1>1. /\ TakesFrame /\ link' = link
        /\ UNCHANGED <<toClient, next_id, call, open, op, got, ended, thread, emitted, completed, strayed, mixed,
             adrift, skewed>>
    BY Zenon, TakeFacts DEF ServerInput, downVars, driftVars
  <1>2. TypeInv'
    BY Zenon, <1>1, TakeFacts DEF OwnInv, TypeInv
  <1>3. ASSUME OrderlyInv PROVE OrderlyInv'
    <2>1. CallInv' /\ FramesInv' /\ StreamInv'
      BY Zenon, <1>1, <1>3 DEF OrderlyInv, CallInv, FramesInv, StreamInv
    <2>2. \A i \in Calls : Refuses(i)' <=> Refuses(i)
      BY Zenon, <1>1 DEF Refuses
    <2>3. ThreadInv'
      BY Zenon, <1>1, <1>3, <2>2, TakeRequests DEF OrderlyInv, ThreadInv
    <2>4. QED
      BY <1>1, <1>3, <2>1, <2>3 DEF OrderlyInv
  <1>4. QED
    BY Zenon, <1>1, <1>2, <1>3 DEF OwnInv

\* A handler emits a chunk, or answers: the queue of an orderly client gains a frame of the
\* open call.
LEMMA EmitInv ==
    ASSUME OwnInv, NEW i \in Calls, HandlerEmit(i)
    PROVE  OwnInv'
  <1> DEFINE f == ChunkFrame(i, emitted[i] + 1)
  <1>1. /\ link = "up" /\ link' = link /\ toServer' = toServer /\ thread[i] = "run" /\ HasOutput(i)
        /\ emitted' = [emitted EXCEPT ![i] = @ + 1] /\ toClient' = Append(toClient, f)
        /\ UNCHANGED <<next_id, call, open, op, got, ended, thread, completed, strayed, mixed, adrift, skewed>>
    BY DEF HandlerEmit, Runs, Answers, downVars, driftVars
  <1>2. emitted \in [Calls -> Nat] /\ emitted[i] \in Nat /\ emitted[i] + 1 \in Nat
    BY DEF OwnInv, TypeInv
  <1>3. f \in Frames /\ f.id = i /\ f.type = "stream_chunk" /\ f.n = emitted[i] + 1
    <2>1. "stream_chunk" \in Types
      BY Zenon DEF Types
    <2>2. QED
      BY <1>2, <2>1 DEF ChunkFrame, Frames
  <1> HIDE DEF f
  <1>4. emitted' \in [Calls -> Nat] /\ emitted'[i] = emitted[i] + 1
        /\ \A j \in Calls : j # i => emitted'[j] = emitted[j]
    BY Zenon, <1>1, <1>2
  <1>5. /\ toClient' \in Seq(Frames) /\ Len(toClient') = Len(toClient) + 1 /\ Len(toClient) \in Nat
        /\ \A k \in DOMAIN toClient' :
             \/ k \in DOMAIN toClient /\ toClient'[k] = toClient[k]
             \/ k = Len(toClient) + 1 /\ toClient'[k] = f
    BY SMTT(40), <1>1, <1>3, AppendFacts DEF OwnInv, TypeInv
  <1>6. TypeInv'
    BY Zenon, <1>1, <1>4, <1>5 DEF OwnInv, TypeInv
  <1>7. ASSUME OrderlyInv PROVE OrderlyInv'
    <2>1. i = open /\ open # 0 /\ ~Refuses(open)
      <3>1. \A j \in Calls : thread[j] = "run" => ~Refuses(j) /\ (link = "up" => j = open)
        BY <1>7 DEF OrderlyInv, ThreadInv
      <3>2. i # 0
        BY CClientAssumption DEF Calls
      <3>3. QED
        BY Zenon, <1>1, <3>1, <3>2
    <2>2. Len(got[open]) + Len(toClient) = emitted[open] /\ Len(got[open]) \in Nat
      <3>1. got[open] \in Seq(Nat)
        BY Zenon, <2>1 DEF OwnInv, TypeInv
      <3>2. (link = "up" /\ open # 0 /\ thread[open] = "run") =>
              Len(got[open]) + Len(toClient) = emitted[open]
        BY <1>7 DEF OrderlyInv, StreamInv
      <3>3. QED
        BY <1>1, <2>1, <3>1, <3>2
    <2>3. Len(got[open]) + (Len(toClient) + 1) = emitted[open] + 1
      <3> DEFINE a == Len(got[open])
                 b == Len(toClient)
      <3>1. a \in Nat /\ b \in Nat /\ a + b = emitted[open]
        BY <1>5, <2>2
      <3> HIDE DEF a, b
      <3>2. a + (b + 1) = emitted[open] + 1
        BY <3>1
      <3>3. QED
        BY Zenon, <3>2 DEF a, b
    <2>4. call[open].how \in {"stream", "bidi"}
      <3>1. call[open].handler \in {"stream", "bidi"}
        BY <1>1, <2>1 DEF HasOutput
      <3>2. call[open].handler = "bidi" => call[open].how = "bidi"
        BY <2>1 DEF Refuses
      <3>3. call[open].handler = "stream" => call[open].how \in Hows \ (Waiting \cup {"export"})
        <4>1. call[open] \in AnyUse
          BY <2>1 DEF OwnInv, TypeInv
        <4>2. NoCall.handler # "stream"
          BY DEF NoCall
        <4>3. call[open].handler = "stream" => \E j \in Calls : call[open] \in Uses[j]
          BY <4>1, <4>2 DEF AnyUse
        <4>4. call[open].handler = "stream" => call[open].how \in Hows
          BY <4>3, CClientAssumption DEF Calls
        <4>5. QED
          BY <1>7, <2>1, <4>4 DEF OrderlyInv, CallInv
      <3>4. QED
        BY <3>1, <3>2, <3>3 DEF Hows
    <2>5. CallInv'
      BY SMTT(40), <1>1, <1>7 DEF OrderlyInv, CallInv
    <2>6. ThreadInv'
      <3>1. \A j \in Calls : Refuses(j)' <=> Refuses(j)
        BY <1>1 DEF Refuses
      <3>2. \A j \in Calls : thread[j] = "none" => emitted'[j] = emitted[j]
        BY Zenon, <1>1, <1>4
      <3>3. QED
        BY SMTT(40), <1>1, <1>7, <3>1, <3>2 DEF OrderlyInv, ThreadInv
    <2>7. FramesInv'
      <3> SUFFICES ASSUME NEW k \in DOMAIN toClient'
                   PROVE  /\ toClient'[k].id = open /\ thread[open] # "none"
                          /\ toClient'[k].type = "stream_chunk"
                          /\ call[open].how \in {"stream", "bidi"}
                          /\ toClient'[k].n = Len(got[open]) + k
        BY Zenon, <1>1 DEF FramesInv
      <3>1. CASE k \in DOMAIN toClient /\ toClient'[k] = toClient[k]
        BY Zenon, <1>1, <1>7, <2>1, <2>4, <3>1 DEF OrderlyInv, FramesInv
      <3>2. CASE k = Len(toClient) + 1 /\ toClient'[k] = f
        <4>1. f.n = Len(got[open]) + k
          BY Zenon, <1>3, <2>1, <2>3, <3>2
        <4>2. QED
          BY Zenon, <1>1, <1>3, <2>1, <2>4, <3>2, <4>1
      <3>3. QED
        BY Zenon, <1>5, <3>1, <3>2
    <2>8. StreamInv'
      <3>1. Len(got[open]) + Len(toClient') = emitted'[open]
        BY Zenon, <1>4, <1>5, <2>1, <2>3
      <3>2. \A j \in ended : j # i /\ j \in Calls
        BY <1>7, <2>1 DEF OrderlyInv, StreamInv
      <3>3. QED
        BY Zenon, <1>1, <1>4, <1>7, <3>1, <3>2 DEF OrderlyInv, StreamInv
    <2>9. QED
      BY <1>1, <1>7, <2>5, <2>6, <2>7, <2>8 DEF OrderlyInv
  <1>8. QED
    BY Zenon, <1>1, <1>6, <1>7 DEF OwnInv

\* A handler returns, and its thread writes the call's last frame.
LEMMA AnswerInv ==
    ASSUME OwnInv, NEW i \in Calls, HandlerAnswers(i)
    PROVE  OwnInv'
  <1>1. /\ link = "up" /\ link' = link /\ toServer' = toServer /\ thread[i] = "run"
        /\ thread' = [thread EXCEPT ![i] = "done"]
        /\ UNCHANGED <<next_id, call, open, op, got, ended, emitted, strayed, mixed, adrift, skewed>>
    BY Zenon DEF HandlerAnswers, Runs, downVars, driftVars
  <1>2. PICK t \in {"error", "stream_end", "response"} :
          /\ toClient' = Append(toClient, Frame(i, t))
          /\ completed \subseteq completed' /\ (t = "stream_end" => i \in completed')
    BY Zenon DEF HandlerAnswers, Answers
  <1> DEFINE f == Frame(i, t)
  <1>3. f \in Frames /\ f.id = i /\ f.type = t /\ t # "stream_chunk"
    <2>1. t \in Types /\ 0 \in Nat
      BY DEF Types
    <2>2. QED
      BY <2>1 DEF Frame, Frames
  <1>4. toClient' = Append(toClient, f)
    BY Zenon, <1>2
  <1> HIDE DEF f
  <1>5. /\ toClient' \in Seq(Frames) /\ Len(toClient') = Len(toClient) + 1 /\ Len(toClient) \in Nat
        /\ \A k \in DOMAIN toClient' :
             \/ k \in DOMAIN toClient /\ toClient'[k] = toClient[k]
             \/ k = Len(toClient) + 1 /\ toClient'[k] = f
    BY <1>3, <1>4, AppendFacts DEF OwnInv, TypeInv
  <1>6. /\ thread \in [Calls -> {"none", "run", "done"}] /\ thread' \in [Calls -> {"none", "run", "done"}]
        /\ thread'[i] = "done" /\ \A j \in Calls : j # i => thread'[j] = thread[j]
    BY Zenon, <1>1 DEF OwnInv, TypeInv
  <1>7. TypeInv'
    BY Zenon, <1>1, <1>5, <1>6 DEF OwnInv, TypeInv
  <1>8. ASSUME OrderlyInv PROVE OrderlyInv'
    <2>1. i = open /\ open # 0
      <3>1. \A j \in Calls : thread[j] = "run" => (link = "up" => j = open)
        BY Zenon, <1>8 DEF OrderlyInv, ThreadInv
      <3>2. i # 0
        BY CClientAssumption DEF Calls
      <3>3. QED
        BY Zenon, <1>1, <3>1, <3>2
    <2>2. Len(got[open]) + Len(toClient) = emitted[open] /\ Len(got[open]) \in Nat
      <3>1. got[open] \in Seq(Nat)
        BY Zenon, <2>1 DEF OwnInv, TypeInv
      <3>2. (link = "up" /\ open # 0 /\ thread[open] = "run") =>
              Len(got[open]) + Len(toClient) = emitted[open]
        BY Zenon, <1>8 DEF OrderlyInv, StreamInv
      <3>3. QED
        BY <1>1, <2>1, <3>1, <3>2
    <2>3. CallInv'
      BY Zenon, <1>1, <1>8 DEF OrderlyInv, CallInv
    <2>4. ThreadInv'
      <3>1. \A j \in Calls : Refuses(j)' <=> Refuses(j)
        BY Zenon, <1>1 DEF Refuses
      <3>2. \A k \in DOMAIN toServer : toServer[k].type # "request"
        BY Zenon, <1>1, <1>8, <2>1 DEF OrderlyInv, ThreadInv
      <3>3. \A j \in Calls : j > next_id => j # i
        BY Zenon, <1>1, <1>8 DEF OrderlyInv, ThreadInv
      <3>4. QED
        BY Zenon, <1>1, <1>6, <1>8, <3>1, <3>2, <3>3 DEF OrderlyInv, ThreadInv
    <2>5. FramesInv'
      <3> SUFFICES ASSUME NEW k \in DOMAIN toClient'
                   PROVE  /\ toClient'[k].id = open /\ thread'[open] # "none"
                          /\ toClient'[k].type = "stream_chunk" =>
                               call[open].how \in {"stream", "bidi"} /\ toClient'[k].n = Len(got[open]) + k
                          /\ toClient'[k].type # "stream_chunk" =>
                               k = Len(toClient') /\ thread'[open] = "done"
                          /\ toClient'[k].type = "stream_end" =>
                               open \in completed' /\ Len(got[open]) + k - 1 = emitted[open]
        BY Zenon, <1>1 DEF FramesInv
      <3>1. CASE k \in DOMAIN toClient /\ toClient'[k] = toClient[k]
        BY SMTT(40), <1>1, <1>6, <1>8, <2>1, <3>1 DEF OrderlyInv, FramesInv
      <3>2. CASE k = Len(toClient) + 1 /\ toClient'[k] = f
        <4>1. Len(got[open]) + k - 1 = emitted[open] /\ k = Len(toClient')
          BY <1>5, <2>2, <3>2
        <4>2. QED
          BY Zenon, <1>2, <1>3, <1>6, <2>1, <3>2, <4>1
      <3>3. QED
        BY Zenon, <1>5, <3>1, <3>2
    <2>6. StreamInv'
      BY ZenonT(60), <1>1, <1>2, <1>6, <1>8, <2>1 DEF OrderlyInv, StreamInv
    <2>7. QED
      BY Zenon, <1>1, <1>8, <2>3, <2>4, <2>5, <2>6 DEF OrderlyInv
  <1>9. QED
    BY Zenon, <1>1, <1>7, <1>8 DEF OwnInv

\* The server gives up a call without a frame.
LEMMA DropInv ==
    ASSUME OwnInv, NEW i \in Calls, ServerDrops(i)
    PROVE  OwnInv'
  <1>1. /\ link = "up" /\ thread[i] = "run" /\ thread' = [thread EXCEPT ![i] = "done"]
        /\ UNCHANGED <<linkVars, next_id, call, open, op, got, ended, emitted, completed, strayed, mixed, adrift,
             skewed>>
    BY DEF ServerDrops, Runs, downVars, driftVars
  <1>2. /\ thread \in [Calls -> {"none", "run", "done"}] /\ thread' \in [Calls -> {"none", "run", "done"}]
        /\ thread'[i] = "done" /\ \A j \in Calls : j # i => thread'[j] = thread[j]
    BY <1>1 DEF OwnInv, TypeInv
  <1>3. TypeInv'
    BY <1>1, <1>2 DEF OwnInv, TypeInv, linkVars
  <1>4. ASSUME OrderlyInv PROVE OrderlyInv'
    <2>1. i = open
      BY SMTT(40), <1>1, <1>4 DEF OrderlyInv, ThreadInv
    <2>2. CallInv'
      BY Zenon, <1>1, <1>4 DEF OrderlyInv, CallInv
    <2>3. ThreadInv'
      <3>1. \A j \in Calls : Refuses(j)' <=> Refuses(j)
        BY ZenonT(60), <1>1 DEF Refuses
      <3>2. \A k \in DOMAIN toServer : toServer[k].type # "request"
        BY Zenon, <1>1, <1>4, <2>1 DEF OrderlyInv, ThreadInv
      <3>3. \A j \in Calls : j > next_id => j # i
        BY Zenon, <1>1, <1>4 DEF OrderlyInv, ThreadInv
      <3>4. QED
        BY SMTT(40), <1>1, <1>2, <1>4, <3>1, <3>2, <3>3 DEF OrderlyInv, ThreadInv, linkVars
    <2>4. FramesInv'
      BY Zenon, <1>1, <1>2, <1>4, <2>1 DEF OrderlyInv, FramesInv, linkVars
    <2>5. StreamInv'
      BY Zenon, <1>1, <1>2, <1>4, <2>1 DEF OrderlyInv, StreamInv, linkVars
    <2>6. QED
      BY SMTT(40), <1>1, <1>4, <2>2, <2>3, <2>4, <2>5 DEF OrderlyInv
  <1>5. QED
    BY <1>1, <1>3, <1>4 DEF OwnInv

\* The connection is lost.
LEMMA LoseInv ==
    ASSUME OwnInv, Lose
    PROVE  OwnInv'
  <1>1. /\ link' = "lost" /\ toServer' = <<>> /\ toClient' \in {toClient, <<>>}
        /\ UNCHANGED <<next_id, call, open, op, got, ended, thread, emitted, completed, strayed, mixed, adrift, skewed>>
    BY DEF Lose, downVars, serverVars, driftVars
  <1>2. TypeInv'
    <2>1. toClient \in Seq(Frames) /\ <<>> \in Seq(Frames)
      BY DEF OwnInv, TypeInv
    <2>2. QED
      BY ZenonT(60), <1>1, <2>1 DEF OwnInv, TypeInv
  <1>3. ASSUME OrderlyInv PROVE OrderlyInv'
    <2>1. CallInv' /\ StreamInv'
      BY Zenon, <1>1, <1>3 DEF OrderlyInv, CallInv, StreamInv
    <2>2. \A j \in Calls : Refuses(j)' <=> Refuses(j)
      BY Zenon, <1>1 DEF Refuses
    <2>3. ThreadInv'
      BY <1>1, <1>3, <2>2 DEF OrderlyInv, ThreadInv
    <2>4. FramesInv'
      <3>1. CASE toClient' = toClient
        BY Zenon, <1>1, <1>3, <3>1 DEF OrderlyInv, FramesInv
      <3>2. CASE toClient' = <<>>
        BY SMTT(40), <3>2 DEF FramesInv
      <3>3. QED
        BY Zenon, <1>1, <3>1, <3>2
    <2>5. QED
      BY Zenon, <1>1, <1>3, <2>1, <2>3, <2>4 DEF OrderlyInv
  <1>4. QED
    BY Zenon, <1>1, <1>2, <1>3 DEF OwnInv

-----------------------------------------------------------------------------
\* What the program does to a connection keeps the invariant.
LEMMA CallingInv ==
    ASSUME OwnInv, NEW i \in Calls, Calling(i)
    PROVE  OwnInv'
  <1>1. PICK u \in Uses[next_id + 1] : Begin(u) \/ BeginFails(u) \/ ArgsRefused(u)
    BY Zenon DEF Calling
  <1>2. CASE Begin(u)
    <2>1. Request(u) /\ (op' = op \/ (op' = "await" /\ u.how \in Waiting))
      BY Zenon, <1>2 DEF Begin, callwire_client_call, callwire_client_stream_begin,
           callwire_client_export_stream_begin, callwire_client_bidi_stream_begin
    <2>2. QED
      BY Zenon, <2>1, RequestInv
  <1>3. CASE BeginFails(u) \/ ArgsRefused(u)
    <2>1. next_id' \in {next_id, next_id + 1} /\ next_id' <= MaxCalls /\ op' = op
      <3>1. next_id \in Nat /\ MaxCalls \in Nat /\ next_id <= MaxCalls
        BY CClientAssumption DEF OwnInv, TypeInv
      <3>2. CASE BeginFails(u)
        BY <3>1, <3>2 DEF BeginFails, NewId
      <3>3. CASE ArgsRefused(u)
        BY Zenon, <3>1, <3>3 DEF ArgsRefused
      <3>4. QED
        BY Zenon, <1>3, <3>2, <3>3
    <2>2. op' = "recv" => open # 0
      BY SMTT(40), <2>1 DEF OwnInv, TypeInv
    <2>3. UNCHANGED <<linkVars, call, open, got, ended, thread, emitted, completed, strayed, mixed, adrift, skewed>>
      BY ZenonT(60), <1>3 DEF BeginFails, ArgsRefused, downVars, serverVars, driftVars
    <2>4. QED
      BY Zenon, <2>1, <2>2, <2>3, QuietInv
  <1>4. QED
    BY Zenon, <1>1, <1>2, <1>3

\* So does what it sends in a call.
LEMMA SendsInv ==
    ASSUME OwnInv, Sends
    PROVE  OwnInv'
  <1>1. CASE callwire_client_export_stream_send \/ callwire_client_bidi_stream_send
    <2>1. /\ open # 0 /\ Writes(Frame(open, "stream_chunk")) /\ op' = op
          /\ UNCHANGED <<next_id, call, open, downVars, thread, emitted, completed, strayed, mixed, adrift, skewed>>
      BY ZenonT(60), <1>1 DEF callwire_client_export_stream_send, callwire_client_bidi_stream_send, InUpload, In,
           SendChunk, serverVars, driftVars
    <2>2. QED
      BY <2>1, UploadInv
  <1>2. CASE callwire_client_export_stream_close
    <2>1. /\ open # 0 /\ Writes(Frame(open, "stream_close")) /\ op' = "await" /\ call[open].how = "export"
          /\ UNCHANGED <<next_id, call, open, downVars, thread, emitted, completed, strayed, mixed, adrift, skewed>>
      BY Zenon, <1>2 DEF callwire_client_export_stream_close, InUpload, In, serverVars, driftVars
    <2>2. QED
      BY Zenon, <2>1, UploadInv
  <1>3. CASE callwire_client_bidi_stream_close_send
    <2>1. /\ open # 0 /\ Writes(Frame(open, "stream_end")) /\ op' = op
          /\ UNCHANGED <<next_id, call, open, downVars, thread, emitted, completed, strayed, mixed, adrift, skewed>>
      BY <1>3 DEF callwire_client_bidi_stream_close_send, InUpload, In, serverVars, driftVars
    <2>2. QED
      BY Zenon, <2>1, UploadInv
  <1>4. CASE SendFails
    <2>1. next_id' = next_id /\ next_id <= MaxCalls /\ op' = op /\ op = "none"
      BY <1>4, CClientAssumption DEF SendFails, InUpload, In, OwnInv, TypeInv
    <2>2. UNCHANGED <<linkVars, call, open, got, ended, thread, emitted, completed, strayed, mixed, adrift, skewed>>
      BY Zenon, <1>4 DEF SendFails, downVars, serverVars, driftVars
    <2>3. QED
      BY Zenon, <2>1, <2>2, QuietInv
  <1>5. QED
    BY Zenon, <1>1, <1>2, <1>3, <1>4 DEF Sends

\* And a call of recv, SIGPIPE, or a handler that reads its input.
LEMMA WaitsInv ==
    ASSUME OwnInv,
           \/ callwire_client_stream_recv \/ callwire_client_bidi_stream_recv
           \/ Killed \/ \E i \in Calls : HandlerRecv(i)
    PROVE  OwnInv'
  <1>1. next_id' \in {next_id, next_id + 1} /\ next_id' <= MaxCalls
    <2>1. next_id' = next_id
      BY Zenon DEF callwire_client_stream_recv, callwire_client_bidi_stream_recv, Receives, Killed, HandlerRecv
    <2>2. next_id <= MaxCalls
      BY CClientAssumption DEF OwnInv, TypeInv
    <2>3. QED
      BY Zenon, <2>1, <2>2
  <1>2. op' \in {op, "killed", "recv"} /\ (op' = "recv" => open # 0)
    BY Zenon DEF callwire_client_stream_recv, callwire_client_bidi_stream_recv, Receives, In, Killed,
         HandlerRecv, OwnInv, TypeInv
  <1>3. UNCHANGED <<linkVars, call, open, got, ended, thread, emitted, completed, strayed, mixed, adrift, skewed>>
    BY Zenon DEF callwire_client_stream_recv, callwire_client_bidi_stream_recv, Receives, Killed,
         HandlerRecv, downVars, serverVars, driftVars
  <1>4. QED
    BY Zenon, <1>1, <1>2, <1>3, QuietInv

\* Every step keeps the invariant.
LEMMA OwnStepInv == OwnInv /\ [Next]_vars => OwnInv'
  <1> SUFFICES ASSUME OwnInv, [Next]_vars PROVE OwnInv'
    OBVIOUS
  <1>1. CASE UNCHANGED vars
    <2>1. /\ UNCHANGED <<linkVars, call, open, got, ended, thread, emitted, completed, strayed, mixed, adrift, skewed>>
          /\ next_id' = next_id /\ op' = op
      BY Zenon, <1>1 DEF vars, downVars, serverVars, driftVars
    <2>2. next_id <= MaxCalls /\ (op = "recv" => open # 0)
      BY CClientAssumption DEF OwnInv, TypeInv
    <2>3. QED
      BY Zenon, <2>1, <2>2, QuietInv
  <1>2. CASE callwire_client_stream_recv \/ callwire_client_bidi_stream_recv \/ Killed
    BY <1>2, WaitsInv
  <1>3. CASE Sends
    BY <1>3, SendsInv
  <1>4. CASE Reads
    BY <1>4, ReceiveInv, AnsweredInv, ReadRefusedInv, ReadFailsInv DEF Reads
  <1>5. CASE Serves
    BY Zenon, <1>5, ServerRequestInv, ServerInputInv DEF Serves
  <1>6. CASE Lose
    BY <1>6, LoseInv
  <1>7. ASSUME NEW i \in Calls, Calling(i) PROVE OwnInv'
    BY Zenon, <1>7, CallingInv
  <1>8. ASSUME NEW i \in Calls, Handles(i) PROVE OwnInv'
    BY <1>8, WaitsInv, EmitInv, AnswerInv, DropInv DEF Handles, HandlerReturns, HandlerReturnsEarly
  <1>9. CASE ReadCut \/ ReadSkewed
    BY Zenon, <1>9, ReadCutInv
  <1>10. QED
    BY Zenon, <1>1, <1>2, <1>3, <1>4, <1>5, <1>6, <1>7, <1>8, <1>9 DEF Next

\* The invariant holds always.
THEOREM OwnInvAlways == Spec => []OwnInv
  BY OwnInitInv, OwnStepInv, PTL DEF Spec

-----------------------------------------------------------------------------
\* What was received before a read failed in mid-answer.

\* A step keeps it that reads and writes for later calls only, and touches no call that has
\* ended.
LEMMA LeftKept ==
    ASSUME LeftInv, adrift' = adrift, open' \in {0, open} \/ open' > adrift,
           \A i \in Calls : i <= adrift => got'[i] = got[i],
           \A i \in ended' : i <= adrift => i \in ended,
           \A i \in ended : i \in Calls /\ i <= adrift /\ thread[i] = "done" =>
               emitted'[i] = emitted[i] /\ thread'[i] = "done" /\ (i \in completed => i \in completed'),
           \A k \in DOMAIN toServer' : toServer'[k].type = "request" /\ toServer'[k].id <= adrift =>
               \E j \in DOMAIN toServer : toServer[j] = toServer'[k]
    PROVE  LeftInv'
  <1>1. open' = 0 \/ open' > adrift
    BY Zenon DEF LeftInv
  <1>2. \A i \in Calls : i <= adrift => got'[i] = [k \in 1..Len(got'[i]) |-> k]
    BY Zenon DEF LeftInv
  <1>3. \A i \in ended' : i <= adrift =>
          i \in Calls /\ i \in completed' /\ Len(got'[i]) = emitted'[i] /\ thread'[i] = "done"
    BY Zenon DEF LeftInv
  <1>4. \A k \in DOMAIN toServer' :
          toServer'[k].type = "request" /\ toServer'[k].id <= adrift => toServer'[k].id \notin ended'
    <2> SUFFICES ASSUME NEW k \in DOMAIN toServer',
                        toServer'[k].type = "request", toServer'[k].id <= adrift
                 PROVE  toServer'[k].id \notin ended'
      BY Zenon
    <2>1. PICK j \in DOMAIN toServer : toServer[j] = toServer'[k]
      BY Zenon
    <2>2. toServer[j].id \notin ended
      BY Zenon, <2>1 DEF LeftInv
    <2>3. QED
      BY Zenon, <2>1, <2>2
  <1>5. QED
    BY Zenon, <1>1, <1>2, <1>3, <1>4 DEF LeftInv

\* The read that fails first: all calls up to it are in order.
LEMMA LeftBegins ==
    ASSUME OwnInv, OrderlyInv, open \in Calls, open' = 0, adrift' = open,
           UNCHANGED <<got, ended, thread, emitted, completed, toServer>>
    PROVE  LeftInv'
  <1>1. \A i \in ended : i \in Calls /\ i # open /\ i \in completed /\ Len(got[i]) = emitted[i]
          /\ thread[i] = "done"
    BY Zenon DEF OrderlyInv, StreamInv
  <1>2. \A k \in DOMAIN toServer : toServer[k].type = "request" => toServer[k].id = open
    BY Zenon DEF OrderlyInv, ThreadInv
  <1>3. \A i \in Calls : got[i] = [k \in 1..Len(got[i]) |-> k]
    BY Zenon DEF OrderlyInv, StreamInv
  <1>4. QED
    BY Zenon, <1>1, <1>2, <1>3 DEF LeftInv

\* Reading.
LEMMA ReadsLeft ==
    ASSUME OwnInv, DriftInv, ~strayed, Reads \/ ReadCut \/ ReadSkewed, adrift' # 0
    PROVE  LeftInv'
  <1>1. /\ open \in Calls /\ open # 0 /\ open' \in {0, open} /\ toServer' = toServer
        /\ UNCHANGED <<thread, emitted, completed>>
    <2>1. open \in Calls /\ open # 0
      <3>1. op \in {"await", "recv"}
        BY Zenon DEF Reads, Receive, Answered, ReadRefused, ReadFails, ReadCut, ReadSkewed, Waits
      <3>2. QED
        BY <3>1, CClientAssumption DEF OwnInv, TypeInv, Calls
    <2>2. CASE Receive \/ Answered \/ ReadRefused
      BY <2>1, <2>2 DEF Receive, Answered, ReadRefused, ReadsFrame, serverVars
    <2>3. CASE ReadFails \/ ReadCut \/ ReadSkewed
      BY <2>1, <2>3 DEF ReadFails, ReadCut, ReadSkewed, linkVars, serverVars
    <2>4. QED
      BY Zenon, <2>1, <2>2, <2>3 DEF Reads
  <1>2. CASE adrift = 0
    <2>1. ReadRefused \/ ReadCut
      BY Zenon, <1>2 DEF Reads, Receive, Answered, ReadFails, ReadSkewed, driftVars, OwnInv, TypeInv
    <2>2. open' = 0 /\ adrift' = open /\ UNCHANGED <<got, ended>>
      BY Zenon, <1>2, <2>1 DEF ReadRefused, ReadCut, Drifts, downVars
    <2>3. OrderlyInv
      BY Zenon, <1>2 DEF OwnInv
    <2>4. QED
      BY Zenon, <1>1, <2>2, <2>3, LeftBegins
  <1>3. CASE adrift # 0
    <2>1. LeftInv /\ open > adrift /\ adrift \in Nat /\ open \in Nat
      <3>1. LeftInv /\ open > adrift
        BY Zenon, <1>1, <1>3 DEF DriftInv, LeftInv
      <3>2. adrift \in Nat /\ open \in Nat
        BY DEF OwnInv, TypeInv
      <3>3. QED
        BY Zenon, <3>1, <3>2
    <2>2. adrift' = adrift
      BY Zenon, <1>3 DEF Reads, Receive, Answered, ReadFails, ReadRefused, ReadCut, ReadSkewed, Drifts,
           driftVars
    <2>3. \A i \in Calls : i <= adrift => i # open
      BY <2>1 DEF Calls
    <2>4. \A i \in Calls : i <= adrift => got'[i] = got[i]
      <3>1. got' = got \/ \E e : got' = [got EXCEPT ![open] = e]
        BY Zenon DEF Reads, Receive, Answered, ReadFails, ReadRefused, ReadCut, ReadSkewed, downVars
      <3>2. got \in [Calls -> Seq(Nat)]
        BY Zenon DEF OwnInv, TypeInv
      <3>3. QED
        BY Zenon, <2>3, <3>1, <3>2
    <2>5. ended' = ended \/ ended' = ended \cup {open}
      BY Zenon DEF Reads, Receive, Answered, ReadFails, ReadRefused, ReadCut, ReadSkewed, downVars
    <2>6. \A i \in ended' : i <= adrift => i \in ended
      BY Zenon, <1>1, <2>3, <2>5
    <2>7. QED
      BY Zenon, <1>1, <2>1, <2>2, <2>4, <2>6, LeftKept
  <1>4. QED
    BY Zenon, <1>2, <1>3

\* Writing: the one request a step may add is of a later call.
LEMMA WritesLeft ==
    ASSUME OwnInv, LeftInv, (\E i \in Calls : Calling(i)) \/ Sends
    PROVE  LeftInv'
  <1>1. UNCHANGED <<downVars, serverVars, driftVars>> /\ open' \in {open, next_id + 1}
    BY Zenon DEF Calling, Begin, BeginFails, ArgsRefused, Request, callwire_client_call,
         callwire_client_stream_begin, callwire_client_export_stream_begin,
         callwire_client_bidi_stream_begin, Sends, callwire_client_export_stream_send,
         callwire_client_bidi_stream_send, SendChunk, callwire_client_export_stream_close,
         callwire_client_bidi_stream_close_send, SendFails
  <1>2. \/ toServer' = toServer
        \/ \E f \in Frames : toServer' = Append(toServer, f) /\ (f.type = "request" => f.id = next_id + 1)
    <2> DEFINE New(f) == f \in Frames /\ (f.type = "request" => f.id = next_id + 1)
    <2>1. ASSUME NEW f, New(f), Writes(f)
          PROVE  toServer' = toServer \/ \E g : New(g) /\ toServer' = Append(toServer, g)
      BY Zenon, <2>1 DEF Writes
    <2>2. \A t \in Types \ {"request"} : open # 0 => New(Frame(open, t))
      <3>1. open # 0 => open \in Calls
        BY CClientAssumption DEF OwnInv, TypeInv, Calls
      <3>2. QED
        BY <3>1 DEF Frames, Frame
    <2>3. next_id < MaxCalls => New(Frame(next_id + 1, "request"))
      <3>1. next_id < MaxCalls => next_id + 1 \in Calls
        BY CClientAssumption DEF OwnInv, TypeInv, Calls
      <3>2. QED
        BY <3>1 DEF Frames, Frame, Types
    <2> HIDE DEF New
    <2>4. ASSUME NEW i \in Calls, Calling(i)
          PROVE  toServer' = toServer \/ \E g : New(g) /\ toServer' = Append(toServer, g)
      <3>1. \/ toServer' = toServer
            \/ next_id < MaxCalls /\ Writes(Frame(next_id + 1, "request"))
        BY Zenon, <2>4 DEF Calling, Begin, BeginFails, ArgsRefused, Request, NewId, linkVars, callwire_client_call,
             callwire_client_stream_begin, callwire_client_export_stream_begin,
             callwire_client_bidi_stream_begin
      <3>2. QED
        BY Zenon, <2>1, <2>3, <3>1
    <2>5. ASSUME Sends
          PROVE  toServer' = toServer \/ \E g : New(g) /\ toServer' = Append(toServer, g)
      <3>1. \/ toServer' = toServer
            \/ open # 0 /\ \E t \in {"stream_chunk", "stream_close", "stream_end"} : Writes(Frame(open, t))
        BY Zenon, <2>5 DEF Sends, callwire_client_export_stream_send, InUpload, In, linkVars,
             callwire_client_bidi_stream_send, SendChunk, callwire_client_export_stream_close,
             callwire_client_bidi_stream_close_send, SendFails
      <3>2. \A t \in {"stream_chunk", "stream_close", "stream_end"} : t \in Types \ {"request"}
        BY DEF Types
      <3>3. QED
        BY Zenon, <2>1, <2>2, <3>1, <3>2
    <2>6. QED
      BY Zenon, <2>4, <2>5 DEF New
  <1>3. next_id + 1 > adrift
    BY CClientAssumption DEF OwnInv, TypeInv
  <1>4. \A k \in DOMAIN toServer' : toServer'[k].type = "request" /\ toServer'[k].id <= adrift =>
          \E j \in DOMAIN toServer : toServer[j] = toServer'[k]
    <2>1. CASE toServer' = toServer
      BY Zenon, <2>1
    <2>2. ASSUME NEW f \in Frames, toServer' = Append(toServer, f), f.type = "request" => f.id = next_id + 1
          PROVE  \A k \in DOMAIN toServer' : toServer'[k].type = "request" /\ toServer'[k].id <= adrift =>
                   \E j \in DOMAIN toServer : toServer[j] = toServer'[k]
      <3>1. f.type = "request" => ~(f.id <= adrift)
        BY <1>3, <2>2 DEF OwnInv, TypeInv
      <3>2. \A k \in DOMAIN toServer' :
              (k \in DOMAIN toServer /\ toServer'[k] = toServer[k]) \/ toServer'[k] = f
        BY <2>2, AppendFacts DEF OwnInv, TypeInv
      <3>3. QED
        BY Zenon, <3>1, <3>2
    <2>3. QED
      BY Zenon, <1>2, <2>1, <2>2
  <1>5. QED
    BY Zenon, <1>1, <1>3, <1>4, LeftKept DEF downVars, serverVars, driftVars

\* The server: a thread at work, and a request that is taken, are of no call that has ended.
LEMMA ServesLeft ==
    ASSUME OwnInv, LeftInv, Serves \/ Lose \/ \E i \in Calls : Handles(i)
    PROVE  LeftInv'
  <1>1. /\ thread \in [Calls -> {"none", "run", "done"}] /\ emitted \in [Calls -> Nat]
    BY Zenon DEF OwnInv, TypeInv
  <1>2. UNCHANGED <<open, got, ended, adrift>>
    BY Zenon DEF Serves, ServerRequest, ServerInput, Lose, Handles, HandlerRecv, HandlerEmit, HandlerReturns,
         HandlerReturnsEarly, HandlerAnswers, ServerDrops, downVars, driftVars
  <1>3. CASE Serves
    <2>1. TakesFrame /\ UNCHANGED <<emitted, completed>>
          /\ \/ thread' = thread
             \/ Incoming.type = "request" /\ \E t : thread' = [thread EXCEPT ![Incoming.id] = t]
      BY Zenon, <1>3 DEF Serves, ServerRequest, ServerInput
    <2>2. \A k \in DOMAIN toServer' : \E j \in DOMAIN toServer : toServer[j] = toServer'[k]
      BY Zenon, <2>1, TakeFacts
    <2>3. \A i \in ended : i <= adrift /\ Incoming.type = "request" => i # Incoming.id
      <3>1. toServer[1].type = "request" /\ toServer[1].id <= adrift => toServer[1].id \notin ended
        BY Zenon, <2>1, TakeFacts DEF LeftInv
      <3>2. Incoming = toServer[1]
        BY Zenon, <2>1, TakeFacts
      <3>3. QED
        BY Zenon, <3>1, <3>2
    <2>4. \A i \in ended : i \in Calls /\ i <= adrift => thread'[i] = thread[i]
      BY Zenon, <1>1, <2>1, <2>3
    <2>5. QED
      BY Zenon, <1>2, <2>1, <2>2, <2>4, LeftKept
  <1>4. CASE Lose
    <2>1. toServer' = <<>> /\ UNCHANGED <<thread, emitted, completed>>
      BY Zenon, <1>4 DEF Lose, serverVars
    <2>2. \A k \in DOMAIN toServer' : FALSE
      BY <2>1
    <2>3. QED
      BY Zenon, <1>2, <2>1, <2>2, LeftKept
  <1>5. ASSUME NEW i \in Calls, Handles(i) PROVE LeftInv'
    <2>1. /\ thread[i] = "run" /\ toServer' = toServer /\ completed \subseteq completed'
          /\ emitted' = emitted \/ emitted' = [emitted EXCEPT ![i] = @ + 1]
          /\ thread' = thread \/ thread' = [thread EXCEPT ![i] = "done"]
      BY ZenonT(60), <1>5 DEF Handles, HandlerRecv, HandlerEmit, HandlerReturns, HandlerReturnsEarly,
           HandlerAnswers, ServerDrops, Runs, Answers, linkVars
    <2>2. \A j \in ended : j \in Calls /\ thread[j] = "done" => j # i
      BY Zenon, <2>1
    <2>3. \A j \in ended : j \in Calls /\ thread[j] = "done" =>
            emitted'[j] = emitted[j] /\ thread'[j] = "done"
      BY Zenon, <1>1, <2>1, <2>2
    <2>4. QED
      BY Zenon, <1>2, <2>1, <2>3, LeftKept
  <1>6. QED
    BY Zenon, <1>3, <1>4, <1>5

\* Every step keeps what was received before the reads went wrong.
LEMMA DriftStepInv == OwnInv /\ DriftInv /\ [Next]_vars => DriftInv'
  <1> SUFFICES ASSUME OwnInv, DriftInv, [Next]_vars PROVE DriftInv'
    OBVIOUS
  <1> SUFFICES ASSUME ~strayed, adrift' # 0 PROVE LeftInv'
    <2>1. strayed => strayed'
      <3>1. CASE (\E i \in Calls : Calling(i)) \/ Sends
        BY Zenon, <3>1 DEF Calling, Begin, BeginFails, ArgsRefused, Request, callwire_client_call,
             callwire_client_stream_begin, callwire_client_export_stream_begin,
             callwire_client_bidi_stream_begin, Sends, callwire_client_export_stream_send,
             callwire_client_bidi_stream_send, SendChunk, callwire_client_export_stream_close,
             callwire_client_bidi_stream_close_send, SendFails
      <3>2. CASE Reads \/ ReadCut \/ ReadSkewed
        BY Zenon, <3>2 DEF Reads, Receive, Answered, ReadRefused, ReadFails, ReadCut, ReadSkewed
      <3>3. CASE Serves \/ Lose \/ \E i \in Calls : Handles(i)
        BY Zenon, <3>3 DEF Serves, ServerRequest, ServerInput, Lose, Handles, HandlerRecv, HandlerEmit,
             HandlerReturns, HandlerReturnsEarly, HandlerAnswers, ServerDrops
      <3>4. CASE \/ UNCHANGED vars \/ callwire_client_stream_recv
                 \/ callwire_client_bidi_stream_recv \/ Killed
        BY Zenon, <3>4 DEF vars, callwire_client_stream_recv, callwire_client_bidi_stream_recv, Receives,
             Killed
      <3>5. QED
        BY Zenon, <3>1, <3>2, <3>3, <3>4 DEF Next
    <2>2. QED
      BY Zenon, <2>1 DEF DriftInv
  <1>1. CASE Reads \/ ReadCut \/ ReadSkewed
    BY Zenon, <1>1, ReadsLeft
  <1>2. ASSUME ~(Reads \/ ReadCut \/ ReadSkewed) PROVE LeftInv'
    <2>1. CASE \/ UNCHANGED vars \/ callwire_client_stream_recv
               \/ callwire_client_bidi_stream_recv \/ Killed
      <3>1. UNCHANGED <<toServer, open, got, ended, thread, emitted, completed, adrift>>
        BY Zenon, <2>1 DEF vars, callwire_client_stream_recv, callwire_client_bidi_stream_recv, Receives,
             Killed, linkVars, downVars, serverVars, driftVars
      <3>2. LeftInv
        BY Zenon, <3>1 DEF DriftInv
      <3>3. QED
        BY Zenon, <3>1, <3>2, LeftKept
    <2>2. CASE (\E i \in Calls : Calling(i)) \/ Sends
      <3>1. adrift' = adrift
        BY Zenon, <2>2 DEF Calling, Begin, BeginFails, ArgsRefused, Request, callwire_client_call,
             callwire_client_stream_begin, callwire_client_export_stream_begin,
             callwire_client_bidi_stream_begin, Sends, callwire_client_export_stream_send,
             callwire_client_bidi_stream_send, SendChunk, callwire_client_export_stream_close,
             callwire_client_bidi_stream_close_send, SendFails, driftVars
      <3>2. QED
        BY Zenon, <2>2, <3>1, WritesLeft DEF DriftInv
    <2>3. CASE Serves \/ Lose \/ \E i \in Calls : Handles(i)
      <3>1. adrift' = adrift
        BY Zenon, <2>3 DEF Serves, ServerRequest, ServerInput, Lose, Handles, HandlerRecv, HandlerEmit,
             HandlerReturns, HandlerReturnsEarly, HandlerAnswers, ServerDrops, driftVars
      <3>2. QED
        BY Zenon, <2>3, <3>1, ServesLeft DEF DriftInv
    <2>4. QED
      BY Zenon, <1>2, <2>1, <2>2, <2>3 DEF Next
  <1>3. QED
    BY Zenon, <1>1, <1>2

\* So it stays.
THEOREM DriftInvAlways == Spec => []DriftInv
  <1>1. Init => DriftInv
    BY Zenon DEF Init, DriftInv
  <1>2. QED
    BY <1>1, DriftStepInv, OwnInvAlways, PTL DEF Spec

-----------------------------------------------------------------------------
\* client.c never compares the id of a frame, and goes on with the connection after a read
\* that failed.  No function reads a frame of another call in a program that ends each call
\* before the next and does not await one answer of a function that streams, as long as no
\* chunk was refused by the codec and no read cut short.
THEOREM ClientReadsOwnFrames == Spec => []OwnFramesOnly
  <1>1. OwnInv => OwnFramesOnly
    BY Zenon DEF OwnInv, OrderlyInv, OwnFramesOnly
  <1>2. QED
    BY <1>1, OwnInvAlways, PTL

\* In such a program recv hands out the handler's chunks in order, and reports the end only
\* after all of them, of a handler that returned 0: of every call up to the first whose
\* read failed in mid-answer, that one included, also when what is left of that answer is
\* handed to later calls.
THEOREM StreamsComeWhole == Spec => []StreamWhole
  <1>1. OwnInv /\ DriftInv => StreamWhole
    <2>1. \A i \in Calls : i \in Nat
      BY CClientAssumption DEF Calls
    <2>2. QED
      BY <2>1 DEF OwnInv, OrderlyInv, StreamInv, DriftInv, LeftInv, StreamWhole
  <1>2. QED
    BY <1>1, OwnInvAlways, DriftInvAlways, PTL
=============================================================================
