----------------------------- MODULE RustClient -----------------------------
(***************************************************************************)
(* rust/src/client.rs: the client actor.  Callers queue commands; run_actor *)
(* owns the connection, the pending map and the outbound queues of client- *)
(* streaming and bidirectional calls; a reader task per connection feeds   *)
(* it frames.  At the top of its loop the actor pumps the outbound queues, *)
(* then it waits for a command or a frame.  A dropped sender or receiver   *)
(* is visible to the other side.  Server and network are the environment.  *)
(***************************************************************************)
EXTENDS Naturals, Sequences

CONSTANTS
    MaxCalls,    \* bound on next_id
    Kinds,       \* the calls made: import, import_stream, export_stream, import_bidi
    MaxConns,    \* bound on the connections dialled
    CmdCap,      \* capacity of the command channel (1024 in the code)
    QueueCap,    \* capacity of the reader channel (1024) and of a call's channels (256)
    MaxIn,       \* bound on the chunks a call sends
    MaxOut,      \* bound on the chunks the server sends in one call
    Modes        \* clients made: connect_with_reconnect (TRUE), connect (FALSE)

AllKinds == {"call", "stream", "export", "bidi"}

ASSUME RustClientAssumption ==
    /\ MaxCalls \in Nat \ {0} /\ MaxConns \in Nat \ {0}
    /\ CmdCap \in Nat \ {0} /\ QueueCap \in Nat \ {0}
    /\ MaxIn \in Nat /\ MaxOut \in Nat
    /\ Kinds \subseteq AllKinds
    /\ Modes \subseteq BOOLEAN /\ Modes # {}

Calls == 1..MaxCalls
Conns == 1..MaxConns
Shutdown == 0
CloseFrame == 0      \* the terminal payload of an outbound queue

VARIABLES
    reconnect,   \* the client's `reconnect`, which never changes
    kind,        \* kind[i]: the call's pattern, "none" before it begins
    cmds,        \* the command channel
    closing,     \* has close() been called?
    chan,        \* chan[i]: contents of the oneshot or mpsc channel to the caller
    errs,        \* calls for which drain_pending has spawned a task that is yet to send
    out,         \* out[i]: contents of chunk_rx or outbound_rx
    posted,      \* calls whose command the caller has sent, or failed to send
    ended,       \* calls whose caller has sent the terminal payload
    accepted,    \* accepted[i]: chunks for which send returned Ok
    recv,        \* recv[i]: chunks the caller has received
    outcome,     \* outcome[i]: how the call ended for its caller
    actor,       \* where run_actor is
    todo,        \* outbound queues the pump has yet to visit
    at,          \* the one it is at, 0 for none
    dry,         \* try_recv has found that one empty
    writer,      \* connection of `writer`, 0 for None
    pending,     \* domain of the pending map
    streams,     \* domains of export_streams and bidi_streams
    hand,        \* the frame the actor is sending to a stream's channel
    queue,       \* the reader channel
    reader,      \* reader[k]: the reader task of connection k
    dialled,     \* connections dialled so far
    link,        \* link[k]: "new", "up", "half" (we closed our side) or "down"
    wire,        \* wire[k]: frames sent by the server and not yet read
    srv,         \* srv[i]: connection on which the server has request i, 0 for none
    srvDone,     \* srvDone[i]: the server has finished call i
    sent,        \* sent[i]: chunks the server has sent
    upl,         \* upl[i]: chunks of call i the server has received, in order
    uplEnd       \* uplEnd[i]: the server has received the terminal payload

appVars   == <<reconnect, kind, closing, posted, ended, accepted, recv, outcome>>
pumpVars  == <<todo, at, dry>>
actVars   == <<actor, writer, pending, streams, hand>>
rdVars    == <<queue, reader>>
netVars   == <<dialled, link>>
srvVars   == <<srv, srvDone, sent, upl, uplEnd>>
vars == <<appVars, cmds, chan, errs, out, actVars, pumpVars, rdVars, netVars, wire, srvVars>>

Frame(i, t, n) == [id |-> i, type |-> t, seq |-> n]
NoFrame == Frame(0, "none", 0)
Closed(k) == Frame(k, "closed", 0)     \* ReaderMessage::Closed, tagged with its connection
IsStream(i) == kind[i] \in {"stream", "bidi"}
HasOut(i) == kind[i] \in {"export", "bidi"}

TypeOK ==
    /\ reconnect \in Modes
    /\ kind \in [Calls -> Kinds \cup {"none"}]
    /\ cmds \in Seq(Calls \cup {Shutdown}) /\ Len(cmds) <= CmdCap
    /\ closing \in BOOLEAN
    /\ \A i \in Calls : Len(chan[i]) <= (IF IsStream(i) THEN QueueCap ELSE 1)
    /\ \A i \in Calls : out[i] \in Seq(0..MaxIn) /\ Len(out[i]) <= QueueCap
    /\ errs \subseteq Calls /\ posted \subseteq Calls /\ ended \subseteq Calls
    /\ accepted \in [Calls -> 0..MaxIn] /\ recv \in [Calls -> 0..MaxOut]
    /\ outcome \in [Calls -> {"none", "answered", "end", "remote", "lost", "silent", "dropped"}]
    /\ actor \in {"top", "pump", "select", "send", "reconnect", "exited"}
    /\ todo \subseteq Calls /\ at \in {0} \cup Calls /\ dry \in BOOLEAN
    /\ writer \in {0} \cup Conns /\ pending \subseteq Calls /\ streams \subseteq Calls
    /\ Len(queue) <= QueueCap
    /\ reader \in [Conns -> {"none", "run", "done"}] /\ dialled \in Conns
    /\ link \in [Conns -> {"new", "up", "half", "down"}]
    /\ srv \in [Calls -> {0} \cup Conns] /\ srvDone \in [Calls -> BOOLEAN]
    /\ sent \in [Calls -> 0..MaxOut] /\ uplEnd \in [Calls -> BOOLEAN]

Init ==
    /\ reconnect \in Modes
    /\ kind = [i \in Calls |-> "none"]
    /\ cmds = <<>> /\ closing = FALSE
    /\ chan = [i \in Calls |-> <<>>] /\ errs = {}
    /\ out = [i \in Calls |-> <<>>] /\ posted = {} /\ ended = {}
    /\ accepted = [i \in Calls |-> 0] /\ recv = [i \in Calls |-> 0]
    /\ outcome = [i \in Calls |-> "none"]
    /\ actor = "top" /\ writer = 1 /\ pending = {} /\ streams = {} /\ hand = NoFrame
    /\ todo = {} /\ at = 0 /\ dry = FALSE
    /\ queue = <<>> /\ reader = [k \in Conns |-> IF k = 1 THEN "run" ELSE "none"]
    /\ dialled = 1 /\ link = [k \in Conns |-> IF k = 1 THEN "up" ELSE "new"]
    /\ wire = [k \in Conns |-> <<>>]
    /\ srv = [i \in Calls |-> 0] /\ srvDone = [i \in Calls |-> FALSE]
    /\ sent = [i \in Calls |-> 0]
    /\ upl = [i \in Calls |-> <<>>] /\ uplEnd = [i \in Calls |-> FALSE]

-----------------------------------------------------------------------------
\* Callers.

Queued(i) == \E n \in 1..Len(cmds) : cmds[n] = i

\* The actor has, or will get, the receiver of the call's outbound queue.
QueueAlive(i) == i \in streams \/ Queued(i)

\* rx.is_closed(): close_and_recv or the drop of the stream has dropped the sender.  A
\* caller drops its stream once it is over.
SenderDropped(i) == (kind[i] = "export" /\ i \in ended) \/ outcome[i] # "none"

\* A sender of the call's channel exists: in its command, in the pending map, in the
\* actor's hand or in a task of drain_pending.
HasSender(i) == Queued(i) \/ i \in pending \/ i \in errs \/ hand.id = i

End(i, o) == outcome' = [outcome EXCEPT ![i] = o]

\* next_id.fetch_add, in import_direct, import_stream_direct, export_stream, import_bidi.
Begin(i, k) ==
    /\ kind[i] = "none" /\ \A j \in Calls : j < i => kind[j] # "none"
    /\ kind' = [kind EXCEPT ![i] = k]
    /\ UNCHANGED <<reconnect, cmds, closing, posted, ended, accepted, recv, outcome, chan, errs, out, actVars,
                   pumpVars, rdVars, netVars, wire, srvVars>>

\* tx.send(command).await: waits for room, fails when the actor has exited.
Post(i) ==
    /\ kind[i] # "none" /\ i \notin posted
    /\ posted' = posted \cup {i}
    /\ \/ /\ actor # "exited" /\ Len(cmds) < CmdCap
          /\ cmds' = Append(cmds, i)
          /\ UNCHANGED outcome
       \/ /\ actor = "exited"
          /\ End(i, "lost")
          /\ UNCHANGED cmds
    /\ UNCHANGED <<reconnect, kind, closing, ended, accepted, recv, chan, errs, out, actVars, pumpVars, rdVars,
                   netVars, wire, srvVars>>

\* Mutant of Send: try_send, its failure on a full queue ignored.
SendOrDrop(i) ==
    /\ HasOut(i) /\ i \in posted \ ended /\ outcome[i] = "none" /\ QueueAlive(i)
    /\ accepted[i] < MaxIn
    /\ accepted' = [accepted EXCEPT ![i] = @ + 1]
    /\ out' = IF Len(out[i]) < QueueCap THEN [out EXCEPT ![i] = Append(@, accepted[i] + 1)] ELSE out
    /\ UNCHANGED <<reconnect, kind, cmds, closing, posted, ended, recv, outcome, chan, errs, actVars, pumpVars,
                   rdVars, netVars, wire, srvVars>>

\* ExportStream::send and BidiStream::send.
Send(i) ==
    /\ HasOut(i) /\ i \in posted \ ended /\ outcome[i] = "none" /\ QueueAlive(i)
    /\ accepted[i] < MaxIn /\ Len(out[i]) < QueueCap
    /\ accepted' = [accepted EXCEPT ![i] = @ + 1]
    /\ out' = [out EXCEPT ![i] = Append(@, accepted[i] + 1)]
    /\ UNCHANGED <<reconnect, kind, cmds, closing, posted, ended, recv, outcome, chan, errs, actVars, pumpVars,
                   rdVars, netVars, wire, srvVars>>

\* close_and_recv, which also drops its sender, and close_send; without a receiver the
\* send fails, which is close_and_recv's result.
SendClose(i) ==
    /\ HasOut(i) /\ i \in posted \ ended /\ outcome[i] = "none"
    /\ ended' = ended \cup {i}
    /\ \/ /\ QueueAlive(i) /\ Len(out[i]) < QueueCap
          /\ out' = [out EXCEPT ![i] = Append(@, CloseFrame)]
          /\ UNCHANGED outcome
       \/ /\ ~QueueAlive(i)
          /\ IF kind[i] = "export" THEN End(i, "lost") ELSE UNCHANGED outcome
          /\ UNCHANGED out
    /\ UNCHANGED <<reconnect, kind, cmds, closing, posted, accepted, recv, chan, errs, actVars, pumpVars, rdVars,
                   netVars, wire, srvVars>>

\* rx.await in import_direct and close_and_recv; poll_next and recv of the streams.
Receive(i) ==
    /\ chan[i] # <<>> /\ outcome[i] = "none"
    /\ kind[i] = "export" => i \in ended
    /\ chan' = [chan EXCEPT ![i] = Tail(@)]
    /\ LET t == Head(chan[i]).type IN
       IF t = "stream_chunk"
         THEN recv' = [recv EXCEPT ![i] = @ + 1] /\ UNCHANGED outcome
         ELSE /\ End(i, CASE t = "response" -> "answered" [] t = "stream_end" -> "end"
                          [] t = "error" -> "remote" [] OTHER -> "lost")
              /\ UNCHANGED recv
    /\ UNCHANGED <<reconnect, kind, cmds, closing, posted, ended, accepted, errs, out, actVars, pumpVars, rdVars,
                   netVars, wire, srvVars>>

\* The same, when the channel is empty and every sender is dropped: ConnectionClosed for
\* import, close_and_recv and BidiStream::recv, the end of the stream for poll_next.
ReceiveNone(i) ==
    /\ i \in posted /\ chan[i] = <<>> /\ outcome[i] = "none" /\ ~HasSender(i)
    /\ kind[i] = "export" => i \in ended
    /\ End(i, IF kind[i] = "stream" THEN "silent" ELSE "lost")
    /\ UNCHANGED <<reconnect, kind, cmds, closing, posted, ended, accepted, recv, chan, errs, out, actVars,
                   pumpVars, rdVars, netVars, wire, srvVars>>

\* The application drops its stream.
DropStream(i) ==
    /\ kind[i] # "call" /\ i \in posted /\ outcome[i] = "none"
    /\ End(i, "dropped")
    /\ chan' = [chan EXCEPT ![i] = <<>>]
    /\ UNCHANGED <<reconnect, kind, cmds, closing, posted, ended, accepted, recv, errs, out, actVars, pumpVars,
                   rdVars, netVars, wire, srvVars>>

\* Client::close: try_send, whose failure on a full channel is ignored.  It stands too for
\* the drop of the last Client, upon which rx.recv() returns None once the channel is empty:
\* the actor leaves after the same commands, and no others follow.
Close ==
    /\ ~closing /\ closing' = TRUE
    /\ cmds' = IF actor # "exited" /\ Len(cmds) < CmdCap THEN Append(cmds, Shutdown) ELSE cmds
    /\ UNCHANGED <<reconnect, kind, posted, ended, accepted, recv, outcome, chan, errs, out, actVars, pumpVars,
                   rdVars, netVars, wire, srvVars>>

-----------------------------------------------------------------------------
\* run_actor.

\* write_frame to the current connection.  A lost connection may still accept the bytes.
WriteOk == writer # 0
WriteFails == writer # 0 => link[writer] # "up"

\* A frame of call i that reaches the server.
Reaches == link[writer] = "up"

\* The writer is dropped: our side of the connection is closed.
HalfClosed == IF writer # 0 /\ link[writer] = "up" THEN [link EXCEPT ![writer] = "half"] ELSE link

\* Mutant of Drain: the callers are told but stay in the map.
DrainKeepsEntries(S) ==
    /\ chan' = [i \in Calls |-> IF i \in S /\ ~IsStream(i) /\ outcome[i] = "none"
                                  THEN <<Frame(i, "lost", 0)>> ELSE chan[i]]
    /\ errs' = errs \cup {i \in S : IsStream(i)}
    /\ UNCHANGED pending

\* Mutant of Drain: a stream's sender is dropped without an error.
DrainSilently(S) ==
    /\ chan' = [i \in Calls |-> IF i \in S /\ ~IsStream(i) /\ outcome[i] = "none"
                                  THEN <<Frame(i, "lost", 0)>> ELSE chan[i]]
    /\ pending' = {} /\ UNCHANGED errs

\* drain_pending of the calls S: a oneshot is answered at once, a stream by a spawned task.
Drain(S) ==
    /\ chan' = [i \in Calls |-> IF i \in S /\ ~IsStream(i) /\ outcome[i] = "none"
                                  THEN <<Frame(i, "lost", 0)>> ELSE chan[i]]
    /\ errs' = errs \cup {i \in S : IsStream(i)}
    /\ pending' = {}

\* The loop ends: the final drain, and the channels and the writer are dropped.
Leave(S) ==
    /\ Drain(S)
    /\ actor' = "exited" /\ writer' = 0 /\ link' = HalfClosed
    /\ streams' = {} /\ cmds' = <<>> /\ queue' = <<>>

\* The connection is given up: drain, then reconnect_loop or the end of the loop.  q and
\* f are what is left in the two channels.
Lost(S, q, f) ==
    IF reconnect
      THEN /\ Drain(S)
           /\ actor' = "reconnect" /\ writer' = 0 /\ link' = HalfClosed
           /\ cmds' = q /\ queue' = f
           /\ UNCHANGED streams
      ELSE Leave(S)

\* The top of the loop: pump only with a writer.
Top ==
    /\ actor = "top"
    /\ actor' = IF writer = 0 THEN "select" ELSE "pump"
    /\ todo' = IF writer = 0 THEN {} ELSE streams
    /\ UNCHANGED <<appVars, cmds, chan, errs, out, writer, pending, streams, hand, at, dry, rdVars,
                   netVars, wire, srvVars>>

\* The server gets payload p of call i; of a call it does not have on this connection
\* it is a stray.
Upload(i, p) ==
    IF Reaches /\ srv[i] = writer
      THEN IF p = CloseFrame
             THEN uplEnd' = [uplEnd EXCEPT ![i] = TRUE] /\ UNCHANGED upl
             ELSE upl' = [upl EXCEPT ![i] = Append(@, p)] /\ UNCHANGED uplEnd
      ELSE UNCHANGED <<upl, uplEnd>>

\* The pump is at queue i: all of export_streams, in any order, then all of bidi_streams.
Pumping(i) ==
    /\ actor = "pump" /\ i \in todo /\ at \in {0, i} /\ ~dry
    /\ kind[i] = "bidi" => \A j \in todo : kind[j] = "bidi"

\* try_recv returns a payload: write it; a payload that cannot be written is gone.
PumpWrite(i) ==
    /\ Pumping(i) /\ out[i] # <<>>
    /\ out' = [out EXCEPT ![i] = Tail(@)]
    /\ \/ /\ WriteOk /\ Upload(i, Head(out[i]))
          /\ at' = i /\ UNCHANGED <<actor, writer, todo, link>>
       \/ /\ WriteFails
          /\ writer' = 0 /\ link' = HalfClosed
          /\ actor' = "select" /\ todo' = {} /\ at' = 0
          /\ UNCHANGED <<upl, uplEnd>>
    /\ UNCHANGED <<appVars, cmds, chan, errs, pending, streams, hand, dry, rdVars, dialled, wire,
                   srv, srvDone, sent>>

\* try_recv returns an error.
PumpDry(i) ==
    /\ Pumping(i) /\ out[i] = <<>>
    /\ at' = i /\ dry' = TRUE
    /\ UNCHANGED <<appVars, cmds, chan, errs, out, actVars, todo, rdVars, netVars, wire, srvVars>>

\* if rx.is_closed(): the queue is forgotten, with whatever has been sent to it since.
PumpCheck(i) ==
    /\ actor = "pump" /\ at = i /\ dry
    /\ todo' = todo \ {i} /\ at' = 0 /\ dry' = FALSE
    /\ IF SenderDropped(i)
         THEN streams' = streams \ {i} /\ out' = [out EXCEPT ![i] = <<>>]
         ELSE UNCHANGED <<streams, out>>
    /\ UNCHANGED <<appVars, cmds, chan, errs, actor, writer, pending, hand, rdVars, netVars, wire,
                   srvVars>>

PumpDone ==
    /\ actor = "pump" /\ todo = {}
    /\ actor' = "select"
    /\ UNCHANGED <<appVars, cmds, chan, errs, out, writer, pending, streams, hand, pumpVars, rdVars,
                   netVars, wire, srvVars>>

\* A command: the request is written and the call becomes pending.  If the write fails
\* every pending call and this one learn that the connection is closed.
TakeCall ==
    /\ actor = "select" /\ cmds # <<>> /\ Head(cmds) # Shutdown
    /\ LET i == Head(cmds) IN
       \/ /\ WriteOk
          /\ pending' = pending \cup {i}
          /\ streams' = IF HasOut(i) THEN streams \cup {i} ELSE streams
          /\ srv' = IF Reaches THEN [srv EXCEPT ![i] = writer] ELSE srv
          /\ cmds' = Tail(cmds) /\ actor' = "top"
          /\ UNCHANGED <<chan, errs, out, writer, queue, link>>
       \/ /\ WriteFails
          /\ Lost(pending \cup {i}, Tail(cmds), queue)
          /\ out' = [out EXCEPT ![i] = <<>>]
          /\ UNCHANGED srv
    /\ UNCHANGED <<appVars, hand, pumpVars, reader, dialled, wire, srvDone, sent, upl, uplEnd>>

\* ActorCommand::Shutdown, or None.
TakeShutdown ==
    /\ actor = "select" /\ cmds # <<>> /\ Head(cmds) = Shutdown
    /\ Leave(pending)
    /\ UNCHANGED <<appVars, out, hand, pumpVars, reader, dialled, wire, srvVars>>

\* ReaderMessage::Frame: every frame but a chunk ends the pending entry.
TakeFrame ==
    /\ actor = "select" /\ queue # <<>> /\ Head(queue).type # "closed"
    /\ LET m == Head(queue) IN
       /\ pending' = IF m.type = "stream_chunk" THEN pending ELSE pending \ {m.id}
       /\ IF m.id \in pending /\ IsStream(m.id)
            THEN hand' = m /\ actor' = "send" /\ UNCHANGED chan
            ELSE /\ chan' = IF m.id \in pending /\ outcome[m.id] = "none"
                              THEN [chan EXCEPT ![m.id] = <<m>>] ELSE chan
                 /\ actor' = "top" /\ UNCHANGED hand
    /\ queue' = Tail(queue)
    /\ UNCHANGED <<appVars, cmds, errs, out, writer, streams, pumpVars, reader, netVars, wire, srvVars>>

\* tx.send(Ok(msg)).await to a stream: waits for room, fails if the stream is dropped.
HandOver ==
    /\ actor = "send"
    /\ LET i == hand.id IN
       \/ /\ outcome[i] = "none" /\ Len(chan[i]) < QueueCap
          /\ chan' = [chan EXCEPT ![i] = Append(@, hand)]
          /\ UNCHANGED pending
       \/ /\ outcome[i] # "none"
          /\ pending' = pending \ {i}
          /\ UNCHANGED chan
    /\ hand' = NoFrame /\ actor' = "top"
    /\ UNCHANGED <<appVars, cmds, errs, out, writer, streams, pumpVars, rdVars, netVars, wire, srvVars>>

\* ReaderMessage::Closed, whichever connection's reader sent it.
TakeClosed ==
    /\ actor = "select" /\ queue # <<>> /\ Head(queue).type = "closed"
    /\ Lost(pending, cmds, Tail(queue))
    /\ UNCHANGED <<appVars, out, hand, pumpVars, reader, dialled, wire, srvVars>>

\* reconnect_loop connects; a new reader task is spawned.
Redial ==
    /\ actor = "reconnect" /\ dialled < MaxConns
    /\ dialled' = dialled + 1
    /\ writer' = dialled + 1 /\ actor' = "top"
    /\ link' = [link EXCEPT ![dialled + 1] = "up"]
    /\ reader' = [reader EXCEPT ![dialled + 1] = "run"]
    /\ UNCHANGED <<appVars, cmds, chan, errs, out, pending, streams, hand, pumpVars, queue, wire, srvVars>>

\* Mutant of DrainTask: an unbounded channel.
DrainTaskUnbounded(i) ==
    /\ i \in errs /\ errs' = errs \ {i}
    /\ chan' = IF outcome[i] = "none" THEN [chan EXCEPT ![i] = Append(@, Frame(i, "lost", 0))] ELSE chan
    /\ UNCHANGED <<appVars, cmds, out, actVars, pumpVars, rdVars, netVars, wire, srvVars>>

\* Mutant of DrainTask: a lost stream is ended instead of failed.
DrainTaskEnds(i) ==
    /\ i \in errs /\ errs' = errs \ {i}
    /\ outcome[i] = "none" /\ Len(chan[i]) < QueueCap
    /\ chan' = [chan EXCEPT ![i] = Append(@, Frame(i, "stream_end", 0))]
    /\ UNCHANGED <<appVars, cmds, out, actVars, pumpVars, rdVars, netVars, wire, srvVars>>

\* The task drain_pending spawns for a stream.
DrainTask(i) ==
    /\ i \in errs
    /\ \/ outcome[i] # "none" /\ UNCHANGED chan
       \/ /\ outcome[i] = "none" /\ Len(chan[i]) < QueueCap
          /\ chan' = [chan EXCEPT ![i] = Append(@, Frame(i, "lost", 0))]
    /\ errs' = errs \ {i}
    /\ UNCHANGED <<appVars, cmds, out, actVars, pumpVars, rdVars, netVars, wire, srvVars>>

-----------------------------------------------------------------------------
\* spawn_reader.

\* read_frame returns a frame; with the actor gone the send fails and the task ends.  The
\* server writes no frame that unpack refuses: rmpv takes every MessagePack value.
ReadFrame(k) ==
    /\ reader[k] = "run" /\ wire[k] # <<>>
    /\ wire' = [wire EXCEPT ![k] = Tail(@)]
    /\ \/ /\ actor # "exited" /\ Len(queue) < QueueCap
          /\ queue' = Append(queue, Head(wire[k]))
          /\ UNCHANGED reader
       \/ /\ actor = "exited"
          /\ reader' = [reader EXCEPT ![k] = "done"]
          /\ UNCHANGED queue
    /\ UNCHANGED <<appVars, cmds, chan, errs, out, actVars, pumpVars, netVars, srvVars>>

\* Mutant of ReadClosed: the task ends without a Closed message.
ReadClosedSilently(k) ==
    /\ reader[k] = "run" /\ link[k] = "down"
    /\ reader' = [reader EXCEPT ![k] = "done"]
    /\ wire' = [wire EXCEPT ![k] = <<>>]
    /\ UNCHANGED <<appVars, cmds, chan, errs, out, actVars, pumpVars, queue, netVars, srvVars>>

\* read_frame fails; frames that had arrived may be lost with the connection.
ReadClosed(k) ==
    /\ reader[k] = "run" /\ link[k] = "down"
    /\ reader' = [reader EXCEPT ![k] = "done"]
    /\ wire' = [wire EXCEPT ![k] = <<>>]
    /\ \/ actor # "exited" /\ Len(queue) < QueueCap /\ queue' = Append(queue, Closed(k))
       \/ actor = "exited" /\ UNCHANGED queue
    /\ UNCHANGED <<appVars, cmds, chan, errs, out, actVars, pumpVars, netVars, srvVars>>

-----------------------------------------------------------------------------
\* The server and the network.

Reachable(i) == srv[i] # 0 /\ ~srvDone[i] /\ link[srv[i]] \in {"up", "half"}

Reply(i, t, n) == wire' = [wire EXCEPT ![srv[i]] = Append(@, Frame(i, t, n))]

ServerChunk(i) ==
    /\ Reachable(i) /\ IsStream(i) /\ sent[i] < MaxOut
    /\ sent' = [sent EXCEPT ![i] = @ + 1]
    /\ Reply(i, "stream_chunk", sent[i] + 1)
    /\ UNCHANGED <<appVars, cmds, chan, errs, out, actVars, pumpVars, rdVars, netVars, srv, srvDone,
                   upl, uplEnd>>

\* The terminal frame; a client-streaming call is answered after its terminator, the
\* handler of a bidirectional one may return before.
ServerAnswer(i) ==
    /\ Reachable(i) /\ (kind[i] = "export" => uplEnd[i])
    /\ srvDone' = [srvDone EXCEPT ![i] = TRUE]
    /\ Reply(i, IF IsStream(i) THEN "stream_end" ELSE "response", 0)
    /\ UNCHANGED <<appVars, cmds, chan, errs, out, actVars, pumpVars, rdVars, netVars, srv, sent, upl,
                   uplEnd>>

\* A handler fails, at any moment.
ServerError(i) ==
    /\ Reachable(i)
    /\ srvDone' = [srvDone EXCEPT ![i] = TRUE]
    /\ Reply(i, "error", 0)
    /\ UNCHANGED <<appVars, cmds, chan, errs, out, actVars, pumpVars, rdVars, netVars, srv, sent, upl,
                   uplEnd>>

\* The server sees the end of our side and closes its own; or the connection is lost.
Disconnect(k, from) ==
    /\ link[k] = from
    /\ link' = [link EXCEPT ![k] = "down"]
    /\ UNCHANGED <<appVars, cmds, chan, errs, out, actVars, pumpVars, rdVars, dialled, wire, srvVars>>

ServerCloses(k) == Disconnect(k, "half")
ConnDrop(k) == Disconnect(k, "up")

-----------------------------------------------------------------------------
Pump(i) == PumpWrite(i) \/ PumpDry(i) \/ PumpCheck(i)

Actor == \/ Top \/ (\E i \in Calls : Pump(i)) \/ PumpDone
         \/ TakeCall \/ TakeShutdown \/ TakeFrame \/ HandOver \/ TakeClosed \/ Redial

Consume(i) == Receive(i) \/ ReceiveNone(i)
Read(k) == ReadFrame(k) \/ ReadClosed(k)

Next ==
    \/ \E i \in Calls : (\E k \in Kinds : Begin(i, k)) \/ Post(i) \/ Send(i) \/ SendClose(i)
                        \/ Consume(i) \/ DropStream(i) \/ DrainTask(i)
                        \/ ServerChunk(i) \/ ServerAnswer(i) \/ ServerError(i)
    \/ Close \/ Actor
    \/ \E k \in Conns : Read(k) \/ ServerCloses(k) \/ ConnDrop(k)

Spec == Init /\ [][Next]_vars

\* The server answers a call it has all of: a handler may read its input to the end first.
ServerAnswersWhole(i) == (HasOut(i) => uplEnd[i]) /\ ServerAnswer(i)

\* Tasks that can run do run, which of the actor's writes asks for a server that reads, since
\* write_frame has no time limit; callers keep waiting for what they asked for; the server
\* answers what it was asked and closes a connection the client has closed.
Fairness ==
    /\ WF_vars(Actor)
    /\ \A i \in Calls : WF_vars(Post(i)) /\ WF_vars(Consume(i)) /\ WF_vars(DrainTask(i))
                        /\ WF_vars(ServerAnswersWhole(i))
    /\ \A k \in Conns : WF_vars(Read(k)) /\ WF_vars(ServerCloses(k))

FairSpec == Spec /\ Fairness

-----------------------------------------------------------------------------
\* Properties.

\* A pending call was sent on the connection dialled last, and that connection's reader
\* either still runs or its Closed is on its way to the actor: no entry of the pending
\* map survives a reconnection, so no caller waits for an answer that cannot come.
PendingOnCurrent ==
    pending # {} =>
        /\ actor # "exited"
        /\ reader[dialled] = "run" \/ \E n \in 1..Len(queue) : queue[n] = Closed(dialled)
        /\ \A i \in pending : srv[i] \in {0, dialled}

\* What the server has received of an upload is a prefix of what send() accepted, in
\* order, and it sees the terminator only after all of it: export_streams and bidi_streams
\* outlive a reconnection, and payloads are lost when a write fails, but never from
\* the middle of what the server takes for a complete upload.
UploadInOrder ==
    \A i \in Calls :
        /\ upl[i] = [n \in 1..Len(upl[i]) |-> n]
        /\ uplEnd[i] => Len(upl[i]) = accepted[i]

\* With reconnection, a stream whose channel is dropped without a word, which poll_next
\* reports as the end of the stream, was cut off by close() and by nothing else.
SilentOnlyAfterClose ==
    reconnect => \A i \in Calls : outcome[i] = "silent" => closing

\* The calls seen through the contract every client keeps: an answer is the server's, a
\* stream that ends has delivered every chunk.  The silent end of SilentOnlyAfterClose
\* counts as a failure here.
Contract == INSTANCE RpcContract WITH
    status <- [i \in Calls |->
                 CASE kind[i] = "none" -> "idle"
                   [] kind[i] # "none" /\ outcome[i] = "none" -> "open"
                   [] outcome[i] \in {"answered", "end"} -> "answered"
                   [] OTHER -> "failed"],
    produced <- sent, finished <- srvDone, delivered <- recv
ImplementsContract == Contract!Spec

\* Every import and import_stream returns, and the stream of an import_bidi ends once its
\* terminator has reached the server, unless the client is reconnecting for ever: stale
\* Closed messages, full channels, drained maps and close() never strand a caller.  A
\* terminator that waits in the outbound queue is another matter (UploadReturns).
CallsReturn ==
    \A i \in Calls :
        (kind[i] \in {"call", "stream"} \/ (kind[i] = "bidi" /\ uplEnd[i]))
            ~> (outcome[i] # "none" \/ [](actor = "reconnect"))

\* SPEC.md: after its terminator a client-streaming call gets one response.  Here:
\* close_and_recv returns, unless the client is reconnecting for ever.
UploadReturns ==
    \A i \in Calls :
        (kind[i] = "export" /\ i \in ended)
            ~> (outcome[i] # "none" \/ [](actor = "reconnect"))
=============================================================================
