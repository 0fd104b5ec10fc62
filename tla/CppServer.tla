----------------------------- MODULE CppServer -----------------------------
(***************************************************************************)
(* callwire::Server of cpp/include/callwire/callwire.hpp on the registry   *)
(* and the dispatch threads of c/src/server.c: closures on the heap, their *)
(* registration, calls that run them through the trampolines while other   *)
(* threads register, close and destroy, and every Value on the way.        *)
(* Connections and frames are CServer's; what a client sends is arbitrary. *)
(***************************************************************************)
EXTENDS CppValues, Naturals, Sequences

CONSTANTS
    Calls,         \* the calls made
    Names,         \* function names
    MaxExports     \* bound on the registrations

Kinds == {"unary", "stream", "client", "bidi"}
Closures == 1..MaxExports

\* Where the values of call i are: the core's arguments, result and next queued chunk, and
\* the trampoline's copy of the arguments and the handler's two locals.
ArgsRaw(i) == <<"args", i>>
ResultRaw(i) == <<"result", i>>
ChunkRaw(i) == <<"chunk", i>>
ArgSlot(i) == <<"cpp_args", i>>
Local(i) == <<"local", i>>
Other(i) == <<"other", i>>
RawsOf(i) == {ArgsRaw(i), ResultRaw(i), ChunkRaw(i)}
SlotsOf(i) == {ArgSlot(i), Local(i), Other(i)}

ASSUME CppServerAssumption ==
    /\ Slots = UNION {SlotsOf(i) : i \in Calls}
    /\ Raws = UNION {RawsOf(i) : i \in Calls}
    /\ MaxExports \in Nat

VARIABLES
    object,        \* the Server object: "alive", "deleting" (inside ~Server), "gone"
    server_,       \* its pointer: "open" or "null"
    core,          \* the callwire_server_t: "open" or "freed"
    owned,         \* closures in the owned handler lists
    allocated,     \* closures on the heap
    exports,       \* registrations tried
    registry,      \* the core's entries
    call,          \* call[i]: where its thread is, and the entry it copied
    dangling       \* calls that ran a deleted closure

serverVars == <<object, server_, core, owned, allocated, exports, registry>>
vars == <<valueVars, serverVars, call, dangling>>

Entries == [name : Names, kind : Kinds, closure : Closures]
Points == {"none", "start", "copied", "body", "called", "unwind", "free_args", "done", "refused"}
NoEntry == [name |-> "", kind |-> "unary", closure |-> 0]

Init ==
    /\ ValuesInit
    /\ object = "alive" /\ server_ = "open" /\ core = "open"
    /\ owned = {} /\ allocated = {} /\ exports = 0 /\ registry = <<>>
    /\ call = [i \in Calls |-> [pc |-> "none", entry |-> NoEntry]]
    /\ dangling = {}

-----------------------------------------------------------------------------
\* Registration, close and destruction.

\* register_entry: the table grows, and the entry goes to its end.
Appended(e) == Append(registry, e)

\* new Handler(...): the closure is on the heap before the core is asked.
NewClosure(n) ==
    /\ object = "alive" /\ exports < MaxExports
    /\ exports' = n
    /\ allocated' = allocated \cup {n}

\* A closure whose registration fails stays in the list.
Keeps(n) == owned' = owned \cup {n}

\* exportFunc, exportStream, exportClientStream, exportBidi.
Export(name, kind) ==
    /\ NewClosure(exports + 1) /\ owned' = owned \cup {exports + 1}
    /\ server_ = "open"
    /\ registry' = Appended([name |-> name, kind |-> kind, closure |-> exports + 1])
    /\ UNCHANGED <<valueVars, object, server_, core, call, dangling>>

\* The server is closed ("invalid argument") or out of memory: the export throws.
ExportFails ==
    /\ NewClosure(exports + 1) /\ Keeps(exports + 1)
    /\ UNCHANGED <<valueVars, object, server_, core, registry, call, dangling>>

\* Mutant of Close: the closures are deleted with the core.
CloseAndDelete ==
    /\ object = "alive" /\ server_ = "open"
    /\ server_' = "null" /\ core' = "freed"
    /\ allocated' = allocated \ owned /\ owned' = {}
    /\ UNCHANGED <<valueVars, object, exports, registry, call, dangling>>

\* close(): the core's server is freed with its names and entries; threads in calls go on.
\* registry is from then on what a lookup in the freed memory may still find (Dispatch).
Close ==
    /\ object = "alive" /\ server_ = "open"
    /\ server_' = "null" /\ core' = "freed"
    /\ UNCHANGED <<valueVars, object, owned, allocated, exports, registry, call, dangling>>

\* ~Server: first the closures ...
DeleteHandlers ==
    /\ object = "alive" /\ object' = "deleting"
    /\ allocated' = allocated \ owned /\ owned' = {}
    /\ UNCHANGED <<valueVars, server_, core, exports, registry, call, dangling>>

\* ... then the core's server, if close() was not called.
CloseInDestructor ==
    /\ object = "deleting" /\ object' = "gone"
    /\ server_' = "null" /\ core' = "freed"
    /\ UNCHANGED <<valueVars, owned, allocated, exports, registry, call, dangling>>

-----------------------------------------------------------------------------
\* A call: dispatch_request, the trampolines, the dispatch threads.

At(i, pcs) == call[i].pc \in pcs
Goto(i, pc) == call' = [call EXCEPT ![i].pc = pc]
Kind(i) == call[i].entry.kind
Same == UNCHANGED <<serverVars, dangling>>

\* find_handler: entry k is the first of that name.
find_handler(name, k) ==
    /\ k \in DOMAIN registry /\ registry[k].name = name
    /\ \A j \in DOMAIN registry : registry[j].name = name => k <= j

\* The request is decoded, its entry is copied and its thread started.  A lookup in a freed
\* server that still finds the entry is one outcome of undefined behaviour; the others end
\* the call or the process.
Dispatch(i, name) ==
    /\ At(i, {"none"})
    /\ \E k \in DOMAIN registry :
         /\ find_handler(name, k)
         /\ call' = [call EXCEPT ![i] = [pc |-> "start", entry |-> registry[k]]]
    /\ CoreDecodes(ArgsRaw(i)) /\ Same

\* Not exported, no thread, or a server that is gone: an error frame or nothing, and the
\* message is freed.
Refuse(i) ==
    /\ At(i, {"none"}) /\ Goto(i, "refused")
    /\ UNCHANGED valueVars /\ Same

\* trampoline and streamTrampoline copy the arguments, outside their try blocks.
CopyArgs(i) ==
    /\ At(i, {"start"}) /\ Kind(i) \in {"unary", "stream"}
    /\ DeepCopy(ArgSlot(i), ArgsRaw(i))
    /\ Goto(i, "copied") /\ Same

\* (*handler)(...).
Invoke(i) ==
    /\ IF Kind(i) \in {"unary", "stream"} THEN At(i, {"copied"}) ELSE At(i, {"start"})
    /\ dangling' = IF call[i].entry.closure \in allocated THEN dangling ELSE dangling \cup {i}
    /\ Goto(i, "body")
    /\ UNCHANGED <<valueVars, serverVars>>

\* What a handler may do with its locals and, for reading, its arguments.
Body(i) ==
    /\ At(i, {"body"})
    /\ \/ Scalar(Local(i)) \/ Text(Local(i)) \/ Destroy(Local(i))
       \/ Container(Local(i), {Other(i)})
       \/ MoveConstruct(Other(i), Local(i))
       \/ MoveAssign(Local(i), Other(i))
       \/ CopyAssign(Local(i), Other(i))
       \/ ArgSlot(i) \in alive /\ DeepCopy(Local(i), ArgSlot(i))
    /\ UNCHANGED call /\ Same

\* emit(v), in stream and bidi handlers.
Emit(i) ==
    /\ At(i, {"body"}) /\ Kind(i) \in {"stream", "bidi"}
    /\ EmitValue(Local(i))
    /\ UNCHANGED call /\ Same

\* The read loop decodes a chunk into the queue of the call ...
Queue(i) ==
    /\ At(i, {"start", "body", "unwind", "free_args"}) /\ Kind(i) \in {"client", "bidi"}
    /\ CoreDecodes(ChunkRaw(i))
    /\ UNCHANGED call /\ Same

\* ... and recv(out) moves it to the handler.
Receive(i) ==
    /\ At(i, {"body"}) /\ Kind(i) \in {"client", "bidi"}
    /\ AdoptInto(Local(i), ChunkRaw(i))
    /\ UNCHANGED call /\ Same

\* The handler is itself a client: Client::call returns an adopted result.
CallOut(i) ==
    /\ At(i, {"body"}) /\ Kind(i) = "unary"
    /\ CoreDecodes(ChunkRaw(i))
    /\ Goto(i, "called") /\ Same
CallReturns(i) ==
    /\ At(i, {"called"})
    /\ IF Local(i) \in alive THEN AdoptInto(Local(i), ChunkRaw(i)) ELSE Adopt(Local(i), ChunkRaw(i))
    /\ Goto(i, "body") /\ Same

\* The handler returns a Value, which is released to the core, ...
Return(i) ==
    /\ At(i, {"body"}) /\ Kind(i) \in {"unary", "client"}
    /\ Release(Local(i), ResultRaw(i))
    /\ Goto(i, "unwind") /\ Same

\* ... or nothing, or throws.
ReturnNothing(i) ==
    /\ At(i, {"body"})
    /\ Goto(i, "unwind")
    /\ UNCHANGED valueVars /\ Same

\* Leaving the trampoline destroys what is alive, ...
Unwind(i) ==
    /\ At(i, {"unwind"})
    /\ \E s \in SlotsOf(i) : Destroy(s)
    /\ UNCHANGED call /\ Same

\* ... and the dispatch thread answers and frees the result, ...
FreeResult(i) ==
    /\ At(i, {"unwind"}) /\ SlotsOf(i) \cap alive = {}
    /\ CoreFrees(ResultRaw(i))
    /\ Goto(i, "free_args") /\ Same

\* Mutant of FreesArgs: a stream call's arguments are forgotten too.
FreesArgsOfUnary(i) == Kind(i) = "unary"

\* dispatch_unary_thread and dispatch_stream_thread call free_args; the other two do not.
FreesArgs(i) == Kind(i) \in {"unary", "stream"}

\* ... the arguments, or with the input queue the chunks left in it.
Finish(i) ==
    /\ At(i, {"free_args"})
    /\ IF FreesArgs(i) THEN CoreFrees(ArgsRaw(i)) ELSE CoreFrees(ChunkRaw(i))
    /\ Goto(i, "done") /\ Same

CallStep(i) ==
    \/ (\E name \in Names : Dispatch(i, name)) \/ Refuse(i)
    \/ CopyArgs(i) \/ Invoke(i) \/ Body(i) \/ Emit(i) \/ Queue(i) \/ Receive(i)
    \/ CallOut(i) \/ CallReturns(i) \/ Return(i) \/ ReturnNothing(i)
    \/ Unwind(i) \/ FreeResult(i) \/ Finish(i)

\* Once a key was read as a string that is not one, nothing is known.
Next ==
    /\ ~wild
    /\ \/ \E name \in Names, kind \in Kinds : Export(name, kind)
       \/ ExportFails \/ Close \/ DeleteHandlers \/ CloseInDestructor
       \/ \E i \in Calls : CallStep(i)

Spec == Init /\ [][Next]_vars

-----------------------------------------------------------------------------
(* Properties *)

\* The server's and the calls' states have their types; the Values' are in ValuesTypeOK.
TypeOK ==
    /\ ValuesTypeOK
    /\ object \in {"alive", "deleting", "gone"} /\ server_ \in {"open", "null"} /\ core \in {"open", "freed"}
    /\ owned \subseteq allocated /\ allocated \subseteq 1..exports
    /\ exports \in 0..MaxExports
    /\ registry \in Seq(Entries)
    /\ call \in [Calls -> [pc : Points, entry : Entries \cup {NoEntry}]]
    /\ dangling \subseteq Calls

\* Once a name is exported, every later call of it runs the same closure, whatever else is
\* registered while calls are looked up (register_entry, find_handler).
RoutingStable ==
    [][\A name \in Names, k \in DOMAIN registry :
         find_handler(name, k) => find_handler(name, k)' /\ registry'[k] = registry[k]]_vars

\* Closures live as long as the Server object, no shorter and no longer: while it is alive no
\* call, not even one that goes on after close(), runs a deleted closure; and when it is gone
\* so is every closure ever exported, those whose registration failed included.
ClosureLifetimes ==
    /\ dangling # {} => object # "alive"
    /\ object = "gone" => allocated = {}

\* A finished call has freed every value it touched, whether its handler returned, threw,
\* emitted, received or called out; except that the arguments of client-streaming and
\* bidirectional calls are never freed (dispatch_client_stream_thread and
\* dispatch_bidi_thread, server.c:449-498).
OnlyStreamArgsLeak ==
    \A i \in Calls : At(i, {"done"}) =>
        /\ SlotsOf(i) \cap alive = {}
        /\ \A r \in RawsOf(i) : raw[r] # {} => r = ArgsRaw(i) /\ Kind(i) \in {"client", "bidi"}
=============================================================================
