-------------------------- MODULE CppServerProofs ---------------------------
(***************************************************************************)
(* Ownership in callwire::Value, for any number of Values, of variables of *)
(* the C core and of heap blocks: HeldOnce says where each block is, and   *)
(* is the same as OneOwner. Then, whatever the calls, exports and          *)
(* destructors of a C++ server do, its Values see only the operations of   *)
(* CppValues; so what is proved of those holds of every server, for any    *)
(* number of calls.                                                        *)
(***************************************************************************)
EXTENDS CppServer, TLAPS

\* OneOwner, spelled out for one block at a time.
HeldOnce ==
    /\ \A b \in Blocks : b \in live <=> \E p \in Places : b \in raw[p]
    /\ \A p, q \in Places : \A b \in Blocks : b \in raw[p] /\ b \in raw[q] => p = q
    /\ \A s \in Slots : \A b \in raw[s] : owns[s]

\* The inductive invariant.
ValuesInv == ValuesTypeOK /\ HeldOnce /\ ~bad

\* What callwire_value_free is given is allocated: the blocks at any place are live.
LEMMA HeldIsLive ==
    ASSUME ValuesInv, NEW p \in Places
    PROVE  raw[p] \subseteq live /\ raw[p] \subseteq Blocks
  BY DEF ValuesInv, HeldOnce, ValuesTypeOK

\* Every block is reachable from one place only: HeldOnce is OneOwner.
LEMMA HeldOnceIsOneOwner ==
    ASSUME ValuesTypeOK, HeldOnce
    PROVE  OneOwner
  <1>1. live = UNION {raw[p] : p \in Places}
    BY DEF ValuesTypeOK, HeldOnce
  <1>2. \A p, q \in Places : p # q => raw[p] \cap raw[q] = {}
    BY DEF ValuesTypeOK, HeldOnce
  <1>3. \A s \in Slots : raw[s] # {} => owns[s]
    BY DEF HeldOnce
  <1>4. QED
    BY <1>1, <1>2, <1>3 DEF OneOwner

\* A program starts with no Value and nothing allocated.
LEMMA ValuesInitInv == ValuesInit => ValuesInv
  BY CppValuesAssumption DEF ValuesInit, ValuesInv, ValuesTypeOK, HeldOnce, Places

\* Constructors that allocate nothing or take nothing over keep the invariant.
LEMMA ScalarInv ==
    ASSUME ValuesInv, NEW s \in Slots, Scalar(s)
    PROVE  ValuesInv'
  BY CppValuesAssumption DEF ValuesInv, ValuesTypeOK, HeldOnce, Scalar, Places

\* A string allocates a block of its own.
LEMMA TextInv ==
    ASSUME ValuesInv, NEW s \in Slots, Text(s)
    PROVE  ValuesInv'
  BY CppValuesAssumption DEF ValuesInv, ValuesTypeOK, HeldOnce, Text, Places, Plain

\* An array or map takes its elements' blocks over.
LEMMA ContainerInv ==
    ASSUME ValuesInv, NEW s \in Slots, NEW E \in SUBSET Slots, Container(s, E)
    PROVE  ValuesInv'
  <1>1. PICK F \in SUBSET (Plain \ live) :
           /\ live' = live \cup F
           /\ raw' = [p \in Places |-> IF p = s THEN F \cup UNION {raw[e] : e \in E}
                                       ELSE IF p \in E THEN {} ELSE raw[p]]
    BY DEF Container
  <1>2. s \notin E /\ s \in Places /\ E \subseteq Places /\ raw[s] = {}
    BY DEF Container, ValuesInv, ValuesTypeOK, Places
  <1>3. raw'[s] = F \cup UNION {raw[e] : e \in E}
    BY <1>1, <1>2
  <1>4. \A p \in Places : p # s => raw'[p] = IF p \in E THEN {} ELSE raw[p]
    BY <1>1
  <1>5. F \subseteq Blocks /\ F \cap live = {}
    BY <1>1 DEF Plain
  <1>6. UNION {raw[e] : e \in E} \subseteq Blocks
    BY <1>2 DEF ValuesInv, ValuesTypeOK
  <1>7. ValuesTypeOK'
    <2>1. raw' \in [Places -> SUBSET Blocks]
      BY <1>1, <1>5, <1>6 DEF ValuesInv, ValuesTypeOK
    <2>2. owns' \in [Slots -> BOOLEAN] /\ alive' \subseteq Slots /\ live' \subseteq Blocks
      BY <1>1, <1>5 DEF Container, ValuesInv, ValuesTypeOK
    <2>3. \A t \in Slots \ alive' : raw'[t] = {}
      BY <1>2, <1>4 DEF Container, ValuesInv, ValuesTypeOK, Places
    <2>4. QED
      BY <2>1, <2>2, <2>3 DEF Container, ValuesInv, ValuesTypeOK
  <1>8. \A b \in Blocks : b \in live' <=> \E p \in Places : b \in raw'[p]
    <2>1. ASSUME NEW b \in Blocks, b \in live'
          PROVE  \E p \in Places : b \in raw'[p]
      <3>1. CASE b \in F
        BY <3>1, <1>2, <1>3
      <3>2. CASE b \in live
        BY <3>2, <1>2, <1>3, <1>4 DEF ValuesInv, HeldOnce
      <3>3. QED
        BY <2>1, <3>1, <3>2, <1>1
    <2>2. ASSUME NEW b \in Blocks, NEW p \in Places, b \in raw'[p]
          PROVE  b \in live'
      BY <2>2, <1>1, <1>2, <1>3, <1>4 DEF ValuesInv, HeldOnce
    <2>3. QED
      BY <2>1, <2>2
  <1>9. \A p, q \in Places : \A b \in Blocks : b \in raw'[p] /\ b \in raw'[q] => p = q
    <2>1. ASSUME NEW p \in Places, p # s, NEW b \in Blocks, b \in raw'[p]
          PROVE  b \notin raw'[s]
      BY <2>1, <1>2, <1>3, <1>4, <1>5 DEF ValuesInv, HeldOnce
    <2>2. ASSUME NEW p \in Places, NEW q \in Places, p # s, q # s, NEW b \in Blocks,
                 b \in raw'[p], b \in raw'[q]
          PROVE  p = q
      BY <2>2, <1>4 DEF ValuesInv, HeldOnce
    <2>3. QED
      BY <2>1, <2>2
  <1>10. \A t \in Slots : \A b \in raw'[t] : owns'[t]
    BY <1>4 DEF Container, ValuesInv, ValuesTypeOK, HeldOnce, Places
  <1>11. QED
    BY <1>7, <1>8, <1>9, <1>10 DEF Container, ValuesInv, HeldOnce

\* adopt takes a value of the core over.
LEMMA AdoptInv ==
    ASSUME ValuesInv, NEW s \in Slots, NEW r \in Raws, Adopt(s, r)
    PROVE  ValuesInv'
  BY CppValuesAssumption DEF ValuesInv, ValuesTypeOK, HeldOnce, Adopt, Places

\* A deep copy shares nothing with its source.
LEMMA DeepCopyInv ==
    ASSUME ValuesInv, NEW s \in Slots, NEW p \in Places, DeepCopy(s, p)
    PROVE  ValuesInv'
  <1>1. PICK F \in CopiedBlocks(p, live) :
           /\ live' = live \cup F
           /\ raw' = [raw EXCEPT ![s] = F]
           /\ owns' = [owns EXCEPT ![s] = (F # {})]
    BY DEF DeepCopy
  <1>2. F \subseteq Blocks /\ F \cap live = {}
    BY <1>1 DEF CopiedBlocks, Plain
  <1>3. ~bad'
    BY HeldIsLive DEF DeepCopy, ReadsBad, ValuesInv
  <1>4. wild' \in BOOLEAN /\ alive' = alive \cup {s} /\ raw[s] = {}
    BY DEF DeepCopy, ValuesInv, ValuesTypeOK
  <1>5. ValuesTypeOK'
    <2>1. raw' \in [Places -> SUBSET Blocks] /\ live' \subseteq Blocks
      BY <1>1, <1>2 DEF ValuesInv, ValuesTypeOK
    <2>2. owns' \in [Slots -> BOOLEAN]
      <3>1. (F # {}) \in BOOLEAN
        OBVIOUS
      <3>2. owns \in [Slots -> BOOLEAN]
        BY DEF ValuesInv, ValuesTypeOK
      <3>3. QED
        BY <1>1, <3>1, <3>2, Zenon
    <2>3. \A t \in Slots \ alive' : raw'[t] = {}
      BY <1>1, <1>4 DEF ValuesInv, ValuesTypeOK, Places
    <2>4. bad' \in BOOLEAN
      BY DEF DeepCopy
    <2>5. QED
      BY <1>4, <2>1, <2>2, <2>3, <2>4 DEF ValuesInv, ValuesTypeOK
  <1>6. HeldOnce'
    <2>1. raw'[s] = F /\ \A q \in Places : q # s => raw'[q] = raw[q]
      BY <1>1 DEF ValuesInv, ValuesTypeOK, Places
    <2>2. s \in Places
      BY DEF Places
    <2>3. \A b \in Blocks : b \in live' <=> \E q \in Places : b \in raw'[q]
      BY <1>1, <1>4, <2>1, <2>2 DEF ValuesInv, HeldOnce
    <2>4. \A q1, q2 \in Places : \A b \in Blocks : b \in raw'[q1] /\ b \in raw'[q2] => q1 = q2
      BY <1>2, <2>1 DEF ValuesInv, HeldOnce
    <2>5. \A t \in Slots : \A b \in raw'[t] : owns'[t]
      BY <1>1, <2>1 DEF ValuesInv, ValuesTypeOK, HeldOnce, Places
    <2>6. QED
      BY <2>3, <2>4, <2>5 DEF HeldOnce
  <1>7. QED
    BY <1>3, <1>5, <1>6 DEF ValuesInv

\* A move leaves its source empty.
LEMMA MoveConstructInv ==
    ASSUME ValuesInv, NEW s \in Slots, NEW t \in Slots, MoveConstruct(s, t)
    PROVE  ValuesInv'
  BY CppValuesAssumption DEF ValuesInv, ValuesTypeOK, HeldOnce, MoveConstruct, Places

\* Copy assignment frees what it overwrites, and only that, before it copies.
LEMMA CopyAssignInv ==
    ASSUME ValuesInv, NEW s \in Slots, NEW t \in Slots, CopyAssign(s, t)
    PROVE  ValuesInv'
  BY CppValuesAssumption DEF ValuesInv, ValuesTypeOK, HeldOnce, CopyAssign, CopiedBlocks, ReadsBad,
       FreedBy, FreesBad, Plain, Places

\* Move assignment frees what it overwrites and empties its source.
LEMMA MoveAssignInv ==
    ASSUME ValuesInv, NEW s \in Slots, NEW t \in Slots, MoveAssign(s, t)
    PROVE  ValuesInv'
  BY SMTT(40), CppValuesAssumption DEF ValuesInv, ValuesTypeOK, HeldOnce, MoveAssign, FreedBy,
       FreesBad, Places

\* Receiving into a Value frees its old content.
LEMMA AdoptIntoInv ==
    ASSUME ValuesInv, NEW s \in Slots, NEW r \in Raws, AdoptInto(s, r)
    PROVE  ValuesInv'
  BY CppValuesAssumption DEF ValuesInv, ValuesTypeOK, HeldOnce, AdoptInto, FreedBy, FreesBad, Places

\* release_raw hands the blocks to the core.
LEMMA ReleaseInv ==
    ASSUME ValuesInv, NEW s \in Slots, NEW r \in Raws, Release(s, r)
    PROVE  ValuesInv'
  BY CppValuesAssumption DEF ValuesInv, ValuesTypeOK, HeldOnce, Release, Places

\* An emitted Value is freed once.
LEMMA EmitValueInv ==
    ASSUME ValuesInv, NEW s \in Slots, EmitValue(s)
    PROVE  ValuesInv'
  BY CppValuesAssumption DEF ValuesInv, ValuesTypeOK, HeldOnce, EmitValue, FreesBad, Places

\* The destructor frees what the Value owns.
LEMMA DestroyInv ==
    ASSUME ValuesInv, NEW s \in Slots, Destroy(s)
    PROVE  ValuesInv'
  BY CppValuesAssumption DEF ValuesInv, ValuesTypeOK, HeldOnce, Destroy, FreedBy, FreesBad, Places

\* The decoder allocates.
LEMMA CoreDecodesInv ==
    ASSUME ValuesInv, NEW r \in Raws, CoreDecodes(r)
    PROVE  ValuesInv'
  BY CppValuesAssumption DEF ValuesInv, ValuesTypeOK, HeldOnce, CoreDecodes, Places

\* callwire_value_free frees.
LEMMA CoreFreesInv ==
    ASSUME ValuesInv, NEW r \in Raws, CoreFrees(r)
    PROVE  ValuesInv'
  BY CppValuesAssumption DEF ValuesInv, ValuesTypeOK, HeldOnce, CoreFrees, FreesBad, Places

\* Every step of a program that uses Values keeps the invariant.
LEMMA ValuesStepInv == ValuesInv /\ [ValuesNext]_valueVars => ValuesInv'
  <1> SUFFICES ASSUME ValuesInv, [ValuesNext]_valueVars
               PROVE  ValuesInv'
    OBVIOUS
  <1>1. ASSUME NEW s \in Slots, Scalar(s) \/ Text(s) \/ EmitValue(s) \/ Destroy(s)
        PROVE  ValuesInv'
    BY <1>1, ScalarInv, TextInv, EmitValueInv, DestroyInv
  <1>2. ASSUME NEW s \in Slots, NEW E \in SUBSET Slots, Container(s, E)
        PROVE  ValuesInv'
    BY <1>2, ContainerInv
  <1>3. ASSUME NEW s \in Slots, NEW p \in Places, DeepCopy(s, p)
        PROVE  ValuesInv'
    BY <1>3, DeepCopyInv
  <1>4. ASSUME NEW s \in Slots, NEW t \in Slots, MoveConstruct(s, t) \/ CopyAssign(s, t) \/ MoveAssign(s, t)
        PROVE  ValuesInv'
    BY <1>4, MoveConstructInv, CopyAssignInv, MoveAssignInv
  <1>5. ASSUME NEW s \in Slots, NEW r \in Raws, Adopt(s, r) \/ AdoptInto(s, r) \/ Release(s, r)
        PROVE  ValuesInv'
    BY <1>5, AdoptInv, AdoptIntoInv, ReleaseInv
  <1>6. ASSUME NEW r \in Raws, CoreDecodes(r) \/ CoreFrees(r)
        PROVE  ValuesInv'
    BY <1>6, CoreDecodesInv, CoreFreesInv
  <1>7. CASE UNCHANGED valueVars
    BY <1>7 DEF valueVars, ValuesInv, ValuesTypeOK, HeldOnce
  <1>8. QED
    BY <1>1, <1>2, <1>3, <1>4, <1>5, <1>6, <1>7 DEF ValuesNext

\* In every program that uses callwire::Value, in every order of its constructors,
\* assignments, moves, releases and destructors, each heap block has exactly one owner.
THEOREM ValuesHaveOneOwner == ValuesSpec => []OneOwner
  <1>1. ValuesInv => OneOwner
    BY HeldOnceIsOneOwner DEF ValuesInv
  <1>2. QED
    BY <1>1, ValuesInitInv, ValuesStepInv, PTL DEF ValuesSpec

\* No such program frees a block twice or reads one that was freed.
THEOREM ValuesNeverBad == ValuesSpec => []NeverBad
  <1>1. ValuesInv => NeverBad
    BY DEF ValuesInv, NeverBad
  <1>2. QED
    BY <1>1, ValuesInitInv, ValuesStepInv, PTL DEF ValuesSpec

-----------------------------------------------------------------------------
\* The server.

\* The places of a call are places of the value model.
LEMMA PlacesOfCall ==
    ASSUME NEW i \in Calls
    PROVE  /\ ArgSlot(i) \in Slots /\ Local(i) \in Slots /\ Other(i) \in Slots
           /\ ArgsRaw(i) \in Raws /\ ResultRaw(i) \in Raws /\ ChunkRaw(i) \in Raws
           /\ SlotsOf(i) \subseteq Slots
           /\ ArgSlot(i) \in Places /\ ArgsRaw(i) \in Places
  BY CppServerAssumption DEF SlotsOf, RawsOf, Places

\* Registering, closing and destroying a server touches no Value.
LEMMA ServerStepKeepsValues ==
    ASSUME (\E name \in Names, kind \in Kinds : Export(name, kind))
             \/ ExportFails \/ Close \/ DeleteHandlers \/ CloseInDestructor
    PROVE  UNCHANGED valueVars
  BY Zenon DEF Export, ExportFails, Close, DeleteHandlers, CloseInDestructor

\* A step of a call is an operation on Values, or leaves them alone.
LEMMA CallStepUsesValues ==
    ASSUME NEW i \in Calls, CallStep(i), ~wild
    PROVE  [ValuesNext]_valueVars
  <1>1. CASE \E name \in Names : Dispatch(i, name)
    BY <1>1, PlacesOfCall DEF Dispatch, ValuesNext
  <1>2. CASE Refuse(i) \/ Invoke(i) \/ ReturnNothing(i)
    BY <1>2 DEF Refuse, Invoke, ReturnNothing
  <1>3. CASE CopyArgs(i)
    BY <1>3, PlacesOfCall DEF CopyArgs, ValuesNext
  <1>4. CASE Body(i)
    <2>1. CASE Scalar(Local(i)) \/ Text(Local(i)) \/ Destroy(Local(i))
      BY <2>1, PlacesOfCall DEF ValuesNext
    <2>2. CASE Container(Local(i), {Other(i)})
      <3>1. {Other(i)} \in SUBSET Slots
        BY PlacesOfCall
      <3>2. QED
        BY <2>2, <3>1, PlacesOfCall DEF ValuesNext
    <2>3. CASE \/ MoveConstruct(Other(i), Local(i))
               \/ MoveAssign(Local(i), Other(i))
               \/ CopyAssign(Local(i), Other(i))
      BY <2>3, PlacesOfCall DEF ValuesNext
    <2>4. CASE DeepCopy(Local(i), ArgSlot(i))
      BY <2>4, PlacesOfCall DEF ValuesNext
    <2>5. QED
      BY <1>4, <2>1, <2>2, <2>3, <2>4 DEF Body
  <1>5. CASE Emit(i)
    BY <1>5, PlacesOfCall DEF Emit, ValuesNext
  <1>6. CASE Queue(i) \/ CallOut(i)
    BY <1>6, PlacesOfCall DEF Queue, CallOut, ValuesNext
  <1>7. CASE Receive(i) \/ CallReturns(i)
    BY <1>7, PlacesOfCall DEF Receive, CallReturns, ValuesNext
  <1>8. CASE Return(i)
    BY <1>8, PlacesOfCall DEF Return, ValuesNext
  <1>9. CASE Unwind(i)
    BY <1>9, PlacesOfCall DEF Unwind, ValuesNext
  <1>10. CASE FreeResult(i) \/ Finish(i)
    BY <1>10, PlacesOfCall DEF FreeResult, Finish, ValuesNext
  <1>11. QED
    BY <1>1, <1>2, <1>3, <1>4, <1>5, <1>6, <1>7, <1>8, <1>9, <1>10 DEF CallStep

\* A step of the server is a step of the value model, or a stutter.
LEMMA StepUsesValues == [Next]_vars => [ValuesNext]_valueVars
  <1> SUFFICES ASSUME [Next]_vars PROVE [ValuesNext]_valueVars
    OBVIOUS
  <1>1. CASE UNCHANGED vars
    BY <1>1 DEF vars
  <1>2. ASSUME ~wild, NEW i \in Calls, CallStep(i)
        PROVE  [ValuesNext]_valueVars
    BY <1>2, CallStepUsesValues
  <1>3. CASE (\E name \in Names, kind \in Kinds : Export(name, kind))
               \/ ExportFails \/ Close \/ DeleteHandlers \/ CloseInDestructor
    BY <1>3, ServerStepKeepsValues
  <1>4. QED
    BY <1>1, <1>2, <1>3 DEF Next

\* The server implements the value model.
THEOREM ServerUsesValues == Spec => ValuesSpec
  <1>1. Init => ValuesInit
    BY DEF Init
  <1>2. QED
    BY <1>1, StepUsesValues, PTL DEF Spec, ValuesSpec

\* In every C++ server, each heap block behind a Value has exactly one owner.
THEOREM ServerOneOwner == Spec => []OneOwner
  BY ServerUsesValues, ValuesHaveOneOwner, PTL

\* No call, in any order with exports, close and destruction, frees a value's memory twice
\* or reads it after it was freed.
THEOREM ServerNeverBad == Spec => []NeverBad
  BY ServerUsesValues, ValuesNeverBad, PTL
-----------------------------------------------------------------------------
\* Closures.

\* While the object lives every closure is owned and every entry, in the registry or copied
\* into a call, leads to a closure on the heap; afterwards there is none.
ClosuresInv ==
    /\ object \in {"alive", "deleting", "gone"}
    /\ object = "alive" => allocated = owned
    /\ object # "alive" => allocated = {}
    /\ registry \in Seq(Entries)
    /\ call \in [Calls -> [pc : Points, entry : Entries \cup {NoEntry}]]
    /\ object = "alive" =>
         /\ \A k \in DOMAIN registry : registry[k].closure \in allocated
         /\ \A i \in Calls : ~At(i, {"none", "refused"}) => call[i].entry.closure \in allocated
         /\ dangling = {}

\* A new server has no closure and no call.
LEMMA ClosuresInitInv == Init => ClosuresInv
  <1> SUFFICES ASSUME Init PROVE ClosuresInv
    OBVIOUS
  <1>1. registry \in Seq(Entries) /\ DOMAIN registry = {}
    BY DEF Init
  <1>2. call \in [Calls -> [pc : Points, entry : Entries \cup {NoEntry}]]
    BY DEF Init, Points
  <1>3. \A i \in Calls : At(i, {"none", "refused"})
    BY DEF Init, At
  <1>4. QED
    BY <1>1, <1>2, <1>3 DEF Init, ClosuresInv

\* The steps of a call before its handler runs, and the one that runs it.
LEMMA DispatchClosures ==
    ASSUME ClosuresInv, NEW i \in Calls, NEW name \in Names, Dispatch(i, name)
    PROVE  ClosuresInv'
  <1>1. PICK k \in DOMAIN registry : call' = [call EXCEPT ![i] = [pc |-> "start", entry |-> registry[k]]]
    BY Zenon DEF Dispatch
  <1>2. registry[k] \in Entries
    BY <1>1 DEF ClosuresInv
  <1>3. call' \in [Calls -> [pc : Points, entry : Entries \cup {NoEntry}]]
    BY <1>1, <1>2 DEF ClosuresInv, Points
  <1>4. QED
    BY <1>1, <1>3 DEF ClosuresInv, Dispatch, Same, serverVars, At

\* A call of a handler finds its closure, as long as the object lives.
LEMMA InvokeClosures ==
    ASSUME ClosuresInv, NEW i \in Calls, Invoke(i)
    PROVE  ClosuresInv'
  <1>1. call' = [call EXCEPT ![i].pc = "body"] /\ ~At(i, {"none", "refused"})
    BY DEF Invoke, Goto, At
  <1>2. call' \in [Calls -> [pc : Points, entry : Entries \cup {NoEntry}]]
    BY <1>1 DEF ClosuresInv, Points
  <1>3. object = "alive" => dangling' = {}
    BY <1>1 DEF ClosuresInv, Invoke
  <1>4. QED
    BY <1>1, <1>2, <1>3 DEF ClosuresInv, Invoke, serverVars, At

\* The other steps of a call move it on, and leave the server as it is.
LEMMA GotoClosures ==
    ASSUME ClosuresInv, NEW i \in Calls, Same, NEW pc \in Points,
           \/ call' = call
           \/ call' = [call EXCEPT ![i].pc = pc] /\ (At(i, {"none", "refused"}) => pc = "refused")
    PROVE  ClosuresInv'
  <1>1. call' \in [Calls -> [pc : Points, entry : Entries \cup {NoEntry}]]
    BY DEF ClosuresInv
  <1>2. \A j \in Calls :
          call'[j].entry = call[j].entry /\ (~At(j, {"none", "refused"})' => ~At(j, {"none", "refused"}))
    BY DEF ClosuresInv, At
  <1>3. QED
    BY <1>1, <1>2 DEF ClosuresInv, Same, serverVars

\* Every step of a call keeps the closures as they are.
LEMMA CallStepClosures ==
    ASSUME ClosuresInv, NEW i \in Calls, CallStep(i)
    PROVE  ClosuresInv'
  <1>1. CASE \E name \in Names : Dispatch(i, name)
    BY <1>1, DispatchClosures
  <1>2. CASE Invoke(i)
    BY <1>2, InvokeClosures
  <1>3. CASE Body(i) \/ Emit(i) \/ Queue(i) \/ Receive(i) \/ Unwind(i)
    BY <1>3, GotoClosures DEF Body, Emit, Queue, Receive, Unwind, Points
  <1>4. CASE Refuse(i) \/ CopyArgs(i) \/ CallOut(i) \/ CallReturns(i)
    BY <1>4, GotoClosures DEF Refuse, CopyArgs, CallOut, CallReturns, Goto, At, Points
  <1>5. CASE Return(i) \/ ReturnNothing(i) \/ FreeResult(i) \/ Finish(i)
    BY <1>5, GotoClosures DEF Return, ReturnNothing, FreeResult, Finish, Goto, At, Points
  <1>6. QED
    BY <1>1, <1>2, <1>3, <1>4, <1>5 DEF CallStep

\* A new closure is owned, whether or not the core takes it.
LEMMA ExportClosures ==
    ASSUME ClosuresInv, exports \in 0..MaxExports,
           (\E name \in Names, kind \in Kinds : Export(name, kind)) \/ ExportFails
    PROVE  ClosuresInv'
  <1>1. CASE ExportFails
    BY <1>1 DEF ExportFails, NewClosure, Keeps, ClosuresInv, At, valueVars
  <1>2. ASSUME NEW name \in Names, NEW kind \in Kinds, Export(name, kind)
        PROVE  ClosuresInv'
    <2> DEFINE e == [name |-> name, kind |-> kind, closure |-> exports + 1]
    <2>1. e \in Entries
      BY <1>2, CppServerAssumption DEF Export, NewClosure, Entries, Closures
    <2>2. registry' = Append(registry, e) /\ registry \in Seq(Entries)
      BY <1>2 DEF Export, Appended, ClosuresInv
    <2>3. registry' \in Seq(Entries)
      BY <2>1, <2>2
    <2>4. object = "alive" /\ allocated' = owned' /\ allocated \subseteq allocated' /\ e.closure \in allocated'
      BY <1>2 DEF Export, NewClosure, ClosuresInv
    <2>5. \A k \in DOMAIN registry' : registry'[k].closure \in allocated'
      <3> SUFFICES ASSUME NEW k \in DOMAIN registry' PROVE registry'[k].closure \in allocated'
        OBVIOUS
      <3> HIDE DEF e
      <3>1. CASE k \in DOMAIN registry
        <4>1. registry'[k] = registry[k]
          BY <3>1, <2>1, <2>2
        <4>2. registry[k].closure \in allocated
          BY <3>1, <2>4 DEF ClosuresInv
        <4>3. QED
          BY Zenon, <4>1, <4>2, <2>4
      <3>2. CASE k \notin DOMAIN registry
        <4>1. registry'[k] = e
          BY <3>2, <2>1, <2>2
        <4>2. QED
          BY Zenon, <4>1, <2>4
      <3>3. QED
        BY <3>1, <3>2
    <2>6. QED
      BY <1>2, <2>3, <2>4, <2>5 DEF Export, ClosuresInv, At
  <1>3. QED
    BY <1>1, <1>2

\* Registrations are counted up to the bound.
LEMMA ExportsCounted ==
    ASSUME exports \in 0..MaxExports, [Next]_vars
    PROVE  exports' \in 0..MaxExports
  <1>1. CASE ExportFails \/ \E name \in Names, kind \in Kinds : Export(name, kind)
    <2>1. exports < MaxExports /\ exports' = exports + 1
      BY Zenon, <1>1 DEF ExportFails, Export, NewClosure
    <2>2. QED
      BY <2>1, CppServerAssumption
  <1>2. CASE Close \/ DeleteHandlers \/ CloseInDestructor \/ UNCHANGED vars
    BY <1>2 DEF Close, DeleteHandlers, CloseInDestructor, vars, serverVars
  <1>3. ASSUME NEW i \in Calls, CallStep(i)
        PROVE  exports' = exports
    <2>1. CASE Invoke(i)
      BY <2>1 DEF Invoke, serverVars
    <2>2. CASE Same
      BY <2>2 DEF Same, serverVars
    <2>3. Invoke(i) \/ Same
      BY <1>3, Zenon DEF CallStep, Dispatch, Refuse, CopyArgs, Body, Emit, Queue, Receive, CallOut,
           CallReturns,
                Return, ReturnNothing, Unwind, FreeResult, Finish
    <2>4. QED
      BY <2>1, <2>2, <2>3
  <1>4. QED
    BY <1>1, <1>2, <1>3 DEF Next

\* So does every step of the server: only the destructor frees closures.
LEMMA StepClosures ==
    ASSUME ClosuresInv, exports \in 0..MaxExports, [Next]_vars
    PROVE  ClosuresInv'
  <1>1. CASE Close \/ DeleteHandlers \/ CloseInDestructor \/ UNCHANGED vars
    BY <1>1 DEF Close, DeleteHandlers, CloseInDestructor, vars, serverVars, ClosuresInv, At
  <1>2. CASE ExportFails \/ \E name \in Names, kind \in Kinds : Export(name, kind)
    BY <1>2, ExportClosures
  <1>3. ASSUME NEW i \in Calls, CallStep(i)
        PROVE  ClosuresInv'
    BY <1>3, CallStepClosures
  <1>4. QED
    BY <1>1, <1>2, <1>3 DEF Next

\* In every behaviour the closures' invariant holds.
LEMMA ClosuresAlways == Spec => [](ClosuresInv /\ exports \in 0..MaxExports)
  <1>1. Init => ClosuresInv /\ exports \in 0..MaxExports
    BY ClosuresInitInv, CppServerAssumption DEF Init
  <1>2. ClosuresInv /\ exports \in 0..MaxExports /\ [Next]_vars => (ClosuresInv /\ exports \in 0..MaxExports)'
    BY StepClosures, ExportsCounted
  <1>3. QED
    BY <1>1, <1>2, PTL DEF Spec

\* Closures live as long as the Server object: no call runs a deleted one before, and the
\* destructor leaves none behind, however many are registered, fail to register, or run when
\* close() is called.
THEOREM ClosuresLiveWithServer == Spec => []ClosureLifetimes
  <1>1. ClosuresInv => ClosureLifetimes
    BY DEF ClosuresInv, ClosureLifetimes
  <1>2. QED
    BY <1>1, ClosuresAlways, PTL

\* What TypeOK says beyond ValuesTypeOK and ClosuresInv.
OtherTypes ==
    /\ server_ \in {"open", "null"} /\ core \in {"open", "freed"}
    /\ owned \subseteq allocated /\ allocated \subseteq 1..exports
    /\ dangling \subseteq Calls

\* Every step keeps the types of the server's own state.
LEMMA StepOtherTypes ==
    ASSUME OtherTypes, exports \in 0..MaxExports, [Next]_vars
    PROVE  OtherTypes'
  <1>1. CASE UNCHANGED vars
    BY <1>1 DEF OtherTypes, vars, serverVars
  <1>2. ASSUME NEW n \in Names, NEW kind \in Kinds, Export(n, kind)
        PROVE  OtherTypes'
    BY <1>2, CppServerAssumption DEF OtherTypes, Export, NewClosure
  <1>3. CASE ExportFails
    BY <1>3, CppServerAssumption DEF OtherTypes, ExportFails, NewClosure, Keeps
  <1>4. CASE Close \/ DeleteHandlers \/ CloseInDestructor
    BY Zenon, <1>4 DEF OtherTypes, Close, DeleteHandlers, CloseInDestructor
  <1>5. ASSUME NEW i \in Calls, CallStep(i)
        PROVE  OtherTypes'
    <2>1. CASE Invoke(i)
      BY <2>1 DEF OtherTypes, Invoke, serverVars
    <2>2. CASE Same
      BY <2>2 DEF OtherTypes, Same, serverVars
    <2>3. Invoke(i) \/ Same
      BY <1>5, Zenon DEF CallStep, Dispatch, Refuse, CopyArgs, Body, Emit, Queue, Receive, CallOut,
                         CallReturns, Return, ReturnNothing, Unwind, FreeResult, Finish
    <2>4. QED
      BY <2>1, <2>2, <2>3
  <1>6. QED
    BY <1>1, <1>2, <1>3, <1>4, <1>5 DEF Next

\* The server's state keeps its types, for any number of calls, names and registrations.
THEOREM ServerTypes == Spec => []TypeOK
  <1>1. Init => OtherTypes
    BY DEF Init, OtherTypes
  <1>2. OtherTypes /\ exports \in 0..MaxExports /\ [Next]_vars => OtherTypes'
    BY StepOtherTypes
  <1>3. ValuesInv /\ ClosuresInv /\ exports \in 0..MaxExports /\ OtherTypes => TypeOK
    BY DEF ValuesInv, ClosuresInv, OtherTypes, TypeOK
  <1>4. Spec => []ValuesInv
    <2>1. Init => ValuesInv
      BY ValuesInitInv DEF Init
    <2>2. ValuesInv /\ [Next]_vars => ValuesInv'
      BY StepUsesValues, ValuesStepInv
    <2>3. QED
      BY <2>1, <2>2, PTL DEF Spec
  <1>5. QED
    BY <1>1, <1>2, <1>3, <1>4, ClosuresAlways, PTL DEF Spec

\* register_entry keeps the entries there are, and their order.
LEMMA StepKeepsRouting ==
    ASSUME registry \in Seq(Entries), exports \in 0..MaxExports, [Next]_vars,
           NEW name \in Names, NEW k \in DOMAIN registry, find_handler(name, k)
    PROVE  find_handler(name, k)' /\ registry'[k] = registry[k]
  <1>1. CASE UNCHANGED registry
    BY <1>1 DEF find_handler
  <1>2. ASSUME NEW n \in Names, NEW kind \in Kinds, Export(n, kind)
        PROVE  find_handler(name, k)' /\ registry'[k] = registry[k]
    <2> DEFINE e == [name |-> n, kind |-> kind, closure |-> exports + 1]
    <2>1. e \in Entries
      BY <1>2, CppServerAssumption DEF Export, NewClosure, Entries, Closures
    <2>2. registry' = Append(registry, e)
      BY <1>2 DEF Export, Appended
    <2> HIDE DEF e
    <2>3. /\ DOMAIN registry' = 1..(Len(registry) + 1)
          /\ DOMAIN registry = 1..Len(registry) /\ Len(registry) \in Nat
          /\ \A j \in DOMAIN registry : registry'[j] = registry[j]
      BY <2>1, <2>2
    <2>4. QED
      BY <2>3 DEF find_handler
  <1>3. ASSUME NEW i \in Calls, CallStep(i)
        PROVE  UNCHANGED registry
    <2>1. CASE Invoke(i)
      BY <2>1 DEF Invoke, serverVars
    <2>2. CASE Same
      BY <2>2 DEF Same, serverVars
    <2>3. Invoke(i) \/ Same
      BY <1>3, Zenon DEF CallStep, Dispatch, Refuse, CopyArgs, Body, Emit, Queue, Receive, CallOut,
           CallReturns,
                Return, ReturnNothing, Unwind, FreeResult, Finish
    <2>4. QED
      BY <2>1, <2>2, <2>3
  <1>4. CASE ExportFails \/ Close \/ DeleteHandlers \/ CloseInDestructor \/ UNCHANGED vars
    BY <1>4, <1>1 DEF ExportFails, Close, DeleteHandlers, CloseInDestructor, vars, serverVars
  <1>5. QED
    BY <1>1, <1>2, <1>3, <1>4 DEF Next

\* Once a name is exported, every later call of it runs the same closure, for any number of
\* names, registrations and calls.
THEOREM RoutingNeverChanges == Spec => RoutingStable
  <1>1. ClosuresInv /\ exports \in 0..MaxExports /\ [Next]_vars =>
          [\A name \in Names, k \in DOMAIN registry :
             find_handler(name, k) => find_handler(name, k)' /\ registry'[k] = registry[k]]_vars
    BY StepKeepsRouting DEF ClosuresInv
  <1>2. QED
    BY <1>1, ClosuresAlways, PTL DEF Spec, RoutingStable

-----------------------------------------------------------------------------
\* What finished calls leave behind.

\* The values of call i, by where its thread is.
Tidy(i) ==
    /\ At(i, {"none", "refused"}) => \A r \in RawsOf(i) : raw[r] = {}
    /\ At(i, {"none", "refused", "start", "free_args", "done"}) => \A s \in SlotsOf(i) : s \notin alive
    /\ ~At(i, {"unwind"}) => raw[ResultRaw(i)] = {}
    /\ ~At(i, {"called"}) /\ Kind(i) \in {"unary", "stream"} => raw[ChunkRaw(i)] = {}
    /\ At(i, {"done"}) => raw[ChunkRaw(i)] = {} /\ (Kind(i) \in {"unary", "stream"} => raw[ArgsRaw(i)] = {})

CallsTyped == call \in [Calls -> [pc : Points, entry : Entries \cup {NoEntry}]]

\* A step of a call touches only the places in P.
Touches(P) ==
    /\ \A p \in Places \ P : raw'[p] = raw[p]
    /\ \A s \in Slots \ P : s \in alive' <=> s \in alive

\* Operations on one Value touch that Value.
LEMMA SlotTouches ==
    ASSUME ValuesTypeOK, NEW s \in Slots,
           Scalar(s) \/ Text(s) \/ EmitValue(s) \/ Destroy(s) \/ \E p \in Places : DeepCopy(s, p)
    PROVE  Touches({s})
  BY DEF ValuesTypeOK, Touches, Scalar, Text, EmitValue, Destroy, DeepCopy, Places

\* Operations on two Values touch those two.
LEMMA PairTouches ==
    ASSUME ValuesTypeOK, NEW s \in Slots, NEW t \in Slots,
           Container(s, {t}) \/ MoveConstruct(s, t) \/ MoveAssign(s, t) \/ CopyAssign(s, t)
    PROVE  Touches({s, t})
  BY ZenonT(60) DEF ValuesTypeOK, Touches, Container, MoveConstruct, MoveAssign, CopyAssign, Places

\* Operations between a Value and the core touch that Value and that struct.
LEMMA RawTouches ==
    ASSUME ValuesTypeOK, NEW s \in Slots, NEW r \in Raws,
           Adopt(s, r) \/ AdoptInto(s, r) \/ Release(s, r) \/ CoreDecodes(r) \/ CoreFrees(r)
    PROVE  Touches({s, r})
  BY DEF ValuesTypeOK, Touches, Adopt, AdoptInto, Release, CoreDecodes, CoreFrees, Places
\* A step of a call touches only its own places, and moves only itself on.
LEMMA CallTouchesOwn ==
    ASSUME ValuesTypeOK, CallsTyped, NEW i \in Calls, CallStep(i)
    PROVE  /\ Touches(SlotsOf(i) \cup RawsOf(i))
           /\ \A j \in Calls : j # i => call'[j] = call[j]
  <1> DEFINE P == SlotsOf(i) \cup RawsOf(i)
  <1>1. \A Q \in SUBSET P : Touches(Q) => Touches(P)
    BY DEF Touches
  <1>2. /\ \A s \in SlotsOf(i) : {s} \in SUBSET P
        /\ \A s \in SlotsOf(i), t \in SlotsOf(i) : {s, t} \in SUBSET P
        /\ \A s \in SlotsOf(i), r \in RawsOf(i) : {s, r} \in SUBSET P
    OBVIOUS
  <1>3. /\ {ArgSlot(i), Local(i), Other(i)} \subseteq SlotsOf(i)
        /\ {ArgsRaw(i), ResultRaw(i), ChunkRaw(i)} \subseteq RawsOf(i)
    BY DEF SlotsOf, RawsOf
  <1> HIDE DEF P
  <1>4. ASSUME UNCHANGED valueVars
        PROVE  Touches(P)
    BY <1>4 DEF Touches, valueVars
  <1>5. ASSUME NEW s \in SlotsOf(i),
               Scalar(s) \/ Text(s) \/ EmitValue(s) \/ Destroy(s) \/ \E p \in Places : DeepCopy(s, p)
        PROVE  Touches(P)
    <2>1. s \in Slots
      BY PlacesOfCall
    <2>2. Touches({s})
      BY <1>5, <2>1, SlotTouches
    <2>3. QED
      BY <2>2, <1>1, <1>2
  <1>6. ASSUME NEW s \in SlotsOf(i), NEW t \in SlotsOf(i),
               Container(s, {t}) \/ MoveConstruct(s, t) \/ MoveAssign(s, t) \/ CopyAssign(s, t)
        PROVE  Touches(P)
    <2>1. s \in Slots /\ t \in Slots
      BY PlacesOfCall
    <2>2. Touches({s, t})
      BY <1>6, <2>1, PairTouches
    <2>3. QED
      BY <2>2, <1>1, <1>2
  <1>7. ASSUME NEW r \in RawsOf(i), \/ Adopt(Local(i), r) \/ AdoptInto(Local(i), r) \/ Release(Local(i), r)
                                     \/ CoreDecodes(r) \/ CoreFrees(r)
        PROVE  Touches(P)
    <2>1. r \in Raws /\ Local(i) \in SlotsOf(i) /\ Local(i) \in Slots
      BY <1>3, PlacesOfCall DEF RawsOf
    <2>2. Touches({Local(i), r})
      BY <1>7, <2>1, RawTouches
    <2>3. QED
      BY <2>1, <2>2, <1>1, <1>2
  <1>8. Touches(P)
    <2>1. CASE (\E name \in Names : Dispatch(i, name)) \/ Queue(i) \/ CallOut(i) \/ FreeResult(i) \/ Finish(i)
      BY <2>1, <1>3, <1>7 DEF Dispatch, Queue, CallOut, FreeResult, Finish
    <2>2. CASE Refuse(i) \/ Invoke(i) \/ ReturnNothing(i)
      BY <2>2, <1>4 DEF Refuse, Invoke, ReturnNothing
    <2>3. CASE CopyArgs(i) \/ Emit(i) \/ Unwind(i)
      <3>1. CASE CopyArgs(i)
        BY <3>1, <1>3, <1>5, PlacesOfCall DEF CopyArgs
      <3>2. CASE Emit(i)
        BY <3>2, <1>3, <1>5 DEF Emit
      <3>3. CASE Unwind(i)
        BY Zenon, <3>3, <1>5 DEF Unwind
      <3>4. QED
        BY Zenon, <2>3, <3>1, <3>2, <3>3
    <2>4. CASE Body(i)
      <3>1. CASE Scalar(Local(i)) \/ Text(Local(i)) \/ Destroy(Local(i)) \/ DeepCopy(Local(i), ArgSlot(i))
        BY <3>1, <1>3, <1>5, PlacesOfCall
      <3>2. CASE \/ Container(Local(i), {Other(i)}) \/ MoveConstruct(Other(i), Local(i))
                 \/ MoveAssign(Local(i), Other(i)) \/ CopyAssign(Local(i), Other(i))
        BY Zenon, <3>2, <1>3, <1>6
      <3>3. QED
        BY <2>4, <3>1, <3>2 DEF Body
    <2>5. CASE Receive(i) \/ CallReturns(i) \/ Return(i)
      BY <2>5, <1>3, <1>7 DEF Receive, CallReturns, Return
    <2>6. QED
      BY <2>1, <2>2, <2>3, <2>4, <2>5 DEF CallStep
  <1>9. \A j \in Calls : j # i => call'[j] = call[j]
    <2>1. call' = call \/ (\E pc : Goto(i, pc)) \/ \E c : call' = [call EXCEPT ![i] = c]
      <3>1. CASE \/ (\E name \in Names : Dispatch(i, name)) \/ Refuse(i) \/ CopyArgs(i) \/ Invoke(i) \/ Body(i)
                 \/ Emit(i) \/ Queue(i) \/ Receive(i)
        BY Zenon, <3>1 DEF Dispatch, Refuse, CopyArgs, Invoke, Body, Emit, Queue, Receive
      <3>2. CASE \/ CallOut(i) \/ CallReturns(i) \/ Return(i) \/ ReturnNothing(i) \/ Unwind(i) \/ FreeResult(i)
                 \/ Finish(i)
        BY Zenon, <3>2 DEF CallOut, CallReturns, Return, ReturnNothing, Unwind, FreeResult, Finish
      <3>3. QED
        BY Zenon, <3>1, <3>2 DEF CallStep
    <2>2. ASSUME NEW pc, Goto(i, pc) PROVE \A j \in Calls : j # i => call'[j] = call[j]
      BY <2>2 DEF Goto, CallsTyped
    <2>3. ASSUME NEW c, call' = [call EXCEPT ![i] = c] PROVE \A j \in Calls : j # i => call'[j] = call[j]
      BY Zenon, <2>3 DEF CallsTyped
    <2>4. QED
      BY Zenon, <2>1, <2>2, <2>3
  <1>10. QED
    BY <1>8, <1>9 DEF P

\* So the other calls stay as tidy as they were.
LEMMA OthersStayTidy ==
    ASSUME ValuesTypeOK, CallsTyped, NEW i \in Calls, CallStep(i), NEW j \in Calls, j # i, Tidy(j)
    PROVE  Tidy(j)'
  <1>1. \A p \in SlotsOf(j) \cup RawsOf(j) : p \in Places /\ p \notin SlotsOf(i) \cup RawsOf(i)
    BY CppServerAssumption DEF SlotsOf, RawsOf, Places, ArgSlot, Local, Other, ArgsRaw, ResultRaw, ChunkRaw
  <1>2. \A p \in SlotsOf(j) \cup RawsOf(j) : raw'[p] = raw[p]
    BY <1>1, CallTouchesOwn DEF Touches
  <1>3. \A s \in SlotsOf(j) : s \in alive' <=> s \in alive
    BY <1>1, CallTouchesOwn, PlacesOfCall DEF Touches
  <1>4. call'[j] = call[j]
    BY Zenon, CallTouchesOwn
  <1>5. {ArgsRaw(j), ResultRaw(j), ChunkRaw(j)} \subseteq RawsOf(j)
    BY DEF RawsOf
  <1>6. QED
    BY <1>2, <1>3, <1>4, <1>5 DEF Tidy, At, Kind
\* The call that steps stays tidy: one step for each thing a thread does.
LEMMA CallStaysTidy ==
    ASSUME ValuesTypeOK, CallsTyped, NEW i \in Calls, CallStep(i), Tidy(i)
    PROVE  Tidy(i)'
  <1>1. /\ ArgSlot(i) \in Slots /\ Local(i) \in Slots /\ Other(i) \in Slots
        /\ ArgsRaw(i) \in Raws /\ ResultRaw(i) \in Raws /\ ChunkRaw(i) \in Raws
        /\ ArgsRaw(i) # ResultRaw(i) /\ ArgsRaw(i) # ChunkRaw(i) /\ ResultRaw(i) # ChunkRaw(i)
        /\ SlotsOf(i) \cap RawsOf(i) = {}
        /\ SlotsOf(i) = {ArgSlot(i), Local(i), Other(i)}
        /\ RawsOf(i) = {ArgsRaw(i), ResultRaw(i), ChunkRaw(i)}
    BY Zenon, PlacesOfCall, CppValuesAssumption DEF SlotsOf, RawsOf, ArgSlot, Local, Other, ArgsRaw,
         ResultRaw, ChunkRaw
  <1>2. \A r \in RawsOf(i) : r \in Places /\ r \notin Slots
    BY <1>1, CppValuesAssumption DEF Places
  <1>3. CASE \E name \in Names : Dispatch(i, name)
    <2>1. PICK e : call' = [call EXCEPT ![i] = [pc |-> "start", entry |-> e]]
      BY Zenon, <1>3 DEF Dispatch
    <2>2. At(i, {"none"}) /\ CoreDecodes(ArgsRaw(i))
      BY <1>3 DEF Dispatch
    <2>3. QED
      BY Zenon, <2>1, <2>2, <1>1, <1>2 DEF CoreDecodes, Tidy, At, Kind, CallsTyped, ValuesTypeOK
  <1>4. CASE Refuse(i) \/ Invoke(i) \/ ReturnNothing(i)
    <2>1. PICK pc \in {"refused", "body", "unwind"} : Goto(i, pc) /\ UNCHANGED <<alive, owns, raw>>
      BY Zenon, <1>4 DEF Refuse, Invoke, ReturnNothing, valueVars
    <2>2. CASE Refuse(i)
      BY <2>1, <2>2, <1>1 DEF Refuse, Goto, Tidy, At, Kind, CallsTyped
    <2>3. CASE Invoke(i)
      BY <2>1, <2>3, <1>1 DEF Invoke, Goto, Tidy, At, Kind, CallsTyped
    <2>4. CASE ReturnNothing(i)
      BY <2>1, <2>4, <1>1 DEF ReturnNothing, Goto, Tidy, At, Kind, CallsTyped
    <2>5. QED
      BY Zenon, <1>4, <2>2, <2>3, <2>4
  <1>5. CASE CopyArgs(i)
    BY <1>5, <1>1, <1>2 DEF CopyArgs, DeepCopy, Goto, Tidy, At, Kind, CallsTyped, ValuesTypeOK
  <1>6. CASE Body(i) \/ Emit(i)
    <2>1. At(i, {"body"}) /\ UNCHANGED call
      BY <1>6 DEF Body, Emit
    <2>2. raw'[ResultRaw(i)] = raw[ResultRaw(i)] /\ raw'[ChunkRaw(i)] = raw[ChunkRaw(i)]
      BY ZenonT(60), <1>6, <1>1, <1>2 DEF Body, Emit, EmitValue, Scalar, Text, Destroy, Container,
           MoveConstruct, MoveAssign,
                              CopyAssign, DeepCopy, ValuesTypeOK
    <2>3. QED
      BY <2>1, <2>2 DEF Tidy, At, Kind
  <1>7. CASE Queue(i) \/ Receive(i)
    BY Zenon, <1>7, <1>1, <1>2 DEF Queue, Receive, CoreDecodes, AdoptInto, Tidy, At, Kind, CallsTyped, ValuesTypeOK
  <1>8. CASE CallOut(i) \/ CallReturns(i)
    BY <1>8, <1>1, <1>2 DEF CallOut, CallReturns, CoreDecodes, Adopt, AdoptInto, Goto, Tidy, At, Kind,
         CallsTyped,
                            ValuesTypeOK
  <1>9. CASE Return(i)
    BY <1>9, <1>1, <1>2 DEF Return, Release, Goto, Tidy, At, Kind, CallsTyped, ValuesTypeOK
  <1>10. CASE Unwind(i)
    BY <1>10, <1>1, <1>2 DEF Unwind, Destroy, Tidy, At, Kind, ValuesTypeOK
  <1>11. CASE FreeResult(i)
    BY <1>11, <1>1, <1>2 DEF FreeResult, CoreFrees, Goto, Tidy, At, Kind, CallsTyped, ValuesTypeOK
  <1>12. CASE Finish(i)
    BY <1>12, <1>1, <1>2 DEF Finish, FreesArgs, CoreFrees, Goto, Tidy, At, Kind, CallsTyped, ValuesTypeOK
  <1>13. QED
    BY <1>3, <1>4, <1>5, <1>6, <1>7, <1>8, <1>9, <1>10, <1>11, <1>12 DEF CallStep

\* All of it together: Values, calls, and what calls leave.
TidyInv == ValuesInv /\ ClosuresInv /\ exports \in 0..MaxExports /\ \A i \in Calls : Tidy(i)

\* At the start no call has run, and nothing is held.
LEMMA TidyInitInv == Init => TidyInv
  <1> SUFFICES ASSUME Init PROVE TidyInv
    OBVIOUS
  <1>1. ValuesInv /\ ClosuresInv /\ exports \in 0..MaxExports
    BY ValuesInitInv, ClosuresInitInv, CppServerAssumption DEF Init
  <1>2. ASSUME NEW i \in Calls
        PROVE  Tidy(i)
    <2>1. \A r \in RawsOf(i) : raw[r] = {}
      BY PlacesOfCall DEF Init, ValuesInit, RawsOf, Places
    <2>2. alive = {} /\ At(i, {"none", "refused"}) /\ call[i].pc = "none"
      BY DEF Init, ValuesInit, At
    <2>3. QED
      BY Zenon, <2>1, <2>2 DEF Tidy, At, RawsOf
  <1>3. QED
    BY <1>1, <1>2 DEF TidyInv

\* Every step keeps what calls leave behind tidy.
LEMMA TidyStepInv == TidyInv /\ [Next]_vars => TidyInv'
  <1> SUFFICES ASSUME TidyInv, [Next]_vars PROVE TidyInv'
    OBVIOUS
  <1>1. ValuesInv' /\ ClosuresInv' /\ exports' \in 0..MaxExports
    BY Zenon, StepUsesValues, ValuesStepInv, StepClosures, ExportsCounted DEF TidyInv
  <1>2. ValuesTypeOK /\ CallsTyped
    BY DEF TidyInv, ValuesInv, ClosuresInv, CallsTyped
  <1>3. ASSUME NEW i \in Calls, CallStep(i), NEW j \in Calls
        PROVE  Tidy(j)'
    BY Zenon, <1>2, <1>3, CallStaysTidy, OthersStayTidy DEF TidyInv
  <1>4. ASSUME UNCHANGED <<valueVars, call>>, NEW j \in Calls
        PROVE  Tidy(j)'
    BY <1>4 DEF TidyInv, Tidy, At, Kind, valueVars
  <1>5. \A j \in Calls : Tidy(j)'
    <2>1. CASE \E i \in Calls : CallStep(i)
      BY <2>1, <1>3
    <2>2. CASE \/ (\E name \in Names, kind \in Kinds : Export(name, kind))
               \/ ExportFails \/ Close \/ DeleteHandlers \/ CloseInDestructor
      <3>1. UNCHANGED <<valueVars, call>>
        BY Zenon, <2>2 DEF Export, ExportFails, Close, DeleteHandlers, CloseInDestructor
      <3>2. QED
        BY Zenon, <3>1, <1>4
    <2>3. CASE UNCHANGED vars
      BY <2>3, <1>4 DEF vars
    <2>4. QED
      BY <2>1, <2>2, <2>3 DEF Next
  <1>6. QED
    BY <1>1, <1>5 DEF TidyInv

\* However many calls run at once, and whatever their handlers do, a finished call has freed
\* all its values but the arguments of client-streaming and bidirectional calls.
THEOREM FinishedCallsAreTidy == Spec => []OnlyStreamArgsLeak
  <1>1. TidyInv => OnlyStreamArgsLeak
    <2> SUFFICES ASSUME TidyInv, NEW i \in Calls, At(i, {"done"})
                 PROVE  /\ SlotsOf(i) \cap alive = {}
                        /\ \A r \in RawsOf(i) : raw[r] # {} => r = ArgsRaw(i) /\ Kind(i) \in {"client", "bidi"}
      BY DEF OnlyStreamArgsLeak
    <2>1. Kind(i) \in Kinds
      <3>1. call[i].entry \in Entries \cup {NoEntry}
        BY DEF TidyInv, ClosuresInv
      <3>2. \A e \in Entries \cup {NoEntry} : e.kind \in Kinds
        <4>1. \A e \in Entries : e.kind \in Kinds
          BY DEF Entries
        <4>2. NoEntry.kind \in Kinds
          BY DEF NoEntry, Kinds
        <4>3. QED
          BY <4>1, <4>2
      <3>3. QED
        BY <3>1, <3>2 DEF Kind
    <2>2. Tidy(i)
      BY DEF TidyInv
    <2>3. SlotsOf(i) \cap alive = {}
      BY <2>2 DEF Tidy, At
    <2>4. raw[ResultRaw(i)] = {} /\ raw[ChunkRaw(i)] = {}
      BY <2>2 DEF Tidy, At
    <2>5. Kind(i) \in {"unary", "stream"} => raw[ArgsRaw(i)] = {}
      BY <2>2 DEF Tidy, At
    <2>6. QED
      BY <2>1, <2>3, <2>4, <2>5 DEF RawsOf, Kinds
  <1>2. QED
    BY <1>1, TidyInitInv, TidyStepInv, PTL DEF Spec
=============================================================================
