----------------------------- MODULE CppValues -----------------------------
(***************************************************************************)
(* callwire::Value of cpp/include/callwire/callwire.hpp, and who must free *)
(* the heap blocks behind it.  A Value is its raw_ (a callwire_value_t)    *)
(* and owns_; a raw_ is abstracted to the blocks reachable from it, none   *)
(* for a scalar or CALLWIRE_NULL.  The C core's own callwire_value_t       *)
(* variables are the other places blocks live in.                          *)
(***************************************************************************)
CONSTANTS
    Slots,         \* Value objects: locals, vector elements, parameters
    Raws,          \* callwire_value_t variables of the C core and of the wrappers
    Blocks,        \* heap blocks
    OddBlocks      \* blocks that hold map keys other than strings

ASSUME CppValuesAssumption == Slots \cap Raws = {} /\ OddBlocks \subseteq Blocks

Places == Slots \cup Raws

VARIABLES
    alive,         \* the constructed Values
    owns,          \* owns[s]: owns_
    raw,           \* raw[p]: the blocks reachable from the callwire_value_t at p
    live,          \* the allocated blocks
    bad,           \* a block was freed twice, or read after it was freed
    wild           \* a map key that is not a string was read as one: undefined from here on

valueVars == <<alive, owns, raw, live, bad, wild>>

ValuesInit ==
    /\ alive = {}
    /\ owns = [s \in Slots |-> FALSE]
    /\ raw = [p \in Places |-> {}]
    /\ live = {}
    /\ bad = FALSE
    /\ wild = FALSE

Plain == Blocks \ OddBlocks

-----------------------------------------------------------------------------
\* Constructors.

\* Null, bool, integer, double: nothing on the heap.
Scalar(s) ==
    /\ s \notin alive
    /\ alive' = alive \cup {s}
    /\ owns' = [owns EXCEPT ![s] = FALSE]
    /\ raw' = [raw EXCEPT ![s] = {}]
    /\ UNCHANGED <<live, bad, wild>>

\* A string or binary: one block.
Text(s) ==
    /\ s \notin alive
    /\ \E b \in Plain \ live :
         /\ live' = live \cup {b}
         /\ raw' = [raw EXCEPT ![s] = {b}]
    /\ alive' = alive \cup {s}
    /\ owns' = [owns EXCEPT ![s] = TRUE]
    /\ UNCHANGED <<bad, wild>>

\* Mutant of Container: the elements keep what the container now owns.
ContainerShares(s, E) ==
    /\ s \notin alive /\ E \subseteq alive
    /\ \E F \in SUBSET (Plain \ live) :
         /\ F # {}
         /\ live' = live \cup F
         /\ raw' = [raw EXCEPT ![s] = F \cup UNION {raw[e] : e \in E}]
    /\ alive' = alive \cup {s}
    /\ owns' = [owns EXCEPT ![s] = TRUE]
    /\ UNCHANGED <<bad, wild>>

\* An array or map, with its blocks for items or for keys and values: the elements of the
\* vector or map given are released into it, and destroyed with the parameter.
Container(s, E) ==
    /\ s \notin alive /\ E \subseteq alive
    /\ \E F \in SUBSET (Plain \ live) :
         /\ F # {}
         /\ live' = live \cup F
         /\ raw' = [p \in Places |-> IF p = s THEN F \cup UNION {raw[e] : e \in E}
                                     ELSE IF p \in E THEN {} ELSE raw[p]]
    /\ alive' = (alive \ E) \cup {s}
    /\ owns' = [t \in Slots |-> IF t = s THEN TRUE ELSE IF t \in E THEN FALSE ELSE owns[t]]
    /\ UNCHANGED <<bad, wild>>

\* Value::adopt(raw), of a raw nobody uses afterwards.
Adopt(s, r) ==
    /\ s \notin alive
    /\ alive' = alive \cup {s}
    /\ owns' = [owns EXCEPT ![s] = TRUE]
    /\ raw' = [raw EXCEPT ![s] = raw[r], ![r] = {}]
    /\ UNCHANGED <<live, bad, wild>>

\* The blocks a deep copy of p allocates when "after" is what is allocated: none when p has
\* none.  Keys are copied as strings, whatever they are.
CopiedBlocks(p, after) == {F \in SUBSET (Plain \ after) : (F = {}) <=> (raw[p] = {})}
ReadsBad(p, after) == ~(raw[p] \subseteq after)

\* Value::deepCopy(src) into a new Value, and the copy constructor.
DeepCopy(s, p) ==
    /\ s \notin alive /\ p \in alive \cup Raws
    /\ \E F \in CopiedBlocks(p, live) :
         /\ live' = live \cup F
         /\ raw' = [raw EXCEPT ![s] = F]
         /\ owns' = [owns EXCEPT ![s] = (F # {})]
    /\ alive' = alive \cup {s}
    /\ bad' = (bad \/ ReadsBad(p, live))
    /\ wild' = (raw[p] \cap OddBlocks # {})

\* The move constructor.
MoveConstruct(s, t) ==
    /\ s \notin alive /\ t \in alive
    /\ alive' = alive \cup {s}
    /\ owns' = [owns EXCEPT ![s] = owns[t], ![t] = FALSE]
    /\ raw' = [raw EXCEPT ![s] = raw[t], ![t] = {}]
    /\ UNCHANGED <<live, bad, wild>>

-----------------------------------------------------------------------------
\* Assignment, release and destruction.

\* free_if_owned, and callwire_value_free of everything reachable.
FreedBy(s) == IF owns[s] THEN raw[s] ELSE {}
FreesBad(X) == ~(X \subseteq live)

\* operator=(const Value &): free, deep copy into a temporary, move the temporary in.
CopyAssign(s, t) ==
    /\ s \in alive /\ t \in alive /\ s # t
    /\ LET after == live \ FreedBy(s) IN
       /\ \E F \in CopiedBlocks(t, after) :
            /\ live' = after \cup F
            /\ raw' = [raw EXCEPT ![s] = F]
            /\ owns' = [owns EXCEPT ![s] = (F # {})]
       /\ bad' = (bad \/ FreesBad(FreedBy(s)) \/ ReadsBad(t, after))
    /\ wild' = (raw[t] \cap OddBlocks # {})
    /\ UNCHANGED alive

\* operator=(Value &&).
MoveAssign(s, t) ==
    /\ s \in alive /\ t \in alive /\ s # t
    /\ live' = live \ FreedBy(s)
    /\ bad' = (bad \/ FreesBad(FreedBy(s)))
    /\ raw' = [raw EXCEPT ![s] = raw[t], ![t] = {}]
    /\ owns' = [owns EXCEPT ![s] = owns[t], ![t] = FALSE]
    /\ UNCHANGED <<alive, wild>>

\* out = Value::adopt(raw), in the receive functions of clients and handlers.
AdoptInto(s, r) ==
    /\ s \in alive
    /\ live' = live \ FreedBy(s)
    /\ bad' = (bad \/ FreesBad(FreedBy(s)))
    /\ raw' = [raw EXCEPT ![s] = raw[r], ![r] = {}]
    /\ owns' = [owns EXCEPT ![s] = TRUE]
    /\ UNCHANGED <<alive, wild>>

\* *result_out = result.release_raw().
Release(s, r) ==
    /\ s \in alive /\ raw[r] = {}
    /\ raw' = [raw EXCEPT ![r] = raw[s], ![s] = {}]
    /\ owns' = [owns EXCEPT ![s] = FALSE]
    /\ UNCHANGED <<alive, live, bad, wild>>

\* Mutant of EmitValue: the chunk is not released, so the parameter's destructor frees it again.
EmitValueTwice(s) ==
    /\ s \in alive
    /\ live' = live \ raw[s]
    /\ bad' = (bad \/ raw[s] # {})
    /\ raw' = [raw EXCEPT ![s] = {}]
    /\ owns' = [owns EXCEPT ![s] = FALSE]
    /\ alive' = alive \ {s}
    /\ UNCHANGED wild

\* An EmitFn: the chunk is released, written, and freed by callwire_value_free; the parameter
\* is then destroyed.
EmitValue(s) ==
    /\ s \in alive
    /\ live' = live \ raw[s]
    /\ bad' = (bad \/ FreesBad(raw[s]))
    /\ raw' = [raw EXCEPT ![s] = {}]
    /\ owns' = [owns EXCEPT ![s] = FALSE]
    /\ alive' = alive \ {s}
    /\ UNCHANGED wild

Destroy(s) ==
    /\ s \in alive
    /\ live' = live \ FreedBy(s)
    /\ bad' = (bad \/ FreesBad(FreedBy(s)))
    /\ raw' = [raw EXCEPT ![s] = {}]
    /\ owns' = [owns EXCEPT ![s] = FALSE]
    /\ alive' = alive \ {s}
    /\ UNCHANGED wild

-----------------------------------------------------------------------------
\* The C core: a decoded value, whose maps may have keys of any type, and its release.

CoreDecodes(r) ==
    /\ raw[r] = {}
    /\ \E F \in SUBSET (Blocks \ live) :
         /\ live' = live \cup F
         /\ raw' = [raw EXCEPT ![r] = F]
    /\ UNCHANGED <<alive, owns, bad, wild>>

CoreFrees(r) ==
    /\ live' = live \ raw[r]
    /\ bad' = (bad \/ FreesBad(raw[r]))
    /\ raw' = [raw EXCEPT ![r] = {}]
    /\ UNCHANGED <<alive, owns, wild>>

-----------------------------------------------------------------------------
\* Any program that uses Values: in any order, until its behaviour is undefined.
ValuesNext ==
    /\ ~wild
    /\ \/ \E s \in Slots : Scalar(s) \/ Text(s) \/ EmitValue(s) \/ Destroy(s)
       \/ \E s \in Slots, E \in SUBSET Slots : Container(s, E)
       \/ \E s \in Slots, p \in Places : DeepCopy(s, p)
       \/ \E s \in Slots, t \in Slots : MoveConstruct(s, t) \/ CopyAssign(s, t) \/ MoveAssign(s, t)
       \/ \E s \in Slots, r \in Raws : Adopt(s, r) \/ AdoptInto(s, r) \/ Release(s, r)
       \/ \E r \in Raws : CoreDecodes(r) \/ CoreFrees(r)

ValuesSpec == ValuesInit /\ [][ValuesNext]_valueVars

-----------------------------------------------------------------------------
(* Properties *)

\* Values, their blocks and their flags have their types, and only constructed Values hold
\* anything.
ValuesTypeOK ==
    /\ alive \subseteq Slots
    /\ owns \in [Slots -> BOOLEAN]
    /\ raw \in [Places -> SUBSET Blocks]
    /\ live \subseteq Blocks
    /\ bad \in BOOLEAN /\ wild \in BOOLEAN
    /\ \A s \in Slots \ alive : raw[s] = {}

\* Every allocated block is reachable from exactly one place: a Value that owns it, or one
\* variable of the core (release_raw, adopt, the move and copy operations of callwire.hpp).
\* So nothing is leaked while its place lives, and nothing is freed twice.
OneOwner ==
    /\ live = UNION {raw[p] : p \in Places}
    /\ \A p, q \in Places : p # q => raw[p] \cap raw[q] = {}
    /\ \A s \in Slots : raw[s] # {} => owns[s]

\* No Value is freed twice or read after it was freed, by free_if_owned, deepCopy or the
\* wrappers' callwire_value_free.
NeverBad == ~bad
=============================================================================
