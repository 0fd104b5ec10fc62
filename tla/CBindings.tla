------------------------------ MODULE CBindings ------------------------------
(***************************************************************************)
(* The flat layers over the C core: c/src/convenience.c for C programs and *)
(* cobol/src/cobol_shim.c for COBOL ones.  They turn arrays of integers    *)
(* and character strings into callwire_value_t and back, on both sides of  *)
(* a unary call.  A string is a sequence of characters; which integer an   *)
(* integer is does not matter to any property and is left out.             *)
(***************************************************************************)
EXTENDS Integers, Sequences, FiniteSetsExt

CONSTANTS
    MaxArgs,     \* CALLWIRE_MAX_CONVENIENCE_ARGS (8)
    CobolArgs,   \* COBOL_MAX_ARGS (16)
    Field        \* width of the PIC X fields of a string handler (256)

ASSUME CBindingsAssumption == MaxArgs \in Nat /\ CobolArgs \in Nat /\ Field \in Nat \ {0}

NUL == "NUL"
Blank == " "

IntValue == [type |-> "int", text |-> <<>>]
StrValue(s) == [type |-> "str", text |-> s]
NilValue == [type |-> "nil", text |-> <<>>]
Failed == [type |-> "failed", text |-> <<>>]     \* a handler's non-zero return

-----------------------------------------------------------------------------
\* The caller's side.

IntArgs(argc) == [k \in 1..argc |-> IntValue]
StrArgs(arg) == IF arg = <<>> THEN <<>> ELSE <<StrValue(arg)>>

\* The argument arrays a function sends for what it is given: one, or none when it returns
\* -1 at once.  NULL and the empty string are no argument.
callwire_call_ints(argc) == {IntArgs(n) : n \in {argc} \cap 0..MaxArgs}
callwire_call_str(arg) == {StrArgs(arg)}
callwire_cobol_call_ints(argc) == {IntArgs(n) : n \in {argc} \cap 0..CobolArgs}
callwire_cobol_call_str(arg) == {StrArgs(arg)}

\* Mutant of CopyOut: copy_len is cut only when it exceeds the buffer.
CopyOutOverEnd(s, len) == SubSeq(s, 1, IF Len(s) > len THEN len - 1 ELSE Len(s)) \o <<NUL>>

\* result_buf of len bytes after the copy and the terminator.
CopyOut(s, len) == SubSeq(s, 1, IF Len(s) >= len THEN len - 1 ELSE Len(s)) \o <<NUL>>

-----------------------------------------------------------------------------
\* The handler's side: a COBOL program is called with fields of fixed width.

\* in_buf of cobol_str1_trampoline.
Padded(s) == [k \in 1..Field |-> IF k <= Len(s) THEN s[k] ELSE Blank]

\* out_buf without its trailing blanks.
Trimmed(out) == SubSeq(out, 1, Max({0} \cup {k \in 1..Field : out[k] # Blank}))

\* cobol_int2_trampoline; cob_call may fail.
cobol_int2_trampoline(args) ==
    IF Len(args) = 2 /\ \A k \in 1..Len(args) : args[k].type = "int"
      THEN {IntValue, Failed} ELSE {Failed}

\* cobol_str1_trampoline on a program that MOVEs its NAME to its RESULT.
cobol_str1_trampoline(args) ==
    IF Len(args) = 1 /\ \A k \in 1..Len(args) : args[k].type = "str"
      THEN {StrValue(Trimmed(Padded(args[1].text))), Failed} ELSE {Failed}

\* What is left of s by a field: at most Field characters, no blanks at the end.
FieldText(s) ==
    LET Ends == {k \in 1..Len(s) : k <= Field /\ s[k] # Blank}
    IN {s2 \in {SubSeq(s, 1, k) : k \in 0..Len(s)} :
            /\ \A k \in Ends : k <= Len(s2)
            /\ Len(s2) > 0 => Len(s2) \in Ends}
=============================================================================
