---------------------------- MODULE RpcContract ----------------------------
(***************************************************************************)
(* What a callwire client promises about the calls made through it,       *)
(* whatever the language: SPEC.md's unary and server-streaming patterns   *)
(* seen by the caller.  A call is opened once and returns once.  It       *)
(* returns "answered" only with the answer the server produced for this   *)
(* very call, and a stream that ends cleanly has handed over every chunk. *)
(* Any other return is a failure the caller is told about.                *)
(***************************************************************************)
EXTENDS Naturals

CONSTANT Calls       \* call identifiers, the `id` of SPEC.md

VARIABLES status,     \* status[i]: "idle", "open", "answered" or "failed"
          produced,   \* produced[i]: chunks the server has sent for call i
          finished,   \* finished[i]: the server has sent the terminal frame
          delivered   \* delivered[i]: chunks handed to the caller

contractVars == <<status, produced, finished, delivered>>

Init ==
    /\ status = [i \in Calls |-> "idle"]
    /\ produced = [i \in Calls |-> 0]
    /\ finished = [i \in Calls |-> FALSE]
    /\ delivered = [i \in Calls |-> 0]

\* The caller opens call i.
Open(i) ==
    /\ status[i] = "idle"
    /\ status' = [status EXCEPT ![i] = "open"]
    /\ UNCHANGED <<produced, finished, delivered>>

\* The server sends one more chunk of call i, possibly after the caller left.
Produce(i) ==
    /\ status[i] # "idle"
    /\ ~finished[i]
    /\ produced' = [produced EXCEPT ![i] = @ + 1]
    /\ UNCHANGED <<status, finished, delivered>>

\* The server sends the one terminal frame of call i.
Finish(i) ==
    /\ status[i] # "idle"
    /\ ~finished[i]
    /\ finished' = [finished EXCEPT ![i] = TRUE]
    /\ UNCHANGED <<status, produced, delivered>>

\* The next chunk reaches the caller.
Deliver(i) ==
    /\ status[i] = "open"
    /\ delivered[i] < produced[i]
    /\ delivered' = [delivered EXCEPT ![i] = @ + 1]
    /\ UNCHANGED <<status, produced, finished>>

\* The call returns with the server's answer: nothing of it is missing.
Answer(i) ==
    /\ status[i] = "open"
    /\ finished[i]
    /\ delivered[i] = produced[i]
    /\ status' = [status EXCEPT ![i] = "answered"]
    /\ UNCHANGED <<produced, finished, delivered>>

\* The call returns with an error, remote or local.
Fail(i) ==
    /\ status[i] = "open"
    /\ status' = [status EXCEPT ![i] = "failed"]
    /\ UNCHANGED <<produced, finished, delivered>>

Next == \E i \in Calls : Open(i) \/ Produce(i) \/ Finish(i)
                         \/ Deliver(i) \/ Answer(i) \/ Fail(i)

Spec == Init /\ [][Next]_contractVars
=============================================================================
