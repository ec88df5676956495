--------------------------- MODULE EngineContract ---------------------------
(***************************************************************************)
(* What an implementation of the EngineCore trait (src/src/engine_core.rs) *)
(* promises the run loop about the requests it is handed: each is answered *)
(* with exactly one terminal output, at once or later, and until then it   *)
(* is counted by num_unfinished_requests.                                  *)
(***************************************************************************)
CONSTANTS Requests

VARIABLES
  unfinished,  \* requests the engine still owes a terminal output
  answered     \* requests it has sent one

contract == <<unfinished, answered>>

Init == unfinished = {} /\ answered = {}

\* handle_input(Request) that keeps the request.
Accept(r) ==
  /\ r \in Requests \ (unfinished \cup answered)
  /\ unfinished' = unfinished \cup {r}
  /\ UNCHANGED answered

\* handle_input(Request) that answers at once, or reject_request.
Refuse(r) ==
  /\ r \in Requests \ (unfinished \cup answered)
  /\ answered' = answered \cup {r}
  /\ UNCHANGED unfinished

\* The terminal outputs of one step(), on_internal(), abort or abort_all call.
Finish(S) ==
  /\ S # {} /\ S \subseteq unfinished
  /\ unfinished' = unfinished \ S
  /\ answered' = answered \cup S

Next ==
  \/ \E r \in Requests : Accept(r) \/ Refuse(r)
  \/ \E S \in SUBSET unfinished : Finish(S)

Spec == Init /\ [][Next]_contract

\* The engine does not stop while it owes an answer.
FairSpec == Spec /\ WF_contract(\E S \in SUBSET unfinished : Finish(S))
=============================================================================
