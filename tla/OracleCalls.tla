----------------------------- MODULE OracleCalls -----------------------------
(***************************************************************************)
(* What a caller of the JavaScript oracle may rely on, with no sidecar, no *)
(* pool and no channel.  A call is sent to an oracle at most once and      *)
(* answered at most once; a verdict is the verdict on the call that gets   *)
(* it, and only once it was sent.  Calls may fail at any moment, several   *)
(* together, and the failure tells which: a refusal is of a call no oracle *)
(* has seen, so it may be made again; a loss is of one an oracle may have  *)
(* run.                                                                    *)
(***************************************************************************)
CONSTANTS Calls, Verdicts, Refusals, Losses, None

VARIABLES stage, result

vars == <<stage, result>>

Unanswered == <<"none", None>>

Init ==
    /\ stage = [c \in Calls |-> "new"]
    /\ result = [c \in Calls |-> Unanswered]

Send(c) ==
    /\ stage[c] = "new" /\ result[c] = Unanswered
    /\ stage' = [stage EXCEPT ![c] = "sent"]
    /\ UNCHANGED result

Answer(c) ==
    /\ stage[c] = "sent" /\ result[c] = Unanswered
    /\ \E v \in Verdicts : result' = [result EXCEPT ![c] = <<v, c>>]
    /\ UNCHANGED stage

\* the calls of S, which are all in stage g, get one failure of F
Failing(S, F, g) ==
    /\ \A c \in S : result[c] = Unanswered /\ stage'[c] = g
    /\ \E f \in F :
          result' = [c \in Calls |-> IF c \in S THEN <<f, None>> ELSE result[c]]

Refuse(S) == UNCHANGED stage /\ Failing(S, Refusals, "new")
Lose(S)   == UNCHANGED stage /\ Failing(S, Losses, "sent")

\* the call that brings it to light may or may not have reached the oracle
SendFails(c, S) ==
    /\ stage[c] = "new" /\ c \in S
    /\ stage' = [stage EXCEPT ![c] = "sent"]
    /\ Failing(S, Losses, "sent")

Next ==
    \/ \E c \in Calls : Send(c) \/ Answer(c)
    \/ \E S \in SUBSET Calls :
          Refuse(S) \/ Lose(S) \/ \E c \in S : SendFails(c, S)

Spec == Init /\ [][Next]_vars
=============================================================================
