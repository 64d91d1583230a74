------------------------------- MODULE MCServing -------------------------------
(* Instances of Dispatch and Translation for TLC: an attempt that wins a response,  *)
(* and the relaying of a response to a client of another protocol.  The two share   *)
(* no state, so a behaviour moves one of them.                                      *)
EXTENDS MCDispatch, Translation

VARIABLE stage
servingVars == <<stage, vars, answerVars>>

\* The legs from Chat are reached from CommandCode and Kiro as they are from Ollama and Gemini.
ServedRoutes == AllRoutes \ {<<"DC", "CM">>, <<"DC", "CR">>, <<"KC", "CR">>}

\* The part that does not move starts in one state.
Idle == CHOOSE r \in Routes : TRUE

ServingInit ==
    /\ stage \in {"dispatch", "answer"} /\ Init /\ TranslationInit
    /\ stage = "dispatch" => route = Idle
    /\ stage = "answer" => expired = {} /\ unlocked

ServingNext ==
    \/ stage = "dispatch" /\ Next /\ UNCHANGED <<stage, answerVars>>
    \/ stage = "answer" /\ TranslationNext /\ UNCHANGED <<stage, vars>>

ServingSpec == ServingInit /\ [][ServingNext]_servingVars
=============================================================================
