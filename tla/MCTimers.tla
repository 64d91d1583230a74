------------------------------- MODULE MCTimers -------------------------------
(* Instances of Quota and Translation for TLC: what timers start, repeat or end     *)
(* while others are silent.  The two share no state, so a behaviour moves one.     *)
EXTENDS Quota, Translation

CONSTANTS a, b

\* One leg and two, with the gate and without.
WatchedRoutes == {<<"CM">>, <<"RC">>, <<"MC", "CR">>, <<"RC", "CM">>, <<"OC", "CM">>, <<"KM">>}

VARIABLE moves
timerVars == <<moves, vars, answerVars>>

\* The part that does not move starts in one state, where its fairness asks nothing of it.
IdleCast == CHOOSE c \in Casts : "run" \notin c
IdleRoute == <<"CM">>

TimersInit ==
    /\ moves \in {"quota", "answer"} /\ Init /\ TranslationInit
    /\ moves = "quota" => route = IdleRoute
    /\ moves = "answer" => cast = IdleCast

TimersNext ==
    \/ moves = "quota" /\ Next /\ UNCHANGED <<moves, answerVars>>
    \/ moves = "answer" /\ TranslationNext /\ UNCHANGED <<moves, vars>>

TimersSpec == TimersInit /\ [][TimersNext]_timerVars /\ QuotaFairness /\ TranslationFairness
=============================================================================
