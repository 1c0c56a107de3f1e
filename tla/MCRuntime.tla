------------------------------ MODULE MCRuntime ------------------------------
(***************************************************************************)
(* What the rest of the framework runs on, one part of it in each          *)
(* behaviour: a connection on its proactor, the timers, the pool of        *)
(* proactors, the coroutines and the logger.                               *)
(***************************************************************************)
EXTENDS Connection, Timers, ProactorPool, Coroutine, Logger

VARIABLE part

runtimeVars == <<part, vars, timerVars, poolVars, coVars, logVars_>>

\* Log lines with numbers, literals and strings, one of them longer than the
\* buffer, one that fills it.
MCItems == {<<Lit, Num>>, <<Num, Str_(9)>>, <<Str_(1), Num>>, <<Str_(12)>>,
            <<Num, Num, Lit, Num>>}

\* The kind of the timers is of no interest while they stand still.
RuntimeInit ==
  /\ part \in {"connection", "timers", "pool", "coroutines", "logger"}
  /\ Init /\ PoolInit /\ CoInit /\ LoggerInit
  /\ TimerInit /\ (part # "timers" => kind = "proactor")

RuntimeNext ==
  /\ UNCHANGED part
  /\ \/ part = "connection" /\ Next /\ UNCHANGED <<timerVars, poolVars, coVars, logVars_>>
     \/ part = "timers" /\ TimerNext /\ UNCHANGED <<vars, poolVars, coVars, logVars_>>
     \/ part = "pool" /\ PoolNext /\ UNCHANGED <<vars, timerVars, coVars, logVars_>>
     \/ part = "coroutines" /\ CoNext /\ UNCHANGED <<vars, timerVars, poolVars, logVars_>>
     \/ part = "logger" /\ LoggerNext /\ UNCHANGED <<vars, timerVars, poolVars, coVars>>

RuntimeSpec == /\ RuntimeInit /\ [][RuntimeNext]_runtimeVars
               /\ (part = "connection" => Fairness)

=============================================================================
