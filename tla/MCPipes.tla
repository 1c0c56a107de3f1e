-------------------------------- MODULE MCPipes --------------------------------
(***************************************************************************)
(* The two systems of threads that wait for one another at a pipe, one of  *)
(* them in each behaviour: a message box with three posters, the io thread *)
(* among them, and the actor engine.                                       *)
(***************************************************************************)
EXTENDS Msgbox

CONSTANTS Client, Worker, NoMessage

VARIABLES part,
          created, address, index, registered, pipes, sent, observers, spawn,
          known, jobs, worker, stopping, sends, thrown

engineVars == <<created, address, index, registered, pipes, sent, observers, spawn,
                known, jobs, worker, stopping, sends, thrown>>

Engine == INSTANCE Actors WITH
  pipe <- pipes, MaxSpawn <- 2, MaxSends <- 1, MaxThrows <- 1

PipesInit == part \in {"box", "engine"} /\ Init /\ Engine!EngineInit

PipesNext ==
  /\ UNCHANGED part
  /\ \/ part = "box" /\ Next /\ UNCHANGED engineVars
     \/ part = "engine" /\ Engine!EngineNext /\ UNCHANGED vars

\* In a system that stands still no step is enabled that fairness asks for.
PipesSpec == /\ PipesInit /\ [][PipesNext]_<<part, vars, engineVars>>
             /\ Fairness /\ Engine!EngineFairness

\* Whatever is given to a pipe is handled: every handle posted to the box runs;
\* every message an actor is sent is handled, unless the actor is closed, its
\* init() has thrown or the engine stops, though a worker dies with jobs in its
\* queue; and stop() of the engine returns.
EverythingHandled ==
  EveryHandleRuns /\ Engine!EveryMessageHandled /\ Engine!StopReturns

=============================================================================
