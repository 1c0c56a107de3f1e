------------------------------- MODULE Actors -------------------------------
(***************************************************************************)
(* xactor::xengine, its actors and the worker pool that runs them.         *)
(*                                                                         *)
(* An actor has a pipe of messages.  A send writes to the pipe under the   *)
(* engine's lock; when the pipe says that its reader sleeps, the send also *)
(* posts a job for the actor to the worker pool.  A job applies one        *)
(* message and posts itself again while there are more.  Workers take jobs *)
(* from their own queue, or steal them from another's.                     *)
(*                                                                         *)
(* handle_msg is one step: writers exclude one another by actors_.mutex_,  *)
(* the reader sees a write at the compare-and-swap of flush and not before *)
(* (Msgbox interleaves the parts of flush), and when that fails nobody     *)
(* reads until the job is in a queue.                                      *)
(***************************************************************************)
EXTENDS Ypipe, Sequences, FiniteSets

CONSTANTS Client,        \* threads outside the engine
          Worker,        \* threads of worker_pool_
          NoMessage,     \* a worker applies no message
          MaxSpawn,      \* bound: actors created
          MaxSends,      \* bound: messages sent by clients and by handlers
          MaxThrows      \* bound: exceptions out of init()

ASSUME ActorAssumption ==
  /\ Client \cap Worker = {}
  /\ MaxSpawn \in Nat /\ MaxSends \in Nat /\ MaxThrows \in Nat

EngineThread == Client \cup Worker

\* An actor object is named by the order of its creation; its address is
\* another matter.  0 is the address of nobody.
Actor   == 1 .. MaxSpawn
Address == 0 .. MaxSpawn

\* Application messages are told apart only by the actor that sends them.
Message == [kind : {"init", "user", "watch", "closed"}, from : Address]

\* sys::init; nobody looks at who sent it.
InitMessage == [kind |-> "init", from |-> 0]

ASSUME MessageAssumption == NoMessage \notin Message

VARIABLES created,       \* number of actor objects created
          address,       \* addr_ of each
          index,         \* actor_index_
          registered,    \* the actors in actors_
          pipe,          \* msg_queue_ of each actor
          sent,          \* what the slots of that pipe hold, by position
          observers,     \* observers_ of each actor
          spawn,         \* where each thread is in spawn
          known,         \* addresses spawn has returned
          jobs,          \* job_queue_ of each worker
          worker,        \* what each worker is doing
          stopping,      \* workers whose is_stop_ is set
          sends,         \* messages sent, for the bound
          thrown         \* history: actors whose init() threw

actorVars  == <<created, address, index, registered, spawn, known>>
mailVars   == <<pipe, sent, jobs>>
boundVars  == <<sends, thrown>>
engineVars == <<actorVars, mailVars, observers, worker, stopping, boundVars>>

WorkerAt == {"idle", "lock", "run", "close", "post", "release", "exited"}

EngineTypeOK ==
  /\ created \in 0 .. MaxSpawn
  /\ address \in [Actor -> Address]
  /\ index \in 1 .. MaxSpawn + 1
  /\ registered \in SUBSET Actor
  /\ pipe \in [Actor -> PipeType]
  /\ sent \in [Actor -> Seq(Message)]
  /\ observers \in [Actor -> SUBSET Address]
  /\ spawn \in [EngineThread -> [at : {"no", "count", "add", "init"}, actor : 0 .. MaxSpawn]]
  /\ known \in SUBSET Address
  /\ jobs \in [Worker -> Seq(Actor)]
  /\ worker \in [Worker -> [at : WorkerAt, actor : 0 .. MaxSpawn,
                            msg : Message \cup {NoMessage},
                            todo : SUBSET Address]]
  /\ stopping \in SUBSET Worker
  /\ sends \in 0 .. MaxSends
  /\ thrown \in SUBSET Actor

Idle == [at |-> "idle", actor |-> 0, msg |-> NoMessage, todo |-> {}]
NoSpawn == [at |-> "no", actor |-> 0]

\* spawn() checks the new actor's pipe once, which puts its reader to sleep.
EngineInit ==
  /\ created = 0
  /\ address = [o \in Actor |-> 0]
  /\ index = 1
  /\ registered = {}
  /\ pipe = [o \in Actor |-> CheckRead(NewPipe)]
  /\ sent = [o \in Actor |-> <<>>]
  /\ observers = [o \in Actor |-> {}]
  /\ spawn = [t \in EngineThread |-> NoSpawn]
  /\ known = {}
  /\ jobs = [w \in Worker |-> <<>>]
  /\ worker = [w \in Worker |-> Idle]
  /\ stopping = {}
  /\ sends = 0
  /\ thrown = {}

-----------------------------------------------------------------------------
(* Sending.                                                                *)

\* The pool has been stopped and its workers destroyed.
Cleared == stopping = Worker /\ \A w \in Worker : worker[w].at = "exited"

\* post_apply_msg: add_job counts index_ up and then reads it, so that the
\* job may go to any worker's queue.
AddJob(o) == \E w \in Worker : jobs' = [jobs EXCEPT ![w] = Append(@, o)]

\* Mutant: handle_msg does not look at what recv returns.
ReceivePosts(o, m) ==
  /\ sent' = [sent EXCEPT ![o] = Append(@, m)]
  /\ pipe' = [pipe EXCEPT ![o] = Publish(Write(@))]
  /\ AddJob(o)

\* actor::recv, and the job when flush returns false.
Receive(o, m) ==
  /\ sent' = [sent EXCEPT ![o] = Append(@, m)]
  /\ pipe' = [pipe EXCEPT ![o] = Publish(Write(@))]
  /\ IF ReaderAwake(pipe[o]) THEN UNCHANGED jobs ELSE AddJob(o)

\* handle_msg: a message to an address not in actors_ is dropped.
Post(a, m) ==
  /\ ~Cleared
  /\ \/ \E o \in registered : address[o] = a /\ Receive(o, m)
     \/ /\ \A o \in registered : address[o] # a
        /\ UNCHANGED mailVars

\* Thread t is outside spawn, and outside the engine or inside a handler.
Free(t) == /\ spawn[t] = NoSpawn
           /\ t \in Worker => worker[t].at = "run"

Self(t) == IF t \in Worker THEN address[worker[t].actor] ELSE 0

\* send() and watch(), to an address the thread can have learned.
SendMessage(t) ==
  /\ Free(t)
  /\ sends < MaxSends
  /\ sends' = sends + 1
  /\ \E a \in (known \cup {Self(t)}) \ {0} :
       \/ Post(a, [kind |-> "user", from |-> Self(t)])
       \/ t \in Worker /\ Post(a, [kind |-> "watch", from |-> Self(t)])
  /\ UNCHANGED <<actorVars, observers, worker, stopping, thrown>>

-----------------------------------------------------------------------------
(* spawn, from any thread.                                                 *)

\* make_shared, and the read of actor_index_++, which no lock protects.
SpawnRead(t) ==
  /\ Free(t) /\ ~Cleared
  /\ created < MaxSpawn
  /\ created' = created + 1
  /\ address' = [address EXCEPT ![created'] = index]
  /\ spawn' = [spawn EXCEPT ![t] = [at |-> "count", actor |-> created']]
  /\ UNCHANGED <<index, registered, known, mailVars, observers, worker,
                 stopping, boundVars>>

\* Its write: what another thread has counted meanwhile is lost.
SpawnCount(t) ==
  /\ spawn[t].at = "count"
  /\ index' = address[spawn[t].actor] + 1
  /\ spawn' = [spawn EXCEPT ![t].at = "add"]
  /\ UNCHANGED <<created, address, registered, known, mailVars, observers,
                 worker, stopping, boundVars>>

\* add_actor: emplace keeps the actor that has the address already.
SpawnAdd(t) ==
  /\ spawn[t].at = "add"
  /\ LET o == spawn[t].actor
     IN  registered' = IF \E p \in registered : address[p] = address[o]
                       THEN registered ELSE registered \cup {o}
  /\ spawn' = [spawn EXCEPT ![t].at = "init"]
  /\ UNCHANGED <<created, address, index, known, mailVars, observers, worker,
                 stopping, boundVars>>

\* sys::init is sent to the address, which is then returned.
SpawnInit(t) ==
  /\ spawn[t].at = "init"
  /\ LET a == address[spawn[t].actor]
     IN  /\ Post(a, InitMessage)
         /\ known' = known \cup {a}
  /\ spawn' = [spawn EXCEPT ![t] = NoSpawn]
  /\ UNCHANGED <<created, address, index, registered, observers, worker,
                 stopping, boundVars>>

Spawn(t) == SpawnRead(t) \/ SpawnCount(t) \/ SpawnAdd(t) \/ SpawnInit(t)

-----------------------------------------------------------------------------
(* The workers.                                                            *)

SetWorker(w, at) == worker' = [worker EXCEPT ![w].at = at]

\* The actor worker w works for, with a shared pointer to it.
IsReader(w, o) == /\ worker[w].actor = o
                  /\ worker[w].at \in {"run", "close", "post", "release"}

\* Somebody has a shared pointer to the actor: weak_ptr::lock succeeds.
Exists(o) == \/ o \in registered
             \/ \E w \in Worker : IsReader(w, o)
             \/ \E t \in EngineThread : spawn[t].actor = o

\* Mutant: nobody steals.
TakeOwnJob(w) ==
  /\ worker[w].at = "idle" /\ w \notin stopping
  /\ jobs[w] # <<>>
  /\ worker' = [worker EXCEPT ![w] = [Idle EXCEPT !.at = "lock",
                                                 !.actor = Head(jobs[w])]]
  /\ jobs' = [jobs EXCEPT ![w] = Tail(@)]
  /\ UNCHANGED <<actorVars, pipe, sent, observers, stopping, boundVars>>

\* do_job: the worker's own queue first, then anybody's.
TakeJob(w) ==
  /\ worker[w].at = "idle" /\ w \notin stopping
  /\ \E v \in Worker :
       /\ jobs[v] # <<>> /\ (jobs[w] # <<>> => v = w)
       /\ worker' = [worker EXCEPT ![w] = [Idle EXCEPT !.at = "lock",
                                                       !.actor = Head(jobs[v])]]
       /\ jobs' = [jobs EXCEPT ![v] = Tail(@)]
  /\ UNCHANGED <<actorVars, pipe, sent, observers, stopping, boundVars>>

\* apply_msg: the actor may have gone with its last shared pointer.
JobExpired(w) ==
  /\ worker[w].at = "lock"
  /\ ~Exists(worker[w].actor)
  /\ worker' = [worker EXCEPT ![w] = Idle]
  /\ UNCHANGED <<actorVars, mailVars, observers, stopping, boundVars>>

\* apply_once reads one message; the handler for it begins.
Apply(w) ==
  /\ worker[w].at = "lock"
  /\ LET o == worker[w].actor
         p == CheckRead(pipe[o])
     IN  /\ Exists(o)
         /\ IF Readable(p)
            THEN /\ worker' = [worker EXCEPT ![w].at = "run",
                                             ![w].msg = sent[o][p.front + 1]]
                 /\ pipe' = [pipe EXCEPT ![o] = Pop(p)]
            ELSE /\ worker' = [worker EXCEPT ![w] = Idle]
                 /\ pipe' = [pipe EXCEPT ![o] = p]
  /\ UNCHANGED <<actorVars, sent, jobs, observers, stopping, sends, thrown>>

\* The handler returns, or throws something apply catches.  sys::watch adds
\* an observer.  Then check_read: is there more?
ApplyDone(w) ==
  /\ worker[w].at = "run" /\ spawn[w] = NoSpawn
  /\ LET o == worker[w].actor
         p == CheckRead(pipe[o])
     IN  /\ observers' = IF worker[w].msg.kind = "watch"
                         THEN [observers EXCEPT ![o] = @ \cup {worker[w].msg.from}]
                         ELSE observers
         /\ pipe' = [pipe EXCEPT ![o] = p]
         /\ worker' = [worker EXCEPT ![w] =
              IF Readable(p) THEN [@ EXCEPT !.at = "post", !.msg = NoMessage]
                             ELSE Idle]
  /\ UNCHANGED <<actorVars, sent, jobs, stopping, boundVars>>

\* post_apply_msg, with the worker's own shared pointer still alive.
Repost(w) ==
  /\ worker[w].at = "post"
  /\ AddJob(worker[w].actor)
  /\ SetWorker(w, "release")
  /\ UNCHANGED <<actorVars, pipe, sent, observers, stopping, boundVars>>

Release(w) ==
  /\ worker[w].at = "release"
  /\ worker' = [worker EXCEPT ![w] = Idle]
  /\ UNCHANGED <<actorVars, mailVars, observers, stopping, boundVars>>

\* Nothing catches what init() throws but do_job, outside its loop: the thread
\* ends, the actor is not posted again, other workers steal the queue.
InitThrows(w) ==
  /\ worker[w].at = "run" /\ worker[w].msg.kind = "init"
  /\ spawn[w] = NoSpawn
  /\ Cardinality(thrown) < MaxThrows
  /\ thrown' = thrown \cup {worker[w].actor}
  /\ worker' = [worker EXCEPT ![w] = [Idle EXCEPT !.at = "exited"]]
  /\ UNCHANGED <<actorVars, mailVars, observers, stopping, sends>>

-----------------------------------------------------------------------------
(* close(), called by a handler.                                           *)

CloseBegin(w) ==
  /\ Free(w) /\ worker[w].msg.kind # "watch"
  /\ sends < MaxSends
  /\ sends' = sends + 1
  /\ worker' = [worker EXCEPT ![w].at = "close",
                              ![w].todo = observers[worker[w].actor]]
  /\ UNCHANGED <<actorVars, mailVars, observers, stopping, thrown>>

\* One actor_close for each observer.
NotifyObserver(w) ==
  /\ worker[w].at = "close"
  /\ \E a \in worker[w].todo :
       /\ Post(a, [kind |-> "closed", from |-> address[worker[w].actor]])
       /\ worker' = [worker EXCEPT ![w].todo = @ \ {a}]
  /\ UNCHANGED <<actorVars, observers, stopping, boundVars>>

\* del_actor erases the address, whoever has it by now.
Erase(w) ==
  /\ worker[w].at = "close" /\ worker[w].todo = {}
  /\ registered' = {o \in registered : address[o] # address[worker[w].actor]}
  /\ SetWorker(w, "run")
  /\ UNCHANGED <<created, address, index, spawn, known, mailVars, observers,
                 stopping, boundVars>>

Close(w) == CloseBegin(w) \/ NotifyObserver(w) \/ Erase(w)

-----------------------------------------------------------------------------
(* stop(): each worker in turn is told and joined.                         *)

Stop ==
  /\ \A v \in stopping : worker[v].at = "exited"
  /\ \E w \in Worker \ stopping : stopping' = stopping \cup {w}
  /\ UNCHANGED <<actorVars, mailVars, observers, worker, boundVars>>

\* The loop ends after the job at hand, whatever is left in the queues.
Exit(w) ==
  /\ worker[w].at = "idle" /\ w \in stopping
  /\ SetWorker(w, "exited")
  /\ UNCHANGED <<actorVars, mailVars, observers, stopping, boundVars>>

\* What a worker does unless the actor it runs prevents it.
Work(w) ==
  \/ TakeJob(w) \/ JobExpired(w) \/ Apply(w) \/ ApplyDone(w) \/ Repost(w)
  \/ Release(w) \/ NotifyObserver(w) \/ Erase(w) \/ Exit(w)

EngineNext ==
  \/ \E t \in EngineThread : SendMessage(t) \/ Spawn(t)
  \/ \E w \in Worker : Work(w) \/ InitThrows(w) \/ CloseBegin(w)
  \/ Stop

\* Threads inside the engine go on and handlers return.  Nobody has to send,
\* spawn, or stop; a stop that has begun goes on.
EngineFairness ==
  /\ \A w \in Worker : WF_engineVars(Work(w))
  /\ \A t \in EngineThread : WF_engineVars(spawn[t] # NoSpawn /\ Spawn(t))
  /\ WF_engineVars(stopping # {} /\ Stop)

EngineSpec == EngineInit /\ [][EngineNext]_engineVars

EngineFairSpec == EngineSpec /\ EngineFairness

-----------------------------------------------------------------------------
(* Properties.                                                             *)

\* Worker w reads actor o's pipe, or will before it posts o's job again.
Applying(w, o) == /\ worker[w].actor = o
                  /\ worker[w].at \in {"lock", "run", "close", "post"}

\* One reader: an actor has one job in one queue, or one worker, or neither.
\* So its pipe has one reader, and its handlers never run side by side.
OneReader ==
  \A o \in Actor :
    /\ \A v, u \in Worker : Applying(v, o) /\ Applying(u, o) => v = u
    /\ \A v, u \in Worker : \A i \in DOMAIN jobs[u] :
         Applying(v, o) => jobs[u][i] # o
    /\ \A v, u \in Worker : \A i \in DOMAIN jobs[v], j \in DOMAIN jobs[u] :
         jobs[v][i] = o /\ jobs[u][j] = o => v = u /\ i = j

\* What is in an actor's mailbox.
Waiting(o) == SubSeq(sent[o], pipe[o].front + 1, Len(sent[o]))

\* Nothing is stranded: an actor that exists and has messages has a job or a
\* worker, unless its init() took a worker with it.
NothingStranded ==
  \A o \in Actor \ thrown : Exists(o) /\ Waiting(o) # <<>> =>
    \/ \E w \in Worker : Applying(w, o)
    \/ \E v \in Worker : \E i \in DOMAIN jobs[v] : jobs[v][i] = o

\* The message actor o is handling: one worker at most has one for it.
Handling(o) ==
  LET ws == {w \in Worker : /\ worker[w].actor = o
                            /\ worker[w].at \in {"run", "close"}}
  IN  IF ws = {} THEN NoMessage ELSE worker[CHOOSE w \in ws : TRUE].msg

\* init() comes first: an actor that shares its address with no other handles
\* sys::init before anything else, whoever learns the address.
InitFirst ==
  \A o \in Actor :
    /\ sent[o] # <<>>
    /\ \A p \in 1 .. created : p # o => address[p] # address[o]
    => Head(sent[o]) = InitMessage

AM == INSTANCE ActorModel WITH
  live <- registered,
  mailbox <- [o \in Actor |-> Waiting(o)],
  handling <- [o \in Actor |-> Handling(o)]

\* The engine implements the actor model: one message at a time, in the order
\* of the mailbox, whatever workers steal, whoever spawns at the same time,
\* and though a closed actor may live on for a while.
ImplementsActorModel == AM!Spec

\* Every message received by an actor that stays is handled, as long as a
\* worker is left and the engine is not stopped.
EveryMessageHandled ==
  \A o \in Actor : \A k \in 1 .. MaxSends + MaxSpawn :
    (Len(sent[o]) >= k) ~>
      \/ pipe[o].front >= k
      \/ o \notin registered \/ o \in thrown
      \/ stopping # {}

\* stop() returns: every worker leaves its loop and is joined.
StopReturns == (stopping # {}) ~> Cleared

\* Each actor is run by one worker at a time, by one while it has messages, and
\* by its init() first, whoever spawns, steals, closes or throws.
EngineServes == EngineTypeOK /\ OneReader /\ NothingStranded /\ InitFirst

=============================================================================
