---------------------------- MODULE Actors_proofs ----------------------------
(***************************************************************************)
(* What TLAPS proves of the actor engine, for any number of clients,       *)
(* workers, actors, messages and exceptions: types, one reader for every   *)
(* mailbox, no message stranded, init() first, and that every step of the  *)
(* engine is a step of ActorModel or none.                                 *)
(***************************************************************************)
EXTENDS Actors, Ypipe_proofs, SequenceTheorems, TLAPS

-----------------------------------------------------------------------------
(* The inductive invariant.                                                *)

\* Actor o has a job in a queue; a worker is about to read its mailbox, or
\* will be when it posts the job again.
Queued(o) == \E v \in Worker : \E i \in DOMAIN jobs[v] : jobs[v][i] = o
Pending(o) == \/ Queued(o)
              \/ \E w \in Worker : worker[w].actor = o /\ worker[w].at \in {"lock", "post"}

\* Somebody reads o's mailbox, or is going to.
Read(o) == Queued(o) \/ \E w \in Worker : Applying(w, o)

\* One reader, in the words of the above: a job is in one place, whoever is
\* read has no job, and one worker reads.
Once == \A v, u \in Worker : \A i \in DOMAIN jobs[v], j \in DOMAIN jobs[u] :
          jobs[v][i] = jobs[u][j] => v = u /\ i = j
Alone == \A w \in Worker, o \in Actor : Applying(w, o) => ~Queued(o)
Single == \A v, u \in Worker, o \in Actor : Applying(v, o) /\ Applying(u, o) => v = u
ReaderInv == Once /\ Alone /\ Single

\* The pointers of a mailbox: what has been written is published, and c_ says
\* either so or that the reader, who has read everything, sleeps.
PointersAt(p, n) ==
  /\ p.back = n /\ p.f = n /\ p.w = n
  /\ p.front <= n /\ p.r \in p.front .. n
  /\ p.c = n \/ (p.c = Null /\ p.front = n)

PointerInv == \A o \in Actor : PointersAt(pipe[o], Len(sent[o]))

\* Who is read is awake; who is to be read has a message; and who is awake is
\* read, unless its init() threw or it is gone.
AwakeInv ==
  \A o \in Actor :
    /\ Read(o) => pipe[o].c # Null
    /\ Pending(o) => pipe[o].front < Len(sent[o])
    /\ pipe[o].c # Null => Read(o) \/ o \in thrown \/ ~Exists(o)

\* What a worker holds while it works.
Hand(w) ==
  /\ worker[w].at \in {"idle", "exited"} <=> worker[w].actor = 0
  /\ worker[w].actor # 0 => sent[worker[w].actor] # <<>>
  /\ worker[w].at \in {"run", "close"} => worker[w].msg \in Message
  /\ worker[w].at = "post" => Readable(pipe[worker[w].actor])

WorkerInv == \A w \in Worker : Hand(w)

\* An actor nobody has registered yet, and nobody has written to.
Untouched(o) == o \notin registered /\ sent[o] = <<>> /\ pipe[o].c = Null

SpawnInv ==
  /\ \A o \in Actor : o > created => Untouched(o)
  /\ \A t \in EngineThread :
       /\ spawn[t].at = "no" <=> spawn[t].actor = 0
       /\ spawn[t].actor <= created
       /\ spawn[t].at \in {"count", "add"} => Untouched(spawn[t].actor)
  /\ \A t, u \in EngineThread : spawn[t].actor = spawn[u].actor /\ spawn[t].actor # 0 => t = u

\* Two actors may have one address, but not both in actors_.
AddressInv ==
  /\ index <= created + 1
  /\ \A o \in 1 .. created : address[o] \in 1 .. o
  /\ registered \subseteq 1 .. created
  /\ \A p, q \in registered : address[p] = address[q] => p = q

\* Actor o has its address for itself; it is not registered and will not be.
Own(o) == \A p \in 1 .. created : p # o => address[p] # address[o]
Gone(o) == o \notin registered /\ \A t \in EngineThread : spawn[t].actor # o

\* An address that somebody has learned: the actor that has it for itself has
\* been sent its first message, or never will be.
Told(a) ==
  /\ a = 0 \/ \E p \in 1 .. created : address[p] = a
  /\ \A o \in 1 .. created : address[o] = a /\ Own(o) => sent[o] # <<>> \/ Gone(o)

\* Whence addresses are learned: from spawn, from observers, from messages.
ToldInv ==
  /\ \A a \in known : Told(a)
  /\ \A o \in Actor : \A a \in observers[o] : Told(a)
  /\ \A o \in Actor : \A i \in 1 .. Len(sent[o]) : Told(sent[o][i].from)
  /\ \A w \in Worker :
       /\ \A a \in worker[w].todo : Told(a)
       /\ worker[w].msg \in Message => Told(worker[w].msg.from)

FirstInv == \A o \in 1 .. created : sent[o] # <<>> /\ Own(o) => sent[o][1] = InitMessage

IInv == /\ EngineTypeOK /\ PointerInv /\ AwakeInv /\ WorkerInv /\ SpawnInv /\ AddressInv
        /\ ReaderInv /\ ToldInv /\ FirstInv

-----------------------------------------------------------------------------
(* The pipe of a mailbox and the queues of jobs.                           *)

\* flush of the item just written.
LEMMA WrittenFields ==
  ASSUME NEW p \in PipeType
  PROVE  LET q == Publish(Write(p))
             n == p.back + 1
         IN  /\ q \in PipeType /\ q.front = p.front /\ q.r = p.r
             /\ q.back = n /\ q.f = n /\ q.w = n /\ q.c = n
<1>1. Write(p) \in PipeType
  BY WriteFields
<1> QED BY <1>1, WriteFields, PublishFields

\* check_read of a reader who is awake: there is something to read, or the
\* reader goes to sleep.
LEMMA CheckReadAwake ==
  ASSUME NEW p \in PipeType, NEW n \in Nat, PointersAt(p, n), p.c # Null
  PROVE  /\ PointersAt(CheckRead(p), n)
         /\ Readable(CheckRead(p)) => CheckRead(p).c # Null /\ p.front < n /\ PointersAt(Pop(CheckRead(p)), n)
         /\ ~Readable(CheckRead(p)) => CheckRead(p).c = Null /\ p.front = n
<1>1. /\ p.front \in Nat /\ p.c = n /\ p.r \in p.front .. n /\ p.r \in Nat /\ p.r # Null /\ p.front <= n
      /\ p.back = n /\ p.w = n /\ p.f = n
  BY NullAssumption DEF PointersAt, PipeType, Position
<1>2. CASE Readable(p)
  <2>1. CheckRead(p) = p /\ p.front # p.r
    BY <1>2, CheckReadFields DEF Readable
  <2>2. p.front < n /\ p.front + 1 <= n /\ p.r \in (p.front + 1) .. n
    BY <1>1, <2>1
  <2>3. PointersAt(Pop(p), n)
    BY <1>1, <2>2, CheckReadFields, PopFields DEF PointersAt
  <2> QED BY <1>1, <1>2, <2>1, <2>2, <2>3
<1>3. CASE ~Readable(p) /\ p.c = p.front
  <2>1. CheckRead(p).c = Null /\ CheckRead(p).r = p.front /\ p.front = n
    BY <1>1, <1>3, CheckReadFields
  <2> QED BY <1>1, <2>1, CheckReadFields, PopFields DEF PointersAt, Readable
<1>4. CASE ~Readable(p) /\ p.c # p.front
  <2>1. CheckRead(p).c = n /\ CheckRead(p).r = n /\ p.front < n
    BY <1>1, <1>4, CheckReadFields
  <2> QED BY <1>1, <2>1, CheckReadFields, PopFields, NullAssumption DEF PointersAt, Readable
<1> QED BY <1>2, <1>3, <1>4

\* What add_job and do_job make of the queues.
Added(w, o) == jobs' = [jobs EXCEPT ![w] = Append(jobs[w], o)]
Taken(w) == jobs' = [jobs EXCEPT ![w] = Tail(jobs[w])]

LEMMA JobDomain ==
  ASSUME EngineTypeOK, NEW v \in Worker
  PROVE  /\ jobs[v] \in Seq(Actor) /\ Len(jobs[v]) \in Nat /\ DOMAIN jobs[v] = 1 .. Len(jobs[v])
         /\ \A i \in DOMAIN jobs[v] : jobs[v][i] \in Actor
BY DEF EngineTypeOK

LEMMA AddedJobs ==
  ASSUME EngineTypeOK, NEW w \in Worker, NEW o \in Actor, Added(w, o)
  PROVE  LET n == Len(jobs[w]) + 1
         IN  /\ \A v \in Worker : \A i \in DOMAIN jobs'[v] :
                  \/ v = w /\ i = n /\ jobs'[v][i] = o
                  \/ i \in DOMAIN jobs[v] /\ jobs'[v][i] = jobs[v][i]
             /\ n \in DOMAIN jobs'[w] /\ jobs'[w][n] = o
             /\ \A v \in Worker : \A i \in DOMAIN jobs[v] :
                  i \in DOMAIN jobs'[v] /\ jobs'[v][i] = jobs[v][i]
             /\ jobs' \in [Worker -> Seq(Actor)]
<1> DEFINE q == jobs[w]  n == Len(q) + 1
<1>1. q \in Seq(Actor) /\ Len(q) \in Nat /\ DOMAIN q = 1 .. Len(q)
  BY JobDomain
<1>2. jobs'[w] = Append(q, o) /\ \A v \in Worker : v # w => jobs'[v] = jobs[v]
  BY DEF Added, EngineTypeOK
<1> HIDE DEF q
<1>3. /\ Append(q, o) \in Seq(Actor) /\ DOMAIN Append(q, o) = 1 .. n
      /\ \A i \in 1 .. Len(q) : Append(q, o)[i] = q[i]
      /\ Append(q, o)[n] = o
  BY <1>1, AppendProperties
<1>4. \A i \in 1 .. n : i = n \/ i \in 1 .. Len(q)
  BY <1>1
<1>5. \A i \in 1 .. Len(q) : i \in 1 .. n
  BY <1>1
<1>6. n \in 1 .. n
  BY <1>1
<1>7. jobs' \in [Worker -> Seq(Actor)]
  BY <1>3 DEF Added, EngineTypeOK, q
<1> QED BY <1>1, <1>2, <1>3, <1>4, <1>5, <1>6, <1>7 DEF q

LEMMA TakenJobs ==
  ASSUME EngineTypeOK, NEW w \in Worker, jobs[w] # <<>>, Taken(w)
  PROVE  /\ Head(jobs[w]) = jobs[w][1] /\ 1 \in DOMAIN jobs[w] /\ Head(jobs[w]) \in Actor
         /\ \A v \in Worker : \A i \in DOMAIN jobs'[v] :
              LET k == IF v = w THEN i + 1 ELSE i
              IN  k \in DOMAIN jobs[v] /\ jobs'[v][i] = jobs[v][k] /\ (v = w => k # 1)
         /\ \A v \in Worker : \A k \in DOMAIN jobs[v] :
              (v = w => k # 1) => \E i \in DOMAIN jobs'[v] : jobs'[v][i] = jobs[v][k]
         /\ jobs' \in [Worker -> Seq(Actor)]
<1> DEFINE q == jobs[w]
<1>1. q \in Seq(Actor) /\ Len(q) \in Nat /\ DOMAIN q = 1 .. Len(q) /\ q # <<>>
  BY JobDomain
<1>2. jobs'[w] = Tail(q) /\ \A v \in Worker : v # w => jobs'[v] = jobs[v]
  BY DEF Taken, EngineTypeOK
<1> HIDE DEF q
<1>3. /\ Tail(q) \in Seq(Actor) /\ DOMAIN Tail(q) = 1 .. Len(q) - 1 /\ Len(q) > 0
      /\ \A i \in 1 .. Len(q) - 1 : Tail(q)[i] = q[i + 1]
      /\ Head(q) = q[1] /\ q[1] \in Actor
  BY <1>1
<1>4. \A i \in 1 .. Len(q) - 1 : i + 1 \in 1 .. Len(q) /\ i + 1 # 1
  BY <1>1
<1>5. \A k \in 1 .. Len(q) : k # 1 => k - 1 \in 1 .. Len(q) - 1 /\ (k - 1) + 1 = k
  BY <1>1
<1>6. \A k \in DOMAIN q : k # 1 => \E i \in DOMAIN Tail(q) : Tail(q)[i] = q[k]
  BY <1>1, <1>3, <1>5
<1>7. jobs' \in [Worker -> Seq(Actor)]
  BY <1>3 DEF Taken, EngineTypeOK, q
<1>8. 1 \in DOMAIN q
  BY <1>1, <1>3
<1>9. ASSUME NEW v \in Worker, NEW i \in DOMAIN jobs'[v]
      PROVE  LET k == IF v = w THEN i + 1 ELSE i
             IN  k \in DOMAIN jobs[v] /\ jobs'[v][i] = jobs[v][k] /\ (v = w => k # 1)
  <2>1. CASE v = w
    BY <2>1, <1>1, <1>2, <1>3, <1>4 DEF q
  <2>2. CASE v # w
    BY <2>2, <1>2
  <2> QED BY <2>1, <2>2
<1>10. ASSUME NEW v \in Worker, NEW k \in DOMAIN jobs[v], v = w => k # 1
       PROVE  \E i \in DOMAIN jobs'[v] : jobs'[v][i] = jobs[v][k]
  <2>1. CASE v = w
    BY <2>1, <1>10, <1>2, <1>6 DEF q
  <2>2. CASE v # w
    BY <2>2, <1>2
  <2> QED BY <2>1, <2>2
<1> QED BY <1>3, <1>7, <1>8, <1>9, <1>10 DEF q

\* An actor is queued with the job that is added, and not with the one taken.
LEMMA AddedQueues ==
  ASSUME EngineTypeOK, NEW w \in Worker, NEW o \in Actor, Added(w, o), Once, ~Queued(o)
  PROVE  Once' /\ \A p \in Actor : Queued(p)' <=> Queued(p) \/ p = o
<1> DEFINE n == Len(jobs[w]) + 1
<1>1. /\ \A v \in Worker : \A i \in DOMAIN jobs'[v] :
           \/ v = w /\ i = n /\ jobs'[v][i] = o
           \/ i \in DOMAIN jobs[v] /\ jobs'[v][i] = jobs[v][i]
      /\ n \in DOMAIN jobs'[w] /\ jobs'[w][n] = o
      /\ \A v \in Worker : \A i \in DOMAIN jobs[v] :
           i \in DOMAIN jobs'[v] /\ jobs'[v][i] = jobs[v][i]
  BY AddedJobs
<1> HIDE DEF n
<1>2. \A v \in Worker : \A i \in DOMAIN jobs[v] : jobs[v][i] # o
  BY DEF Queued
<1>3. Once'
  BY <1>1, <1>2 DEF Once
<1>4. ASSUME NEW p \in Actor
      PROVE  Queued(p)' <=> Queued(p) \/ p = o
  BY <1>1 DEF Queued
<1> QED BY <1>3, <1>4

LEMMA TakenQueues ==
  ASSUME EngineTypeOK, NEW w \in Worker, jobs[w] # <<>>, Taken(w), Once
  PROVE  /\ Once' /\ Queued(Head(jobs[w])) /\ Head(jobs[w]) \in Actor
         /\ \A p \in Actor : Queued(p)' <=> Queued(p) /\ p # Head(jobs[w])
<1> DEFINE o == Head(jobs[w])
<1>1. /\ o = jobs[w][1] /\ 1 \in DOMAIN jobs[w] /\ o \in Actor
      /\ \A v \in Worker : \A i \in DOMAIN jobs'[v] :
           LET k == IF v = w THEN i + 1 ELSE i
           IN  k \in DOMAIN jobs[v] /\ jobs'[v][i] = jobs[v][k] /\ (v = w => k # 1)
      /\ \A v \in Worker : \A k \in DOMAIN jobs[v] :
           (v = w => k # 1) => \E i \in DOMAIN jobs'[v] : jobs'[v][i] = jobs[v][k]
  BY TakenJobs
<1> HIDE DEF o
<1>2. Once'
  <2> SUFFICES ASSUME NEW v \in Worker, NEW u \in Worker,
                      NEW i \in DOMAIN jobs'[v], NEW j \in DOMAIN jobs'[u],
                      jobs'[v][i] = jobs'[u][j]
               PROVE  v = u /\ i = j
    BY DEF Once
  <2> DEFINE k == IF v = w THEN i + 1 ELSE i  l == IF u = w THEN j + 1 ELSE j
  <2>1. k \in DOMAIN jobs[v] /\ l \in DOMAIN jobs[u] /\ jobs[v][k] = jobs[u][l]
    BY <1>1
  <2>2. v = u /\ k = l
    BY <2>1 DEF Once
  <2>3. i \in Int /\ j \in Int
    <3>1. jobs' \in [Worker -> Seq(Actor)]
      BY TakenJobs
    <3> QED BY <3>1
  <2> QED BY <2>2, <2>3
<1>3. Queued(o)
  BY <1>1 DEF Queued
<1>4. ASSUME NEW p \in Actor
      PROVE  Queued(p)' <=> Queued(p) /\ p # o
  <2>1. ASSUME Queued(p)'
        PROVE  Queued(p) /\ p # o
    <3>0. PICK v \in Worker : \E i \in DOMAIN jobs'[v] : jobs'[v][i] = p
      BY <2>1 DEF Queued
    <3>1. PICK i \in DOMAIN jobs'[v] : jobs'[v][i] = p
      BY <3>0
    <3> DEFINE k == IF v = w THEN i + 1 ELSE i
    <3>2. k \in DOMAIN jobs[v] /\ jobs[v][k] = p /\ (v = w => k # 1)
      BY <1>1, <3>1
    <3> HIDE DEF k
    <3>3. p # o
      BY <1>1, <3>2 DEF Once
    <3> QED BY <3>2, <3>3 DEF Queued
  <2>2. ASSUME Queued(p), p # o
        PROVE  Queued(p)'
    <3>0. PICK v \in Worker : \E k \in DOMAIN jobs[v] : jobs[v][k] = p
      BY <2>2 DEF Queued
    <3>1. PICK k \in DOMAIN jobs[v] : jobs[v][k] = p
      BY <3>0
    <3>2. v = w => k # 1
      BY <1>1, <2>2, <3>1
    <3> QED BY <1>1, <3>1, <3>2 DEF Queued
  <2> QED BY <2>1, <2>2
<1> QED BY <1>1, <1>2, <1>3, <1>4 DEF o

-----------------------------------------------------------------------------
(* handle_msg.                                                             *)

\* Actor o receives m; a job is added when its reader slept.
Got(o, m) ==
  /\ sent' = [sent EXCEPT ![o] = Append(sent[o], m)]
  /\ pipe' = [pipe EXCEPT ![o] = Publish(Write(pipe[o]))]
  /\ IF pipe[o].c # Null THEN UNCHANGED jobs ELSE \E w \in Worker : Added(w, o)

\* What the pointers of a mailbox say of its type.
LEMMA MailType ==
  ASSUME EngineTypeOK, PointerInv, NEW o \in Actor
  PROVE  /\ pipe[o] \in PipeType /\ pipe[o].front \in Nat /\ pipe[o].r \in Nat
         /\ sent[o] \in Seq(Message) /\ Len(sent[o]) \in Nat
         /\ sent[o] # <<>> <=> Len(sent[o]) > 0
         /\ PointersAt(pipe[o], Len(sent[o]))
         /\ pipe[o].back = Len(sent[o])
         /\ pipe[o].c = pipe[o].w <=> pipe[o].c # Null
<1>1. pipe[o] \in PipeType /\ sent[o] \in Seq(Message) /\ PointersAt(pipe[o], Len(sent[o]))
  BY DEF EngineTypeOK, PointerInv
<1>2. Len(sent[o]) \in Nat /\ (sent[o] # <<>> <=> Len(sent[o]) > 0)
  BY <1>1
<1>3. pipe[o].front \in Nat /\ pipe[o].r \in Nat
  BY <1>1, <1>2 DEF PipeType, Position, PointersAt
<1> QED BY <1>1, <1>2, <1>3, NullAssumption DEF PointersAt

\* m goes to whoever has address a, or to nobody.
Delivered(a, m) ==
  \/ \E o \in registered : address[o] = a /\ Got(o, m)
  \/ (\A o \in registered : address[o] # a) /\ UNCHANGED mailVars

LEMMA PostFacts ==
  ASSUME EngineTypeOK, PointerInv, NEW a, NEW m, Post(a, m)
  PROVE  Delivered(a, m)
<1>1. CASE \A o \in registered : address[o] # a
  BY <1>1 DEF Post, Delivered
<1>2. ASSUME NEW o \in registered, address[o] = a, Receive(o, m)
      PROVE  Got(o, m)
  <2>1. o \in Actor
    BY DEF EngineTypeOK
  <2>2. ReaderAwake(pipe[o]) <=> pipe[o].c # Null
    BY <2>1, MailType DEF ReaderAwake
  <2> QED BY <1>2, <2>2 DEF Receive, Got, AddJob, Added
<1> QED BY <1>1, <1>2 DEF Post, Delivered

LEMMA GotFacts ==
  ASSUME EngineTypeOK, PointerInv, NEW o \in Actor, NEW m \in Message, Got(o, m)
  PROVE  /\ sent' \in [Actor -> Seq(Message)] /\ pipe' \in [Actor -> PipeType]
         /\ jobs' \in [Worker -> Seq(Actor)]
         /\ \A p \in Actor : p # o => sent'[p] = sent[p] /\ pipe'[p] = pipe[p]
         /\ sent'[o] = Append(sent[o], m)
         /\ sent'[o] # <<>> /\ Len(sent'[o]) = Len(sent[o]) + 1
         /\ \A i \in 1 .. Len(sent[o]) : sent'[o][i] = sent[o][i]
         /\ sent'[o][Len(sent[o]) + 1] = m
         /\ pipe'[o].front = pipe[o].front /\ pipe'[o].r = pipe[o].r
         /\ pipe'[o].c # Null
         /\ PointerInv'
<1>1. /\ sent' = [sent EXCEPT ![o] = Append(sent[o], m)]
      /\ pipe' = [pipe EXCEPT ![o] = Publish(Write(pipe[o]))]
  BY DEF Got
<1>2. /\ pipe[o] \in PipeType /\ sent[o] \in Seq(Message) /\ Len(sent[o]) \in Nat
      /\ PointersAt(pipe[o], Len(sent[o])) /\ pipe[o].back = Len(sent[o])
      /\ pipe[o].front \in Nat /\ pipe[o].r \in Nat
  BY MailType
<1>3. /\ Append(sent[o], m) \in Seq(Message) /\ Append(sent[o], m) # <<>>
      /\ Len(Append(sent[o], m)) = Len(sent[o]) + 1
      /\ \A i \in 1 .. Len(sent[o]) : Append(sent[o], m)[i] = sent[o][i]
      /\ Append(sent[o], m)[Len(sent[o]) + 1] = m
  BY <1>2, AppendProperties
<1>4. /\ sent' \in [Actor -> Seq(Message)] /\ sent'[o] = Append(sent[o], m)
      /\ \A p \in Actor : p # o => sent'[p] = sent[p]
  BY <1>1, <1>3 DEF EngineTypeOK
<1>5. LET q == Publish(Write(pipe[o]))
          n == Len(sent[o]) + 1
      IN  /\ q \in PipeType /\ q.front = pipe[o].front /\ q.r = pipe[o].r
          /\ q.back = n /\ q.f = n /\ q.w = n /\ q.c = n
  BY <1>2, WrittenFields
<1>6. /\ pipe' \in [Actor -> PipeType] /\ pipe'[o] = Publish(Write(pipe[o]))
      /\ \A p \in Actor : p # o => pipe'[p] = pipe[p]
  BY <1>1, <1>5 DEF EngineTypeOK
<1>7. jobs' \in [Worker -> Seq(Actor)]
  <2>1. CASE UNCHANGED jobs
    BY <2>1 DEF EngineTypeOK
  <2>2. ASSUME NEW w \in Worker, Added(w, o)
        PROVE  jobs' \in [Worker -> Seq(Actor)]
    BY <2>2, AddedJobs
  <2> QED BY <2>1, <2>2 DEF Got
<1>8. pipe'[o].c # Null
  BY <1>2, <1>5, <1>6, NullAssumption
<1>9. PointersAt(pipe'[o], Len(sent'[o]))
  <2> DEFINE q == Publish(Write(pipe[o]))  l == Len(sent[o])
  <2>1. /\ q.front = pipe[o].front /\ q.r = pipe[o].r /\ l \in Nat
        /\ q.back = l + 1 /\ q.f = l + 1 /\ q.w = l + 1 /\ q.c = l + 1
        /\ pipe[o].front \in Nat /\ pipe[o].r \in Nat
        /\ pipe[o].front <= l /\ pipe[o].r \in pipe[o].front .. l
    BY <1>2, <1>5 DEF PointersAt
  <2>2. pipe'[o] = q /\ Len(sent'[o]) = l + 1
    BY <1>3, <1>4, <1>6
  <2> HIDE DEF q, l
  <2>3. q.front <= l + 1 /\ q.r \in q.front .. (l + 1)
    BY <2>1
  <2> QED BY <2>1, <2>2, <2>3 DEF PointersAt
<1>10. PointerInv'
  BY <1>4, <1>6, <1>9 DEF PointerInv
<1> QED BY <1>3, <1>4, <1>5, <1>6, <1>7, <1>8, <1>10

\* The workers that read, or wait to read, are the same.
SameReaders ==
  \A w \in Worker, p \in Actor :
    /\ Applying(w, p)' <=> Applying(w, p)
    /\ (worker[w].actor = p /\ worker[w].at \in {"lock", "post"})'
         <=> worker[w].actor = p /\ worker[w].at \in {"lock", "post"}

\* A message that arrives, or none, while no worker begins or ends to read.
LEMMA MailStep ==
  ASSUME EngineTypeOK, PointerInv, AwakeInv, ReaderInv, SameReaders, UNCHANGED thrown,
         \A p \in Actor : Exists(p)' => Exists(p) \/ pipe'[p].c = Null,
         (\E o \in Actor, m \in Message : Got(o, m)) \/ UNCHANGED mailVars
  PROVE  PointerInv' /\ AwakeInv' /\ ReaderInv'
<1>1. CASE UNCHANGED mailVars
  <2>1. \A p \in Actor : (Queued(p)' <=> Queued(p)) /\ (Read(p)' <=> Read(p)) /\ (Pending(p)' <=> Pending(p))
    BY <1>1 DEF mailVars, Queued, Read, Pending, SameReaders
  <2>2. PointerInv'
    BY <1>1 DEF mailVars, PointerInv
  <2>3. AwakeInv'
    BY <1>1, <2>1 DEF mailVars, AwakeInv
  <2>4. ReaderInv'
    <3>1. Once'
      BY <1>1 DEF mailVars, ReaderInv, Once
    <3>2. Alone' /\ Single'
      BY <2>1 DEF ReaderInv, Alone, Single, SameReaders
    <3> QED BY <3>1, <3>2 DEF ReaderInv
  <2> QED BY <2>2, <2>3, <2>4
<1>2. ASSUME NEW o \in Actor, NEW m \in Message, Got(o, m)
      PROVE  PointerInv' /\ AwakeInv' /\ ReaderInv'
  <2> DEFINE awake == pipe[o].c # Null
  <2>1. /\ PointerInv'
        /\ \A p \in Actor : p # o => sent'[p] = sent[p] /\ pipe'[p] = pipe[p]
        /\ Len(sent'[o]) = Len(sent[o]) + 1
        /\ pipe'[o].front = pipe[o].front /\ pipe'[o].c # Null
    BY <1>2, GotFacts
  <2>2. \A p \in Actor : Queued(p)' <=> Queued(p) \/ (p = o /\ ~awake)
    <3>1. CASE awake
      BY <1>2, <3>1 DEF Got, Queued
    <3>2. CASE ~awake
      <4>1. PICK w \in Worker : Added(w, o)
        BY <1>2, <3>2 DEF Got
      <4>2. ~Queued(o) /\ Once
        BY <3>2 DEF AwakeInv, Read, ReaderInv
      <4> QED BY <3>2, <4>1, <4>2, AddedQueues
    <3> QED BY <3>1, <3>2
  <2>3. Once'
    <3>1. CASE awake
      BY <1>2, <3>1 DEF Got, Once, ReaderInv
    <3>2. CASE ~awake
      <4>1. PICK w \in Worker : Added(w, o)
        BY <1>2, <3>2 DEF Got
      <4>2. ~Queued(o) /\ Once
        BY <3>2 DEF AwakeInv, Read, ReaderInv
      <4> QED BY <4>1, <4>2, AddedQueues
    <3> QED BY <3>1, <3>2
  <2>4. /\ \A p \in Actor : Read(p)' <=> Read(p) \/ (p = o /\ ~awake)
        /\ \A p \in Actor : Pending(p)' <=> Pending(p) \/ (p = o /\ ~awake)
    BY <2>2 DEF Read, Pending, SameReaders
  <2>5. ~awake => ~Read(o)
    BY DEF AwakeInv
  <2>6. ReaderInv'
    <3>1. Alone'
      BY <2>2, <2>5 DEF ReaderInv, Alone, Read, SameReaders
    <3>2. Single'
      BY DEF ReaderInv, Single, SameReaders
    <3> QED BY <2>3, <3>1, <3>2 DEF ReaderInv
  <2>7. AwakeInv'
    <3> SUFFICES ASSUME NEW p \in Actor
                 PROVE  /\ Read(p)' => pipe'[p].c # Null
                        /\ Pending(p)' => pipe'[p].front < Len(sent'[p])
                        /\ pipe'[p].c # Null => Read(p)' \/ p \in thrown' \/ ~Exists(p)'
      BY DEF AwakeInv
    <3>1. CASE p = o
      <4>1. pipe[o].front \in Nat /\ Len(sent[o]) \in Nat /\ pipe[o].front <= Len(sent[o])
        BY MailType DEF PointersAt
      <4>2. pipe'[p].front < Len(sent'[p])
        BY <3>1, <2>1, <4>1
      <4>3. Read(p)' \/ p \in thrown' \/ ~Exists(p)'
        BY <3>1, <2>1, <2>4 DEF AwakeInv
      <4> QED BY <3>1, <2>1, <4>2, <4>3
    <3>2. CASE p # o
      BY <3>2, <2>1, <2>4 DEF AwakeInv
    <3> QED BY <3>1, <3>2
  <2> QED BY <2>1, <2>6, <2>7
<1> QED BY <1>1, <1>2

-----------------------------------------------------------------------------
(* The workers that begin or end to read.                                  *)

LEMMA WorkersActor ==
  ASSUME EngineTypeOK, WorkerInv, NEW w \in Worker, worker[w].at \notin {"idle", "exited"}
  PROVE  worker[w].actor \in Actor
<1>1. worker[w].actor # 0 /\ worker[w].actor \in 0 .. MaxSpawn
  BY DEF EngineTypeOK, WorkerInv, Hand
<1> QED BY <1>1, ActorAssumption DEF Actor

LEMMA TakeJobReads ==
  ASSUME EngineTypeOK, PointerInv, AwakeInv, ReaderInv, WorkerInv, NEW w \in Worker, TakeJob(w)
  PROVE  PointerInv' /\ AwakeInv' /\ ReaderInv'
<1>1. PICK v \in Worker :
        /\ jobs[v] # <<>> /\ Taken(v)
        /\ worker' = [worker EXCEPT ![w] = [Idle EXCEPT !.at = "lock", !.actor = Head(jobs[v])]]
  BY DEF TakeJob, Taken
<1> DEFINE o == Head(jobs[v])
<1>2. /\ Once' /\ Queued(o) /\ o \in Actor
      /\ \A p \in Actor : Queued(p)' <=> Queued(p) /\ p # o
  BY <1>1, TakenQueues DEF ReaderInv
<1>3. /\ worker'[w].at = "lock" /\ worker'[w].actor = o
      /\ \A u \in Worker : u # w => worker'[u] = worker[u]
      /\ worker[w].at = "idle"
      /\ UNCHANGED <<pipe, sent, thrown, registered, spawn>>
  BY <1>1 DEF EngineTypeOK, TakeJob, Idle, actorVars, boundVars
<1> HIDE DEF o
<1>4. /\ \A u \in Worker, p \in Actor : Applying(u, p)' <=> Applying(u, p) \/ (u = w /\ p = o)
      /\ \A p \in Actor : Read(p)' <=> Read(p)
      /\ \A p \in Actor : Pending(p)' <=> Pending(p)
      /\ \A p \in Actor : Exists(p)' <=> Exists(p)
  <2>1. \A u \in Worker, p \in Actor : Applying(u, p)' <=> Applying(u, p) \/ (u = w /\ p = o)
    BY <1>3 DEF Applying
  <2>2. \A p \in Actor : Exists(p)' <=> Exists(p)
    BY <1>3 DEF Exists, IsReader
  <2>3. \A p \in Actor : (Read(p)' <=> Read(p)) /\ (Pending(p)' <=> Pending(p))
    BY <1>2, <1>3, <2>1 DEF Read, Pending
  <2> QED BY <2>1, <2>2, <2>3
<1>5. Alone' /\ Single'
  BY <1>2, <1>4 DEF ReaderInv, Alone, Single
<1>6. PointerInv' /\ AwakeInv'
  BY <1>3, <1>4 DEF PointerInv, AwakeInv
<1> QED BY <1>2, <1>5, <1>6 DEF ReaderInv

LEMMA JobExpiredReads ==
  ASSUME EngineTypeOK, PointerInv, AwakeInv, ReaderInv, WorkerInv, NEW w \in Worker, JobExpired(w)
  PROVE  PointerInv' /\ AwakeInv' /\ ReaderInv'
<1> DEFINE o == worker[w].actor
<1>1. /\ worker'[w] = Idle /\ \A u \in Worker : u # w => worker'[u] = worker[u]
      /\ worker[w].at = "lock" /\ ~Exists(o) /\ o \in Actor
      /\ UNCHANGED <<pipe, sent, jobs, thrown, registered, spawn>>
  BY WorkersActor DEF EngineTypeOK, JobExpired, actorVars, mailVars, boundVars
<1> HIDE DEF o
<1>2. /\ \A u \in Worker, p \in Actor : Applying(u, p)' => Applying(u, p)
      /\ \A p \in Actor : Queued(p)' <=> Queued(p)
      /\ \A p \in Actor : Read(p)' => Read(p)
      /\ \A p \in Actor : p # o => (Read(p)' <=> Read(p))
      /\ \A p \in Actor : Pending(p)' => Pending(p)
      /\ \A p \in Actor : Exists(p)' <=> Exists(p)
  BY <1>1 DEF Applying, Queued, Read, Pending, Exists, IsReader, Idle, o
<1>3. Once' /\ Alone' /\ Single'
  BY <1>1, <1>2 DEF ReaderInv, Once, Alone, Single
<1>4. PointerInv' /\ AwakeInv'
  BY <1>1, <1>2 DEF PointerInv, AwakeInv
<1> QED BY <1>3, <1>4 DEF ReaderInv

\* apply_once finds a message.
LEMMA ApplyFinds ==
  ASSUME EngineTypeOK, PointerInv, AwakeInv, ReaderInv, WorkerInv, NEW w \in Worker, Apply(w)
  PROVE  LET o == worker[w].actor
             p == pipe[o]
         IN  /\ o \in Actor /\ Exists(o) /\ worker[w].at = "lock"
             /\ p.front < Len(sent[o]) /\ p.front \in Nat
             /\ worker'[w] = [worker[w] EXCEPT !.at = "run", !.msg = sent[o][p.front + 1]]
             /\ \A u \in Worker : u # w => worker'[u] = worker[u]
             /\ pipe' = [pipe EXCEPT ![o] = Pop(CheckRead(p))]
             /\ pipe'[o] \in PipeType /\ pipe'[o].front = p.front + 1 /\ pipe'[o].c # Null
             /\ PointersAt(pipe'[o], Len(sent[o]))
             /\ \A q \in Actor : q # o => pipe'[q] = pipe[q]
             /\ UNCHANGED <<sent, jobs, thrown, registered, spawn>>
<1> DEFINE o == worker[w].actor  p == pipe[o]
<1>1. worker[w].at = "lock" /\ o \in Actor /\ Exists(o)
  BY WorkersActor DEF Apply
<1>2. /\ p.c # Null /\ p.front < Len(sent[o])
  BY <1>1 DEF AwakeInv, Read, Pending, Applying
<1>3. p \in PipeType /\ Len(sent[o]) \in Nat /\ p.front \in Nat /\ PointersAt(p, Len(sent[o]))
  BY <1>1, MailType
<1>4. Readable(CheckRead(p)) /\ CheckRead(p).c # Null /\ PointersAt(Pop(CheckRead(p)), Len(sent[o]))
  BY <1>2, <1>3, CheckReadAwake
<1>5. /\ worker' = [worker EXCEPT ![w].at = "run", ![w].msg = sent[o][p.front + 1]]
      /\ pipe' = [pipe EXCEPT ![o] = Pop(CheckRead(p))]
      /\ UNCHANGED <<sent, jobs, thrown, registered, spawn>>
  <2>1. CheckRead(p).front = p.front
    BY <1>3, CheckReadFields
  <2> QED BY <1>4, <2>1 DEF Apply, actorVars
<1>6. /\ worker'[w] = [worker[w] EXCEPT !.at = "run", !.msg = sent[o][p.front + 1]]
      /\ \A u \in Worker : u # w => worker'[u] = worker[u]
  BY <1>5 DEF EngineTypeOK
<1>7. /\ CheckRead(p) \in PipeType /\ CheckRead(p).front = p.front
      /\ Pop(CheckRead(p)) \in PipeType /\ Pop(CheckRead(p)).front = p.front + 1
      /\ Pop(CheckRead(p)).c # Null
  BY <1>3, <1>4, CheckReadFields, PopFields
<1>8. pipe'[o] = Pop(CheckRead(p)) /\ \A q \in Actor : q # o => pipe'[q] = pipe[q]
  BY <1>1, <1>5 DEF EngineTypeOK
<1> QED BY <1>1, <1>2, <1>3, <1>4, <1>5, <1>6, <1>7, <1>8

LEMMA ApplyReads ==
  ASSUME EngineTypeOK, PointerInv, AwakeInv, ReaderInv, WorkerInv, NEW w \in Worker, Apply(w)
  PROVE  PointerInv' /\ AwakeInv' /\ ReaderInv'
<1>0. PICK o \in Actor : o = worker[w].actor
  BY ApplyFinds
<1>1. /\ o \in Actor /\ Exists(o) /\ worker[w].at = "lock"
      /\ worker'[w] = [worker[w] EXCEPT !.at = "run", !.msg = sent[o][pipe[o].front + 1]]
      /\ \A u \in Worker : u # w => worker'[u] = worker[u]
      /\ pipe'[o].c # Null /\ PointersAt(pipe'[o], Len(sent[o]))
      /\ \A q \in Actor : q # o => pipe'[q] = pipe[q]
      /\ UNCHANGED <<sent, jobs, thrown, registered, spawn>>
  BY <1>0, ApplyFinds
<1>2. worker'[w].at = "run" /\ worker'[w].actor = o
  BY <1>0, <1>1 DEF EngineTypeOK
<1>3. /\ \A u \in Worker, p \in Actor : Applying(u, p)' <=> Applying(u, p)
      /\ \A p \in Actor : Queued(p)' <=> Queued(p)
      /\ \A p \in Actor : Read(p)' <=> Read(p)
      /\ \A p \in Actor : Pending(p)' => Pending(p)
      /\ \A p \in Actor : Exists(p)' => Exists(p)
  <2>0. \A p \in Actor : Queued(p)' <=> Queued(p)
    BY <1>1 DEF Queued
  <2>1. \A u \in Worker, p \in Actor : Applying(u, p)' <=> Applying(u, p)
    <3> SUFFICES ASSUME NEW u \in Worker, NEW p \in Actor PROVE Applying(u, p)' <=> Applying(u, p)
      OBVIOUS
    <3>1. CASE u = w
      BY <3>1, <1>0, <1>1, <1>2 DEF Applying
    <3>2. CASE u # w
      BY <3>2, <1>1 DEF Applying
    <3> QED BY <3>1, <3>2
  <2>2. \A p \in Actor : Read(p)' <=> Read(p)
    BY <2>0, <2>1 DEF Read
  <2>3. \A p \in Actor : Pending(p)' => Pending(p)
    BY <2>0, <1>0, <1>1, <1>2, <2>1 DEF Pending
  <2>4. \A p \in Actor : Exists(p)' => Exists(p)
    <3> SUFFICES ASSUME NEW p \in Actor, p # o, Exists(p)' PROVE Exists(p)
      BY <1>1
    <3> QED BY <1>0, <1>1, <1>2 DEF Exists, IsReader
  <2> QED BY <2>0, <2>1, <2>2, <2>3, <2>4
<1>4. Once' /\ Alone' /\ Single'
  BY <1>1, <1>3 DEF ReaderInv, Once, Alone, Single
<1>5. PointerInv'
  BY <1>1 DEF PointerInv
<1>6. ~Pending(o)'
  <2>1. Applying(w, o) /\ ~Queued(o) /\ \A u \in Worker : Applying(u, o) => u = w
    BY <1>0, <1>1 DEF ReaderInv, Alone, Single, Applying
  <2>2. ~Queued(o)'
    BY <1>3, <2>1
  <2>3. ASSUME NEW u \in Worker
        PROVE  ~(worker'[u].actor = o /\ worker'[u].at \in {"lock", "post"})
    <3>1. CASE u = w
      BY <3>1, <1>2
    <3>2. CASE u # w
      BY <3>2, <1>1, <2>1 DEF Applying
    <3> QED BY <3>1, <3>2
  <2> QED BY <2>2, <2>3 DEF Pending
<1>7. AwakeInv'
  <2> SUFFICES ASSUME NEW p \in Actor
               PROVE  /\ Read(p)' => pipe'[p].c # Null
                      /\ Pending(p)' => pipe'[p].front < Len(sent'[p])
                      /\ pipe'[p].c # Null => Read(p)' \/ p \in thrown' \/ ~Exists(p)'
    BY DEF AwakeInv
  <2>1. CASE p = o
    <3>1. Read(o)
      BY <1>0, <1>1 DEF Read, Applying
    <3> QED BY <2>1, <3>1, <1>1, <1>3, <1>6
  <2>2. CASE p # o
    BY <2>2, <1>1, <1>3 DEF AwakeInv
  <2> QED BY <2>1, <2>2
<1> QED BY <1>4, <1>5, <1>7 DEF ReaderInv

\* check_read after the handler: more to read, or asleep.
LEMMA ApplyDoneFinds ==
  ASSUME EngineTypeOK, PointerInv, AwakeInv, ReaderInv, WorkerInv, NEW w \in Worker, ApplyDone(w)
  PROVE  LET o == worker[w].actor
             p == pipe[o]
         IN  /\ o \in Actor /\ worker[w].at = "run"
             /\ \/ /\ worker'[w] = [worker[w] EXCEPT !.at = "post", !.msg = NoMessage]
                   /\ Readable(pipe'[o]) /\ pipe'[o].c # Null /\ p.front < Len(sent[o])
                \/ worker'[w] = Idle /\ pipe'[o].c = Null
             /\ \A u \in Worker : u # w => worker'[u] = worker[u]
             /\ pipe' \in [Actor -> PipeType] /\ pipe'[o].front = p.front
             /\ PointersAt(pipe'[o], Len(sent[o]))
             /\ \A q \in Actor : q # o => pipe'[q] = pipe[q]
             /\ UNCHANGED <<sent, jobs, thrown, registered, spawn>>
<1> DEFINE o == worker[w].actor  p == pipe[o]
<1>1. worker[w].at = "run" /\ o \in Actor
  BY WorkersActor DEF ApplyDone
<1>2. p.c # Null
  BY <1>1 DEF AwakeInv, Read, Applying
<1>3. p \in PipeType /\ Len(sent[o]) \in Nat /\ PointersAt(p, Len(sent[o]))
  BY <1>1, MailType
<1>4. /\ CheckRead(p) \in PipeType /\ CheckRead(p).front = p.front
      /\ PointersAt(CheckRead(p), Len(sent[o]))
      /\ Readable(CheckRead(p)) => CheckRead(p).c # Null /\ p.front < Len(sent[o])
      /\ ~Readable(CheckRead(p)) => CheckRead(p).c = Null
  BY <1>2, <1>3, CheckReadAwake, CheckReadFields
<1>5. /\ pipe' = [pipe EXCEPT ![o] = CheckRead(p)]
      /\ worker' = [worker EXCEPT ![w] =
           IF Readable(CheckRead(p)) THEN [worker[w] EXCEPT !.at = "post", !.msg = NoMessage] ELSE Idle]
      /\ UNCHANGED <<sent, jobs, thrown, registered, spawn>>
  BY DEF ApplyDone, actorVars, boundVars
<1>6. /\ pipe' \in [Actor -> PipeType] /\ pipe'[o] = CheckRead(p)
      /\ \A q \in Actor : q # o => pipe'[q] = pipe[q]
  BY <1>1, <1>4, <1>5 DEF EngineTypeOK
<1>7. /\ worker'[w] = IF Readable(CheckRead(p)) THEN [worker[w] EXCEPT !.at = "post", !.msg = NoMessage]
                                                ELSE Idle
      /\ \A u \in Worker : u # w => worker'[u] = worker[u]
  BY <1>5 DEF EngineTypeOK
<1> QED BY <1>1, <1>4, <1>5, <1>6, <1>7

LEMMA ApplyDoneReads ==
  ASSUME EngineTypeOK, PointerInv, AwakeInv, ReaderInv, WorkerInv, NEW w \in Worker, ApplyDone(w)
  PROVE  PointerInv' /\ AwakeInv' /\ ReaderInv'
<1>0. PICK o \in Actor : o = worker[w].actor
  BY ApplyDoneFinds
<1>1. /\ o \in Actor /\ worker[w].at = "run"
      /\ \/ /\ worker'[w] = [worker[w] EXCEPT !.at = "post", !.msg = NoMessage]
            /\ pipe'[o].c # Null /\ pipe[o].front < Len(sent[o])
         \/ worker'[w] = Idle /\ pipe'[o].c = Null
      /\ \A u \in Worker : u # w => worker'[u] = worker[u]
      /\ pipe'[o].front = pipe[o].front /\ PointersAt(pipe'[o], Len(sent[o]))
      /\ \A q \in Actor : q # o => pipe'[q] = pipe[q]
      /\ UNCHANGED <<sent, jobs, thrown, registered, spawn>>
  BY <1>0, ApplyDoneFinds
<1>2. \/ /\ worker'[w].at = "post" /\ worker'[w].actor = o
         /\ pipe'[o].c # Null /\ pipe[o].front < Len(sent[o])
      \/ worker'[w].at = "idle" /\ pipe'[o].c = Null
  <2>1. worker[w].actor = o /\ worker[w] \in [at : WorkerAt, actor : 0 .. MaxSpawn,
                                              msg : Message \cup {NoMessage}, todo : SUBSET Address]
    BY <1>0 DEF EngineTypeOK
  <2>2. CASE worker'[w] = Idle /\ pipe'[o].c = Null
    BY <2>2 DEF Idle
  <2>3. CASE /\ worker'[w] = [worker[w] EXCEPT !.at = "post", !.msg = NoMessage]
             /\ pipe'[o].c # Null /\ pipe[o].front < Len(sent[o])
    BY <2>1, <2>3
  <2> QED BY <1>1, <2>2, <2>3
<1>3. Applying(w, o) /\ ~Queued(o) /\ \A u \in Worker : Applying(u, o) => u = w
  BY <1>0, <1>1 DEF ReaderInv, Alone, Single, Applying
<1>4. /\ \A u \in Worker, p \in Actor : Applying(u, p)' => Applying(u, p)
      /\ \A u \in Worker, p \in Actor : p # o => (Applying(u, p)' <=> Applying(u, p))
      /\ \A p \in Actor : Queued(p)' <=> Queued(p)
      /\ worker'[w].at = "post" => Applying(w, o)'
      /\ worker'[w].at # "post" => ~Applying(w, o)'
  BY <1>0, <1>1, <1>2 DEF Applying, Queued
<1>5. \A p \in Actor : p # o => (Read(p)' <=> Read(p)) /\ (Pending(p)' <=> Pending(p))
  <2>1. \A u \in Worker, p \in Actor : p # o =>
          ((worker[u].actor = p /\ worker[u].at \in {"lock", "post"})' <=>
            worker[u].actor = p /\ worker[u].at \in {"lock", "post"})
    BY <1>0, <1>1, <1>2
  <2> QED BY <1>4, <2>1 DEF Read, Pending
<1>6. \A p \in Actor : Exists(p)' => Exists(p)
  BY <1>0, <1>1, <1>2 DEF Exists, IsReader
<1>7. Once' /\ Alone' /\ Single'
  BY <1>1, <1>4 DEF ReaderInv, Once, Alone, Single
<1>8. PointerInv'
  BY <1>1 DEF PointerInv
<1>9. AwakeInv'
  <2> SUFFICES ASSUME NEW p \in Actor
               PROVE  /\ Read(p)' => pipe'[p].c # Null
                      /\ Pending(p)' => pipe'[p].front < Len(sent'[p])
                      /\ pipe'[p].c # Null => Read(p)' \/ p \in thrown' \/ ~Exists(p)'
    BY DEF AwakeInv
  <2>1. CASE p = o /\ worker'[w].at = "post"
    BY <2>1, <1>1, <1>2, <1>4 DEF Read
  <2>2. CASE p = o /\ worker'[w].at # "post"
    <3>1. ~Read(o)'
      BY <2>2, <1>3, <1>4 DEF Read
    <3>2. ~Pending(o)'
      BY <3>1 DEF Read, Pending, Applying
    <3> QED BY <2>2, <3>1, <3>2, <1>2
  <2>3. CASE p # o
    BY <2>3, <1>1, <1>5, <1>6 DEF AwakeInv
  <2> QED BY <2>1, <2>2, <2>3
<1> QED BY <1>7, <1>8, <1>9 DEF ReaderInv

LEMMA RepostReads ==
  ASSUME EngineTypeOK, PointerInv, AwakeInv, ReaderInv, WorkerInv, NEW w \in Worker, Repost(w)
  PROVE  PointerInv' /\ AwakeInv' /\ ReaderInv'
<1> DEFINE o == worker[w].actor
<1>1. worker[w].at = "post" /\ o \in Actor
  BY WorkersActor DEF Repost
<1>2. PICK v \in Worker : Added(v, o)
  BY DEF Repost, AddJob, Added
<1>3. /\ worker'[w].at = "release" /\ worker'[w].actor = o
      /\ \A u \in Worker : u # w => worker'[u] = worker[u]
      /\ UNCHANGED <<pipe, sent, thrown, registered, spawn>>
  BY DEF Repost, SetWorker, EngineTypeOK, actorVars, boundVars
<1> HIDE DEF o
<1>4. Applying(w, o) /\ ~Queued(o) /\ \A u \in Worker : Applying(u, o) => u = w
  BY <1>1 DEF ReaderInv, Alone, Single, Applying, o
<1>5. Once' /\ \A p \in Actor : Queued(p)' <=> Queued(p) \/ p = o
  BY <1>1, <1>2, <1>4, AddedQueues DEF ReaderInv
<1>6. \A u \in Worker, p \in Actor : Applying(u, p)' <=> Applying(u, p) /\ u # w
  BY <1>3 DEF Applying
<1>7. \A p \in Actor : Applying(w, p) <=> p = o
  BY <1>1 DEF Applying, o
<1>8. \A p \in Actor : (Read(p)' <=> Read(p)) /\ (Pending(p)' <=> Pending(p))
  <2>1. \A p \in Actor : Read(p)' <=> Read(p)
    BY <1>4, <1>5, <1>6, <1>7 DEF Read
  <2>2. ASSUME NEW p \in Actor
        PROVE  Pending(p)' <=> Pending(p)
    <3>1. CASE p = o
      BY <3>1, <1>1, <1>5 DEF Pending, o
    <3>2. CASE p # o
      BY <3>2, <1>1, <1>3, <1>5 DEF Pending, o
    <3> QED BY <3>1, <3>2
  <2> QED BY <2>1, <2>2
<1>9. \A p \in Actor : Exists(p)' => Exists(p)
  BY <1>1, <1>3 DEF Exists, IsReader, o
<1>10. Alone' /\ Single'
  BY <1>4, <1>5, <1>6 DEF ReaderInv, Alone, Single
<1>11. PointerInv' /\ AwakeInv'
  BY <1>3, <1>8, <1>9 DEF PointerInv, AwakeInv
<1> QED BY <1>5, <1>10, <1>11 DEF ReaderInv

LEMMA InitThrowsReads ==
  ASSUME EngineTypeOK, PointerInv, AwakeInv, ReaderInv, WorkerInv, NEW w \in Worker, InitThrows(w)
  PROVE  PointerInv' /\ AwakeInv' /\ ReaderInv'
<1> DEFINE o == worker[w].actor
<1>1. /\ worker[w].at = "run" /\ o \in Actor
      /\ worker'[w].at = "exited" /\ \A u \in Worker : u # w => worker'[u] = worker[u]
      /\ thrown' = thrown \cup {o}
      /\ UNCHANGED <<pipe, sent, jobs, registered, spawn>>
  BY WorkersActor DEF InitThrows, Idle, EngineTypeOK, actorVars, mailVars
<1> HIDE DEF o
<1>2. /\ \A u \in Worker, p \in Actor : Applying(u, p)' => Applying(u, p)
      /\ \A p \in Actor : Queued(p)' <=> Queued(p)
      /\ \A p \in Actor : Read(p)' => Read(p)
      /\ \A p \in Actor : p # o => (Read(p)' <=> Read(p))
      /\ \A p \in Actor : Pending(p)' => Pending(p)
      /\ \A p \in Actor : Exists(p)' => Exists(p)
  BY <1>1 DEF Applying, Queued, Read, Pending, Exists, IsReader, o
<1>3. Once' /\ Alone' /\ Single'
  BY <1>1, <1>2 DEF ReaderInv, Once, Alone, Single
<1>4. PointerInv'
  BY <1>1 DEF PointerInv
<1>5. AwakeInv'
  BY <1>1, <1>2 DEF AwakeInv
<1> QED BY <1>3, <1>4, <1>5 DEF ReaderInv

-----------------------------------------------------------------------------
(* Who sends what.                                                         *)

LEMMA SelfType ==
  ASSUME EngineTypeOK, WorkerInv, NEW t \in EngineThread, Free(t)
  PROVE  /\ Self(t) \in Address
         /\ Self(t) = 0 \/ (t \in Worker /\ worker[t].actor \in Actor /\ Self(t) = address[worker[t].actor])
<1>1. CASE t \in Worker
  <2>1. worker[t].actor \in Actor
    BY <1>1, WorkersActor DEF Free
  <2> QED BY <1>1, <2>1 DEF Self, EngineTypeOK
<1>2. CASE t \notin Worker
  BY <1>2, ActorAssumption DEF Self, Address
<1> QED BY <1>1, <1>2

LEMMA SendFacts ==
  ASSUME EngineTypeOK, PointerInv, WorkerInv, NEW t \in EngineThread, SendMessage(t)
  PROVE  \E a \in known \cup {Self(t)}, m \in Message :
           /\ Free(t) /\ m.from = Self(t) /\ Delivered(a, m)
           /\ sends' \in 0 .. MaxSends
           /\ UNCHANGED <<actorVars, observers, worker, stopping, thrown>>
<1>1. Free(t) /\ Self(t) \in Address
  BY SelfType DEF SendMessage
<1>2. PICK a \in known \cup {Self(t)} :
         \/ Post(a, [kind |-> "user", from |-> Self(t)])
         \/ Post(a, [kind |-> "watch", from |-> Self(t)])
  BY DEF SendMessage
<1>3. /\ [kind |-> "user", from |-> Self(t)] \in Message
      /\ [kind |-> "watch", from |-> Self(t)] \in Message
  BY <1>1 DEF Message
<1>4. PICK m \in Message : m.from = Self(t) /\ Post(a, m)
  BY <1>2, <1>3
<1>5. Delivered(a, m)
  BY <1>4, PostFacts
<1>6. sends' \in 0 .. MaxSends /\ UNCHANGED <<actorVars, observers, worker, stopping, thrown>>
  BY ActorAssumption DEF SendMessage, EngineTypeOK
<1> QED BY <1>1, <1>4, <1>5, <1>6

LEMMA SpawnInitFacts ==
  ASSUME EngineTypeOK, PointerInv, NEW t \in EngineThread, SpawnInit(t)
  PROVE  LET a == address[spawn[t].actor]
         IN  /\ spawn[t].at = "init" /\ Delivered(a, InitMessage) /\ InitMessage \in Message
             /\ known' = known \cup {a} /\ spawn' = [spawn EXCEPT ![t] = NoSpawn]
             /\ UNCHANGED <<created, address, index, registered, observers, worker,
                            stopping, boundVars>>
<1>1. Post(address[spawn[t].actor], InitMessage)
  BY DEF SpawnInit
<1>2. InitMessage \in Message
  BY ActorAssumption DEF InitMessage, Message, Address
<1> QED BY <1>1, <1>2, PostFacts DEF SpawnInit

LEMMA NotifyFacts ==
  ASSUME EngineTypeOK, PointerInv, WorkerInv, NEW w \in Worker, NotifyObserver(w)
  PROVE  \E a \in worker[w].todo, m \in Message :
           /\ worker[w].at = "close" /\ worker[w].actor \in Actor
           /\ m.from = address[worker[w].actor] /\ Delivered(a, m)
           /\ worker' = [worker EXCEPT ![w].todo = worker[w].todo \ {a}]
           /\ UNCHANGED <<actorVars, observers, stopping, boundVars>>
<1>1. worker[w].at = "close" /\ worker[w].actor \in Actor
  BY WorkersActor DEF NotifyObserver
<1> DEFINE m == [kind |-> "closed", from |-> address[worker[w].actor]]
<1>2. m \in Message /\ m.from = address[worker[w].actor]
  BY <1>1 DEF Message, EngineTypeOK
<1>3. PICK a \in worker[w].todo :
        Post(a, m) /\ worker' = [worker EXCEPT ![w].todo = worker[w].todo \ {a}]
  BY DEF NotifyObserver
<1> HIDE DEF m
<1>4. Delivered(a, m)
  BY <1>2, <1>3, PostFacts
<1>5. UNCHANGED <<actorVars, observers, stopping, boundVars>>
  BY DEF NotifyObserver
<1> QED BY <1>1, <1>2, <1>3, <1>4, <1>5

\* What every delivery leaves as it was: types, the first message, the
\* readable part of each mailbox.
LEMMA DeliveredFacts ==
  ASSUME EngineTypeOK, PointerInv, NEW a, NEW m \in Message, Delivered(a, m)
  PROVE  /\ sent' \in [Actor -> Seq(Message)] /\ pipe' \in [Actor -> PipeType]
         /\ jobs' \in [Worker -> Seq(Actor)]
         /\ (\E o \in Actor, n \in Message : Got(o, n)) \/ UNCHANGED mailVars
         /\ \A p \in Actor : Readable(pipe[p]) => Readable(pipe'[p])
         /\ \A p \in Actor : sent[p] # <<>> => sent'[p] # <<>> /\ sent'[p][1] = sent[p][1]
         /\ \A p \in Actor : p \notin registered => sent'[p] = sent[p] /\ pipe'[p] = pipe[p]
<1>1. CASE UNCHANGED mailVars
  BY <1>1 DEF mailVars, EngineTypeOK
<1>2. ASSUME NEW o \in registered, Got(o, m)
      PROVE  /\ sent' \in [Actor -> Seq(Message)] /\ pipe' \in [Actor -> PipeType]
             /\ jobs' \in [Worker -> Seq(Actor)]
             /\ \E p \in Actor, n \in Message : Got(p, n)
             /\ \A p \in Actor : Readable(pipe[p]) => Readable(pipe'[p])
             /\ \A p \in Actor : sent[p] # <<>> => sent'[p] # <<>> /\ sent'[p][1] = sent[p][1]
             /\ \A p \in Actor : p \notin registered => sent'[p] = sent[p] /\ pipe'[p] = pipe[p]
  <2>1. o \in Actor
    BY DEF EngineTypeOK
  <2>2. /\ sent' \in [Actor -> Seq(Message)] /\ pipe' \in [Actor -> PipeType]
        /\ jobs' \in [Worker -> Seq(Actor)]
        /\ \A p \in Actor : p # o => sent'[p] = sent[p] /\ pipe'[p] = pipe[p]
        /\ sent'[o] # <<>>
        /\ \A i \in 1 .. Len(sent[o]) : sent'[o][i] = sent[o][i]
        /\ pipe'[o].front = pipe[o].front /\ pipe'[o].r = pipe[o].r
    BY <1>2, <2>1, GotFacts
  <2>3. Readable(pipe[o]) => Readable(pipe'[o])
    BY <2>2 DEF Readable
  <2>4. sent[o] # <<>> => sent'[o][1] = sent[o][1]
    <3>1. sent[o] # <<>> => 1 \in 1 .. Len(sent[o])
      BY <2>1, MailType
    <3> QED BY <2>2, <3>1
  <2> QED BY <1>2, <2>1, <2>2, <2>3, <2>4
<1> QED BY <1>1, <1>2 DEF Delivered

-----------------------------------------------------------------------------
(* Types.                                                                  *)

WorkerType == [at : WorkerAt, actor : 0 .. MaxSpawn, msg : Message \cup {NoMessage},
               todo : SUBSET Address]
SpawnType == [at : {"no", "count", "add", "init"}, actor : 0 .. MaxSpawn]

LEMMA IdleType == Idle \in WorkerType /\ NoSpawn \in SpawnType
BY ActorAssumption DEF Idle, NoSpawn, WorkerType, SpawnType, WorkerAt

\* A step of one worker keeps the types when its own does.
LEMMA WorkerTyped ==
  ASSUME EngineTypeOK, NEW w \in Worker, NEW r \in WorkerType, worker' = [worker EXCEPT ![w] = r]
  PROVE  worker' \in [Worker -> WorkerType]
BY DEF EngineTypeOK, WorkerType

LEMMA TypeStep ==
  EngineTypeOK /\ PointerInv /\ AwakeInv /\ ReaderInv /\ WorkerInv /\ SpawnInv /\ AddressInv /\ [EngineNext]_engineVars
    => EngineTypeOK'
<1> SUFFICES ASSUME EngineTypeOK, PointerInv, AwakeInv, ReaderInv, WorkerInv, SpawnInv, AddressInv, [EngineNext]_engineVars
             PROVE  EngineTypeOK'
  OBVIOUS
<1> USE ActorAssumption
<1>1. ASSUME NEW t \in EngineThread, SendMessage(t)
      PROVE  EngineTypeOK'
  BY <1>1, SendFacts, DeliveredFacts DEF EngineTypeOK, actorVars
<1>2. ASSUME NEW t \in EngineThread, SpawnRead(t)
      PROVE  EngineTypeOK'
  <2>1. created' = created + 1 /\ created' \in Actor /\ index \in Address
    BY <1>2 DEF SpawnRead, EngineTypeOK, AddressInv, Actor, Address
  <2>2. address' \in [Actor -> Address]
    BY <1>2, <2>1 DEF SpawnRead, EngineTypeOK
  <2>3. spawn' \in [EngineThread -> SpawnType]
    <3>1. [at |-> "count", actor |-> created'] \in SpawnType
      BY <2>1 DEF SpawnType, Actor
    <3> QED BY <1>2, <3>1 DEF SpawnRead, EngineTypeOK, SpawnType
  <2> QED BY <1>2, <2>1, <2>2, <2>3 DEF SpawnRead, EngineTypeOK, SpawnType, mailVars, boundVars, Actor
<1>3. ASSUME NEW t \in EngineThread, SpawnCount(t)
      PROVE  EngineTypeOK'
  <2>1. spawn[t].actor \in 1 .. created
    BY <1>3 DEF SpawnCount, SpawnInv, EngineTypeOK
  <2>2. index' \in 1 .. MaxSpawn + 1
    BY <1>3, <2>1 DEF SpawnCount, AddressInv, EngineTypeOK
  <2>3. spawn' \in [EngineThread -> SpawnType]
    <3>1. spawn' = [spawn EXCEPT ![t].at = "add"]
      BY <1>3 DEF SpawnCount
    <3>2. spawn \in [EngineThread -> SpawnType]
      BY DEF EngineTypeOK, SpawnType
    <3> QED BY <3>1, <3>2 DEF SpawnType
  <2> QED BY <1>3, <2>2, <2>3 DEF SpawnCount, EngineTypeOK, SpawnType, mailVars, boundVars
<1>4. ASSUME NEW t \in EngineThread, SpawnAdd(t)
      PROVE  EngineTypeOK'
  <2>1. spawn[t].actor \in Actor
    BY <1>4 DEF SpawnAdd, SpawnInv, EngineTypeOK, Actor
  <2>2. registered' \in SUBSET Actor
    BY <1>4, <2>1 DEF SpawnAdd, EngineTypeOK
  <2>3. spawn' \in [EngineThread -> SpawnType]
    <3>1. spawn' = [spawn EXCEPT ![t].at = "init"]
      BY <1>4 DEF SpawnAdd
    <3>2. spawn \in [EngineThread -> SpawnType]
      BY DEF EngineTypeOK, SpawnType
    <3> QED BY <3>1, <3>2 DEF SpawnType
  <2> QED BY <1>4, <2>2, <2>3 DEF SpawnAdd, EngineTypeOK, SpawnType, mailVars, boundVars
<1>5. ASSUME NEW t \in EngineThread, SpawnInit(t)
      PROVE  EngineTypeOK'
  <2>1. spawn[t].actor \in Actor
    BY <1>5 DEF SpawnInit, SpawnInv, EngineTypeOK, Actor
  <2>2. known' \in SUBSET Address
    BY <1>5, <2>1 DEF SpawnInit, EngineTypeOK
  <2>3. spawn' \in [EngineThread -> SpawnType]
    BY <1>5, IdleType DEF SpawnInit, EngineTypeOK, SpawnType
  <2> QED BY <1>5, <2>2, <2>3, SpawnInitFacts, DeliveredFacts DEF EngineTypeOK, SpawnType, boundVars
<1>6. ASSUME NEW w \in Worker, TakeJob(w)
      PROVE  EngineTypeOK'
  <2>1. PICK v \in Worker :
          /\ jobs[v] # <<>> /\ Taken(v)
          /\ worker' = [worker EXCEPT ![w] = [Idle EXCEPT !.at = "lock", !.actor = Head(jobs[v])]]
    BY <1>6 DEF TakeJob, Taken
  <2>2. Head(jobs[v]) \in Actor /\ jobs' \in [Worker -> Seq(Actor)]
    BY <2>1, TakenJobs
  <2>3. [Idle EXCEPT !.at = "lock", !.actor = Head(jobs[v])] \in WorkerType
    <3>2. Head(jobs[v]) \in 0 .. MaxSpawn
      BY <2>2 DEF Actor
    <3> QED BY <3>2, IdleType DEF WorkerType, WorkerAt
  <2>4. worker' \in [Worker -> WorkerType]
    BY <2>1, <2>3, WorkerTyped
  <2> QED BY <1>6, <2>2, <2>4 DEF TakeJob, EngineTypeOK, WorkerType, actorVars, boundVars
<1>7. ASSUME NEW w \in Worker, JobExpired(w) \/ Release(w)
      PROVE  EngineTypeOK'
  <2>1. worker' \in [Worker -> WorkerType]
    BY <1>7, IdleType, WorkerTyped DEF JobExpired, Release
  <2> QED BY <1>7, <2>1 DEF JobExpired, Release, EngineTypeOK, WorkerType, actorVars, mailVars, boundVars
<1>8. ASSUME NEW w \in Worker, Apply(w)
      PROVE  EngineTypeOK'
  <2> DEFINE o == worker[w].actor  p == pipe[o]  m == sent[o][p.front + 1]
  <2>1. /\ o \in Actor /\ p.front < Len(sent[o]) /\ p.front \in Nat
        /\ worker'[w] = [worker[w] EXCEPT !.at = "run", !.msg = m]
        /\ \A u \in Worker : u # w => worker'[u] = worker[u]
        /\ pipe' = [pipe EXCEPT ![o] = Pop(CheckRead(p))]
        /\ pipe'[o] \in PipeType
        /\ \A q \in Actor : q # o => pipe'[q] = pipe[q]
    BY <1>8, ApplyFinds
  <2>2. pipe' \in [Actor -> PipeType]
    BY <2>1 DEF EngineTypeOK
  <2>3. m \in Message
    <3>1. sent[o] \in Seq(Message) /\ p.front + 1 \in 1 .. Len(sent[o])
      BY <2>1, MailType
    <3> HIDE DEF o, p
    <3> QED BY <3>1
  <2>4. worker' \in [Worker -> WorkerType]
    <3> HIDE DEF m
    <3>1. worker[w] \in WorkerType
      BY DEF EngineTypeOK, WorkerType
    <3>2. worker'[w] \in WorkerType
      BY <2>1, <2>3, <3>1 DEF WorkerType, WorkerAt
    <3>3. worker' = [u \in Worker |-> worker'[u]]
      BY <1>8 DEF Apply, EngineTypeOK
    <3> QED BY <2>1, <3>2, <3>3 DEF EngineTypeOK, WorkerType
  <2> QED BY <1>8, <2>2, <2>4 DEF Apply, EngineTypeOK, WorkerType, actorVars
<1>9. ASSUME NEW w \in Worker, ApplyDone(w)
      PROVE  EngineTypeOK'
  <2>1. pipe' \in [Actor -> PipeType]
    BY <1>9, ApplyDoneFinds
  <2>2. observers' \in [Actor -> SUBSET Address]
    <3>1. worker[w].msg.kind = "watch" => worker[w].msg.from \in Address
      BY <1>9 DEF ApplyDone, WorkerInv, Hand, Message
    <3>2. worker[w].actor \in Actor
      BY <1>9, WorkersActor DEF ApplyDone
    <3> QED BY <1>9, <3>1, <3>2 DEF ApplyDone, EngineTypeOK
  <2>3. worker' \in [Worker -> WorkerType]
    <3> DEFINE r == [worker[w] EXCEPT !.at = "post", !.msg = NoMessage]
    <3>1. worker[w] \in WorkerType
      BY DEF EngineTypeOK, WorkerType
    <3>2. r \in WorkerType
      BY <3>1 DEF WorkerType, WorkerAt
    <3>3. \/ worker' = [worker EXCEPT ![w] = r]
          \/ worker' = [worker EXCEPT ![w] = Idle]
      BY <1>9 DEF ApplyDone
    <3> HIDE DEF r
    <3> QED BY <3>2, <3>3, IdleType, WorkerTyped
  <2> QED BY <1>9, <2>1, <2>2, <2>3 DEF ApplyDone, EngineTypeOK, WorkerType, actorVars, boundVars
<1>10. ASSUME NEW w \in Worker, Repost(w)
       PROVE  EngineTypeOK'
  <2>1. worker[w].actor \in Actor
    BY <1>10, WorkersActor DEF Repost
  <2>2. jobs' \in [Worker -> Seq(Actor)]
    BY <1>10, <2>1, AddedJobs DEF Repost, AddJob, Added
  <2>3. worker' \in [Worker -> WorkerType]
    BY <1>10 DEF Repost, SetWorker, EngineTypeOK, WorkerType, WorkerAt
  <2> QED BY <1>10, <2>2, <2>3 DEF Repost, EngineTypeOK, WorkerType, actorVars, boundVars
<1>11. ASSUME NEW w \in Worker, InitThrows(w)
       PROVE  EngineTypeOK'
  <2>1. [Idle EXCEPT !.at = "exited"] \in WorkerType
    BY DEF Idle, WorkerType, WorkerAt
  <2>2. worker' \in [Worker -> WorkerType]
    <3>1. worker' = [worker EXCEPT ![w] = [Idle EXCEPT !.at = "exited"]]
      BY <1>11 DEF InitThrows
    <3> QED BY <2>1, <3>1, WorkerTyped
  <2>3. thrown' \in SUBSET Actor
    BY <1>11, WorkersActor DEF InitThrows, EngineTypeOK
  <2> QED BY <1>11, <2>2, <2>3 DEF InitThrows, EngineTypeOK, WorkerType, actorVars, mailVars
<1>12. ASSUME NEW w \in Worker, CloseBegin(w)
       PROVE  EngineTypeOK'
  <2>1. observers[worker[w].actor] \in SUBSET Address
    BY <1>12, WorkersActor DEF CloseBegin, Free, EngineThread, EngineTypeOK
  <2>2. worker' \in [Worker -> WorkerType]
    <3> DEFINE r == [worker[w] EXCEPT !.at = "close", !.todo = observers[worker[w].actor]]
    <3>1. worker[w] \in WorkerType
      BY DEF EngineTypeOK, WorkerType
    <3>2. r \in WorkerType
      BY <2>1, <3>1 DEF WorkerType, WorkerAt
    <3>3. worker' = [worker EXCEPT ![w] = r]
      BY <1>12 DEF CloseBegin
    <3> HIDE DEF r
    <3> QED BY <3>2, <3>3, WorkerTyped
  <2> QED BY <1>12, <2>2 DEF CloseBegin, EngineTypeOK, WorkerType, actorVars, mailVars
<1>13. ASSUME NEW w \in Worker, NotifyObserver(w)
       PROVE  EngineTypeOK'
  <2>1. PICK a \in worker[w].todo, m \in Message :
          /\ Delivered(a, m)
          /\ worker' = [worker EXCEPT ![w].todo = worker[w].todo \ {a}]
          /\ UNCHANGED <<actorVars, observers, stopping, boundVars>>
    BY <1>13, NotifyFacts
  <2>2. worker' \in [Worker -> WorkerType]
    <3> DEFINE r == [worker[w] EXCEPT !.todo = worker[w].todo \ {a}]
    <3>1. worker[w] \in WorkerType
      BY DEF EngineTypeOK, WorkerType
    <3>2. worker[w].todo \ {a} \in SUBSET Address
      BY <3>1 DEF WorkerType
    <3>3. r \in WorkerType
      BY <3>1, <3>2 DEF WorkerType
    <3>4. worker' = [worker EXCEPT ![w] = r]
      BY <2>1
    <3> HIDE DEF r
    <3> QED BY <3>3, <3>4, WorkerTyped
  <2> QED BY <2>1, <2>2, DeliveredFacts DEF EngineTypeOK, WorkerType, actorVars, boundVars
<1>14. ASSUME NEW w \in Worker, Erase(w) \/ Exit(w)
       PROVE  EngineTypeOK'
  <2>1. worker' \in [Worker -> WorkerType]
    <3>1. PICK at \in WorkerAt : worker' = [worker EXCEPT ![w].at = at]
      BY <1>14 DEF Erase, Exit, SetWorker, WorkerAt
    <3>2. [worker[w] EXCEPT !.at = at] \in WorkerType
      BY DEF EngineTypeOK, WorkerType
    <3> QED BY <3>1, <3>2, WorkerTyped
  <2>2. registered' \in SUBSET Actor
    BY <1>14 DEF Erase, Exit, EngineTypeOK, actorVars
  <2> QED BY <1>14, <2>1, <2>2 DEF Erase, Exit, EngineTypeOK, WorkerType, actorVars, mailVars, boundVars
<1>15. CASE Stop
  BY <1>15 DEF Stop, EngineTypeOK, actorVars, mailVars, boundVars
<1>16. CASE UNCHANGED engineVars
  BY <1>16 DEF engineVars, EngineTypeOK, actorVars, mailVars, boundVars
<1> QED BY <1>1, <1>2, <1>3, <1>4, <1>5, <1>6, <1>7, <1>8, <1>9, <1>10, <1>11, <1>12, <1>13,
           <1>14, <1>15, <1>16 DEF EngineNext, Spawn, Work

-----------------------------------------------------------------------------
(* The steps in which no worker begins or ends to read.                    *)

LEMMA SteadyReads ==
  ASSUME EngineTypeOK, PointerInv, AwakeInv, ReaderInv, WorkerInv, SpawnInv,
         \/ \E t \in EngineThread : SendMessage(t) \/ Spawn(t)
         \/ \E w \in Worker : Release(w) \/ CloseBegin(w) \/ NotifyObserver(w) \/ Erase(w) \/ Exit(w)
         \/ Stop
         \/ UNCHANGED engineVars
  PROVE  PointerInv' /\ AwakeInv' /\ ReaderInv'
<1>1. CASE UNCHANGED <<pipe, sent, jobs, worker, registered, spawn, thrown>>
  <2>1. SameReaders /\ \A p \in Actor : Exists(p)' => Exists(p)
    BY <1>1 DEF SameReaders, Applying, Exists, IsReader
  <2> QED BY <1>1, <2>1, MailStep DEF mailVars
<1>2. ASSUME NEW t \in EngineThread, SendMessage(t)
      PROVE  PointerInv' /\ AwakeInv' /\ ReaderInv'
  <2>1. PICK a \in known \cup {Self(t)}, m \in Message :
          /\ Delivered(a, m) /\ UNCHANGED <<actorVars, observers, worker, stopping, thrown>>
    BY <1>2, SendFacts
  <2>2. SameReaders /\ \A p \in Actor : Exists(p)' => Exists(p)
    BY <2>1 DEF SameReaders, Applying, Exists, IsReader, actorVars
  <2>3. (\E o \in Actor, n \in Message : Got(o, n)) \/ UNCHANGED mailVars
    BY <2>1, DeliveredFacts
  <2> QED BY <2>1, <2>2, <2>3, MailStep
<1>3. ASSUME NEW t \in EngineThread, SpawnRead(t)
      PROVE  PointerInv' /\ AwakeInv' /\ ReaderInv'
  <2>1. /\ spawn' = [spawn EXCEPT ![t] = [at |-> "count", actor |-> created']]
        /\ created' = created + 1 /\ created' \in Actor
        /\ UNCHANGED <<registered, worker, mailVars, thrown>>
    <3>1. created' = created + 1 /\ created' \in Actor
      BY <1>3, ActorAssumption DEF SpawnRead, Actor, EngineTypeOK
    <3>2. UNCHANGED <<registered, worker, mailVars, thrown>>
      BY <1>3 DEF SpawnRead, mailVars, boundVars
    <3> QED BY <1>3, <3>1, <3>2 DEF SpawnRead
  <2>2. SameReaders
    BY <2>1 DEF SameReaders, Applying
  <2>3. pipe[created'].c = Null
    BY <2>1 DEF SpawnInv, Untouched, EngineTypeOK
  <2>4. ASSUME NEW p \in Actor, Exists(p)'
        PROVE  Exists(p) \/ pipe'[p].c = Null
    <3>1. \A u \in EngineThread : spawn'[u].actor = p => spawn[u].actor = p \/ p = created'
      BY <2>1 DEF EngineTypeOK
    <3> QED BY <2>1, <2>3, <2>4, <3>1 DEF Exists, IsReader, mailVars
  <2> QED BY <2>1, <2>2, <2>4, MailStep
<1>4. ASSUME NEW t \in EngineThread, SpawnCount(t) \/ SpawnAdd(t)
      PROVE  PointerInv' /\ AwakeInv' /\ ReaderInv'
  <2>1. /\ \A u \in EngineThread : spawn'[u].actor = spawn[u].actor
        /\ registered' \subseteq registered \cup {spawn[t].actor}
        /\ UNCHANGED <<worker, mailVars, thrown>>
    <3>1. \A u \in EngineThread : spawn'[u].actor = spawn[u].actor
      <4>1. \E at \in {"add", "init"} : spawn' = [spawn EXCEPT ![t].at = at]
        BY <1>4 DEF SpawnCount, SpawnAdd
      <4>2. spawn \in [EngineThread -> SpawnType]
        BY DEF EngineTypeOK, SpawnType
      <4> QED BY <4>1, <4>2 DEF SpawnType
    <3>2. registered' \subseteq registered \cup {spawn[t].actor}
      BY <1>4 DEF SpawnCount, SpawnAdd
    <3>3. UNCHANGED <<worker, mailVars, thrown>>
      BY <1>4 DEF SpawnCount, SpawnAdd, mailVars, boundVars
    <3> QED BY <3>1, <3>2, <3>3
  <2>2. SameReaders /\ \A p \in Actor : Exists(p)' => Exists(p)
    BY <2>1 DEF SameReaders, Applying, Exists, IsReader
  <2> QED BY <2>1, <2>2, MailStep
<1>5. ASSUME NEW t \in EngineThread, SpawnInit(t)
      PROVE  PointerInv' /\ AwakeInv' /\ ReaderInv'
  <2>1. /\ Delivered(address[spawn[t].actor], InitMessage) /\ InitMessage \in Message
        /\ spawn' = [spawn EXCEPT ![t] = NoSpawn]
        /\ UNCHANGED <<registered, worker, thrown>>
    BY <1>5, SpawnInitFacts DEF boundVars
  <2>2. \A u \in EngineThread, p \in Actor : spawn'[u].actor = p => spawn[u].actor = p
    BY <2>1 DEF EngineTypeOK, NoSpawn, Actor
  <2>3. SameReaders /\ \A p \in Actor : Exists(p)' => Exists(p)
    BY <2>1, <2>2 DEF SameReaders, Applying, Exists, IsReader
  <2>4. (\E o \in Actor, n \in Message : Got(o, n)) \/ UNCHANGED mailVars
    BY <2>1, DeliveredFacts
  <2> QED BY <2>1, <2>3, <2>4, MailStep
<1>6. ASSUME NEW w \in Worker, Release(w) \/ CloseBegin(w) \/ Erase(w) \/ Exit(w)
      PROVE  PointerInv' /\ AwakeInv' /\ ReaderInv'
  <2>1. /\ UNCHANGED <<spawn, mailVars, thrown>> /\ registered' \subseteq registered
        /\ \A u \in Worker : u # w => worker'[u] = worker[u]
    BY <1>6 DEF Release, CloseBegin, Erase, Exit, SetWorker, actorVars, boundVars, EngineTypeOK
  <2>2. \/ worker[w].at = "release" /\ worker'[w].at = "idle"
        \/ worker[w].at = "run" /\ worker'[w].at = "close" /\ worker'[w].actor = worker[w].actor
        \/ worker[w].at = "close" /\ worker'[w].at = "run" /\ worker'[w].actor = worker[w].actor
        \/ worker[w].at = "idle" /\ worker'[w].at = "exited"
    <3>1. CASE Release(w)
      BY <3>1 DEF Release, EngineTypeOK, Idle
    <3>2. CASE CloseBegin(w)
      BY <3>2 DEF CloseBegin, Free, EngineTypeOK
    <3>3. CASE Erase(w) \/ Exit(w)
      BY <3>3 DEF Erase, Exit, SetWorker, EngineTypeOK
    <3> QED BY <1>6, <3>1, <3>2, <3>3
  <2>3. SameReaders
    <3> SUFFICES ASSUME NEW u \in Worker, NEW p \in Actor
                 PROVE  /\ Applying(u, p)' <=> Applying(u, p)
                        /\ (worker[u].actor = p /\ worker[u].at \in {"lock", "post"})'
                             <=> worker[u].actor = p /\ worker[u].at \in {"lock", "post"}
      BY DEF SameReaders
    <3>1. CASE u = w
      BY <3>1, <2>2 DEF Applying
    <3>2. CASE u # w
      BY <3>2, <2>1 DEF Applying
    <3> QED BY <3>1, <3>2
  <2>4. \A p \in Actor : Exists(p)' => Exists(p)
    <3>1. \A u \in Worker, p \in Actor : IsReader(u, p)' => IsReader(u, p)
      <4> SUFFICES ASSUME NEW u \in Worker, NEW p \in Actor, IsReader(u, p)' PROVE IsReader(u, p)
        OBVIOUS
      <4>1. CASE u = w
        BY <4>1, <2>2 DEF IsReader
      <4>2. CASE u # w
        BY <4>2, <2>1 DEF IsReader
      <4> QED BY <4>1, <4>2
    <3> QED BY <2>1, <3>1 DEF Exists
  <2> QED BY <2>1, <2>3, <2>4, MailStep
<1>7. ASSUME NEW w \in Worker, NotifyObserver(w)
      PROVE  PointerInv' /\ AwakeInv' /\ ReaderInv'
  <2>1. PICK a \in worker[w].todo, m \in Message :
          /\ Delivered(a, m)
          /\ worker' = [worker EXCEPT ![w].todo = worker[w].todo \ {a}]
          /\ UNCHANGED <<actorVars, observers, stopping, boundVars>>
    BY <1>7, NotifyFacts
  <2>2. \A u \in Worker : worker'[u].actor = worker[u].actor /\ worker'[u].at = worker[u].at
    BY <2>1 DEF EngineTypeOK
  <2>3. SameReaders /\ \A p \in Actor : Exists(p)' => Exists(p)
    BY <2>1, <2>2 DEF SameReaders, Applying, Exists, IsReader, actorVars
  <2>4. (\E o \in Actor, n \in Message : Got(o, n)) \/ UNCHANGED mailVars
    BY <2>1, DeliveredFacts
  <2> QED BY <2>1, <2>3, <2>4, MailStep DEF boundVars
<1>8. CASE Stop \/ UNCHANGED engineVars
  BY <1>1, <1>8 DEF Stop, engineVars, actorVars, mailVars, boundVars
<1> QED BY <1>2, <1>3, <1>4, <1>5, <1>6, <1>7, <1>8 DEF Spawn

LEMMA ReadersStep ==
  EngineTypeOK /\ PointerInv /\ AwakeInv /\ ReaderInv /\ WorkerInv /\ SpawnInv /\ [EngineNext]_engineVars
    => PointerInv' /\ AwakeInv' /\ ReaderInv'
BY SteadyReads, TakeJobReads, JobExpiredReads, ApplyReads, ApplyDoneReads, RepostReads,
   InitThrowsReads DEF EngineNext, Work

-----------------------------------------------------------------------------
(* What a worker holds.                                                    *)

LEMMA HandKept ==
  ASSUME EngineTypeOK, WorkerInv, NEW w \in Worker,
         worker'[w].at = worker[w].at, worker'[w].actor = worker[w].actor,
         worker'[w].msg = worker[w].msg,
         \A p \in Actor : sent[p] # <<>> => sent'[p] # <<>>,
         \A p \in Actor : worker[w].actor = p /\ worker[w].at = "post" /\ Readable(pipe[p])
                            => Readable(pipe'[p])
  PROVE  Hand(w)'
<1>1. Hand(w)
  BY DEF WorkerInv
<1>2. worker[w].actor # 0 => worker[w].actor \in Actor
  BY ActorAssumption DEF EngineTypeOK, Actor
<1> QED BY <1>1, <1>2 DEF Hand

LEMMA WorkerStep ==
  EngineTypeOK /\ PointerInv /\ AwakeInv /\ ReaderInv /\ WorkerInv /\ SpawnInv /\ [EngineNext]_engineVars => WorkerInv'
<1> SUFFICES ASSUME EngineTypeOK, PointerInv, AwakeInv, ReaderInv, WorkerInv, SpawnInv, [EngineNext]_engineVars
             PROVE  WorkerInv'
  OBVIOUS
<1>1. CASE UNCHANGED <<pipe, sent, worker>>
  BY <1>1 DEF WorkerInv, Hand
<1>2. ASSUME NEW a, NEW m \in Message, Delivered(a, m),
             \A u \in Worker : /\ worker'[u].at = worker[u].at /\ worker'[u].actor = worker[u].actor
                               /\ worker'[u].msg = worker[u].msg
      PROVE  WorkerInv'
  BY <1>2, DeliveredFacts, HandKept DEF WorkerInv
<1>3. ASSUME NEW w \in Worker, Hand(w)', UNCHANGED <<pipe, sent>>,
             \A u \in Worker : u # w => worker'[u] = worker[u]
      PROVE  WorkerInv'
  <2>1. ASSUME NEW u \in Worker, u # w
        PROVE  Hand(u)'
    BY <1>3, <2>1, HandKept
  <2> QED BY <1>3, <2>1 DEF WorkerInv
<1>4. ASSUME NEW t \in EngineThread, SendMessage(t)
      PROVE  WorkerInv'
  <2>1. PICK a \in known \cup {Self(t)}, m \in Message :
          /\ Delivered(a, m) /\ UNCHANGED <<actorVars, observers, worker, stopping, thrown>>
    BY <1>4, SendFacts
  <2> QED BY <2>1, <1>2
<1>5. ASSUME NEW t \in EngineThread, SpawnRead(t) \/ SpawnCount(t) \/ SpawnAdd(t)
      PROVE  WorkerInv'
  BY <1>5, <1>1 DEF SpawnRead, SpawnCount, SpawnAdd, mailVars
<1>6. ASSUME NEW t \in EngineThread, SpawnInit(t)
      PROVE  WorkerInv'
  BY <1>6, <1>2, SpawnInitFacts
<1>7. ASSUME NEW w \in Worker, TakeJob(w)
      PROVE  WorkerInv'
  <2>1. PICK v \in Worker :
          /\ jobs[v] # <<>> /\ Taken(v)
          /\ worker' = [worker EXCEPT ![w] = [Idle EXCEPT !.at = "lock", !.actor = Head(jobs[v])]]
    BY <1>7 DEF TakeJob, Taken
  <2>2. Queued(Head(jobs[v])) /\ Head(jobs[v]) \in Actor
    BY <2>1, TakenQueues DEF ReaderInv
  <2>3. sent[Head(jobs[v])] # <<>>
    BY <2>2, MailType DEF AwakeInv, Pending
  <2>4. /\ worker'[w].at = "lock" /\ worker'[w].actor = Head(jobs[v])
        /\ \A u \in Worker : u # w => worker'[u] = worker[u]
        /\ UNCHANGED <<pipe, sent>>
    BY <1>7, <2>1 DEF EngineTypeOK, TakeJob, Idle
  <2>5. Hand(w)'
    BY <2>2, <2>3, <2>4 DEF Hand, Actor
  <2> QED BY <2>4, <2>5, <1>3
<1>8. ASSUME NEW w \in Worker, JobExpired(w) \/ Release(w)
      PROVE  WorkerInv'
  <2>1. /\ worker'[w] = Idle /\ UNCHANGED <<pipe, sent>>
        /\ \A u \in Worker : u # w => worker'[u] = worker[u]
    BY <1>8 DEF JobExpired, Release, EngineTypeOK, mailVars
  <2>2. Hand(w)'
    BY <2>1 DEF Hand, Idle
  <2> QED BY <2>1, <2>2, <1>3
<1>9. ASSUME NEW w \in Worker, Apply(w)
      PROVE  WorkerInv'
  <2>0. PICK o \in Actor : o = worker[w].actor
    BY <1>9, ApplyFinds
  <2>1. /\ worker[w].at = "lock" /\ pipe[o].front < Len(sent[o]) /\ pipe[o].front \in Nat
        /\ worker'[w] = [worker[w] EXCEPT !.at = "run", !.msg = sent[o][pipe[o].front + 1]]
        /\ \A u \in Worker : u # w => worker'[u] = worker[u]
        /\ \A q \in Actor : q # o => pipe'[q] = pipe[q]
        /\ UNCHANGED sent
    BY <1>9, <2>0, ApplyFinds
  <2>2. sent[o][pipe[o].front + 1] \in Message
    BY <2>1, MailType
  <2>3. worker'[w].at = "run" /\ worker'[w].actor = o /\ worker'[w].msg \in Message
    BY <2>0, <2>1, <2>2 DEF EngineTypeOK
  <2>4. sent[o] # <<>> /\ o # 0
    BY <2>1, MailType DEF Actor
  <2>5. Hand(w)'
    BY <2>1, <2>3, <2>4 DEF Hand
  <2>6. ASSUME NEW u \in Worker, u # w
        PROVE  Hand(u)'
    <3>1. worker[u].at = "post" => worker[u].actor # o
      BY <2>0, <2>1, <2>6 DEF ReaderInv, Single, Applying
    <3> QED BY <2>1, <2>6, <3>1, HandKept
  <2> QED BY <2>5, <2>6 DEF WorkerInv
<1>10. ASSUME NEW w \in Worker, ApplyDone(w)
       PROVE  WorkerInv'
  <2>0. PICK o \in Actor : o = worker[w].actor
    BY <1>10, ApplyDoneFinds
  <2>1. /\ worker[w].at = "run"
        /\ \/ /\ worker'[w] = [worker[w] EXCEPT !.at = "post", !.msg = NoMessage]
              /\ Readable(pipe'[o])
           \/ worker'[w] = Idle
        /\ \A u \in Worker : u # w => worker'[u] = worker[u]
        /\ \A q \in Actor : q # o => pipe'[q] = pipe[q]
        /\ UNCHANGED sent
    BY <1>10, <2>0, ApplyDoneFinds
  <2>2. sent[o] # <<>> /\ o # 0
    BY <2>0 DEF WorkerInv, Hand, Actor
  <2>3. Hand(w)'
    <3>1. CASE worker'[w] = Idle
      BY <3>1 DEF Hand, Idle
    <3>2. CASE /\ worker'[w] = [worker[w] EXCEPT !.at = "post", !.msg = NoMessage]
               /\ Readable(pipe'[o])
      <4>1. worker'[w].at = "post" /\ worker'[w].actor = o
        BY <2>0, <3>2 DEF EngineTypeOK
      <4> QED BY <2>1, <2>2, <3>2, <4>1 DEF Hand
    <3> QED BY <2>1, <3>1, <3>2
  <2>4. ASSUME NEW u \in Worker, u # w
        PROVE  Hand(u)'
    <3>1. worker[u].at = "post" => worker[u].actor # o
      BY <2>0, <2>1, <2>4 DEF ReaderInv, Single, Applying
    <3> QED BY <2>1, <2>4, <3>1, HandKept
  <2> QED BY <2>3, <2>4 DEF WorkerInv
<1>11. ASSUME NEW w \in Worker, InitThrows(w) \/ Exit(w)
       PROVE  WorkerInv'
  <2>1. /\ worker'[w].at = "exited" /\ worker'[w].actor = 0 /\ UNCHANGED <<pipe, sent>>
        /\ \A u \in Worker : u # w => worker'[u] = worker[u]
    <3>1. CASE InitThrows(w)
      BY <3>1 DEF InitThrows, EngineTypeOK, Idle, mailVars
    <3>2. CASE Exit(w)
      BY <3>2 DEF Exit, SetWorker, EngineTypeOK, mailVars, WorkerInv, Hand
    <3> QED BY <1>11, <3>1, <3>2
  <2>2. Hand(w)'
    BY <2>1 DEF Hand
  <2> QED BY <2>1, <2>2, <1>3
<1>12. ASSUME NEW w \in Worker, Repost(w) \/ CloseBegin(w) \/ Erase(w)
       PROVE  WorkerInv'
  <2>1. /\ worker[w].at \in {"run", "close", "post"}
        /\ worker'[w].at \in {"run", "close", "release"}
        /\ worker'[w].at \in {"run", "close"} => worker[w].at \in {"run", "close"}
        /\ worker'[w].actor = worker[w].actor /\ worker'[w].msg = worker[w].msg
        /\ \A u \in Worker : u # w => worker'[u] = worker[u]
        /\ UNCHANGED <<pipe, sent>>
    <3>1. CASE Repost(w)
      BY <3>1 DEF Repost, SetWorker, EngineTypeOK
    <3>2. CASE CloseBegin(w)
      BY <3>2 DEF CloseBegin, Free, EngineTypeOK, mailVars
    <3>3. CASE Erase(w)
      BY <3>3 DEF Erase, SetWorker, EngineTypeOK, mailVars
    <3> QED BY <1>12, <3>1, <3>2, <3>3
  <2>2. Hand(w)'
    BY <2>1 DEF Hand, WorkerInv
  <2> QED BY <2>1, <2>2, <1>3
<1>13. ASSUME NEW w \in Worker, NotifyObserver(w)
       PROVE  WorkerInv'
  <2>1. PICK a \in worker[w].todo, m \in Message :
          /\ Delivered(a, m)
          /\ worker' = [worker EXCEPT ![w].todo = worker[w].todo \ {a}]
    BY <1>13, NotifyFacts
  <2>2. \A u \in Worker : /\ worker'[u].at = worker[u].at /\ worker'[u].actor = worker[u].actor
                          /\ worker'[u].msg = worker[u].msg
    BY <2>1 DEF EngineTypeOK
  <2> QED BY <2>1, <2>2, <1>2
<1>14. CASE Stop \/ UNCHANGED engineVars
  BY <1>14, <1>1 DEF Stop, engineVars, mailVars
<1> QED BY <1>4, <1>5, <1>6, <1>7, <1>8, <1>9, <1>10, <1>11, <1>12, <1>13, <1>14 DEF EngineNext, Spawn, Work

-----------------------------------------------------------------------------
(* What a step does to the mailboxes and to the registry.                  *)

LEMMA SpawnedActor ==
  ASSUME EngineTypeOK, SpawnInv, NEW t \in EngineThread, spawn[t].at # "no"
  PROVE  spawn[t].actor \in Actor /\ spawn[t].actor \in 1 .. created
<1>1. spawn[t].actor # 0 /\ spawn[t].actor <= created /\ spawn[t].actor \in 0 .. MaxSpawn
  BY DEF EngineTypeOK, SpawnInv
<1> QED BY <1>1, ActorAssumption DEF EngineTypeOK, Actor

LEMMA WrittenActor ==
  ASSUME EngineTypeOK, SpawnInv, NEW o \in Actor, sent[o] # <<>>
  PROVE  o \in 1 .. created
<1>1. ~(o > created)
  BY DEF SpawnInv, Untouched
<1> QED BY <1>1, ActorAssumption DEF EngineTypeOK, Actor

\* Nobody has address 0; who has been written to has told his own.
LEMMA ToldNobody ==
  ASSUME EngineTypeOK, AddressInv
  PROVE  Told(0)
BY ActorAssumption DEF Told, AddressInv, EngineTypeOK

LEMMA ToldActor ==
  ASSUME EngineTypeOK, SpawnInv, NEW o \in Actor, sent[o] # <<>>
  PROVE  Told(address[o])
BY WrittenActor DEF Told, Own

LEMMA ToldSelf ==
  ASSUME EngineTypeOK, WorkerInv, SpawnInv, AddressInv, NEW t \in EngineThread, Free(t)
  PROVE  Told(Self(t))
<1>1. CASE Self(t) = 0
  BY <1>1, ToldNobody
<1>2. CASE t \in Worker /\ worker[t].actor \in Actor /\ Self(t) = address[worker[t].actor]
  <2>1. sent[worker[t].actor] # <<>>
    BY <1>2 DEF WorkerInv, Hand, Actor
  <2> QED BY <1>2, <2>1, ToldActor
<1> QED BY <1>1, <1>2, SelfType

\* A step writes to no mailbox, or delivers one message from an address that
\* has been told, to an address that has been told or as init; and only the
\* worker of an actor moves the reader's end.
LEMMA MailCases ==
  ASSUME IInv, [EngineNext]_engineVars
  PROVE  \/ UNCHANGED <<pipe, sent>>
         \/ \E a \in Address, m \in Message :
              Delivered(a, m) /\ Told(m.from) /\ (Told(a) \/ m = InitMessage)
         \/ \E w \in Worker : Apply(w) \/ ApplyDone(w)
<1> DEFINE Goal == \/ UNCHANGED <<pipe, sent>>
                   \/ \E a \in Address, m \in Message :
                        Delivered(a, m) /\ Told(m.from) /\ (Told(a) \/ m = InitMessage)
                   \/ \E w \in Worker : Apply(w) \/ ApplyDone(w)
<1>1. ASSUME NEW t \in EngineThread, SendMessage(t)
      PROVE  Goal
  <2>1. PICK a \in known \cup {Self(t)}, m \in Message :
          Free(t) /\ m.from = Self(t) /\ Delivered(a, m)
    BY <1>1, SendFacts DEF IInv
  <2>2. Told(Self(t)) /\ Self(t) \in Address
    BY <2>1, ToldSelf, SelfType DEF IInv
  <2>3. a \in Address /\ Told(a)
    BY <2>2 DEF IInv, EngineTypeOK, ToldInv
  <2> QED BY <2>1, <2>2, <2>3
<1>2. ASSUME NEW t \in EngineThread, SpawnInit(t)
      PROVE  Goal
  <2>1. /\ spawn[t].at = "init" /\ InitMessage \in Message
        /\ Delivered(address[spawn[t].actor], InitMessage)
    BY <1>2, SpawnInitFacts DEF IInv
  <2>2. address[spawn[t].actor] \in Address
    BY <2>1, SpawnedActor DEF IInv, EngineTypeOK
  <2>3. Told(InitMessage.from)
    BY ToldNobody DEF InitMessage, IInv
  <2> QED BY <2>1, <2>2, <2>3
<1>3. ASSUME NEW w \in Worker, NotifyObserver(w)
      PROVE  Goal
  <2>1. PICK a \in worker[w].todo, m \in Message :
          /\ worker[w].at = "close" /\ worker[w].actor \in Actor
          /\ m.from = address[worker[w].actor] /\ Delivered(a, m)
    BY <1>3, NotifyFacts DEF IInv
  <2>2. sent[worker[w].actor] # <<>>
    BY <2>1 DEF IInv, WorkerInv, Hand, Actor
  <2>3. Told(m.from)
    BY <2>1, <2>2, ToldActor DEF IInv
  <2>4. a \in Address /\ Told(a)
    BY DEF IInv, EngineTypeOK, ToldInv
  <2> QED BY <2>1, <2>3, <2>4
<1>4. ASSUME NEW t \in EngineThread, SpawnRead(t) \/ SpawnCount(t) \/ SpawnAdd(t)
      PROVE  Goal
  BY <1>4 DEF SpawnRead, SpawnCount, SpawnAdd, mailVars
<1>5. ASSUME NEW w \in Worker, TakeJob(w) \/ JobExpired(w) \/ Repost(w) \/ Release(w) \/ Erase(w) \/ Exit(w)
      PROVE  Goal
  BY <1>5 DEF TakeJob, JobExpired, Repost, Release, Erase, Exit, mailVars
<1>6. ASSUME NEW w \in Worker, InitThrows(w) \/ CloseBegin(w)
      PROVE  Goal
  BY <1>6 DEF InitThrows, CloseBegin, mailVars
<1>7. ASSUME Stop \/ UNCHANGED engineVars
      PROVE  Goal
  BY <1>7 DEF Stop, engineVars, mailVars
<1> HIDE DEF Goal
<1>8. Goal
  <2>1. ASSUME NEW w \in Worker, Apply(w) \/ ApplyDone(w)
        PROVE  Goal
    BY <2>1 DEF Goal
  <2>2. ASSUME NEW t \in EngineThread, SendMessage(t) \/ Spawn(t)
        PROVE  Goal
    BY <2>2, <1>1, <1>2, <1>4 DEF Spawn
  <2>3. ASSUME NEW w \in Worker, Work(w) \/ InitThrows(w) \/ CloseBegin(w)
        PROVE  Goal
    BY <2>3, <2>1, <1>3, <1>5, <1>6 DEF Work
  <2> QED BY <2>2, <2>3, <1>7 DEF EngineNext
<1> QED BY <1>8 DEF Goal

\* The first message stays the first; nobody writes to an actor that is not
\* registered, nor reads the mailbox of one that has not been written to.
LEMMA MailKept ==
  ASSUME IInv, [EngineNext]_engineVars, NEW p \in Actor
  PROVE  /\ sent[p] # <<>> => sent'[p] # <<>> /\ sent'[p][1] = sent[p][1]
         /\ p \notin registered => sent'[p] = sent[p]
         /\ p \notin registered /\ sent[p] = <<>> => pipe'[p] = pipe[p]
<1>1. CASE UNCHANGED <<pipe, sent>>
  BY <1>1
<1>2. ASSUME NEW a \in Address, NEW m \in Message, Delivered(a, m)
      PROVE  /\ sent[p] # <<>> => sent'[p] # <<>> /\ sent'[p][1] = sent[p][1]
             /\ p \notin registered => sent'[p] = sent[p] /\ pipe'[p] = pipe[p]
  BY <1>2, DeliveredFacts DEF IInv
<1>3. ASSUME NEW w \in Worker, Apply(w) \/ ApplyDone(w)
      PROVE  sent' = sent /\ (sent[p] = <<>> => pipe'[p] = pipe[p])
  <2>1. /\ worker[w].actor \in Actor /\ sent' = sent
        /\ \A q \in Actor : q # worker[w].actor => pipe'[q] = pipe[q]
    BY <1>3, ApplyFinds, ApplyDoneFinds DEF IInv
  <2>2. sent[worker[w].actor] # <<>>
    BY <2>1 DEF IInv, WorkerInv, Hand, Actor
  <2> QED BY <2>1, <2>2
<1> QED BY <1>1, <1>2, <1>3, MailCases

\* The steps that change the registry of actors.
LEMMA ActorCases ==
  [EngineNext]_engineVars => \/ UNCHANGED actorVars
                             \/ \E t \in EngineThread : SpawnRead(t) \/ SpawnCount(t) \/ SpawnAdd(t) \/ SpawnInit(t)
                             \/ \E w \in Worker : Erase(w)
<1>1. ASSUME NEW t \in EngineThread, SendMessage(t)
      PROVE  UNCHANGED actorVars
  BY <1>1 DEF SendMessage
<1>2. ASSUME NEW w \in Worker,
             \/ TakeJob(w) \/ JobExpired(w) \/ Apply(w) \/ ApplyDone(w) \/ Repost(w)
             \/ Release(w) \/ NotifyObserver(w) \/ Exit(w) \/ InitThrows(w) \/ CloseBegin(w)
      PROVE  UNCHANGED actorVars
  BY <1>2 DEF TakeJob, JobExpired, Apply, ApplyDone, Repost, Release, NotifyObserver, Exit,
              InitThrows, CloseBegin
<1>3. CASE Stop \/ UNCHANGED engineVars
  BY <1>3 DEF Stop, engineVars
<1> QED BY <1>1, <1>2, <1>3 DEF EngineNext, Spawn, Work

\* spawn, in the words of the registry.
LEMMA SpawnReadFacts ==
  ASSUME EngineTypeOK, AddressInv, NEW t \in EngineThread, SpawnRead(t)
  PROVE  /\ created' = created + 1 /\ created' \in Actor /\ created \in Nat
         /\ spawn[t] = NoSpawn
         /\ spawn'[t].at = "count" /\ spawn'[t].actor = created'
         /\ \A u \in EngineThread : u # t => spawn'[u] = spawn[u]
         /\ address'[created'] = index /\ index \in 1 .. created'
         /\ \A p \in 1 .. created : address'[p] = address[p] /\ p \in Actor /\ p # created'
         /\ 1 .. created' = 1 .. created \cup {created'}
         /\ UNCHANGED <<index, registered, known, mailVars, observers, worker>>
<1>1. created' = created + 1 /\ created' \in Actor /\ created \in Nat
  BY ActorAssumption DEF SpawnRead, Actor, EngineTypeOK
<1>2. index \in 1 .. created'
  BY <1>1 DEF AddressInv, EngineTypeOK
<1>3. \A p \in 1 .. created : p \in Actor /\ p # created'
  BY <1>1, ActorAssumption DEF EngineTypeOK, Actor
<1>4. 1 .. created' = 1 .. created \cup {created'}
  BY <1>1
<1>5. /\ spawn'[t].at = "count" /\ spawn'[t].actor = created'
      /\ \A u \in EngineThread : u # t => spawn'[u] = spawn[u]
  BY DEF SpawnRead, EngineTypeOK
<1>6. /\ address'[created'] = index
      /\ \A p \in Actor : p # created' => address'[p] = address[p]
  BY <1>1 DEF SpawnRead, EngineTypeOK
<1>7. spawn[t] = NoSpawn /\ UNCHANGED <<index, registered, known, mailVars, observers, worker>>
  BY DEF SpawnRead, Free
<1> QED BY <1>1, <1>2, <1>3, <1>4, <1>5, <1>6, <1>7

LEMMA SpawnGoesOn ==
  ASSUME EngineTypeOK, SpawnInv, NEW t \in EngineThread, SpawnCount(t) \/ SpawnAdd(t)
  PROVE  /\ spawn[t].actor \in Actor /\ spawn[t].actor \in 1 .. created
         /\ spawn[t].at \in {"count", "add"}
         /\ spawn'[t].actor = spawn[t].actor /\ spawn'[t].at \in {"add", "init"}
         /\ spawn'[t].at = "add" => registered' = registered
         /\ \A u \in EngineThread : u # t => spawn'[u] = spawn[u]
         /\ registered' \subseteq registered \cup {spawn[t].actor}
         /\ UNCHANGED <<created, address, known, mailVars, observers, worker>>
<1>1. spawn[t].at \in {"count", "add"}
  BY DEF SpawnCount, SpawnAdd
<1>2. spawn \in [EngineThread -> SpawnType]
  BY DEF EngineTypeOK, SpawnType
<1>3. PICK at \in {"add", "init"} : /\ spawn' = [spawn EXCEPT ![t].at = at]
                                    /\ at = "add" => registered' = registered
  BY DEF SpawnCount, SpawnAdd
<1>4. /\ spawn'[t].actor = spawn[t].actor /\ spawn'[t].at \in {"add", "init"}
      /\ spawn'[t].at = "add" => registered' = registered
      /\ \A u \in EngineThread : u # t => spawn'[u] = spawn[u]
  <2>1. /\ spawn'[t] = [spawn[t] EXCEPT !.at = at]
        /\ \A u \in EngineThread : u # t => spawn'[u] = spawn[u]
    BY <1>2, <1>3
  <2>2. spawn'[t].at = at /\ spawn'[t].actor = spawn[t].actor
    BY <1>2, <2>1 DEF SpawnType
  <2> QED BY <1>3, <2>1, <2>2
<1>5. registered' \subseteq registered \cup {spawn[t].actor}
  BY DEF SpawnCount, SpawnAdd
<1>6. UNCHANGED <<created, address, known, mailVars, observers, worker>>
  BY DEF SpawnCount, SpawnAdd
<1> QED BY <1>1, <1>4, <1>5, <1>6, SpawnedActor

LEMMA SpawnEnds ==
  ASSUME EngineTypeOK, PointerInv, SpawnInv, NEW t \in EngineThread, SpawnInit(t)
  PROVE  /\ spawn[t].actor \in Actor /\ spawn[t].actor \in 1 .. created
         /\ spawn'[t] = NoSpawn /\ \A u \in EngineThread : u # t => spawn'[u] = spawn[u]
         /\ UNCHANGED <<created, address, index, registered, observers, worker>>
<1>1. spawn[t].at = "init" /\ spawn' = [spawn EXCEPT ![t] = NoSpawn]
      /\ UNCHANGED <<created, address, index, registered, observers, worker>>
  BY SpawnInitFacts
<1> QED BY <1>1, SpawnedActor DEF EngineTypeOK

-----------------------------------------------------------------------------
(* Spawning and addresses.                                                 *)

LEMMA SpawnStep == IInv /\ [EngineNext]_engineVars => SpawnInv'
<1> SUFFICES ASSUME IInv, [EngineNext]_engineVars
             PROVE  SpawnInv'
  OBVIOUS
<1> USE DEF IInv
<1> DEFINE Bare(p) == p \notin registered' /\ sent'[p] = <<>> /\ pipe'[p].c = Null
<1>0. ASSUME NEW p \in Actor, Untouched(p), p \notin registered'
      PROVE  Bare(p)
  BY <1>0, MailKept DEF Untouched
<1>1. CASE UNCHANGED <<created, spawn>> /\ registered' \subseteq registered
  BY <1>1, <1>0, SpawnedActor DEF SpawnInv, Untouched
<1>2. ASSUME NEW t \in EngineThread, SpawnRead(t)
      PROVE  SpawnInv'
  <2>1. /\ created' = created + 1 /\ created' \in Actor /\ created \in Nat
        /\ spawn'[t].at = "count" /\ spawn'[t].actor = created'
        /\ \A u \in EngineThread : u # t => spawn'[u] = spawn[u]
        /\ UNCHANGED registered
    BY <1>2, SpawnReadFacts
  <2>2. /\ \A o \in Actor : o > created' => o > created
        /\ created' > created /\ created' # 0 /\ created' <= created'
        /\ \A k \in 0 .. MaxSpawn : k <= created => k <= created' /\ k # created'
    BY <2>1, ActorAssumption
  <2>3. \A u \in EngineThread : spawn[u].actor \in 0 .. MaxSpawn
    BY DEF EngineTypeOK
  <2>4. \A o \in Actor : o > created => Untouched(o)'
    BY <2>1, <1>0 DEF SpawnInv, Untouched
  <2>5. \A o \in Actor : o > created' => Untouched(o)'
    BY <2>2, <2>4
  <2>6. ASSUME NEW u \in EngineThread
        PROVE  /\ (spawn[u].at = "no" <=> spawn[u].actor = 0)'
               /\ (spawn[u].actor <= created)'
               /\ (spawn[u].at \in {"count", "add"} => Untouched(spawn[u].actor))'
    <3>1. CASE u = t
      BY <3>1, <2>1, <2>2, <2>4
    <3>2. CASE u # t
      <4>1. spawn'[u].at \in {"count", "add"} => spawn[u].actor \in Actor /\ Untouched(spawn[u].actor)
        BY <3>2, <2>1, SpawnedActor DEF SpawnInv
      <4>2. spawn'[u].at \in {"count", "add"} => Bare(spawn'[u].actor)
        BY <3>2, <2>1, <4>1, <1>0 DEF Untouched
      <4> QED BY <3>2, <4>2, <2>1, <2>2, <2>3 DEF SpawnInv, Untouched
    <3> QED BY <3>1, <3>2
  <2>7. ASSUME NEW u \in EngineThread, NEW v \in EngineThread, spawn'[u].actor = spawn'[v].actor, spawn'[u].actor # 0
        PROVE  u = v
    <3>1. \A x \in EngineThread : x # t => spawn'[x].actor # created'
      BY <2>1, <2>2, <2>3 DEF SpawnInv
    <3> QED BY <2>1, <2>7, <3>1 DEF SpawnInv
  <2> QED BY <2>5, <2>6, <2>7 DEF SpawnInv
<1>3. ASSUME NEW t \in EngineThread, SpawnCount(t) \/ SpawnAdd(t)
      PROVE  SpawnInv'
  <2>1. /\ spawn[t].actor \in Actor /\ spawn[t].actor \in 1 .. created
        /\ spawn[t].at \in {"count", "add"}
        /\ spawn'[t].actor = spawn[t].actor /\ spawn'[t].at \in {"add", "init"}
        /\ spawn'[t].at = "add" => registered' = registered
        /\ \A u \in EngineThread : u # t => spawn'[u] = spawn[u]
        /\ registered' \subseteq registered \cup {spawn[t].actor}
        /\ created' = created
    BY <1>3, SpawnGoesOn
  <2>2. \A o \in Actor : o > created => Untouched(o)'
    <3>1. \A o \in Actor : o > created => o # spawn[t].actor
      BY <2>1, ActorAssumption DEF Actor, EngineTypeOK
    <3> QED BY <2>1, <3>1, <1>0 DEF SpawnInv, Untouched
  <2>3. ASSUME NEW u \in EngineThread
        PROVE  /\ (spawn[u].at = "no" <=> spawn[u].actor = 0)'
               /\ (spawn[u].actor <= created)'
               /\ (spawn[u].at \in {"count", "add"} => Untouched(spawn[u].actor))'
    <3>1. CASE u = t
      <4>1. spawn'[t].at = "add" => Bare(spawn'[t].actor)
        BY <2>1, <1>0 DEF SpawnInv, Untouched
      <4> QED BY <3>1, <4>1, <2>1 DEF SpawnInv, Untouched
    <3>2. CASE u # t
      <4>1. spawn[u].at \in {"count", "add"} => spawn[u].actor \in Actor /\ spawn[u].actor # spawn[t].actor
        BY <3>2, <2>1, SpawnedActor DEF SpawnInv
      <4>2. spawn[u].at \in {"count", "add"} => Bare(spawn'[u].actor)
        BY <3>2, <2>1, <4>1, <1>0 DEF SpawnInv, Untouched
      <4> QED BY <3>2, <4>2, <2>1 DEF SpawnInv, Untouched
    <3> QED BY <3>1, <3>2
  <2>4. \A u, v \in EngineThread : spawn'[u].actor = spawn'[v].actor /\ spawn'[u].actor # 0 => u = v
    <3>1. \A u \in EngineThread : spawn'[u].actor = spawn[u].actor
      BY <2>1
    <3> QED BY <3>1 DEF SpawnInv
  <2> QED BY <2>1, <2>2, <2>3, <2>4 DEF SpawnInv
<1>4. ASSUME NEW t \in EngineThread, SpawnInit(t)
      PROVE  SpawnInv'
  <2>1. /\ spawn'[t] = NoSpawn /\ \A u \in EngineThread : u # t => spawn'[u] = spawn[u]
        /\ UNCHANGED <<created, registered>>
    BY <1>4, SpawnEnds
  <2>2. spawn'[t].at = "no" /\ spawn'[t].actor = 0 /\ 0 <= created
    BY <2>1, ActorAssumption DEF NoSpawn, EngineTypeOK
  <2>3. \A o \in Actor : o > created => Untouched(o)'
    BY <2>1, <1>0 DEF SpawnInv, Untouched
  <2>4. ASSUME NEW u \in EngineThread, u # t
        PROVE  /\ (spawn[u].at = "no" <=> spawn[u].actor = 0)'
               /\ (spawn[u].actor <= created)'
               /\ (spawn[u].at \in {"count", "add"} => Untouched(spawn[u].actor))'
    <3>1. spawn[u].at \in {"count", "add"} => spawn[u].actor \in Actor
      BY SpawnedActor
    <3>2. spawn[u].at \in {"count", "add"} => Bare(spawn'[u].actor)
      BY <2>1, <2>4, <3>1, <1>0 DEF SpawnInv, Untouched
    <3> QED BY <2>1, <2>4, <3>2 DEF SpawnInv, Untouched
  <2>5. \A u, v \in EngineThread : spawn'[u].actor = spawn'[v].actor /\ spawn'[u].actor # 0 => u = v
    BY <2>1, <2>2 DEF SpawnInv
  <2> QED BY <2>1, <2>2, <2>3, <2>4, <2>5 DEF SpawnInv
<1>5. ASSUME NEW w \in Worker, Erase(w)
      PROVE  SpawnInv'
  BY <1>5, <1>1 DEF Erase
<1>6. CASE UNCHANGED actorVars
  BY <1>6, <1>1 DEF actorVars
<1> QED BY <1>2, <1>3, <1>4, <1>5, <1>6, ActorCases

LEMMA AddressStep == IInv /\ [EngineNext]_engineVars => AddressInv'
<1> SUFFICES ASSUME IInv, [EngineNext]_engineVars
             PROVE  AddressInv'
  OBVIOUS
<1> USE DEF IInv
<1>1. CASE UNCHANGED <<created, address, index>> /\ registered' \subseteq registered
  BY <1>1 DEF AddressInv
<1>2. ASSUME NEW t \in EngineThread, SpawnRead(t)
      PROVE  AddressInv'
  <2>1. /\ created' = created + 1 /\ created \in Nat
        /\ address'[created'] = index /\ index \in 1 .. created'
        /\ \A p \in 1 .. created : address'[p] = address[p]
        /\ 1 .. created' = 1 .. created \cup {created'}
        /\ UNCHANGED <<index, registered>>
    BY <1>2, SpawnReadFacts
  <2>2. index' <= created' + 1
    BY <2>1
  <2>3. \A o \in 1 .. created' : address'[o] \in 1 .. o
    BY <2>1 DEF AddressInv
  <2>4. registered' \subseteq 1 .. created'
    BY <2>1 DEF AddressInv
  <2>5. \A p, q \in registered' : address'[p] = address'[q] => p = q
    BY <2>1 DEF AddressInv
  <2> QED BY <2>2, <2>3, <2>4, <2>5 DEF AddressInv
<1>3. ASSUME NEW t \in EngineThread, SpawnCount(t)
      PROVE  AddressInv'
  <2>1. spawn[t].actor \in 1 .. created /\ UNCHANGED <<created, address, registered>>
    BY <1>3, SpawnGoesOn DEF SpawnCount
  <2>2. index' <= created + 1
    <3>1. address[spawn[t].actor] \in 1 .. spawn[t].actor /\ created \in Nat
      BY <2>1, ActorAssumption DEF AddressInv, EngineTypeOK
    <3>2. index' = address[spawn[t].actor] + 1
      BY <1>3 DEF SpawnCount
    <3> QED BY <2>1, <3>1, <3>2
  <2> QED BY <2>1, <2>2 DEF AddressInv
<1>4. ASSUME NEW t \in EngineThread, SpawnAdd(t)
      PROVE  AddressInv'
  <2>1. spawn[t].actor \in 1 .. created /\ UNCHANGED <<created, address, index>>
    BY <1>4, SpawnGoesOn DEF SpawnAdd
  <2>2. PICK o \in 1 .. created : o = spawn[t].actor
    BY <2>1
  <2>3. registered' = IF \E p \in registered : address[p] = address[o]
                      THEN registered ELSE registered \cup {o}
    BY <1>4, <2>2 DEF SpawnAdd
  <2>4. registered' \subseteq 1 .. created
    BY <2>3 DEF AddressInv
  <2>5. \A p, q \in registered' : address[p] = address[q] => p = q
    BY <2>3 DEF AddressInv
  <2> QED BY <2>1, <2>4, <2>5 DEF AddressInv
<1>5. ASSUME NEW t \in EngineThread, SpawnInit(t)
      PROVE  AddressInv'
  BY <1>5, <1>1, SpawnEnds
<1>6. ASSUME NEW w \in Worker, Erase(w)
      PROVE  AddressInv'
  BY <1>6, <1>1 DEF Erase
<1>7. CASE UNCHANGED actorVars
  BY <1>7, <1>1 DEF actorVars
<1> QED BY <1>2, <1>3, <1>4, <1>5, <1>6, <1>7, ActorCases

-----------------------------------------------------------------------------
(* Who knows an address, and what comes first.                             *)

\* Actors keep their addresses; a new one has an address; and who is gone
\* does not come back.
LEMMA RegistryGrows ==
  ASSUME IInv, [EngineNext]_engineVars
  PROVE  /\ \/ created' = created
            \/ /\ created' = created + 1 /\ address'[created'] = index
               /\ created' \in Actor /\ created' \notin registered /\ sent' = sent
         /\ \A p \in 1 .. created : p \in 1 .. created' /\ address'[p] = address[p] /\ p \in Actor
         /\ 1 .. created' = 1 .. created \cup {created'} \/ created' = created
         /\ \A o \in 1 .. created : Gone(o) => Gone(o)'
<1> USE DEF IInv
<1>1. \A p \in 1 .. created : p \in Actor
  BY ActorAssumption DEF EngineTypeOK, Actor
<1>2. CASE UNCHANGED <<created, address, spawn>> /\ registered' \subseteq registered
  BY <1>1, <1>2 DEF Gone
<1>3. ASSUME NEW t \in EngineThread, SpawnRead(t)
      PROVE  /\ created' = created + 1 /\ address'[created'] = index
             /\ created' \in Actor /\ created' \notin registered /\ sent' = sent
             /\ \A p \in 1 .. created : p \in 1 .. created' /\ address'[p] = address[p] /\ p \in Actor
             /\ 1 .. created' = 1 .. created \cup {created'}
             /\ \A o \in 1 .. created : Gone(o) => Gone(o)'
  <2>1. /\ created' = created + 1 /\ created' \in Actor /\ created \in Nat
        /\ spawn'[t].actor = created'
        /\ \A u \in EngineThread : u # t => spawn'[u] = spawn[u]
        /\ address'[created'] = index
        /\ \A p \in 1 .. created : address'[p] = address[p] /\ p \in Actor /\ p # created'
        /\ 1 .. created' = 1 .. created \cup {created'}
        /\ UNCHANGED <<registered, mailVars>>
    BY <1>3, SpawnReadFacts
  <2>2. \A o \in 1 .. created : Gone(o) => Gone(o)'
    BY <2>1 DEF Gone
  <2>3. created' \notin registered
    BY <2>1 DEF AddressInv
  <2> QED BY <2>1, <2>2, <2>3 DEF mailVars
<1>4. ASSUME NEW t \in EngineThread, SpawnCount(t) \/ SpawnAdd(t)
      PROVE  /\ UNCHANGED <<created, address>>
             /\ \A o \in 1 .. created : Gone(o) => Gone(o)'
  <2>1. /\ spawn'[t].actor = spawn[t].actor
        /\ \A u \in EngineThread : u # t => spawn'[u] = spawn[u]
        /\ registered' \subseteq registered \cup {spawn[t].actor}
        /\ UNCHANGED <<created, address>>
    BY <1>4, SpawnGoesOn
  <2> QED BY <2>1 DEF Gone
<1>5. ASSUME NEW t \in EngineThread, SpawnInit(t)
      PROVE  /\ UNCHANGED <<created, address>>
             /\ \A o \in 1 .. created : Gone(o) => Gone(o)'
  <2>1. /\ spawn'[t] = NoSpawn /\ \A u \in EngineThread : u # t => spawn'[u] = spawn[u]
        /\ UNCHANGED <<created, address, registered>>
    BY <1>5, SpawnEnds
  <2>2. spawn'[t].actor = 0
    BY <2>1 DEF NoSpawn
  <2>3. \A o \in 1 .. created : o # 0
    BY DEF Actor
  <2> QED BY <2>1, <2>2, <2>3 DEF Gone
<1>6. ASSUME NEW w \in Worker, Erase(w)
      PROVE  UNCHANGED <<created, address, spawn>> /\ registered' \subseteq registered
  BY <1>6 DEF Erase
<1>7. CASE UNCHANGED actorVars
  BY <1>7, <1>2 DEF actorVars
<1> QED BY <1>1, <1>2, <1>3, <1>4, <1>5, <1>6, <1>7, ActorCases

\* Who has been told an address may go on using it.
LEMMA ToldStays ==
  ASSUME IInv, [EngineNext]_engineVars, NEW a \in Address, Told(a)
  PROVE  Told(a)'
<1> USE DEF IInv
<1>1. a = 0 \/ \E p \in 1 .. created' : address'[p] = a
  BY RegistryGrows DEF Told
<1>2. ASSUME NEW o \in 1 .. created', address'[o] = a, Own(o)'
      PROVE  sent'[o] # <<>> \/ Gone(o)'
  <2>1. CASE o \in 1 .. created
    <3>1. address[o] = a /\ Own(o) /\ o \in Actor
      BY <2>1, <1>2, RegistryGrows DEF Own
    <3>2. sent[o] # <<>> \/ Gone(o)
      BY <2>1, <3>1 DEF Told
    <3> QED BY <2>1, <3>1, <3>2, RegistryGrows, MailKept
  <2>2. CASE o \notin 1 .. created
    <3>1. created' = created + 1 /\ address'[created'] = index /\ o = created'
      BY <1>2, <2>2, RegistryGrows
    <3>2. a # 0
      BY <1>2, <3>1 DEF EngineTypeOK
    <3>3. PICK p \in 1 .. created : address[p] = a
      BY <3>2 DEF Told
    <3>4. p \in 1 .. created' /\ address'[p] = a /\ p # o
      BY <3>3, <2>2, RegistryGrows
    <3> QED BY <1>2, <3>4 DEF Own
  <2> QED BY <2>1, <2>2
<1> QED BY <1>1, <1>2 DEF Told

\* What is delivered first to an actor of its own address is init.
LEMMA FirstDelivered ==
  ASSUME IInv, NEW a \in Address, NEW m \in Message, Delivered(a, m), Told(a) \/ m = InitMessage,
         NEW o \in 1 .. created, Own(o), sent[o] = <<>>, sent'[o] # <<>>
  PROVE  sent'[o][1] = InitMessage
<1> USE DEF IInv
<1>1. o \in Actor
  BY ActorAssumption DEF EngineTypeOK, Actor
<1>2. PICK p \in registered : address[p] = a /\ Got(p, m)
  <2>1. ~UNCHANGED sent
    OBVIOUS
  <2> QED BY <2>1 DEF Delivered, mailVars
<1>3. p = o /\ p \in Actor
  <2>1. p \in Actor
    BY DEF EngineTypeOK
  <2> QED BY <1>1, <1>2, <2>1, GotFacts
<1>4. ~Told(a)
  BY <1>2, <1>3 DEF Told, Gone
<1>5. sent'[o][Len(sent[o]) + 1] = m
  BY <1>2, <1>3, GotFacts
<1>6. Len(sent[o]) + 1 = 1
  OBVIOUS
<1> QED BY <1>4, <1>5, <1>6

LEMMA FirstStep == IInv /\ [EngineNext]_engineVars => FirstInv'
<1> SUFFICES ASSUME IInv, [EngineNext]_engineVars,
                    NEW o \in 1 .. created', sent'[o] # <<>>, Own(o)'
             PROVE  sent'[o][1] = InitMessage
  BY DEF FirstInv
<1> USE DEF IInv
<1>1. CASE o \in 1 .. created
  <2>1. Own(o) /\ o \in Actor
    BY <1>1, RegistryGrows DEF Own
  <2>2. CASE sent[o] # <<>>
    BY <1>1, <2>1, <2>2, MailKept DEF FirstInv
  <2>3. CASE sent[o] = <<>>
    <3>1. ~UNCHANGED sent
      BY <2>3
    <3>2. ~\E w \in Worker : Apply(w) \/ ApplyDone(w)
      BY <3>1 DEF Apply, ApplyDone
    <3>3. PICK a \in Address, m \in Message : Delivered(a, m) /\ (Told(a) \/ m = InitMessage)
      BY <3>1, <3>2, MailCases
    <3> QED BY <1>1, <2>1, <2>3, <3>3, FirstDelivered
  <2> QED BY <2>2, <2>3
<1>2. CASE o \notin 1 .. created
  <2>1. o = created' /\ created' = created + 1 /\ created' \in Actor /\ sent' = sent
    BY <1>2, RegistryGrows
  <2>2. o > created
    BY <2>1, ActorAssumption DEF EngineTypeOK
  <2> QED BY <2>1, <2>2 DEF SpawnInv, Untouched
<1> QED BY <1>1, <1>2

\* Every message of every mailbox comes from an address that has been told.
LEMMA SentTold ==
  ASSUME IInv, [EngineNext]_engineVars, NEW o \in Actor, NEW i \in 1 .. Len(sent'[o])
  PROVE  sent'[o][i].from \in Address /\ Told(sent'[o][i].from)
<1> USE DEF IInv
<1>1. CASE sent' = sent
  <2>1. sent[o] \in Seq(Message) /\ i \in 1 .. Len(sent[o])
    BY <1>1, MailType
  <2>2. sent[o][i] \in Message
    BY <2>1
  <2> QED BY <1>1, <2>1, <2>2 DEF ToldInv, Message
<1>2. ASSUME NEW p \in registered, NEW m \in Message, Got(p, m), Told(m.from)
      PROVE  sent'[o][i].from \in Address /\ Told(sent'[o][i].from)
  <2>1. p \in Actor
    BY DEF EngineTypeOK
  <2>2. /\ \A q \in Actor : q # p => sent'[q] = sent[q]
        /\ Len(sent'[p]) = Len(sent[p]) + 1
        /\ \A j \in 1 .. Len(sent[p]) : sent'[p][j] = sent[p][j]
        /\ sent'[p][Len(sent[p]) + 1] = m
    BY <1>2, <2>1, GotFacts
  <2>3. sent[o] \in Seq(Message) /\ Len(sent[o]) \in Nat
    BY MailType
  <2>4. \A j \in 1 .. Len(sent[o]) : sent[o][j].from \in Address /\ Told(sent[o][j].from)
    <3>1. \A j \in 1 .. Len(sent[o]) : sent[o][j] \in Message
      BY <2>3
    <3> QED BY <3>1 DEF ToldInv, Message
  <2>5. m.from \in Address
    BY DEF Message
  <2>6. CASE p # o
    BY <2>2, <2>4, <2>6
  <2>7. CASE p = o /\ i = Len(sent[o]) + 1
    BY <1>2, <2>2, <2>5, <2>7
  <2>8. CASE p = o /\ i # Len(sent[o]) + 1
    <3>1. i \in 1 .. Len(sent[o])
      BY <2>2, <2>3, <2>8
    <3> QED BY <2>2, <2>4, <2>8, <3>1
  <2> QED BY <2>6, <2>7, <2>8
<1>3. CASE \E w \in Worker : Apply(w) \/ ApplyDone(w)
  BY <1>1, <1>3 DEF Apply, ApplyDone
<1> QED BY <1>1, <1>2, <1>3, MailCases DEF Delivered, mailVars

\* What a worker has learned after a step, it or the mailbox it reads had
\* learned before, or the observers of its actor.
LEMMA WorkerTold ==
  ASSUME IInv, [EngineNext]_engineVars, NEW w \in Worker
  PROVE  /\ \A a \in worker'[w].todo : a \in Address /\ Told(a)
         /\ worker'[w].msg \in Message => worker'[w].msg.from \in Address /\ Told(worker'[w].msg.from)
<1> USE DEF IInv
<1> DEFINE Learned(r) == /\ \A a \in r.todo : a \in Address /\ Told(a)
                         /\ r.msg \in Message => r.msg.from \in Address /\ Told(r.msg.from)
<1>0. worker[w] \in WorkerType /\ Learned(worker[w]) /\ Learned(Idle) /\ NoMessage \notin Message
  BY MessageAssumption DEF EngineTypeOK, WorkerType, ToldInv, Idle, Message
<1>1. CASE worker'[w] = worker[w]
  BY <1>0, <1>1
<1>2. CASE worker'[w].todo \subseteq worker[w].todo /\ worker'[w].msg \in {worker[w].msg, NoMessage}
  BY <1>0, <1>2
<1> HIDE DEF Learned
<1>3. ASSUME NEW u \in Worker, TakeJob(u)
      PROVE  worker'[w].todo \subseteq worker[w].todo /\ worker'[w].msg \in {worker[w].msg, NoMessage}
  <2>1. PICK v \in Worker : worker' = [worker EXCEPT ![u] = [Idle EXCEPT !.at = "lock", !.actor = Head(jobs[v])]]
    BY <1>3 DEF TakeJob
  <2> QED BY <2>1 DEF EngineTypeOK, Idle
<1>4. ASSUME NEW u \in Worker, JobExpired(u) \/ Release(u)
      PROVE  worker'[w].todo \subseteq worker[w].todo /\ worker'[w].msg \in {worker[w].msg, NoMessage}
  <2>1. worker' = [worker EXCEPT ![u] = Idle]
    BY <1>4 DEF JobExpired, Release
  <2> QED BY <2>1 DEF EngineTypeOK, Idle
<1>5. ASSUME NEW u \in Worker, InitThrows(u)
      PROVE  worker'[w].todo \subseteq worker[w].todo /\ worker'[w].msg \in {worker[w].msg, NoMessage}
  BY <1>5 DEF InitThrows, EngineTypeOK, Idle
<1>6. ASSUME NEW u \in Worker, ApplyDone(u)
      PROVE  worker'[w].todo \subseteq worker[w].todo /\ worker'[w].msg \in {worker[w].msg, NoMessage}
  <2>1. /\ \/ worker'[u] = [worker[u] EXCEPT !.at = "post", !.msg = NoMessage]
           \/ worker'[u] = Idle
        /\ \A v \in Worker : v # u => worker'[v] = worker[v]
    BY <1>6, ApplyDoneFinds
  <2>2. CASE w # u
    BY <2>1, <2>2
  <2>3. CASE w = u /\ worker'[u] = Idle
    BY <2>3 DEF Idle
  <2>4. CASE w = u /\ worker'[u] = [worker[u] EXCEPT !.at = "post", !.msg = NoMessage]
    BY <2>4, <1>0 DEF WorkerType
  <2> QED BY <2>1, <2>2, <2>3, <2>4
<1>7. ASSUME NEW u \in Worker, Repost(u) \/ Erase(u) \/ Exit(u)
      PROVE  worker'[w].todo = worker[w].todo /\ worker'[w].msg = worker[w].msg
  <2>1. PICK at \in WorkerAt : worker' = [worker EXCEPT ![u].at = at]
    BY <1>7 DEF Repost, Erase, Exit, SetWorker, WorkerAt
  <2> QED BY <2>1 DEF EngineTypeOK
<1>8. ASSUME NEW u \in Worker, NotifyObserver(u)
      PROVE  worker'[w].todo \subseteq worker[w].todo /\ worker'[w].msg = worker[w].msg
  <2>1. PICK a \in worker[u].todo : worker' = [worker EXCEPT ![u].todo = worker[u].todo \ {a}]
    BY <1>8, NotifyFacts
  <2> QED BY <2>1 DEF EngineTypeOK
<1>9. ASSUME NEW u \in Worker, CloseBegin(u)
      PROVE  Learned(worker'[w])
  <2>1. worker[u].actor \in Actor
    BY <1>9, WorkersActor DEF CloseBegin, Free, EngineThread
  <2>2. \A a \in observers[worker[u].actor] : a \in Address /\ Told(a)
    BY <2>1 DEF EngineTypeOK, ToldInv
  <2>3. worker' = [worker EXCEPT ![u].at = "close", ![u].todo = observers[worker[u].actor]]
    BY <1>9 DEF CloseBegin
  <2>4. CASE w # u
    <3>1. worker'[w] = worker[w]
      BY <2>3, <2>4 DEF EngineTypeOK
    <3> QED BY <1>0, <3>1
  <2>5. CASE w = u
    <3>1. worker'[w].todo = observers[worker[u].actor] /\ worker'[w].msg = worker[w].msg
      BY <2>3, <2>5 DEF EngineTypeOK
    <3> QED BY <1>0, <2>2, <3>1 DEF Learned
  <2> QED BY <2>4, <2>5
<1>10. ASSUME NEW u \in Worker, Apply(u)
       PROVE  Learned(worker'[w])
  <2>0. PICK o \in Actor : o = worker[u].actor
    BY <1>10, ApplyFinds
  <2>1. /\ pipe[o].front < Len(sent[o]) /\ pipe[o].front \in Nat
        /\ worker'[u] = [worker[u] EXCEPT !.at = "run", !.msg = sent[o][pipe[o].front + 1]]
        /\ \A v \in Worker : v # u => worker'[v] = worker[v]
    BY <1>10, <2>0, ApplyFinds
  <2>2. CASE w # u
    BY <1>0, <2>1, <2>2
  <2>3. CASE w = u
    <3>1. sent[o] \in Seq(Message) /\ pipe[o].front + 1 \in 1 .. Len(sent[o])
      BY <2>1, MailType
    <3>2. sent[o][pipe[o].front + 1] \in Message /\ Told(sent[o][pipe[o].front + 1].from)
      BY <3>1 DEF ToldInv
    <3>3. worker'[w].todo = worker[w].todo /\ worker'[w].msg = sent[o][pipe[o].front + 1]
      BY <2>1, <2>3, <1>0 DEF WorkerType
    <3> QED BY <1>0, <3>2, <3>3 DEF Learned, Message
  <2> QED BY <2>2, <2>3
<1>11. ASSUME NEW t \in EngineThread, SendMessage(t) \/ Spawn(t)
       PROVE  worker' = worker
  BY <1>11 DEF SendMessage, Spawn, SpawnRead, SpawnCount, SpawnAdd, SpawnInit
<1>12. CASE Stop \/ UNCHANGED engineVars
  BY <1>1, <1>12 DEF Stop, engineVars
<1> QED BY <1>1, <1>2, <1>3, <1>4, <1>5, <1>6, <1>7, <1>8, <1>9, <1>10, <1>11, <1>12
        DEF EngineNext, Work, Learned

LEMMA ToldStep == IInv /\ [EngineNext]_engineVars => ToldInv'
<1> SUFFICES ASSUME IInv, [EngineNext]_engineVars
             PROVE  ToldInv'
  OBVIOUS
<1> USE DEF IInv
<1>1. \A a \in known' : Told(a)'
  <2>1. CASE UNCHANGED known
    BY <2>1, ToldStays DEF ToldInv, EngineTypeOK
  <2>2. ASSUME NEW t \in EngineThread, SpawnInit(t)
        PROVE  \A a \in known' : Told(a)'
    <3>0. PICK o \in 1 .. created : o = spawn[t].actor
      BY <2>2, SpawnEnds
    <3>1. /\ Delivered(address[o], InitMessage) /\ known' = known \cup {address[o]}
          /\ o \in Actor /\ InitMessage \in Message
      BY <2>2, <3>0, SpawnEnds, SpawnInitFacts
    <3>2. /\ spawn'[t].actor = 0 /\ \A u \in EngineThread : u # t => spawn'[u] = spawn[u]
          /\ UNCHANGED <<created, address, registered>>
      BY <2>2, SpawnEnds DEF NoSpawn
    <3>3. Own(o) => sent'[o] # <<>> \/ Gone(o)'
      <4>1. CASE o \in registered
        <5>1. ASSUME Own(o)
              PROVE  Got(o, InitMessage)
          <6>1. \A p \in registered : address[p] = address[o] => p = o
            BY <5>1 DEF Own, AddressInv
          <6> QED BY <3>1, <4>1, <6>1 DEF Delivered
        <5> QED BY <3>1, <5>1, GotFacts
      <4>2. CASE o \notin registered
        <5>1. \A u \in EngineThread : u # t => spawn[u].actor # o
          BY <3>0, <3>1 DEF SpawnInv, Actor
        <5> QED BY <3>1, <3>2, <4>2, <5>1 DEF Gone, Actor
      <4> QED BY <4>1, <4>2
    <3>4. PICK b \in Address : b = address[o]
      BY <3>1 DEF EngineTypeOK
    <3>5. Told(b)'
      <4>1. \A p \in 1 .. created : address[p] = b /\ Own(p) => p = o
        BY <3>4 DEF Own
      <4>2. \A p \in 1 .. created : Own(p)' <=> Own(p)
        BY <3>2 DEF Own
      <4> QED BY <3>2, <3>3, <3>4, <4>1, <4>2 DEF Told
    <3>6. \A a \in known : Told(a)'
      BY ToldStays DEF ToldInv, EngineTypeOK
    <3> QED BY <3>1, <3>4, <3>5, <3>6
  <2>3. ASSUME NEW t \in EngineThread, SpawnRead(t) \/ SpawnCount(t) \/ SpawnAdd(t)
        PROVE  UNCHANGED known
    BY <2>3 DEF SpawnRead, SpawnCount, SpawnAdd
  <2>4. ASSUME NEW w \in Worker, Erase(w)
        PROVE  UNCHANGED known
    BY <2>4 DEF Erase
  <2> QED BY <2>1, <2>2, <2>3, <2>4, ActorCases DEF actorVars
<1>2. \A o \in Actor : \A a \in observers'[o] : Told(a)'
  <2>1. ASSUME NEW o \in Actor, NEW a \in observers'[o]
        PROVE  a \in Address /\ Told(a)
    <3>1. CASE a \in observers[o]
      BY <3>1 DEF ToldInv, EngineTypeOK
    <3>2. ASSUME NEW w \in Worker, ApplyDone(w), a \notin observers[o]
          PROVE  a \in Address /\ Told(a)
      <4>1. worker[w].msg \in Message /\ worker[w].actor \in Actor
        BY <3>2, WorkersActor DEF ApplyDone, WorkerInv, Hand
      <4>2. a = worker[w].msg.from
        BY <2>1, <3>2, <4>1 DEF ApplyDone, EngineTypeOK
      <4> QED BY <4>1, <4>2 DEF ToldInv, Message
    <3>3. CASE UNCHANGED observers
      BY <3>1, <3>3
    <3>4. ASSUME NEW t \in EngineThread, SendMessage(t) \/ Spawn(t)
          PROVE  UNCHANGED observers
      BY <3>4 DEF SendMessage, Spawn, SpawnRead, SpawnCount, SpawnAdd, SpawnInit
    <3>5. ASSUME NEW w \in Worker, ~ApplyDone(w), Work(w) \/ InitThrows(w) \/ CloseBegin(w)
          PROVE  UNCHANGED observers
      BY <3>5 DEF Work, TakeJob, JobExpired, Apply, Repost, Release, NotifyObserver, Erase, Exit,
                  InitThrows, CloseBegin
    <3>6. Stop \/ UNCHANGED engineVars => UNCHANGED observers
      BY DEF Stop, engineVars
    <3> QED BY <3>1, <3>2, <3>3, <3>4, <3>5, <3>6 DEF EngineNext
  <2> QED BY <2>1, ToldStays
<1>3. \A o \in Actor : \A i \in 1 .. Len(sent'[o]) : \E a \in Address : a = sent'[o][i].from /\ Told(a)'
  BY SentTold, ToldStays
<1>4. \A w \in Worker : \A a \in worker'[w].todo : Told(a)'
  BY WorkerTold, ToldStays
<1>5. \A w \in Worker : worker'[w].msg \in Message =>
        \E a \in Address : a = worker'[w].msg.from /\ Told(a)'
  BY WorkerTold, ToldStays
<1>6. (\A o \in Actor : \A i \in 1 .. Len(sent[o]) : Told(sent[o][i].from))'
  BY <1>3 DEF Told
<1>7. (\A w \in Worker : worker[w].msg \in Message => Told(worker[w].msg.from))'
  BY <1>5 DEF Told
<1> QED BY <1>1, <1>2, <1>4, <1>6, <1>7 DEF ToldInv

-----------------------------------------------------------------------------
(* The theorem.                                                            *)

LEMMA InitIInv == EngineInit => IInv
<1> SUFFICES ASSUME EngineInit
             PROVE  IInv
  OBVIOUS
<1> USE ActorAssumption
<1>1. /\ created = 0 /\ index = 1 /\ registered = {} /\ known = {} /\ stopping = {} /\ sends = 0
      /\ thrown = {} /\ jobs = [w \in Worker |-> <<>>] /\ worker = [w \in Worker |-> Idle]
      /\ spawn = [t \in EngineThread |-> NoSpawn] /\ observers = [o \in Actor |-> {}]
      /\ sent = [o \in Actor |-> <<>>] /\ address = [o \in Actor |-> 0]
      /\ pipe = [o \in Actor |-> CheckRead(NewPipe)]
  BY DEF EngineInit
<1>2. CheckRead(NewPipe) \in PipeType /\ PointersAt(CheckRead(NewPipe), 0) /\ CheckRead(NewPipe).c = Null
  BY InitPipe DEF PipeType, Position, PointersAt
<1>3. EngineTypeOK
  <2>1. 0 \in Address
    BY DEF Address
  <2>2. <<>> \in Seq(Message) /\ <<>> \in Seq(Actor)
    OBVIOUS
  <2> QED BY <1>1, <1>2, <2>1, <2>2, IdleType DEF EngineTypeOK, WorkerType, SpawnType
<1>4. \A o \in Actor : ~Read(o) /\ ~Pending(o)
  BY <1>1 DEF Read, Pending, Queued, Applying, Idle
<1>5. PointerInv /\ AwakeInv
  BY <1>1, <1>2, <1>4 DEF PointerInv, AwakeInv
<1>6. ReaderInv
  BY <1>1 DEF ReaderInv, Once, Alone, Single, Applying, Idle
<1>7. WorkerInv
  BY <1>1 DEF WorkerInv, Hand, Idle
<1>8. SpawnInv
  BY <1>1, <1>2 DEF SpawnInv, Untouched, NoSpawn
<1>9. AddressInv
  BY <1>1 DEF AddressInv
<1>10. ToldInv
  <2>1. \A w \in Worker : worker[w].todo = {} /\ worker[w].msg \notin Message
    BY <1>1, MessageAssumption DEF Idle
  <2> QED BY <1>1, <2>1 DEF ToldInv
<1>11. FirstInv
  BY <1>1 DEF FirstInv
<1> QED BY <1>3, <1>5, <1>6, <1>7, <1>8, <1>9, <1>10, <1>11 DEF IInv

\* Every state of the engine satisfies IInv: which mailboxes are read and
\* awake, who has registered, and who knows which address.
THEOREM EngineInvariant == EngineSpec => []IInv
<1>1. IInv /\ [EngineNext]_engineVars => IInv'
  BY TypeStep, ReadersStep, WorkerStep, SpawnStep, AddressStep, ToldStep, FirstStep DEF IInv
<1> QED BY <1>1, InitIInv, PTL DEF EngineSpec

\* IInv says in its own words what EngineServes says.
LEMMA IInvServes == IInv => EngineServes
<1> SUFFICES ASSUME IInv
             PROVE  EngineServes
  OBVIOUS
<1> USE DEF IInv
<1>1. OneReader
  <2> SUFFICES ASSUME NEW o \in Actor
               PROVE  /\ \A v, u \in Worker : Applying(v, o) /\ Applying(u, o) => v = u
                      /\ \A v, u \in Worker : \A i \in DOMAIN jobs[u] :
                           Applying(v, o) => jobs[u][i] # o
                      /\ \A v, u \in Worker : \A i \in DOMAIN jobs[v], j \in DOMAIN jobs[u] :
                           jobs[v][i] = o /\ jobs[u][j] = o => v = u /\ i = j
    BY DEF OneReader
  <2>1. \A v, u \in Worker : Applying(v, o) /\ Applying(u, o) => v = u
    BY DEF ReaderInv, Single
  <2>2. \A v, u \in Worker : \A i \in DOMAIN jobs[u] : Applying(v, o) => jobs[u][i] # o
    BY DEF ReaderInv, Alone, Queued
  <2>3. \A v, u \in Worker : \A i \in DOMAIN jobs[v], j \in DOMAIN jobs[u] :
          jobs[v][i] = o /\ jobs[u][j] = o => v = u /\ i = j
    BY DEF ReaderInv, Once
  <2> QED BY <2>1, <2>2, <2>3
<1>2. NothingStranded
  <2> SUFFICES ASSUME NEW o \in Actor, o \notin thrown, Exists(o), Waiting(o) # <<>>
               PROVE  Read(o)
    BY DEF NothingStranded, Read, Queued
  <2>1. pipe[o].front # Len(sent[o])
    <3>1. pipe[o].front \in Nat /\ sent[o] \in Seq(Message) /\ Len(sent[o]) \in Nat
      BY MailType
    <3>2. ASSUME pipe[o].front = Len(sent[o])
          PROVE  SubSeq(sent[o], pipe[o].front + 1, Len(sent[o])) = <<>>
      BY <3>1, <3>2
    <3> QED BY <3>2 DEF Waiting
  <2>2. pipe[o].c # Null
    BY <2>1, MailType, NullAssumption DEF PointersAt
  <2> QED BY <2>2 DEF AwakeInv
<1>3. InitFirst
  <2> SUFFICES ASSUME NEW o \in Actor, sent[o] # <<>>,
                      \A p \in 1 .. created : p # o => address[p] # address[o]
               PROVE  Head(sent[o]) = InitMessage
    BY DEF InitFirst
  <2>1. o \in 1 .. created /\ Own(o)
    BY WrittenActor DEF Own
  <2>2. sent[o][1] = InitMessage
    BY <2>1 DEF FirstInv
  <2> QED BY <2>2, MailType
<1> QED BY <1>1, <1>2, <1>3 DEF EngineServes

\* Each actor has one reader, is read while it has messages, and begins with
\* its init().
THEOREM EngineIsSafe == EngineSpec => []EngineServes
BY EngineInvariant, IInvServes, PTL

-----------------------------------------------------------------------------
(* The engine implements ActorModel.                                       *)

\* The worker inside a handler of actor o.
Handler(w, o) == worker[w].actor = o /\ worker[w].at \in {"run", "close"}

\* What actor o handles is what the worker in its handler has read.
HandlingSays ==
  \A o \in Actor :
    /\ \A w \in Worker : Handler(w, o) =>
         Handling(o) = worker[w].msg /\ Handling(o) \in Message /\ Handling(o) # NoMessage
    /\ (\A w \in Worker : ~Handler(w, o)) => Handling(o) = NoMessage

LEMMA HandlingIs == IInv => HandlingSays
<1> SUFFICES ASSUME IInv, NEW o \in Actor
             PROVE  /\ \A w \in Worker : Handler(w, o) =>
                         Handling(o) = worker[w].msg /\ Handling(o) \in Message /\ Handling(o) # NoMessage
                    /\ (\A w \in Worker : ~Handler(w, o)) => Handling(o) = NoMessage
  BY DEF HandlingSays
<1> USE DEF IInv
<1> DEFINE ws == {w \in Worker : /\ worker[w].actor = o
                                 /\ worker[w].at \in {"run", "close"}}
<1>1. \A w \in Worker : Handler(w, o) <=> w \in ws
  BY DEF Handler
<1>2. Handling(o) = IF ws = {} THEN NoMessage ELSE worker[CHOOSE w \in ws : TRUE].msg
  BY DEF Handling
<1>3. ASSUME NEW w \in Worker, Handler(w, o)
      PROVE  Handling(o) = worker[w].msg /\ Handling(o) \in Message /\ Handling(o) # NoMessage
  <2>1. \A u \in ws : u = w
    BY <1>3 DEF ReaderInv, Single, Applying, Handler
  <2>2. w \in ws
    BY <1>1, <1>3
  <2> HIDE DEF ws
  <2>3. (CHOOSE u \in ws : TRUE) = w
    BY <2>1, <2>2
  <2>4. Handling(o) = worker[w].msg
    BY <1>2, <2>2, <2>3
  <2>5. worker[w].msg \in Message
    BY <1>3 DEF WorkerInv, Hand, Handler
  <2> QED BY <2>4, <2>5, MessageAssumption
<1>4. (\A w \in Worker : ~Handler(w, o)) => Handling(o) = NoMessage
  <2> HIDE DEF ws
  <2>1. (\A w \in Worker : ~Handler(w, o)) => ws = {}
    BY <1>1 DEF ws
  <2> QED BY <1>2, <2>1
<1> QED BY <1>3, <1>4

\* The handlers of a state and the next one.
LEMMA HandlingNext == IInv /\ [EngineNext]_engineVars => HandlingSays /\ HandlingSays'
<1>1. IInv /\ [EngineNext]_engineVars => IInv'
  BY TypeStep, ReadersStep, WorkerStep, SpawnStep, AddressStep, ToldStep, FirstStep DEF IInv
<1>2. IInv' => HandlingSays'
  BY HandlingIs, PTL
<1> QED BY <1>1, <1>2, HandlingIs

\* Actors whose handlers go on handle what they handled.
LEMMA HandlingKept ==
  ASSUME IInv, [EngineNext]_engineVars, NEW p \in Actor,
         \A w \in Worker : /\ Handler(w, p)' <=> Handler(w, p)
                           /\ Handler(w, p) => worker'[w].msg = worker[w].msg
  PROVE  Handling(p)' = Handling(p)
<1>1. CASE \E w \in Worker : Handler(w, p)
  BY <1>1, HandlingNext DEF HandlingSays
<1>2. CASE \A w \in Worker : ~Handler(w, p)
  BY <1>2, HandlingNext DEF HandlingSays
<1> QED BY <1>1, <1>2

LEMMA HandlingSame ==
  ASSUME IInv, [EngineNext]_engineVars,
         \A w \in Worker, p \in Actor : /\ Handler(w, p)' <=> Handler(w, p)
                                        /\ Handler(w, p) => worker'[w].msg = worker[w].msg
  PROVE  \A p \in Actor : Handling(p)' = Handling(p)
BY HandlingKept

\* A mailbox nobody writes to and nobody pops stays as it is.
LEMMA WaitingSame ==
  ASSUME NEW p \in Actor, sent'[p] = sent[p], pipe'[p].front = pipe[p].front
  PROVE  Waiting(p)' = Waiting(p)
BY DEF Waiting

LEMMA WaitingGot ==
  ASSUME IInv, NEW o \in Actor, NEW m \in Message, Got(o, m)
  PROVE  /\ Waiting(o)' = Append(Waiting(o), m)
         /\ \A p \in Actor : p # o => Waiting(p)' = Waiting(p)
<1> USE DEF IInv
<1>1. /\ \A p \in Actor : p # o => sent'[p] = sent[p] /\ pipe'[p] = pipe[p]
      /\ sent'[o] = Append(sent[o], m) /\ pipe'[o].front = pipe[o].front
  BY GotFacts
<1>2. /\ sent[o] \in Seq(Message) /\ pipe[o].front \in Nat /\ pipe[o].front <= Len(sent[o])
  BY MailType DEF PointersAt
<1>3. SubSeq(Append(sent[o], m), pipe[o].front + 1, Len(Append(sent[o], m)))
        = Append(SubSeq(sent[o], pipe[o].front + 1, Len(sent[o])), m)
  BY <1>2, WaitingAppend
<1> QED BY <1>1, <1>3 DEF Waiting

\* What the engine shows of itself to ActorModel.
LEMMA Unseen ==
  ASSUME UNCHANGED registered, \A p \in Actor : Waiting(p)' = Waiting(p) /\ Handling(p)' = Handling(p)
  PROVE  UNCHANGED AM!vars
BY DEF AM!vars

LEMMA ReceiveSeen ==
  ASSUME IInv, NEW o \in registered, NEW m \in Message, Got(o, m), UNCHANGED registered,
         \A p \in Actor : Handling(p)' = Handling(p)
  PROVE  AM!Next
<1>1. o \in Actor
  BY DEF IInv, EngineTypeOK
<1>2. AM!Receive(o, m)
  BY <1>1, WaitingGot DEF AM!Receive
<1> QED BY <1>1, <1>2 DEF AM!Next

\* apply_once: the worker takes the head of the mailbox into a handler.
LEMMA ApplySeen ==
  ASSUME IInv, [EngineNext]_engineVars, NEW w \in Worker, Apply(w)
  PROVE  AM!Next
<1> USE DEF IInv
<1>0. PICK o \in Actor : o = worker[w].actor
  BY ApplyFinds
<1>1. /\ worker[w].at = "lock" /\ pipe[o].front < Len(sent[o]) /\ pipe[o].front \in Nat
      /\ worker'[w] = [worker[w] EXCEPT !.at = "run", !.msg = sent[o][pipe[o].front + 1]]
      /\ \A u \in Worker : u # w => worker'[u] = worker[u]
      /\ pipe'[o].front = pipe[o].front + 1
      /\ \A q \in Actor : q # o => pipe'[q] = pipe[q]
      /\ sent' = sent
  BY <1>0, ApplyFinds
<1>2. worker'[w].at = "run" /\ worker'[w].actor = o /\ worker'[w].msg = sent[o][pipe[o].front + 1]
  BY <1>0, <1>1 DEF EngineTypeOK
<1>3. \A u \in Worker : ~Handler(u, o)
  <2>1. \A u \in Worker : Applying(u, o) => u = w
    BY <1>0, <1>1 DEF ReaderInv, Single, Applying
  <2> QED BY <1>1, <2>1 DEF Handler, Applying
<1>4. Handling(o) = NoMessage
  BY <1>3, HandlingIs DEF HandlingSays
<1>5. Handling(o)' = sent[o][pipe[o].front + 1]
  BY <1>2, HandlingNext DEF HandlingSays, Handler
<1>6. ASSUME NEW p \in Actor, p # o
      PROVE  Handling(p)' = Handling(p) /\ Waiting(p)' = Waiting(p)
  <2>1. ASSUME NEW u \in Worker
        PROVE  /\ Handler(u, p)' <=> Handler(u, p)
               /\ Handler(u, p) => worker'[u].msg = worker[u].msg
    <3>1. CASE u = w
      BY <3>1, <1>0, <1>2, <1>6 DEF Handler
    <3>2. CASE u # w
      BY <3>2, <1>1 DEF Handler
    <3> QED BY <3>1, <3>2
  <2> QED BY <1>1, <1>6, <2>1, HandlingKept, WaitingSame
<1>7. /\ Waiting(o) # <<>> /\ Head(Waiting(o)) = sent[o][pipe[o].front + 1]
      /\ Waiting(o)' = Tail(Waiting(o))
  <2>1. sent[o] \in Seq(Message)
    BY MailType
  <2>2. /\ SubSeq(sent[o], pipe[o].front + 1, Len(sent[o])) # <<>>
        /\ Head(SubSeq(sent[o], pipe[o].front + 1, Len(sent[o]))) = sent[o][pipe[o].front + 1]
        /\ Tail(SubSeq(sent[o], pipe[o].front + 1, Len(sent[o]))) = SubSeq(sent[o], pipe[o].front + 2, Len(sent[o]))
    BY <1>1, <2>1, WaitingTail
  <2>3. pipe'[o].front + 1 = pipe[o].front + 2
    BY <1>1
  <2> QED BY <1>1, <2>2, <2>3 DEF Waiting
<1>8. UNCHANGED registered
  BY DEF Apply, actorVars
<1>9. AM!Handle(o)
  BY <1>4, <1>5, <1>6, <1>7, <1>8 DEF AM!Handle
<1> QED BY <1>9 DEF AM!Next

\* The handler ends, by returning or by an exception.
LEMMA FinishSeen ==
  ASSUME IInv, [EngineNext]_engineVars, NEW w \in Worker, ApplyDone(w) \/ InitThrows(w)
  PROVE  AM!Next
<1> USE DEF IInv
<1>1. worker[w].at = "run" /\ worker[w].actor \in Actor
  BY WorkersActor DEF ApplyDone, InitThrows
<1>2. PICK o \in Actor : o = worker[w].actor
  BY <1>1
<1>3. /\ worker'[w].at \in {"post", "idle", "exited"}
      /\ \A u \in Worker : u # w => worker'[u] = worker[u]
      /\ pipe'[o].front = pipe[o].front
      /\ \A q \in Actor : q # o => pipe'[q] = pipe[q]
      /\ UNCHANGED <<sent, registered>>
  <2>1. CASE ApplyDone(w)
    <3>1. /\ \/ worker'[w] = [worker[w] EXCEPT !.at = "post", !.msg = NoMessage]
             \/ worker'[w] = Idle
          /\ \A u \in Worker : u # w => worker'[u] = worker[u]
          /\ pipe'[o].front = pipe[o].front
          /\ \A q \in Actor : q # o => pipe'[q] = pipe[q]
          /\ UNCHANGED <<sent, registered>>
      BY <1>2, <2>1, ApplyDoneFinds
    <3>2. worker'[w].at \in {"post", "idle"}
      <4>1. worker[w] \in WorkerType
        BY DEF EngineTypeOK, WorkerType
      <4>2. CASE worker'[w] = Idle
        BY <4>2 DEF Idle
      <4>3. CASE worker'[w] = [worker[w] EXCEPT !.at = "post", !.msg = NoMessage]
        BY <4>1, <4>3 DEF WorkerType
      <4> QED BY <3>1, <4>2, <4>3
    <3> QED BY <3>1, <3>2
  <2>2. CASE InitThrows(w)
    BY <2>2 DEF InitThrows, EngineTypeOK, Idle, actorVars, mailVars
  <2> QED BY <2>1, <2>2
<1>4. Handling(o) # NoMessage
  BY <1>1, <1>2, HandlingIs DEF HandlingSays, Handler
<1>5. Handling(o)' = NoMessage
  <2>1. \A u \in Worker : Applying(u, o) => u = w
    BY <1>1, <1>2 DEF ReaderInv, Single, Applying
  <2>2. ASSUME NEW u \in Worker
        PROVE  ~Handler(u, o)'
    <3>1. CASE u = w
      BY <3>1, <1>3 DEF Handler
    <3>2. CASE u # w
      BY <3>2, <1>3, <2>1 DEF Handler, Applying
    <3> QED BY <3>1, <3>2
  <2> QED BY <2>2, HandlingNext DEF HandlingSays
<1>6. ASSUME NEW p \in Actor, p # o
      PROVE  Handling(p)' = Handling(p)
  <2>1. ASSUME NEW u \in Worker
        PROVE  /\ Handler(u, p)' <=> Handler(u, p)
               /\ Handler(u, p) => worker'[u].msg = worker[u].msg
    <3>1. CASE u = w
      BY <3>1, <1>2, <1>3, <1>6 DEF Handler
    <3>2. CASE u # w
      BY <3>2, <1>3 DEF Handler
    <3> QED BY <3>1, <3>2
  <2> QED BY <2>1, HandlingKept
<1>7. \A p \in Actor : Waiting(p)' = Waiting(p)
  BY <1>3, WaitingSame
<1>8. AM!Finish(o)
  BY <1>3, <1>4, <1>5, <1>6, <1>7 DEF AM!Finish
<1> QED BY <1>8 DEF AM!Next

LEMMA DeliverySeen ==
  ASSUME IInv, [EngineNext]_engineVars, NEW a, NEW m \in Message, Delivered(a, m), UNCHANGED registered,
         \A w \in Worker : /\ worker'[w].at = worker[w].at /\ worker'[w].actor = worker[w].actor
                           /\ worker'[w].msg = worker[w].msg
  PROVE  [AM!Next]_AM!vars
<1>1. \A p \in Actor : Handling(p)' = Handling(p)
  BY HandlingSame DEF Handler
<1>2. CASE UNCHANGED mailVars
  BY <1>1, <1>2, WaitingSame, Unseen DEF mailVars
<1>3. ASSUME NEW o \in registered, Got(o, m)
      PROVE  AM!Next
  BY <1>1, <1>3, ReceiveSeen
<1> QED BY <1>2, <1>3 DEF Delivered

\* Nothing is written or popped, and no handler begins or ends.
LEMMA QuietStep ==
  ASSUME IInv, [EngineNext]_engineVars, UNCHANGED <<sent, pipe>>,
         \A w \in Worker, p \in Actor : /\ Handler(w, p)' <=> Handler(w, p)
                                        /\ Handler(w, p) => worker'[w].msg = worker[w].msg
  PROVE  \A p \in Actor : Handling(p)' = Handling(p) /\ Waiting(p)' = Waiting(p)
BY HandlingSame, WaitingSame

\* Whatever else workers do between handlers, ActorModel does not see.
LEMMA WorkUnseen ==
  ASSUME IInv, [EngineNext]_engineVars, NEW w \in Worker,
         TakeJob(w) \/ JobExpired(w) \/ Repost(w) \/ Release(w) \/ CloseBegin(w) \/ Erase(w) \/ Exit(w)
  PROVE  \A p \in Actor : Handling(p)' = Handling(p) /\ Waiting(p)' = Waiting(p)
<1> USE DEF IInv
<1>1. UNCHANGED <<sent, pipe>> /\ \A u \in Worker : u # w => worker'[u] = worker[u]
  <2>1. CASE TakeJob(w) \/ JobExpired(w) \/ Release(w)
    BY <2>1 DEF TakeJob, JobExpired, Release, EngineTypeOK, mailVars
  <2>2. CASE Repost(w) \/ CloseBegin(w) \/ Erase(w) \/ Exit(w)
    BY <2>2 DEF Repost, CloseBegin, Erase, Exit, SetWorker, EngineTypeOK, mailVars
  <2> QED BY <2>1, <2>2
<1>2. \/ /\ worker[w].at \notin {"run", "close"} /\ worker'[w].at \notin {"run", "close"}
      \/ /\ worker[w].at \in {"run", "close"} /\ worker'[w].at \in {"run", "close"}
         /\ worker'[w].actor = worker[w].actor /\ worker'[w].msg = worker[w].msg
  <2>1. CASE TakeJob(w)
    <3>1. PICK v \in Worker :
            worker' = [worker EXCEPT ![w] = [Idle EXCEPT !.at = "lock", !.actor = Head(jobs[v])]]
      BY <2>1 DEF TakeJob
    <3>2. worker[w].at = "idle" /\ worker'[w].at = "lock"
      BY <2>1, <3>1 DEF TakeJob, EngineTypeOK, Idle
    <3> QED BY <3>2
  <2>2. CASE JobExpired(w) \/ Release(w)
    <3>1. worker' = [worker EXCEPT ![w] = Idle] /\ worker[w].at \in {"lock", "release"}
      BY <2>2 DEF JobExpired, Release
    <3> QED BY <3>1 DEF EngineTypeOK, Idle
  <2>3. CASE Repost(w)
    BY <2>3 DEF Repost, SetWorker, EngineTypeOK
  <2>4. CASE CloseBegin(w)
    BY <2>4 DEF CloseBegin, Free, EngineTypeOK
  <2>5. CASE Erase(w)
    BY <2>5 DEF Erase, SetWorker, EngineTypeOK
  <2>6. CASE Exit(w)
    BY <2>6 DEF Exit, SetWorker, EngineTypeOK
  <2> QED BY <2>1, <2>2, <2>3, <2>4, <2>5, <2>6
<1>3. ASSUME NEW u \in Worker, NEW p \in Actor
      PROVE  /\ Handler(u, p)' <=> Handler(u, p)
             /\ Handler(u, p) => worker'[u].msg = worker[u].msg
  <2>1. CASE u = w
    BY <2>1, <1>2 DEF Handler
  <2>2. CASE u # w
    BY <2>2, <1>1 DEF Handler
  <2> QED BY <2>1, <2>2
<1> QED BY <1>1, <1>3, QuietStep

\* An actor enters actors_ with an empty mailbox and nobody in a handler of it.
LEMMA SpawnAddSeen ==
  ASSUME IInv, [EngineNext]_engineVars, NEW t \in EngineThread, SpawnAdd(t)
  PROVE  [AM!Next]_AM!vars
<1> USE DEF IInv
<1>1. PICK o \in Actor : o = spawn[t].actor
  BY SpawnGoesOn
<1>2. Untouched(o)
  BY <1>1, SpawnGoesOn DEF SpawnInv
<1>3. UNCHANGED <<worker, sent, pipe>>
  BY DEF SpawnAdd, mailVars
<1>4. \A p \in Actor : Handling(p)' = Handling(p) /\ Waiting(p)' = Waiting(p)
  BY <1>3, QuietStep DEF Handler
<1>5. Waiting(o) = <<>>
  <2>1. sent[o] = <<>> /\ Len(sent[o]) = 0 /\ pipe[o].front \in Nat
    BY <1>2, MailType DEF Untouched
  <2> QED BY <2>1 DEF Waiting
<1>6. Handling(o) = NoMessage
  <2>1. \A w \in Worker : worker[w].actor # o
    BY <1>2 DEF WorkerInv, Hand, Untouched, Actor
  <2> QED BY <2>1, HandlingIs DEF HandlingSays, Handler
<1>7. CASE registered' = registered
  BY <1>4, <1>7, Unseen
<1>8. CASE registered' # registered
  <2>1. registered' = registered \cup {o}
    BY <1>1, <1>8 DEF SpawnAdd
  <2>2. AM!Spawn(o)
    BY <1>2, <1>4, <1>5, <1>6, <2>1 DEF AM!Spawn, Untouched
  <2> QED BY <2>2 DEF AM!Next
<1> QED BY <1>7, <1>8

\* del_actor: one actor at most has the address.
LEMMA EraseSeen ==
  ASSUME IInv, [EngineNext]_engineVars, NEW w \in Worker, Erase(w)
  PROVE  [AM!Next]_AM!vars
<1> USE DEF IInv
<1>1. \A p \in Actor : Handling(p)' = Handling(p) /\ Waiting(p)' = Waiting(p)
  BY WorkUnseen
<1>2. registered' = {o \in registered : address[o] # address[worker[w].actor]}
  BY DEF Erase
<1>3. CASE \A o \in registered : address[o] # address[worker[w].actor]
  <2>1. registered' = registered
    BY <1>2, <1>3
  <2> QED BY <1>1, <2>1, Unseen
<1>4. ASSUME NEW o \in registered, address[o] = address[worker[w].actor]
      PROVE  AM!Next
  <2>1. registered' = registered \ {o}
    BY <1>2, <1>4 DEF AddressInv
  <2>2. o \in Actor
    BY DEF EngineTypeOK
  <2>3. AM!Close(o)
    BY <1>1, <2>1 DEF AM!Close
  <2> QED BY <2>2, <2>3 DEF AM!Next
<1> QED BY <1>3, <1>4

LEMMA StepImplements == IInv /\ [EngineNext]_engineVars => [AM!Next]_AM!vars
<1> SUFFICES ASSUME IInv, [EngineNext]_engineVars
             PROVE  [AM!Next]_AM!vars
  OBVIOUS
<1> USE DEF IInv
<1>1. ASSUME NEW t \in EngineThread, SendMessage(t)
      PROVE  [AM!Next]_AM!vars
  <2>1. PICK a \in known \cup {Self(t)}, m \in Message :
          Delivered(a, m) /\ UNCHANGED <<actorVars, observers, worker, stopping, thrown>>
    BY <1>1, SendFacts
  <2>2. UNCHANGED <<registered, worker>>
    BY <2>1 DEF actorVars
  <2> QED BY <2>1, <2>2, DeliverySeen
<1>2. ASSUME NEW t \in EngineThread, SpawnInit(t)
      PROVE  [AM!Next]_AM!vars
  <2>1. /\ Delivered(address[spawn[t].actor], InitMessage) /\ InitMessage \in Message
        /\ UNCHANGED <<registered, worker>>
    BY <1>2, SpawnInitFacts
  <2> QED BY <2>1, DeliverySeen
<1>3. ASSUME NEW w \in Worker, NotifyObserver(w)
      PROVE  [AM!Next]_AM!vars
  <2>1. PICK a \in worker[w].todo, m \in Message :
          /\ Delivered(a, m)
          /\ worker' = [worker EXCEPT ![w].todo = worker[w].todo \ {a}]
          /\ UNCHANGED <<actorVars, observers, stopping, boundVars>>
    BY <1>3, NotifyFacts
  <2>2. \A u \in Worker : /\ worker'[u].at = worker[u].at /\ worker'[u].actor = worker[u].actor
                          /\ worker'[u].msg = worker[u].msg
    BY <2>1 DEF EngineTypeOK
  <2>3. UNCHANGED registered
    BY <2>1 DEF actorVars
  <2> QED BY <2>1, <2>2, <2>3, DeliverySeen
<1>4. CASE UNCHANGED <<sent, pipe, worker, registered>>
  BY <1>4, QuietStep, Unseen DEF Handler
<1>5. ASSUME NEW t \in EngineThread, SpawnRead(t) \/ SpawnCount(t)
      PROVE  UNCHANGED <<sent, pipe, worker, registered>>
  BY <1>5 DEF SpawnRead, SpawnCount, mailVars
<1>6. ASSUME NEW w \in Worker,
             TakeJob(w) \/ JobExpired(w) \/ Repost(w) \/ Release(w) \/ CloseBegin(w) \/ Exit(w)
      PROVE  [AM!Next]_AM!vars
  <2>1. UNCHANGED registered
    BY <1>6 DEF TakeJob, JobExpired, Repost, Release, CloseBegin, Exit, actorVars
  <2> QED BY <1>6, <2>1, WorkUnseen, Unseen
<1>7. Stop \/ UNCHANGED engineVars => UNCHANGED <<sent, pipe, worker, registered>>
  BY DEF Stop, engineVars, mailVars, actorVars
<1>8. ASSUME NEW t \in EngineThread, SendMessage(t) \/ Spawn(t)
      PROVE  [AM!Next]_AM!vars
  BY <1>8, <1>1, <1>2, <1>4, <1>5, SpawnAddSeen DEF Spawn
<1>9. ASSUME NEW w \in Worker, Work(w) \/ InitThrows(w) \/ CloseBegin(w)
      PROVE  [AM!Next]_AM!vars
  BY <1>9, <1>3, <1>6, ApplySeen, FinishSeen, EraseSeen DEF Work
<1> QED BY <1>4, <1>7, <1>8, <1>9 DEF EngineNext

\* One message at a time, in the order of the mailbox, whatever workers steal,
\* whoever spawns at the same time, and though a closed actor may live on for
\* a while.
THEOREM EngineImplements == EngineSpec => ImplementsActorModel
<1>1. EngineInit => AM!Init
  <2> SUFFICES ASSUME EngineInit
               PROVE  AM!Init
    OBVIOUS
  <2>1. IInv
    BY InitIInv
  <2>2. /\ registered = {} /\ worker = [w \in Worker |-> Idle]
        /\ sent = [o \in Actor |-> <<>>]
    BY DEF EngineInit
  <2>3. \A o \in Actor : Handling(o) = NoMessage
    BY <2>1, <2>2, HandlingIs DEF HandlingSays, Handler, Idle
  <2>4. \A o \in Actor : Waiting(o) = <<>>
    <3> SUFFICES ASSUME NEW o \in Actor PROVE Waiting(o) = <<>>
      OBVIOUS
    <3>1. sent[o] = <<>> /\ Len(sent[o]) = 0 /\ pipe[o].front \in Nat
      BY <2>1, <2>2, MailType DEF IInv
    <3> QED BY <3>1 DEF Waiting
  <2> QED BY <2>2, <2>3, <2>4 DEF AM!Init
<1> QED BY <1>1, StepImplements, EngineInvariant, PTL DEF EngineSpec, ImplementsActorModel, AM!Spec

=============================================================================
