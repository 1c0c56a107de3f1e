------------------------------- MODULE Metadata -------------------------------
(***************************************************************************)
(* xraft::detail::metadata: a map kept in a directory.  A generation N has *)
(* a snapshot N.data, a log N.Log of what was set since, and N.metadata,   *)
(* which says that N is there.  A log that has grown is compacted into the *)
(* next generation, file by file; the process may end between two steps,   *)
(* or inside the write of a record.                                        *)
(***************************************************************************)
EXTENDS Integers, Sequences, SequencesExt, FiniteSets, Functions

CONSTANTS Key,             \* keys
          MaxValue,        \* bound: values set, one after the other
          MaxLog,          \* max_log_file_, in records
          First,           \* the generation found at the start
          MaxGeneration,   \* bound: generations
          MaxStart         \* bound: starts of the process

\* From 90 on, the name of a generation sorts behind that of 9.
ASSUME MetadataAssumption ==
  /\ IsFiniteSet(Key) /\ "torn" \notin Key /\ MaxValue \in Nat /\ MaxLog \in Nat \ {0}
  /\ MaxGeneration \in 0 .. 88 /\ First \in 1 .. MaxGeneration + 1 /\ MaxStart \in Nat

VARIABLES store,       \* the files, each by generation and kind
          index,       \* index_
          map,         \* string_map_ and integral_map_; 0: no value
          place,       \* log_.tell(), in records
          step,        \* where the process is
          todo,        \* the records the call in progress has yet to write
          asked,       \* history: the map as the callers know it
          unsaved,     \* history: keys whose record was compacted away
          overwritten, \* history: the log was written before its end
          ended,       \* history: how the process ended
          starts       \* counted for the bound

metaVars == <<store, index, map, place, step, todo, asked, unsaved, overwritten, ended, starts>>

Kind == {"data", "log", "meta"}
Value == 0 .. MaxValue
Record == [key : Key, value : Value]
Torn == [key |-> "torn", value |-> 0]       \* a record that ends before its length
Nothing == [k \in Key |-> 0]
Steps == {"down", "failed", "ready", "write", "open", "opened",
          "data", "log", "touch", "rmlog", "rmdata", "rmmeta"}

MetaTypeOK ==
  /\ \A f \in DOMAIN store : /\ f \in (1 .. MaxGeneration + 1) \X Kind
                             /\ f[2] = "data" => store[f] \in [Key -> Value]
                             /\ f[2] = "log" => store[f] \in Seq(Record \cup {Torn})
  /\ index \in 1 .. MaxGeneration + 1 /\ place \in Nat
  /\ map \in [Key -> Value] /\ asked \in [Key -> Value]
  /\ step \in Steps /\ todo \in Seq(Record) /\ unsaved \subseteq Key
  /\ overwritten \in BOOLEAN /\ ended \in {"clean", "crash", "bad"} /\ starts \in 0 .. MaxStart

\* A directory that is new, or that of a process that has been started and
\* ended First - 1 times and kept nothing.
MetaInit ==
  /\ store = IF First = 1 THEN <<>>
             ELSE [f \in {First} \X Kind |-> IF f[2] = "data" THEN Nothing ELSE <<>>]
  /\ index = 1 /\ map = Nothing /\ place = 0 /\ step = "down" /\ todo = <<>>
  /\ asked = Nothing /\ unsaved = {} /\ overwritten = FALSE /\ ended = "clean" /\ starts = 0

-----------------------------------------------------------------------------
(* Loading                                                                 *)

\* Generations in the order of their names as strings, highest first.
Rank(n) == IF n < 10 THEN 100 * n ELSE 10 * n + 1
Found == {n \in 1 .. MaxGeneration + 1 : <<n, "meta">> \in DOMAIN store}
InOrder == CHOOSE s \in [1 .. Cardinality(Found) -> Found] :
             \A i, j \in DOMAIN s : i < j => Rank(s[i]) > Rank(s[j])

Apply(m, r) == [m EXCEPT ![r.key] = r.value]

\* load_file of the snapshot, whose failure is caught, and of the log.
LoadOne(m, n) ==
  LET data == IF <<n, "data">> \in DOMAIN store THEN store[<<n, "data">>] ELSE Nothing
  IN  FoldLeft(Apply, [k \in Key |-> IF data[k] # 0 THEN data[k] ELSE m[k]],
               store[<<n, "log">>])

Recovered == FoldLeft(LoadOne, Nothing, InOrder)

\* load throws unless every generation has its log, in whole records.
Loads == \A n \in Found : /\ <<n, "log">> \in DOMAIN store
                          /\ Torn \notin Range(store[<<n, "log">>])

\* init.  An empty directory gets a log; one with files and no generation
\* leaves the log closed, so that every set throws.
Start ==
  /\ step = "down" /\ starts < MaxStart /\ starts' = starts + 1
  /\ IF Loads /\ (Found # {} \/ store = <<>>)
     THEN /\ map' = Recovered /\ asked' = Recovered
          /\ index' = IF Found = {} THEN 1 ELSE Last(InOrder)
          /\ step' = IF Found = {} THEN "open" ELSE "ready"
     ELSE step' = "failed" /\ UNCHANGED <<map, asked, index>>
  /\ place' = 0 /\ unsaved' = {}
  /\ UNCHANGED <<store, todo, overwritten, ended>>

\* A file with its new content.
PutFile(f, content) == [g \in DOMAIN store \cup {f} |-> IF g = f THEN content ELSE store[g]]

\* reopen_log, when nothing is compacted: the log is emptied, then touched.
CreateLog(next) ==
  /\ store' = PutFile(<<index, "log">>, <<>>)
  /\ place' = 0 /\ step' = next
  /\ UNCHANGED <<index, map, todo, asked, unsaved, overwritten, ended, starts>>

Touch == store' = PutFile(<<index, "meta">>, <<>>)

Open == step = "open" /\ CreateLog("opened")

Opened ==
  /\ step = "opened" /\ Touch /\ step' = "ready"
  /\ UNCHANGED <<index, map, place, todo, asked, unsaved, overwritten, ended, starts>>

-----------------------------------------------------------------------------
(* set, del, clear and the destructor                                      *)

Set(k) ==
  /\ step = "ready"
  /\ \E v \in 1 .. MaxValue : /\ \A j \in Key : v > asked[j]
                              /\ v = 1 \/ \E j \in Key : asked[j] = v - 1
                              /\ todo' = <<[key |-> k, value |-> v]>>
  /\ step' = "write"
  /\ UNCHANGED <<store, index, map, place, asked, unsaved, overwritten, ended, starts>>

\* del: one record for each of the two maps.
Del(k) ==
  /\ step = "ready" /\ map[k] # 0
  /\ map' = [map EXCEPT ![k] = 0]
  /\ todo' = <<[key |-> k, value |-> 0], [key |-> k, value |-> 0]>>
  /\ step' = "write"
  /\ UNCHANGED <<store, index, place, asked, unsaved, overwritten, ended, starts>>

\* The record is written, and with the last of them the call returns.
Written(lost) ==
  /\ todo' = Tail(todo)
  /\ map' = Apply(map, Head(todo))
  /\ IF Len(todo) > 1 THEN step' = "write" /\ UNCHANGED asked
     ELSE step' = "ready" /\ asked' = Apply(asked, Head(todo))
  /\ unsaved' = lost

\* write_log and try_make_snapshot
WriteLog ==
  LET f == <<index, "log">>
  IN  /\ step = "write"
      /\ store' = [store EXCEPT ![f] = IF place < Len(@) THEN [@ EXCEPT ![place + 1] = Head(todo)]
                                       ELSE Append(@, Head(todo))]
      /\ overwritten' = (overwritten \/ place < Len(store[f]))
      /\ place' = place + 1
      /\ IF place + 1 < MaxLog
         THEN Written(unsaved \ {Head(todo).key}) /\ UNCHANGED index
         ELSE /\ index <= MaxGeneration
              /\ index' = index + 1 /\ step' = "data"
              /\ UNCHANGED <<map, todo, asked, unsaved>>
      /\ UNCHANGED <<ended, starts>>

\* ~metadata
Close ==
  /\ step = "ready" /\ index <= MaxGeneration
  /\ index' = index + 1 /\ step' = "data"
  /\ UNCHANGED <<store, map, place, todo, asked, unsaved, overwritten, ended, starts>>

\* clear: everything goes, and the log is opened anew in the generation.
Clear ==
  /\ step = "ready"
  /\ store' = <<>> /\ map' = Nothing /\ asked' = Nothing /\ step' = "open"
  /\ unsaved' = {} /\ overwritten' = FALSE
  /\ UNCHANGED <<index, place, todo, ended, starts>>

-----------------------------------------------------------------------------
(* make_snapshot, in the next generation                                   *)

\* write of both maps: the value being set is not in them yet.
Snapshot == map

WriteData ==
  /\ step = "data"
  /\ store' = PutFile(<<index, "data">>, Snapshot)
  /\ step' = "log"
  /\ UNCHANGED <<index, map, place, todo, asked, unsaved, overwritten, ended, starts>>

NewLog == step = "log" /\ CreateLog("touch")

TouchNew ==
  /\ step = "touch" /\ Touch /\ step' = "rmlog"
  /\ UNCHANGED <<index, map, place, todo, asked, unsaved, overwritten, ended, starts>>

\* Mutant: what says that the old generation is there is left.
OldStays(kind) == IF kind = "meta" THEN {} ELSE {<<index - 1, kind>>}

Old(kind) == {<<index - 1, kind>>}

\* rm_old_files
Unlink(kind) == store' = Restrict(store, DOMAIN store \ Old(kind))

RemoveLog ==
  /\ step = "rmlog" /\ Unlink("log") /\ step' = "rmdata"
  /\ overwritten' = FALSE
  /\ UNCHANGED <<index, map, place, todo, asked, unsaved, ended, starts>>

RemoveData ==
  /\ step = "rmdata" /\ Unlink("data") /\ step' = "rmmeta"
  /\ UNCHANGED <<index, map, place, todo, asked, unsaved, overwritten, ended, starts>>

RemoveMeta ==
  /\ step = "rmmeta" /\ Unlink("meta")
  /\ IF todo = <<>>
     THEN step' = "down" /\ ended' = "clean" /\ UNCHANGED <<map, todo, asked, unsaved>>
     ELSE Written({Head(todo).key}) /\ UNCHANGED ended
  /\ UNCHANGED <<index, place, overwritten, starts>>

-----------------------------------------------------------------------------
(* The process ends.  A log that was overwritten is not followed: records  *)
(* differ in length, and the next load meets the rest of one.              *)

Down(how) ==
  /\ step \notin {"down", "failed"} /\ ~overwritten
  /\ step' = "down" /\ ended' = how
  /\ todo' = <<>> /\ map' = Nothing /\ unsaved' = {}
  /\ UNCHANGED <<index, place, asked, overwritten, starts>>

\* Between the removal of an old log and that of its generation, and before a
\* first log is touched, the directory does not load.
Gap == {"rmdata", "rmmeta", "opened"}

Crash == Down(IF step \in Gap THEN "bad" ELSE "crash") /\ UNCHANGED store

CrashInWrite ==
  /\ step = "write" /\ place = Len(store[<<index, "log">>])
  /\ Down("bad")
  /\ store' = [store EXCEPT ![<<index, "log">>] = Append(@, Torn)]

CrashInClear ==
  /\ step = "ready"
  /\ Down("bad")
  /\ \E rest \in SUBSET DOMAIN store : store' = Restrict(store, rest)

MetaNext ==
  \/ Start \/ Open \/ Opened
  \/ \E k \in Key : Set(k) \/ Del(k)
  \/ WriteLog \/ Close \/ Clear
  \/ WriteData \/ NewLog \/ TouchNew \/ RemoveLog \/ RemoveData \/ RemoveMeta
  \/ Crash \/ CrashInWrite \/ CrashInClear

MetaSpec == MetaInit /\ [][MetaNext]_metaVars

-----------------------------------------------------------------------------
(* Properties.                                                             *)

\* Generations behind the one in use: a crash before the removals leaves 9
\* behind when 10 is there, which is the lesser string and so is loaded last.
Behind == {n \in Found : n < index /\ (n = index - 1 => step \in {"ready", "write", "down"})}

\* The values a crash may leave for k: the one the callers know or the one
\* being set; a generation left behind brings back what was deleted since.
Allowed(k) ==
  {asked[k]} \cup {r.value : r \in {x \in Range(todo) : x.key = k}}
             \cup (IF Behind # {} /\ 0 \in {asked[k], map[k]} THEN Value ELSE {})

\* At every moment the files hold what the callers know, but for the value
\* whose record filled the log: that one is in no file until the next
\* compaction.
Survives ==
  step \notin Gap \cup {"down", "failed"} /\ ~overwritten =>
    \A k \in Key \ unsaved : Recovered[k] \in Allowed(k)

\* A directory loads again after every end of the process but one in a gap,
\* inside a write or inside clear.
StartsAgain ==
  /\ step \notin Gap \cup {"down", "failed"} => Loads
  /\ step = "down" /\ ended # "bad" => Loads
  /\ step = "failed" => ended = "bad"

\* An orderly end keeps everything, whatever was compacted away or overwritten
\* before.
CleanKeeps ==
  step = "down" /\ ended = "clean" => Loads /\ \A k \in Key : Recovered[k] \in Allowed(k)

\* The map on disk: it survives, loads again and keeps all over an orderly end.
MapKept == MetaTypeOK /\ Survives /\ StartsAgain /\ CleanKeeps

=============================================================================
