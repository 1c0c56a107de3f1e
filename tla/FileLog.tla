------------------------------- MODULE FileLog -------------------------------
(***************************************************************************)
(* xraft::detail::filelog over xraft::detail::file: the log of a node as   *)
(* segments on disk, each a data file and an index file, of which the last *)
(* is open for writing.  The process may end at any point, also inside a   *)
(* write; what has been written stays.                                     *)
(*                                                                         *)
(* The file streams are those of win_file_stream.hpp: unix_file_stream.hpp *)
(* does not compile (a static open that uses a member).  An encoded entry  *)
(* takes one cell of a data file, and the index file is a sequence of      *)
(* words, two for an entry: its index and its offset.  The cache is left   *)
(* out: its limit is one byte, so that write empties it at once.  A log    *)
(* that has been harmed (harm) is not followed any further.                *)
(***************************************************************************)
EXTENDS Integers, Sequences, FiniteSetsExt, SequencesExt, TLC

CONSTANTS SegmentSize,    \* max_log_size_, in entries
          MaxIndex,       \* bound: indices written
          MaxTerm,        \* bound: terms of entries
          MaxReopen       \* bound: restarts

ASSUME FileLogAssumption ==
  SegmentSize \in Nat /\ MaxIndex \in Nat \ {0} /\ MaxTerm \in Nat \ {0} /\ MaxReopen \in Nat

VARIABLES disk,      \* what is on disk: of each segment, by the number in its name
          current,   \* current_file_
          older,     \* logfiles_
          last,      \* last_index_
          held,      \* history: the entries the log was given and not told to drop
          fresh,     \* history: nothing but the first entry was read since it was opened
          harm,      \* history: what has happened to the files
          reopened   \* counted for the bound

logVars == <<disk, current, older, last, held, fresh, harm, reopened>>

Unread == -1     \* last_log_index_ and log_index_start_ before they are read
Closed == [name |-> 0, start |-> Unread, last |-> Unread, data |-> 0, index |-> 0]

Entry == [index : 1 .. MaxIndex, term : 1 .. MaxTerm]
Handle == [name : 0 .. MaxIndex + 1, start : Unread .. MaxIndex,
           last : Unread .. MaxIndex, data : Nat, index : Nat]

LogTypeOK ==
  /\ \A n \in DOMAIN disk : /\ n \in 1 .. MaxIndex + 1
                            /\ disk[n] \in [cells : Seq(Entry), words : Seq(Nat)]
  /\ current \in Handle /\ last \in 0 .. MaxIndex
  /\ \A k \in DOMAIN older : k \in 0 .. MaxIndex /\ older[k] \in Handle
  /\ {older[k].name : k \in DOMAIN older} \cup ({current.name} \ {0}) \subseteq DOMAIN disk
  /\ held \in [low : 1 .. MaxIndex + 1, entries : Seq(Entry), cut : BOOLEAN]
  /\ fresh \in BOOLEAN
  /\ harm \subseteq {"overwritten", "prefix", "suffix", "torn", "emptied", "twice", "stray"}
  /\ reopened \in 0 .. MaxReopen

-----------------------------------------------------------------------------
(* One file.  A handle has its places in the two files as data and index.  *)

NoData == [cells |-> <<>>, words |-> <<>>]

\* do_open, with OPEN_CREATE
WithFile(d, n) == IF n \in DOMAIN d THEN d ELSE (n :> NoData) @@ d

At(n) == [Closed EXCEPT !.name = n]

IsOpen(h) == h.name # 0

Words(d, h) == d[h.name].words

\* get_log_start
StartOf(d, h) == IF h.start # Unread THEN h.start
                 ELSE IF Words(d, h) = <<>> THEN 0 ELSE Words(d, h)[1]

\* get_last_log_index: the last pair of words
LastOf(d, h) == IF h.last # Unread THEN h.last
                ELSE IF Len(Words(d, h)) < 2 THEN 0
                ELSE Words(d, h)[Len(Words(d, h)) - 1]

\* get_log_start_no_lock reads the start once, and leaves the index file at
\* its end.
Started(d, h) ==
  IF ~IsOpen(h) \/ h.start # Unread THEN h
  ELSE [h EXCEPT !.index = Len(Words(d, h)),
                 !.start = IF Words(d, h) = <<>> THEN Unread ELSE Words(d, h)[1]]

Covers(d, h, i) == IsOpen(h) /\ StartOf(d, h) <= i /\ i <= LastOf(d, h)

Throws == -1

\* get_data_file_offset; the first entry is not looked up.
Offset(d, h, i) ==
  LET w == 2 * (i - StartOf(d, h))
      ws == Words(d, h)
  IN  IF w = 0 THEN 0
      ELSE IF w < 0 \/ w >= Len(ws) THEN Throws
      ELSE IF ws[w + 1] # i THEN Throws
      ELSE IF w + 1 = Len(ws) THEN 0 ELSE ws[w + 2]

\* Mutant: reading leaves the data file where it was.
AfterReadStays(d, h, i) == [Started(d, h) EXCEPT !.index = Len(Words(d, h))]

\* Where the files stand when entry i has been read: at their ends, the index
\* file only when it was used.
AfterRead(d, h, i) ==
  LET s == Started(d, h)
  IN  [s EXCEPT !.data  = Len(d[h.name].cells),
                !.index = IF i = StartOf(d, h) THEN @ ELSE Len(Words(d, h))]

\* Writing x at place p, at the end or over what is there.
Put(s, p, x) == IF p < Len(s) THEN [s EXCEPT ![p + 1] = x] ELSE Append(s, x)

\* file::write
WriteFile(f, h, e) ==
  [cells |-> Put(f.cells, h.data, e),
   words |-> Put(Put(f.words, h.index, e.index), h.index + 1, h.data)]

Wrote(h, e) == [h EXCEPT !.data = @ + 1, !.index = @ + 2, !.last = e.index]

AtEnds(d, h) == h.data = Len(d[h.name].cells) /\ h.index = Len(Words(d, h))

\* file::truncate_suffix; last_log_index_ stays.
CutSuffix(d, h, i) ==
  [d EXCEPT ![h.name] =
     [cells |-> SubSeq(@.cells, 1, Offset(d, h, i)),
      words |-> SubSeq(@.words, 1, 2 * (i - StartOf(d, h)))]]

SuffixCut(d, h, i) == [h EXCEPT !.data  = Offset(d, h, i),
                                !.index = 2 * (i - StartOf(d, h)),
                                !.last  = LastOf(d, h)]

Without(f, S) == [k \in DOMAIN f \ S |-> f[k]]

\* file::truncate_prefix: both files are copied from i + 1 on, the offsets in
\* the index file as they are, and opened again under a new name.
CutPrefix(d, h, i) ==
  LET f == d[h.name]
  IN  ((i + 1) :> [cells |-> SubSeq(f.cells, Offset(d, h, i + 1) + 1, Len(f.cells)),
                   words |-> SubSeq(f.words, 2 * (i + 1 - StartOf(d, h)) + 1, Len(f.words))])
      @@ Without(d, {h.name})

PrefixCut(h, i) == [h EXCEPT !.name = i + 1, !.start = Unread, !.data = 0, !.index = 0]

-----------------------------------------------------------------------------
(* The log that was asked for: its entries from low on.  cut says that the *)
(* end was dropped and the entry that takes its place is to come.          *)

High == held.low + Len(held.entries) - 1

Asked(i) == IF held.low <= i /\ i <= High THEN {held.entries[i - held.low + 1]} ELSE {}

LogInit ==
  /\ disk = <<>> /\ current = Closed /\ older = <<>> /\ last = 0
  /\ held = [low |-> 1, entries |-> <<>>, cut |-> FALSE]
  /\ fresh = FALSE /\ harm = {} /\ reopened = 0

-----------------------------------------------------------------------------
(* filelog                                                                 *)

\* check_current_file_size
Roll(h, i) == IF h.data > SegmentSize THEN At(i + 1) ELSE h

\* filelog::write of e, which brings its index or, at the leader, is given
\* last_index_ + 1 (LastIndex: the same).
Write(e) ==
  /\ e.index = High + 1
  /\ LET h    == IF IsOpen(current) THEN current ELSE At(e.index)
         d    == WithFile(disk, h.name)
         done == [d EXCEPT ![h.name] = WriteFile(@, h, e)]
         full == Wrote(h, e)
         next == Roll(full, e.index)
     IN  /\ current' = next
         /\ disk' = WithFile(done, next.name)
         /\ older' = IF next.name = h.name THEN older
                     ELSE older @@ (StartOf(done, full) :> full)
         /\ harm' = harm \cup (IF AtEnds(d, h) THEN {} ELSE {"overwritten"})
                         \cup (IF next.name # h.name /\ next.name \in DOMAIN d THEN {"twice"} ELSE {})
         /\ fresh' = (next.name = h.name /\ fresh)
  /\ last' = e.index
  /\ held' = [held EXCEPT !.entries = Append(@, e), !.cut = FALSE]
  /\ UNCHANGED reopened

\* get_entry and get_entries, as far as they move the open file.
Read(i) ==
  /\ Covers(disk, current, i)
  /\ current' = AfterRead(disk, current, i)
  /\ fresh' = (fresh /\ i = StartOf(disk, current))
  /\ UNCHANGED <<disk, older, last, held, harm, reopened>>

\* get_log_start_index
ReadStart ==
  /\ older = <<>> /\ current # Started(disk, current)
  /\ current' = Started(disk, current)
  /\ UNCHANGED <<disk, older, last, held, fresh, harm, reopened>>

Names(S) == {older[k].name : k \in S}

\* The segments that go with what is cut, whole.
Later(i) == {k \in DOMAIN older : k > i}

\* truncate_suffix from i on: a segment that holds i is cut there and becomes
\* the open one.  The open file is never cut.
TruncateSuffix(i) ==
  LET hit == {k \in DOMAIN older : Covers(disk, older[k], i)}
  IN  /\ ~held.cut /\ i \in held.low .. High
      /\ held' = [held EXCEPT !.entries = SubSeq(@, 1, i - held.low), !.cut = TRUE]
      /\ \/ /\ hit = {}
            /\ disk' = Without(disk, Names(Later(i)))
            /\ older' = Without(older, Later(i))
            /\ harm' = harm \cup {"suffix"}
            /\ UNCHANGED <<current, last, fresh>>
         \/ /\ hit # {}
            /\ LET k == Min(hit)
                   h == older[k]
               IN  /\ Offset(disk, h, i) # Throws
                   /\ current' = SuffixCut(disk, h, i)
                   /\ disk' = Without(CutSuffix(disk, h, i), {current.name} \cup Names(Later(i)))
                   /\ older' = Without(older, {k} \cup Later(i))
                   /\ last' = LastOf(disk, h)
                   /\ fresh' = FALSE
            /\ UNCHANGED harm
      /\ UNCHANGED reopened

\* The segments of which truncate_prefix leaves nothing.
Whole(i) == {k \in DOMAIN older : LastOf(disk, older[k]) <= i}

Splits(h, i) == Covers(disk, h, i) /\ i < LastOf(disk, h)

\* truncate_prefix up to i.  The offsets of what is left in a file that is
\* split are wrong for all but the first entry.
TruncatePrefix(i) ==
  LET parts == {k \in DOMAIN older \ Whole(i) : Splits(older[k], i)}
      d1    == Without(disk, Names(Whole(i)))
      cut   == {older[k] : k \in parts} \cup (IF Splits(current, i) THEN {current} ELSE {})
      over  == IsOpen(current) /\ i = LastOf(disk, current)
      d2    == FoldSet(LAMBDA h, d : CutPrefix(d, h, i), d1, cut)
  IN  /\ ~held.cut /\ i \in held.low .. High
      /\ \A h \in cut : Offset(disk, h, i + 1) # Throws /\ i + 1 \notin DOMAIN disk
      /\ held' = [held EXCEPT !.low = i + 1,
                              !.entries = SubSeq(@, i - held.low + 2, Len(@))]
      /\ disk' = IF over THEN Without(d2, {current.name}) ELSE d2
      /\ older' = [k \in {i + 1 : j \in parts} |-> PrefixCut(older[Min(parts)], i)]
                  @@ Without(older, Whole(i) \cup parts)
      /\ current' = IF over THEN Closed
                    ELSE IF Splits(current, i) THEN PrefixCut(current, i)
                    ELSE Started(disk, current)
      /\ fresh' = (~over /\ (fresh \/ Splits(current, i)))
      /\ harm' = IF \E h \in cut : i + 1 < LastOf(disk, h) THEN harm \cup {"prefix"} ELSE harm
      /\ UNCHANGED <<last, reopened>>

\* clear, before a snapshot up to i takes the place of the log.
ClearLog(i) ==
  /\ ~held.cut /\ i > High
  /\ disk' = Without(disk, Names(DOMAIN older) \cup {current.name})
  /\ current' = Closed /\ older' = <<>>
  /\ held' = [low |-> i + 1, entries |-> <<>>, cut |-> TRUE]
  /\ fresh' = FALSE
  /\ UNCHANGED <<last, harm, reopened>>

-----------------------------------------------------------------------------
(* Restart                                                                 *)

\* filelog::init with d on disk.  The segment with the highest start is the
\* open one; an empty segment counts from 0, and one of two is closed.
Load(d) ==
  LET handle(n) == [At(n) EXCEPT !.start = IF d[n].words = <<>> THEN Unread ELSE d[n].words[1]]
      keys      == {StartOf(d, At(n)) : n \in DOMAIN d}
      files     == [k \in keys |-> handle(Min({n \in DOMAIN d : StartOf(d, At(n)) = k}))]
      top       == files[Max(keys)]
  IN  /\ disk' = d
      /\ current' = IF d = <<>> THEN Closed
                    ELSE IF Len(d[top.name].words) < 2 THEN top
                    ELSE [top EXCEPT !.last = LastOf(d, top)]
      /\ older' = IF d = <<>> THEN <<>> ELSE Without(files, {Max(keys)})
      /\ last' = IF d = <<>> THEN 0 ELSE LastOf(d, top)
      /\ fresh' = (d # <<>>)
      /\ held' = [held EXCEPT !.cut = FALSE]
      /\ reopened < MaxReopen /\ reopened' = reopened + 1

\* A log emptied by truncate_prefix or clear starts again from index 1.
Emptied == IF held.entries = <<>> /\ High # 0 THEN {"emptied"} ELSE {}

\* The process ends and starts again.
Reopen ==
  /\ Load(disk)
  /\ harm' = harm \cup Emptied

\* The process ends inside file::write of e: the data has been written and
\* none or one of the two words.
TornWrite(e, words) ==
  /\ IsOpen(current) /\ e.index = High + 1
  /\ LET f == disk[current.name]
     IN  Load([disk EXCEPT ![current.name] =
                 [cells |-> Put(f.cells, current.data, e),
                  words |-> IF words = 0 THEN f.words ELSE Put(f.words, current.index, e.index)]])
  /\ harm' = harm \cup Emptied \cup {IF words = 0 /\ AtEnds(disk, current) THEN "stray" ELSE "torn"}

\* Nothing has happened but, perhaps, an entry without its index.
Sound == harm \subseteq {"stray"}

LogOp ==
  \/ \E t \in 1 .. MaxTerm, i \in 1 .. MaxIndex : Write([index |-> i, term |-> t])
  \/ \E i \in 1 .. MaxIndex :
       \/ Read(i) \/ TruncateSuffix(i) \/ TruncatePrefix(i) \/ ClearLog(i)
       \/ \E w \in 0 .. 1 : TornWrite([index |-> i, term |-> 1], w)
  \/ ReadStart
  \/ Reopen

LogNext == Sound /\ LogOp

LogSpec == LogInit /\ [][LogNext]_logVars

-----------------------------------------------------------------------------
(* Properties.                                                             *)

\* The entry that offset p of a file gives; past the end, whatever was there.
AtOffset(h, p) == IF p < Len(disk[h.name].cells) THEN {disk[h.name].cells[p + 1]}
                  ELSE {[index |-> 0, term |-> 0]}

\* The files in the order they are searched by get_entries.
Files == [n \in 1 .. Cardinality(DOMAIN older) |->
            older[SetToSortSeq(DOMAIN older, <)[n]]] \o <<current>>

\* get_entry: the open file is asked first.
GetEntry(i) ==
  LET hit == {h \in {Files[n] : n \in DOMAIN Files} : Covers(disk, h, i)}
      h   == IF current \in hit THEN current ELSE CHOOSE x \in hit : TRUE
  IN  IF hit = {} THEN {}
      ELSE IF Offset(disk, h, i) = Throws THEN {} ELSE AtOffset(h, Offset(disk, h, i))

\* get_entries from i on: each file that holds the next entry gives all it has
\* from there.
GetEntries(i) ==
  LET take(got, h) ==
        LET n == i + Len(got)
            p == Offset(disk, h, n)
        IN  IF ~Covers(disk, h, n) \/ p = Throws THEN got
            ELSE got \o SubSeq(disk[h.name].cells, p + 1, Len(disk[h.name].cells))
  IN  FoldLeft(take, <<>>, Files)

\* A log that nothing has happened to is read as it was written, entry by
\* entry and in one piece, across segments, cuts and restarts; after a crash in
\* a write still entry by entry.  Between the cut of an end and the write that
\* follows the open file claims entries it has lost.
ReadBack ==
  ~held.cut =>
    \A i \in 1 .. MaxIndex :
      /\ Sound => GetEntry(i) = Asked(i)
      /\ harm = {} => GetEntries(i) = IF Asked(i) = {} THEN <<>>
                                     ELSE SubSeq(held.entries, i - held.low + 1, Len(held.entries))

\* The next index is the right one, also after a restart.
LastIndex == Sound /\ ~held.cut => last = High

\* The open file is written at its end, whatever has been read, once an entry
\* other than its first has been read; before that it is not.
AppendsAtEnd == Sound /\ IsOpen(current) /\ ~fresh => AtEnds(disk, current)

\* The log on disk: read as written, numbered and written where it should be.
LogKept == LogTypeOK /\ ReadBack /\ LastIndex /\ AppendsAtEnd

=============================================================================
