----------------------------- MODULE RaftSnapshot -----------------------------
(***************************************************************************)
(* Snapshots of xraft: the leader builds one in its committer thread and   *)
(* drops the log it stands for, and its peer thread sends the file, in     *)
(* chunks that are calls of their own, to a follower that is behind the    *)
(* log.  A call may be lost before or after the follower has run it, and a *)
(* leader may be deposed and come back in a later term while a call of the *)
(* earlier one is under way.                                               *)
(*                                                                         *)
(* A file is a sequence of blocks; two make a chunk, and the file head is  *)
(* less than a block, so that an offset is counted in half blocks.         *)
(***************************************************************************)
EXTENDS Integers, Sequences, FiniteSets

CONSTANTS MaxEntry,    \* bound: entries
          MaxSnapTerm, \* bound: terms
          MaxLoss      \* bound: calls lost

ASSUME RaftSnapshotAssumption == MaxEntry \in Nat /\ MaxSnapTerm \in Nat \ {0} /\ MaxLoss \in Nat

VARIABLES term, written, applied,   \* the leader: its term, its log and its state machine
          dropped,                  \* the index up to which its log is gone
          snapshot, build,          \* the file and the one being built
          sender,                   \* send_install_snapshot_req
          calls,                    \* requests under way
          answer,                   \* what the call in progress returns
          peer,                     \* the follower; at: the term in which it loaded
          losses, lostIn,           \* counted for the bound; the terms and files of lost calls
          early                     \* history: a snapshot claimed what was not applied, or more was dropped

snapVars == <<term, written, applied, dropped, snapshot, build, sender, calls, answer,
              peer, losses, lostIn, early>>

NoFile == [head |-> 0, holds |-> 0]
File == [head : 0 .. MaxEntry, holds : 0 .. MaxEntry]
Chunk == 2

Blocks(f) == 3 + (f.head % 2)
Content(f) == [b \in 1 .. Blocks(f) |-> [file |-> f, block |-> b]]
Block == [file : File, block : 1 .. 4]

Idle == [file |-> NoFile, at |-> 0, waits |-> FALSE]
NoAnswer == [term |-> 0, stored |-> 0]
InstallCall == [term : 1 .. MaxSnapTerm, attempt : 0 .. MaxLoss, head : 1 .. MaxEntry, offset : Nat,
                data : Seq(Block), done : BOOLEAN]

SnapTypeOK ==
  /\ term \in 1 .. MaxSnapTerm
  /\ written \in 0 .. MaxEntry /\ applied \in 0 .. written /\ dropped \in 0 .. written
  /\ snapshot \in File /\ build \in File
  /\ sender \in [file : File, at : Nat, waits : BOOLEAN]
  /\ \A r \in calls : r \in InstallCall
  /\ answer \in [term : 0 .. MaxSnapTerm, stored : Nat]
  /\ peer.term \in 0 .. MaxSnapTerm /\ peer.open \in BOOLEAN /\ peer.stored \in Seq(Block)
  /\ peer.snapshot \in 0 .. MaxEntry /\ peer.committed \in 0 .. MaxEntry
  /\ peer.loaded \in Seq(Block) /\ peer.at \in 0 .. peer.term
  /\ losses \in 0 .. MaxLoss /\ lostIn \subseteq (1 .. MaxSnapTerm) \X File /\ early \in BOOLEAN

SnapInit ==
  /\ term = 1 /\ written = 0 /\ applied = 0 /\ dropped = 0
  /\ snapshot = NoFile /\ build = NoFile /\ sender = Idle
  /\ calls = {} /\ answer = NoAnswer
  /\ peer = [term |-> 0, open |-> FALSE, stored |-> <<>>, snapshot |-> 0,
             committed |-> 0, loaded |-> <<>>, at |-> 0]
  /\ losses = 0 /\ lostIn = {} /\ early = FALSE

-----------------------------------------------------------------------------
(* The leader builds a snapshot                                            *)

DoReplicate ==
  /\ written < MaxEntry /\ written' = written + 1
  /\ UNCHANGED <<term, applied, dropped, snapshot, build, sender, calls, answer, peer, losses, lostIn, early>>

\* The committer thread, which also builds: it applies nothing meanwhile.
ApplyEntry ==
  /\ build = NoFile /\ applied < written /\ applied' = applied + 1
  /\ UNCHANGED <<term, written, dropped, snapshot, build, sender, calls, answer, peer, losses, lostIn, early>>

\* do_make_snapshot up to the callback: the handle that is asked for the
\* commit index answers with the last index of the log.
BuildSnapshot ==
  /\ build = NoFile /\ written > dropped
  /\ build' = [head |-> written, holds |-> applied]
  /\ early' = (early \/ written > applied)
  /\ UNCHANGED <<term, written, applied, dropped, snapshot, sender, calls, answer, peer, losses, lostIn>>

\* Mutant: the old snapshot stays the one that is sent.
KeptOld == IF snapshot = NoFile THEN build ELSE snapshot

\* get_snapshot_filepath, after clear_old_snapshot_files
Kept == build

\* The rest of it: the index is asked for again, and the log goes up to there.
SnapshotDone ==
  /\ build # NoFile
  /\ snapshot' = Kept /\ build' = NoFile
  /\ dropped' = written
  /\ early' = (early \/ written > build.head)
  /\ UNCHANGED <<term, written, applied, sender, calls, answer, peer, losses, lostIn>>

-----------------------------------------------------------------------------
(* The leader sends it                                                     *)

\* do_append_entries finds no entries for the index the follower asks for.
StartSend ==
  /\ sender = Idle /\ snapshot # NoFile /\ peer.snapshot < dropped
  /\ sender' = [file |-> snapshot, at |-> 0, waits |-> FALSE]
  /\ UNCHANGED <<term, written, applied, dropped, snapshot, build, calls, answer, peer, losses, lostIn, early>>

\* What is read at a place of the file; inside a block, what is in no file.
ReadAt(f, at) ==
  LET from == at \div 2
      end  == IF from + Chunk < Blocks(f) THEN from + Chunk ELSE Blocks(f)
  IN  IF at % 2 = 0 THEN SubSeq(Content(f), from + 1, end) ELSE <<>>

\* A chunk that is not full is the last.
LastChunk(f, at) == at \div 2 + Chunk > Blocks(f)

SendChunk ==
  /\ sender # Idle /\ ~sender.waits
  /\ calls' = calls \cup {[term |-> term, attempt |-> losses, head |-> sender.file.head, offset |-> sender.at,
                           data |-> ReadAt(sender.file, sender.at),
                           done |-> LastChunk(sender.file, sender.at)]}
  /\ sender' = [sender EXCEPT !.waits = TRUE]
  /\ UNCHANGED <<term, written, applied, dropped, snapshot, build, answer, peer, losses, lostIn, early>>

\* The call this sender waits for.
Mine(r) == sender.waits /\ r.term = term /\ r.attempt = losses

\* The answer: an offset that is not the expected one is taken as one without
\* the file head.
Answered ==
  /\ sender.waits /\ answer # NoAnswer
  /\ LET f    == sender.file
         sent == Len(ReadAt(f, sender.at))
         over == answer.stored # sender.at + 2 * sent
     IN  sender' = IF answer.term > term \/ (~over /\ LastChunk(f, sender.at)) THEN Idle
                   ELSE [file |-> f, waits |-> FALSE,
                         at |-> IF over THEN answer.stored + 1 ELSE answer.stored]
  /\ answer' = NoAnswer
  /\ UNCHANGED <<term, written, applied, dropped, snapshot, build, calls, peer, losses, lostIn, early>>

\* The call fails, and the sender gives up; the request may still arrive.
CallFails ==
  /\ sender.waits /\ losses < MaxLoss /\ losses' = losses + 1
  /\ sender' = Idle /\ answer' = NoAnswer
  /\ lostIn' = lostIn \cup {<<term, sender.file>>}
  /\ calls' \in {calls, {r \in calls : ~Mine(r)}}
  /\ UNCHANGED <<term, written, applied, dropped, snapshot, build, peer, early>>

\* The leader is deposed, which ends the sender before its next chunk, and
\* elected again.  The call it was in is on its way.
Deposed ==
  /\ term < MaxSnapTerm /\ term' = term + 1
  /\ sender' = Idle /\ answer' = NoAnswer
  /\ UNCHANGED <<written, applied, dropped, snapshot, build, calls, peer, losses, lostIn, early>>

-----------------------------------------------------------------------------
(* The follower                                                            *)

\* Mutant: a file of an earlier term stays open.
WriterStays(r) == IF peer.open THEN peer.stored ELSE <<>>

\* What the writer has stored when r is handled: step_down discards the file
\* of an earlier term, and a closed writer starts a new one.
Writer(r) == IF peer.open /\ r.term <= peer.term THEN peer.stored ELSE <<>>

Fits(r, stored) == r.offset = 2 * Len(stored)

\* handle_install_snapshot, with load_snapshot: the head is read from the file.
\* The log is cleared; what it held was below the snapshot.
HandleInstall(r) ==
  LET stored == IF Fits(r, Writer(r)) THEN Writer(r) \o r.data ELSE Writer(r)
      ends   == Fits(r, Writer(r)) /\ r.done
      head   == stored[1].file.head
  IN  /\ calls' = calls \ {r}
      /\ answer' = IF Mine(r)
                   THEN [term |-> r.term, stored |-> 2 * Len(stored)] ELSE answer
      /\ peer' = IF ~ends \/ r.head < peer.snapshot
                 THEN [peer EXCEPT !.term = r.term, !.open = ~ends,
                                   !.stored = IF ends THEN <<>> ELSE stored]
                 ELSE [term |-> r.term, open |-> FALSE, stored |-> <<>>,
                       snapshot |-> head, loaded |-> stored, at |-> r.term,
                       committed |-> IF head > peer.committed THEN head ELSE peer.committed]
      /\ UNCHANGED <<term, written, applied, dropped, snapshot, build, sender, losses, lostIn, early>>

\* A request of an earlier term is refused; its sender is gone.
RefuseInstall(r) ==
  /\ calls' = calls \ {r}
  /\ UNCHANGED <<term, written, applied, dropped, snapshot, build, sender, answer, peer, losses, lostIn, early>>

Receive(r) == IF r.term < peer.term THEN RefuseInstall(r) ELSE HandleInstall(r)

SnapNext ==
  \/ DoReplicate \/ ApplyEntry \/ BuildSnapshot \/ SnapshotDone
  \/ StartSend \/ SendChunk \/ Answered \/ CallFails \/ Deposed
  \/ \E r \in calls : Receive(r)

\* Threads that can run do: the committer, the peer thread and the connection.
SnapFairness ==
  /\ WF_snapVars(SnapshotDone)
  /\ WF_snapVars(StartSend) /\ WF_snapVars(SendChunk) /\ WF_snapVars(Answered)
  /\ WF_snapVars(\E r \in calls : Receive(r))

SnapSpec == SnapInit /\ [][SnapNext]_snapVars /\ SnapFairness

-----------------------------------------------------------------------------
(* Properties.                                                             *)

LoadedFrom == {peer.loaded[b].file : b \in DOMAIN peer.loaded}

\* What the follower loads is one file of the leader, whole and in order,
\* whatever calls were lost, came late or were of an earlier term.  But when a
\* call of one file is lost, or late, and another file is sent in the same term,
\* a chunk of one may be taken for that of the other.
LoadsWhole ==
  \/ \A f \in LoadedFrom : peer.loaded = Content(f)
  \/ Cardinality(LoadedFrom) > 1 /\ \E f \in LoadedFrom : <<peer.at, f>> \in lostIn

\* Unless a snapshot was built while entries were under way, what the leader
\* drops is in its file, and what the follower takes as committed is in what
\* it loaded, if that was one file of which no call was lost in the term: the
\* calls of an older file that come late may put it in the place of a newer one.
NothingLost ==
  ~early => /\ dropped <= snapshot.holds
            /\ \A f \in LoadedFrom :
                 LoadedFrom = {f} => peer.committed <= f.holds \/ <<peer.at, f>> \in lostIn

\* A follower that is behind gets there, as long as no call was lost in the
\* term and nothing was dropped beyond the snapshot: with a file half stored the
\* chunks never fit again, and a snapshot that is too short is sent for ever.
FollowerCatchesUp ==
  \A t \in 1 .. MaxSnapTerm :
    (term = t /\ peer.snapshot < dropped) ~>
      (peer.snapshot >= dropped \/ (\E f \in File : <<t, f>> \in lostIn) \/ term # t \/ early)

\* A snapshot holds what the log drops and arrives as the file it was.
SnapshotKept == SnapTypeOK /\ LoadsWhole /\ NothingLost

=============================================================================
