------------------------------ MODULE Multipart -----------------------------
(***************************************************************************)
(* The parser of multipart forms, xhttper/mime_parser.hpp, and the uploader*)
(* of the HTTP server that stores what it finds, for a form that is cut    *)
(* anywhere.  A fragment is parsed byte by byte; the byte right behind it, *)
(* which the parser looks at, is what an earlier receive left there.       *)
(***************************************************************************)
EXTENDS Naturals, Sequences, FiniteSets, SequencesExt

CONSTANTS
  Forms,      \* sequences of parts [file, bytes]
  MaxBuffer   \* the bytes held before they are handed on, 1024 in the code

ASSUME FormsAssumption ==
  /\ \A f \in Forms : \A i \in DOMAIN f : f[i].file \in BOOLEAN
  /\ MaxBuffer \in Nat \ {0}

MCR == "\r"  MLF == "\n"  DASH == "-"

Boundary == <<DASH, DASH, "B", MCR, MLF>>
BoundaryEnd == <<DASH, DASH, "B", DASH, DASH>>
PartNames == <<"1", "2", "3", "4">>

\* A part: its header, which names it, and its bytes.
PartBytes(f, i) ==
  Boundary \o <<"Content-", "Disposition", ":", "name=", PartNames[i], MCR, MLF, MCR, MLF>>
           \o f[i].bytes \o <<MCR, MLF>>
FormBytes(f) ==
  FlattenSeq([i \in DOMAIN f |-> PartBytes(f, i)]) \o BoundaryEnd \o <<MCR, MLF>>

VARIABLES
  form,        \* the form sent
  given,       \* how many of its bytes were handed to the parser
  rest,        \* what is left of the fragment: data, len
  behind,      \* the byte behind the fragment
  mime,        \* "waits", "parses", "done" or "threw"
  at,          \* state_, header_state_ and recv_data_state_
  texts_,      \* buffer_, boundary_buffer_, header_name_ and header_data_
  open,        \* the uploader: header_name_, is_form_field_, filename_, file_
  stored,      \* fields_, and the files written
  harm         \* whether a cut or the data misled the parser (history)

multipartVars == <<form, given, rest, behind, mime, at, texts_, open, stored, harm>>

PartIds == {""} \union {PartNames[i] : i \in 1..4}

MultipartTypeOK ==
  /\ form \in Forms /\ given \in 0..Len(FormBytes(form))
  /\ Len(rest) <= given /\ behind \in {DASH, ":", MCR, "other"}
  /\ mime \in {"waits", "parses", "done", "threw"}
  /\ at.state \in {"boundary", "headers", "data", "end_cr1", "end_cf1"}
  /\ at.header \in {"name", "colon", "name_data", "cr1", "cf1", "check_end", "cr2", "cf2"}
  /\ at.recv \in {"recv_data", "check_boundary"}
  /\ Len(texts_.boundary) <= 5
  /\ open.name \in PartIds /\ open.filename \in PartIds
  /\ open.field \in BOOLEAN /\ open.file \in BOOLEAN
  /\ DOMAIN stored.fields \subseteq PartIds /\ DOMAIN stored.files \subseteq PartIds
  /\ harm \in BOOLEAN

MultipartInit ==
  /\ form \in Forms /\ given = 0 /\ rest = <<>> /\ behind = "other" /\ mime = "waits"
  /\ at = [state |-> "boundary", header |-> "name", recv |-> "recv_data"]
  /\ texts_ = [buffer |-> <<>>, boundary |-> <<>>, name |-> <<>>, value |-> <<>>]
  /\ open = [name |-> "", field |-> FALSE, filename |-> "", file |-> FALSE]
  /\ stored = [fields |-> <<>>, files |-> <<>>]
  /\ harm = FALSE

\* uploader::do_parse: the bytes behind the head, whose end is a null, and then
\* one receive after another.
NextFragment(n, byte) ==
  /\ mime = "waits" /\ n \in 1..(Len(FormBytes(form)) - given)
  /\ given = 0 => byte = "other"
  /\ rest' = SubSeq(FormBytes(form), given + 1, given + n) /\ given' = given + n
  /\ behind' = byte /\ mime' = "parses"
  /\ UNCHANGED <<form, at, texts_, open, stored, harm>>

\* The fragment is used up: do_parse returns false.
UsedUp ==
  /\ mime = "parses" /\ rest = <<>> /\ mime' = "waits"
  /\ UNCHANGED <<form, given, rest, behind, at, texts_, open, stored, harm>>

InState(s) == mime = "parses" /\ rest # <<>> /\ at.state = s

\* get_string up to a byte: what it takes, and whether it saw the byte, which
\* it also looks for behind the fragment.
UpTo(byte) ==
  LET is == {i \in DOMAIN rest : rest[i] = byte}
      n == IF is = {} THEN Len(rest) ELSE (CHOOSE i \in is : \A j \in is : i <= j) - 1
  IN [got |-> SubSeq(rest, 1, n), left |-> SubSeq(rest, n + 1, Len(rest)),
      seen |-> is # {} \/ behind = byte, misled |-> is = {} /\ behind = byte]

\* The byte that really follows the fragment
Follows == IF given < Len(FormBytes(form)) THEN FormBytes(form)[given + 1] ELSE "none"

\* get_string up to the length of a boundary
Taken == LET n == Len(Boundary) - Len(texts_.boundary) IN IF Len(rest) < n THEN Len(rest) ELSE n
BoundaryGot == texts_.boundary \o SubSeq(rest, 1, Taken)
BoundaryLeft == SubSeq(rest, Taken + 1, Len(rest))

ParseBoundary ==
  /\ InState("boundary") /\ texts_.boundary \notin {Boundary, BoundaryEnd}
  /\ texts_' = [texts_ EXCEPT !.boundary = BoundaryGot] /\ rest' = BoundaryLeft
  /\ IF Len(BoundaryGot) < Len(Boundary) THEN mime' = "waits" /\ at' = at
     ELSE IF BoundaryGot \in {Boundary, BoundaryEnd}
          THEN mime' = mime /\ at' = [at EXCEPT !.state = "headers"]
          ELSE mime' = "threw" /\ at' = at
  /\ UNCHANGED <<form, given, behind, open, stored, harm>>

HeaderState(from, to) == InState("headers") /\ at.header = from /\ at' = [at EXCEPT !.header = to]

\* do_parse_header_name and do_parse_header_data
HeaderText(from, to, byte, text) ==
  /\ InState("headers") /\ at.header = from
  /\ LET u == UpTo(byte) IN
     /\ texts_' = [texts_ EXCEPT ![text] = @ \o u.got] /\ rest' = u.left
     /\ harm' = (harm \/ (u.misled /\ Follows # byte))
     /\ IF u.seen THEN mime' = mime /\ at' = [at EXCEPT !.header = to]
                  ELSE mime' = "waits" /\ at' = at
  /\ UNCHANGED <<form, given, behind, open, stored>>

\* get_char: the byte is taken whatever it is; a wrong one ends do_parse, and
\* what is left of the fragment is dropped.
GetChar(byte) ==
  IF Head(rest) = byte THEN mime' = mime /\ rest' = Tail(rest)
                       ELSE mime' = "waits" /\ rest' = <<>>
HeaderChar(from, to, byte) ==
  /\ InState("headers") /\ at.header = from /\ GetChar(byte)
  /\ at' = IF Head(rest) = byte THEN [at EXCEPT !.header = to] ELSE at
  /\ UNCHANGED <<form, given, behind, texts_, open, stored, harm>>

CheckHeadersEnd ==
  /\ InState("headers") /\ at.header = "check_end"
  /\ at' = [at EXCEPT !.header = IF Head(rest) = MCR THEN "cr2" ELSE "name"]
  /\ UNCHANGED <<form, given, rest, behind, mime, texts_, open, stored, harm>>

\* mime_header_callback of the uploader: the part that a header names, if it
\* reads as one, which is a field or a file.
Named ==
  {i \in DOMAIN form : /\ texts_.name = <<"Content-", "Disposition">>
                       /\ texts_.value = <<"name=", PartNames[i]>>}
MimeHeader(o) ==
  IF Named = {} THEN o
  ELSE LET i == CHOOSE i \in Named : TRUE
       IN IF form[i].file THEN [o EXCEPT !.field = FALSE, !.filename = PartNames[i], !.name = ""]
                          ELSE [o EXCEPT !.field = TRUE, !.name = PartNames[i]]
HeaderDone ==
  /\ InState("headers") /\ at.header = "cf1" /\ GetChar(MLF)
  /\ IF Head(rest) = MLF
     THEN /\ at' = [at EXCEPT !.header = "check_end"]
          /\ open' = MimeHeader([open EXCEPT !.file = FALSE])
          /\ texts_' = [texts_ EXCEPT !.name = <<>>, !.value = <<>>]
     ELSE UNCHANGED <<at, open, texts_>>
  /\ UNCHANGED <<form, given, behind, stored, harm>>

\* The end callback, which closes the file, comes with the end of the headers.
HeadersDone ==
  /\ InState("headers") /\ at.header = "cf2" /\ GetChar(MLF)
  /\ IF Head(rest) = MLF
     THEN at' = [at EXCEPT !.header = "name", !.state = "data"] /\ open' = [open EXCEPT !.file = FALSE]
     ELSE UNCHANGED <<at, open>>
  /\ UNCHANGED <<form, given, behind, texts_, stored, harm>>

ParseHeaders ==
  \/ HeaderText("name", "colon", ":", "name")
  \/ HeaderChar("colon", "name_data", ":")
  \/ HeaderText("name_data", "cr1", MCR, "value")
  \/ HeaderChar("cr1", "cf1", MCR)
  \/ HeaderDone
  \/ CheckHeadersEnd
  \/ HeaderChar("cr2", "cf2", MCR)
  \/ HeadersDone

\* data_callback of the uploader.  The name of a field is moved into the map
\* with its first piece, whether the map takes it or not; a file is emptied
\* when it is opened.
Put_(f, key, bytes) == [k \in DOMAIN f \union {key} |-> IF k = key THEN bytes ELSE f[k]]
FileBytes(bytes) == IF open.file THEN stored.files[open.filename] \o bytes ELSE bytes
Callback(bytes) ==
  IF open.field
  THEN /\ stored' = IF open.name \in DOMAIN stored.fields THEN stored
                    ELSE [stored EXCEPT !.fields = Put_(@, open.name, bytes)]
       /\ open' = [open EXCEPT !.name = ""]
  ELSE IF open.filename = "" THEN UNCHANGED <<stored, open>>
  ELSE /\ open' = [open EXCEPT !.file = TRUE]
       /\ stored' = [stored EXCEPT !.files = Put_(@, open.filename, FileBytes(bytes))]

WithoutLineEnd == SubSeq(texts_.buffer, 1, Len(texts_.buffer) - 2)

CrLf == <<MCR, MLF>>

\* e_recv_data: the bytes up to the first '-', which is looked at as the start
\* of a boundary when a line end is before it.  Too many bytes are handed on,
\* a line end at their end with them.
RecvData ==
  /\ InState("data") /\ at.recv = "recv_data"
  /\ LET u == UpTo(DASH)
         got == texts_.buffer \o u.got
         more == u.seen /\ u.left # <<>>
         next == IF more THEN Append(got, Head(u.left)) ELSE got
     IN IF u.seen /\ IsSuffix(CrLf, got)
        THEN /\ at' = [at EXCEPT !.recv = "check_boundary"]
             /\ texts_' = [texts_ EXCEPT !.buffer = got, !.boundary = <<>>]
             /\ rest' = u.left
             /\ harm' = (harm \/ (u.misled /\ Follows # DASH))
             /\ UNCHANGED <<stored, open>>
        ELSE /\ at' = at /\ rest' = IF more THEN Tail(u.left) ELSE u.left
             /\ IF Len(next) > MaxBuffer
                THEN /\ Callback(next) /\ texts_' = [texts_ EXCEPT !.buffer = <<>>]
                     /\ harm' = (harm \/ Last(next) = MCR \/ IsSuffix(CrLf, next))
                ELSE texts_' = [texts_ EXCEPT !.buffer = next] /\ UNCHANGED <<stored, open, harm>>
  /\ UNCHANGED <<form, given, behind, mime>>

\* e_check_boundary.  Before the last boundary nothing is handed on; after what
\* is none, everything read goes on as data.
CheckBoundary ==
  /\ InState("data") /\ at.recv = "check_boundary"
  /\ rest' = BoundaryLeft
  /\ IF Len(BoundaryGot) < Len(Boundary)
     THEN /\ texts_' = [texts_ EXCEPT !.boundary = BoundaryGot]
          /\ UNCHANGED <<at, stored, open, harm>>
     ELSE IF BoundaryGot = Boundary
     THEN /\ Callback(WithoutLineEnd)
          /\ texts_' = [texts_ EXCEPT !.boundary = BoundaryGot, !.buffer = <<>>]
          /\ at' = [at EXCEPT !.recv = "recv_data", !.state = "boundary"] /\ harm' = harm
     ELSE IF BoundaryGot = BoundaryEnd
     THEN /\ texts_' = [texts_ EXCEPT !.boundary = BoundaryGot]
          /\ at' = [at EXCEPT !.state = "end_cr1"] /\ UNCHANGED <<stored, open, harm>>
     ELSE /\ Callback(texts_.buffer \o BoundaryGot)
          /\ texts_' = [texts_ EXCEPT !.boundary = BoundaryGot, !.buffer = <<>>]
          /\ at' = [at EXCEPT !.recv = "recv_data"]
          /\ harm' = (harm \/ MCR \in ToSet(BoundaryGot))
  /\ UNCHANGED <<form, given, behind, mime>>

\* The boundary before the next part was read with the data of the last one.
NextPart ==
  /\ InState("boundary") /\ texts_.boundary \in {Boundary, BoundaryEnd}
  /\ at' = [at EXCEPT !.state = "headers"]
  /\ UNCHANGED <<form, given, rest, behind, mime, texts_, open, stored, harm>>

EndChar(from, to, byte) ==
  /\ InState(from) /\ at' = IF Head(rest) = byte THEN [at EXCEPT !.state = to] ELSE at
  /\ mime' = (IF Head(rest) # byte THEN "waits" ELSE IF to = "boundary" THEN "done" ELSE mime)
  /\ rest' = IF Head(rest) = byte THEN Tail(rest) ELSE <<>>
  /\ UNCHANGED <<form, given, behind, texts_, open, stored, harm>>

ParseEnd == EndChar("end_cr1", "end_cf1", MCR) \/ EndChar("end_cf1", "boundary", MLF)

MultipartNext ==
  \/ \E n \in 1..(Len(FormBytes(form)) - given), b \in {DASH, ":", MCR, "other"} : NextFragment(n, b)
  \/ UsedUp \/ ParseBoundary \/ NextPart \/ ParseHeaders \/ RecvData \/ CheckBoundary \/ ParseEnd

MultipartSpec == MultipartInit /\ [][MultipartNext]_multipartVars

---------------------------------------------------------------------------

\* PartsStored: however a form is cut, unless a cut or bytes that look like the
\* start of a boundary misled the parser, what is stored when it is done is
\* that of each part but the last: a file whole, a field up to the end of its
\* first piece.
PartsStored ==
  (mime = "done" /\ ~harm) =>
    \A i \in 1..(Len(form) - 1) :
      LET key == PartNames[i] IN
      IF form[i].file THEN key \in DOMAIN stored.files /\ stored.files[key] = form[i].bytes
      ELSE /\ key \in DOMAIN stored.fields /\ IsPrefix(stored.fields[key], form[i].bytes)
           /\ (Len(form[i].bytes) + 2 <= MaxBuffer /\ DASH \notin ToSet(form[i].bytes))
                => stored.fields[key] = form[i].bytes

\* NothingForeign: unless the parser was misled, nothing is ever stored under a
\* part's name but bytes of that part.
NothingForeign ==
  ~harm =>
    \A i \in DOMAIN form :
      /\ PartNames[i] \in DOMAIN stored.fields => IsPrefix(stored.fields[PartNames[i]], form[i].bytes)
      /\ PartNames[i] \in DOMAIN stored.files => IsPrefix(stored.files[PartNames[i]], form[i].bytes)

\* FormEnds: a form with a part that has arrived whole is parsed to its end,
\* and no form makes the parser throw, unless it was misled.
FormEnds ==
  ~harm => /\ mime # "threw"
           /\ (mime = "waits" /\ given = Len(FormBytes(form))) => form = <<>>

\* A form is read to its end and stored as the parts it has.
FormsRead == MultipartTypeOK /\ PartsStored /\ NothingForeign /\ FormEnds

=============================================================================
