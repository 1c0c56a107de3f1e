---------------------------- MODULE HttpParser ------------------------------
(***************************************************************************)
(* The parser of HTTP heads, xhttper/http_parser.hpp, fed with a message   *)
(* that is cut anywhere.  A message is a sequence of words, blanks, colons *)
(* and the bytes of line ends.  Positions count from 0, and the byte behind*)
(* what has arrived is the null that append writes.                        *)
(***************************************************************************)
EXTENDS Naturals, Integers, Sequences, FiniteSets, FiniteSetsExt, SequencesExt

CONSTANTS Heads   \* the messages: [request, headers, body]

ASSUME HeadsAssumption ==
  \A h \in Heads : h.request \in BOOLEAN /\ h.headers \in 0..4 /\ h.body \in 0..2

SP == " "  COLON == ":"  HCR == "\r"  HLF == "\n"

\* A word is two pieces long, so that what loses its last byte is not empty.
Word(w) == CASE w = "method" -> <<"GE", "T">> [] w = "url" -> <<"/in", "dex">>
             [] w = "version" -> <<"HTTP", "/1.1">> [] w = "status" -> <<"20", "0">>
             [] OTHER -> <<"o", "k">>
Name(i) == <<<<"Ho", "st">>, <<"Acc", "ept">>, <<"Da", "te">>, <<"Fr", "om">>>>[i]
Value(i) == <<<<"a", "b">>, <<"c", "d">>, <<"e", "f">>, <<"g", "h">>>>[i]
Header(i) == Name(i) \o <<COLON, SP>> \o Value(i) \o <<HCR, HLF>>

\* build_req and build_resp of http_builder
Build(h) ==
  (IF h.request
   THEN Word("method") \o <<SP>> \o Word("url") \o <<SP>> \o Word("version") \o <<HCR, HLF>>
   ELSE Word("version") \o <<SP>> \o Word("status") \o <<SP>> \o Word("reason") \o <<HCR, HLF>>)
  \o FlattenSeq([i \in 1..h.headers |-> Header(i)]) \o <<HCR, HLF>>

Message(h) == Build(h) \o [i \in 1..h.body |-> "body"]

Unset == [pos |-> -1, len |-> 0]

VARIABLES
  head,       \* the message
  size_,      \* how much of it was appended
  cursor,     \* pos_
  refs,       \* method_ url_ version_ status_ status_str_ first_ second_
  headers,    \* headers_
  parse,      \* "waits", "parses" or "done"
  swallowed   \* whether a cut fell right behind the status (history)

httpVars == <<head, size_, cursor, refs, headers, parse, swallowed>>

HttpTypeOK ==
  /\ head \in Heads /\ size_ \in 0..Len(Message(head))
  /\ cursor \in 0..size_ /\ parse \in {"waits", "parses", "done"}
  /\ Len(headers) <= head.headers /\ swallowed \in BOOLEAN

HttpInit ==
  /\ head \in Heads /\ size_ = 0 /\ cursor = 0 /\ headers = <<>> /\ parse = "waits"
  /\ swallowed = FALSE
  /\ refs = [f \in {"method", "url", "version", "status", "reason", "first", "second"} |-> Unset]

At0(p) == IF p < 0 THEN "before" ELSE IF p < size_ THEN Message(head)[p + 1] ELSE "null"

\* append, and the call of parse_req or parse_rsp that follows it.  What has
\* arrived is always parsed to its end, so that pos_, where append writes, is
\* the end of the bytes.  The parser skips blanks before the status each time it
\* goes on with it, so that one cut off right before the blank that ends it goes
\* on to the next blank.
AppendBytes(n) ==
  /\ parse = "waits" /\ n \in 1..(Len(Message(head)) - size_)
  /\ size_' = size_ + n /\ parse' = "parses"
  /\ swallowed' = (swallowed \/ (~head.request /\ refs["status"].pos # -1
                                  /\ refs["status"].len = 0 /\ Message(head)[size_ + 1] = SP))
  /\ UNCHANGED <<head, cursor, refs, headers>>

\* Mutant: the place is that of the last fragment.
SetPosAgain(ref, p) == [ref EXCEPT !.pos = p]
SetPos(ref, p) == IF ref.pos = -1 THEN [ref EXCEPT !.pos = p] ELSE ref
SetEnd(ref, p) == [ref EXCEPT !.len = p - ref.pos]
\* find_pos: the first place of a byte from p on, the end if there is none
FindPos(p, byte) ==
  IF \E i \in p..(size_ - 1) : At0(i) = byte
  THEN Min({i \in p..(size_ - 1) : At0(i) = byte}) ELSE size_
SkipSpace(p) == Min({i \in p..size_ : At0(i) # SP})

\* A field that ends at a byte: what is before it less `cut` bytes.
Field(f, from, byte, cut) ==
  LET end == FindPos(from, byte)
      ref == IF f = "reason" THEN refs[f] ELSE SetPos(refs[f], from)
  IN /\ parse = "parses" /\ refs[f].len = 0
     /\ IF from >= size_ \/ end = size_
        THEN /\ parse' = "waits" /\ cursor' = (IF from >= size_ THEN from ELSE end)
             /\ refs' = [refs EXCEPT ![f] = IF from >= size_ /\ f \in {"status", "reason"}
                                             THEN @ ELSE ref]
        ELSE /\ parse' = parse
             /\ refs' = [refs EXCEPT ![f] = SetEnd(ref, end - cut)]
             /\ cursor' = IF f = "status" THEN end ELSE end + 1
     /\ UNCHANGED <<head, size_, headers, swallowed>>

Have(f) == refs[f].len # 0

ParseMethod == head.request /\ Field("method", cursor, SP, 0)
ParsePath == head.request /\ Have("method") /\ Field("url", cursor, SP, 0)
\* parse_version looks for a blank: that of a request is behind the name of the
\* first header.
ParseVersion == (head.request => Have("url")) /\ Field("version", cursor, SP, 1)
ParseStatus == /\ ~head.request /\ Have("version")
               /\ Field("status", SkipSpace(cursor), SP, 0)
\* parse_status_str does not set the place where the text starts.
ParseStatusStr == /\ Have("status") /\ Field("reason", SkipSpace(cursor), HLF, 1)

InHeaders == /\ parse = "parses" /\ Have("version") /\ (~head.request => Have("reason"))

\* check_end: the end of the head, at the first or the second of its last bytes
CheckEnd ==
  \/ At0(cursor) = HCR /\ At0(cursor - 2) = HCR /\ At0(cursor - 1) = HLF /\ At0(cursor + 1) = HLF
  \/ At0(cursor) = HLF /\ At0(cursor - 3) = HCR /\ At0(cursor - 2) = HLF /\ At0(cursor - 1) = HCR

HeadEnd ==
  /\ InHeaders /\ CheckEnd
  /\ cursor' = cursor + (IF At0(cursor) = HCR THEN 2 ELSE 1)
  /\ parse' = "done" /\ UNCHANGED <<head, size_, refs, headers, swallowed>>

HeaderName ==
  /\ InHeaders /\ ~CheckEnd /\ ~Have("first")
  /\ LET end == FindPos(cursor, COLON)
         ref == SetPos(refs["first"], cursor)
     IN IF end = size_
        THEN cursor' = size_ /\ refs' = [refs EXCEPT !["first"] = ref] /\ parse' = "waits"
        ELSE cursor' = end + 1 /\ refs' = [refs EXCEPT !["first"] = SetEnd(ref, end)] /\ parse' = parse
  /\ UNCHANGED <<head, size_, headers, swallowed>>

HeaderValue ==
  /\ InHeaders /\ ~CheckEnd /\ Have("first")
  /\ LET from == SkipSpace(cursor)
         end == FindPos(from, HLF)
         ref == SetPos(refs["second"], from)
     IN IF end = size_
        THEN /\ cursor' = size_ /\ parse' = "waits" /\ headers' = headers
             /\ refs' = [refs EXCEPT !["second"] = IF from < size_ THEN ref ELSE @]
        ELSE /\ cursor' = end + 1 /\ parse' = parse
             /\ headers' = Append(headers, <<refs["first"], SetEnd(ref, end - 1)>>)
             /\ refs' = [refs EXCEPT !["first"] = Unset, !["second"] = Unset]
  /\ UNCHANGED <<head, size_, swallowed>>

HttpNext ==
  \/ \E n \in 1..(Len(Message(head)) - size_) : AppendBytes(n)
  \/ ParseMethod \/ ParsePath \/ ParseVersion \/ ParseStatus \/ ParseStatusStr
  \/ HeadEnd \/ HeaderName \/ HeaderValue

HttpSpec == HttpInit /\ [][HttpNext]_httpVars

\* str_ref::to_string and get_header
ToText(ref) == [i \in 1..ref.len |-> At0(ref.pos + i - 1)]
GetHeader(name) ==
  {ToText(headers[i][2]) : i \in {j \in DOMAIN headers : ToText(headers[j][1]) = name}}

---------------------------------------------------------------------------

\* HeadersFound: however the message is cut but right behind the status, when
\* the head is parsed each header is found with its own value, the body starts
\* where the parser stands, and the fields of the first line are right: in a
\* request but for the version and the first two headers, in a response but for
\* the reason and the last byte of the version.
HeadersFound ==
  (parse = "done" /\ ~swallowed) =>
    /\ cursor = Len(Build(head))
    /\ \A i \in (IF head.request THEN 3 ELSE 1)..head.headers :
         GetHeader(Name(i)) = {Value(i)}
    /\ IF head.request THEN /\ ToText(refs["method"]) = Word("method")
                            /\ ToText(refs["url"]) = Word("url")
                       ELSE ToText(refs["status"]) = Word("status")

\* HeadEnded: a head that has arrived whole is parsed, but for a request with
\* fewer than two headers, which the parser never ends.
HeadEnded ==
  (parse = "waits" /\ ~swallowed /\ size_ >= Len(Build(head))) => head.request /\ head.headers < 2

\* HostFound: the first header of a request is found by its name once the head
\* is parsed, as the unit test of the parser says.
HostFound ==
  (parse = "done" /\ head.request) => GetHeader(Name(1)) = {Value(1)}

\* A head is read as it was built, and to its end.
HeadsRead == HttpTypeOK /\ HeadersFound /\ HeadEnded

=============================================================================
