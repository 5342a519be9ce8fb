-------------------------------- MODULE Http --------------------------------
(***************************************************************************)
(* httpd serves one request, httpget makes one (src/src/cmd/httpd.c and    *)
(* httpget.c).  Between them is a byte stream that recv cuts into segments *)
(* anywhere.  A byte is a model value; a header line is one of them, and   *)
(* so is each part of a path.  The client's request is sent whole; one     *)
(* that is no httpget may send anything.                                   *)
(***************************************************************************)
EXTENDS Integers, Sequences, SequencesExt

CONSTANTS
  Requests,   \* what a client may send before it closes its direction
  Contents,   \* what the file may hold
  ReqMax,     \* sizeof(request) - 1
  PathMax,    \* the longest path that fits into full[]
  Segment     \* sizeof(buf) of httpget

HttpConstants ==
  /\ \A s \in Contents : s \in Seq({s[i] : i \in DOMAIN s})
  /\ Segment \in Nat

VARIABLES
  up,         \* bytes on their way to httpd
  request,    \* what httpd has received
  hpc,        \* "recv", "parse", "stat", "body", "closed"
  status,     \* of the answer; 0 before there is one
  content_length,
  file, offset,
  wire,       \* bytes on their way to httpget
  include,    \* httpget -i
  in_headers, stdout, gpc,
  received,   \* bytes httpget has received
  split,      \* a segment ended inside the end of the header
  changed,    \* the file was changed while httpd had it open
  truncated       \* a read or a send of httpd failed

vars == <<up, request, hpc, status, content_length, file, offset, wire, include, in_headers,
          stdout, gpc, received, split, changed, truncated>>
client == <<include, in_headers, stdout, gpc, received, split>>
served == <<file, offset, changed, truncated>>

Init ==
  /\ up \in Requests /\ request = << >> /\ hpc = "recv" /\ status = 0 /\ content_length = 0
  /\ file \in Contents /\ offset = 0 /\ wire = << >>
  /\ include \in BOOLEAN /\ in_headers = ~include
  /\ stdout = << >> /\ gpc = "recv" /\ received = 0
  /\ split = FALSE /\ changed = FALSE /\ truncated = FALSE

-----------------------------------------------------------------------------
(* Where a header ends: CR LF CR LF or LF LF, complete at place i of s.    *)
EndsAt(s, i) ==
  \/ i >= 4 /\ SubSeq(s, i - 3, i) = <<"CR", "LF", "CR", "LF">>
  \/ i >= 2 /\ SubSeq(s, i - 1, i) = <<"LF", "LF">>

HeaderEnds(s) == {i \in DOMAIN s : EndsAt(s, i)}
First(S) == CHOOSE i \in S : \A j \in S : i <= j

-----------------------------------------------------------------------------
(* httpd: main up to the request *)

Recv ==
  /\ hpc = "recv" /\ up # << >>
  /\ \E n \in 1 .. Len(up) :
       /\ Len(request) + n <= ReqMax
       /\ request' = request \o SubSeq(up, 1, n)
       /\ up' = SubSeq(up, n + 1, Len(up))
  /\ hpc' = IF HeaderEnds(request') # {} \/ Len(request') = ReqMax THEN "parse" ELSE "recv"
  /\ UNCHANGED <<status, content_length, wire>> /\ UNCHANGED served /\ UNCHANGED client

(* recv returns 0: the loop ends.  If nothing was received, request[] was  *)
(* never written and holds anything.                                       *)
RecvEnd ==
  /\ hpc = "recv" /\ up = << >>
  /\ request' \in IF request = << >> THEN Requests ELSE {request}
  /\ hpc' = "parse"
  /\ UNCHANGED <<up, status, content_length, wire>> /\ UNCHANGED served /\ UNCHANGED client

Lesser(a, b) == IF a < b THEN a ELSE b

(* The first place from i on that holds c; one past the end if none does.  *)
strchr(s, c, i) == First({j \in i .. Len(s) + 1 : j > Len(s) \/ s[j] = c})
NotSpace(s, i) == First({j \in i .. Len(s) + 1 : j > Len(s) \/ s[j] # " "})

(* The path from place b to the space at e, without a query.               *)
PathOf(r, b, e) ==
  LET path == SubSeq(r, b, Lesser(e, strchr(r, "?", b)) - 1)
  IN IF path = <<"/">> THEN <<"/", "index.html">> ELSE path

(* The method and the path of a request line; no second space, no path.    *)
Parsed(r) ==
  LET a == strchr(r, " ", 1)
      b == IF a > Len(r) THEN a ELSE NotSpace(r, a + 1)
      e == strchr(r, " ", b)
  IN IF e > Len(r) THEN [method |-> << >>, path |-> << >>]
     ELSE [method |-> SubSeq(r, 1, a - 1), path |-> PathOf(r, b, e)]

(* What an answer begins with, and the text of an error.                   *)
Header == <<"status and fields", "CR", "LF", "CR", "LF">>
ErrorText == <<"reason">>

send_error(s) ==
  /\ status' = s /\ wire' = wire \o Header \o ErrorText
  /\ content_length' = Len(ErrorText)
  /\ hpc' = "closed"

Files == {<<"/", "index.html">>, <<"/", "f">>}
Directories == {<<"/", "d">>}

(* main and send_file up to open and fstat.                                *)
Parse ==
  /\ hpc = "parse"
  /\ LET p == Parsed(request)
     IN \/ p.path = << >> /\ send_error(400)
        \/ p.path # << >> /\ p.method # <<"GET">> /\ send_error(405)
        \/ /\ p.path # << >> /\ p.method = <<"GET">>
           /\ \/ ".." \in ToSet(p.path) /\ send_error(400)
              \/ ".." \notin ToSet(p.path) /\ Len(p.path) > PathMax /\ send_error(414)
              \/ /\ ".." \notin ToSet(p.path) /\ Len(p.path) <= PathMax
                 /\ \/ p.path \notin Files \cup Directories /\ send_error(404)
                    \/ p.path \in Directories /\ send_error(403)
                    \/ /\ p.path \in Files /\ hpc' = "stat"
                       /\ UNCHANGED <<status, wire, content_length>>
  /\ UNCHANGED <<up, request>> /\ UNCHANGED served /\ UNCHANGED client

(* fstat, and the header with the length it found.                         *)
SendHeader ==
  /\ hpc = "stat"
  /\ content_length' = Len(file)
  /\ status' = 200 /\ wire' = wire \o Header /\ hpc' = "body"
  /\ UNCHANGED <<up, request>> /\ UNCHANGED served /\ UNCHANGED client

(* The file is read and sent until its end, whatever its length was.       *)
SendBody ==
  /\ hpc = "body"
  /\ \/ /\ offset < Len(file)
        /\ \E n \in 1 .. Len(file) - offset :
             /\ wire' = wire \o SubSeq(file, offset + 1, offset + n)
             /\ offset' = offset + n
        /\ UNCHANGED <<hpc, truncated>>
     \/ offset >= Len(file) /\ hpc' = "closed" /\ UNCHANGED <<wire, offset, truncated>>
     \/ hpc' = "closed" /\ truncated' = TRUE /\ UNCHANGED <<wire, offset>>
  /\ UNCHANGED <<up, request, status, content_length, file, changed>> /\ UNCHANGED client

(* Somebody else writes to the file or shortens it.                        *)
FileChanges ==
  /\ hpc \in {"stat", "body"} /\ ~changed
  /\ file' \in Contents \ {file} /\ changed' = TRUE
  /\ UNCHANGED <<up, request, hpc, status, content_length, offset, wire, truncated>> /\ UNCHANGED client

-----------------------------------------------------------------------------
(* httpget: read_body *)

(* mutant: only CR LF CR LF ends a header, and one byte more is taken *)
MutBodyOf(seg) ==
  IF HeaderEnds(seg) = {} THEN [in_headers |-> TRUE, body |-> << >>]
  ELSE [in_headers |-> FALSE, body |-> SubSeq(seg, First(HeaderEnds(seg)) + 2, Len(seg))]

(* What of a segment is body.  The carry is declared in the loop: it       *)
(* begins empty with every segment.                                        *)
BodyOf(seg) ==
  IF HeaderEnds(seg) = {} THEN [in_headers |-> TRUE, body |-> << >>]
  ELSE [in_headers |-> FALSE, body |-> SubSeq(seg, First(HeaderEnds(seg)) + 1, Len(seg))]

read_body ==
  /\ gpc = "recv" /\ wire # << >>
  /\ \E n \in 1 .. Lesser(Segment, Len(wire)) :
       LET seg == SubSeq(wire, 1, n)
           r == IF in_headers THEN BodyOf(seg) ELSE [in_headers |-> FALSE, body |-> seg]
       IN /\ in_headers' = r.in_headers
          /\ stdout' = stdout \o r.body
          /\ wire' = SubSeq(wire, n + 1, Len(wire))
          /\ received' = received + n
  /\ split' = (split \/ received' \in 2 .. Len(Header) - 1)
  /\ UNCHANGED <<up, request, hpc, status, content_length, include, gpc>> /\ UNCHANGED served

ReadEnd ==
  /\ gpc = "recv" /\ wire = << >> /\ hpc = "closed"
  /\ gpc' = "done"
  /\ UNCHANGED <<up, request, hpc, status, content_length, wire, include, in_headers, stdout,
                 received, split>> /\ UNCHANGED served

Next ==
  \/ Recv \/ RecvEnd \/ Parse \/ SendHeader \/ SendBody \/ FileChanges
  \/ read_body \/ ReadEnd

-----------------------------------------------------------------------------
Body == IF status = 200 THEN file ELSE ErrorText
IsSuffixOf(t, s) == \E i \in 0 .. Len(s) : t = SubSeq(s, i + 1, Len(s))

(* Whatever the segments, httpget prints no byte of the header unless -i   *)
(* asks for it; it prints the whole answer of an unchanged file that was   *)
(* read without error, if no segment ends inside the end of the header;    *)
(* and Content-Length is then the length of the body.                      *)
HttpExact ==
  gpc = "done" /\ ~changed /\ ~truncated =>
    /\ content_length = Len(Body)
    /\ include => stdout = Header \o Body
    /\ ~include => IsSuffixOf(stdout, Body)
    /\ ~include /\ ~split => stdout = Body

(* The comment in read_body, "Discard headers, keeping a small carry       *)
(* between reads": where the segments end makes no difference.             *)
BodyDelivered == gpc = "done" /\ ~changed /\ ~truncated /\ ~include => stdout = Body

=============================================================================
