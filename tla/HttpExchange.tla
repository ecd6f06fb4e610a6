----------------------------- MODULE HttpExchange -----------------------------
(***************************************************************************)
(* One worker of the HTTP server and the connections it handles one after  *)
(* another: Worker.handleClient reads a request into the worker's buffer,  *)
(* parses it, calls the servlet and answers.  WorkerPool says how a worker *)
(* comes by its connections, Dispatch what the servlet does.               *)
(*                                                                         *)
(* The bytes of a request arrive in pieces of any size.  A worker reads    *)
(* what is there, up to the size of its buffer, until it sees the end of a *)
(* line; so the text it parses may end anywhere, inside a word as well.    *)
(* The buffer has room for the verb, and names and values hold none of the *)
(* characters that separate them; a value is what it is after the parser   *)
(* has made blanks of its "+".                                             *)
(***************************************************************************)
EXTENDS Integers, SequencesExt

CONSTANTS
  Requests,   (* the requests clients send, see RequestsAssumption          *)
  BufSize,    (* BUF_SIZE, in words                                         *)
  MaxConns,   (* bounds the connections                                    *)
  NoRequest   (* the Java null, as a request                                *)

Verbs == {"HEAD", "GET", "POST", "PUT", "DELETE", "TRACE", "OPTIONS", "CONNECT", "PATCH"}

(* A request names a path by its parts, with key-value pairs in the query  *)
(* or in the body.  Any other verb stands for a line that is no request.   *)
Pairs == [key : STRING, value : STRING]
ASSUME RequestsAssumption ==
  \A r \in Requests : r.verb \in STRING /\ r.parts \in Seq(STRING)
                      /\ r.query \in Seq(Pairs) /\ r.body \in Seq(Pairs)
ASSUME SizeAssumption == BufSize \in Nat \ {0} /\ MaxConns \in Nat

VARIABLES
  sent,     (* the request of this connection's client                      *)
  wire,     (* what of it is still to come                                  *)
  inbox,    (* what has arrived and was not read                            *)
  link,     (* whether the client may send, has ended, or has gone          *)
  pc,       (* where the worker is in handleClient                          *)
  buf,      (* Worker.buf, which outlives the connection                    *)
  nread,    (* the local nread                                              *)
  request,  (* Worker.request                                               *)
  found,    (* the local OK: there is such a file                           *)
  answer,   (* what was written to the client                               *)
  called,   (* history: the request the servlet was called with             *)
  conns     (* the number of this connection                                *)

client == <<sent, wire, link, conns>>
vars == <<sent, wire, inbox, link, pc, buf, nread, request, found, answer, called, conns>>

--------------------------------------------------------------------------------
(* The words of a request.  "line" is the end of the request line, "blank" *)
(* stands for the other header lines and the blank line.  "cut" says where *)
(* a word breaks off: not at all, in the value of a pair or the name of a  *)
(* part, before that, or behind the "?" or "&" in front of it.             *)
Word(kind, text) == [kind |-> kind, text |-> text, cut |-> "no"]
Zero == Word("zero", NoRequest)
FileText == Word("field", [key |-> "tag", value |-> "ofAFile"])

RequestLine(r) ==
  <<Word("verb", r.verb), Word("path", r.parts)>>
    \o [i \in 1..Len(r.query) |-> Word("pair", r.query[i])] \o <<Word("line", NoRequest)>>

Words(r) ==
  RequestLine(r) \o <<Word("blank", NoRequest)>>
    \o [i \in 1..Len(r.body) |-> Word("field", r.body[i])]

(* What may be there of a word that is the last of the text.               *)
CutAt(w, text, cut) == [kind |-> w.kind, text |-> text, cut |-> cut]
Beginnings(w) ==
  CASE w.kind = "path" ->
         {w} \cup {CutAt(w, SubSeq(w.text, 1, k), c) : k \in 0..Len(w.text), c \in {"value", "key"}}
    [] w.kind = "pair" -> {w} \cup {CutAt(w, w.text, c) : c \in {"value", "key", "mark"}}
    [] w.kind = "field" -> {w} \cup {CutAt(w, w.text, c) : c \in {"value", "key"}}
    [] OTHER -> {w}

(* A name or value as it is understood: all of it, or a beginning.         *)
Said(text, whole) == [text |-> text, whole |-> whole]

(* parseRequest finds what it looks for by splitting the whole text.       *)
WordsOf(text, kind) == {i \in 1..Len(text) : text[i].kind = kind}
VerbOf(text) == text[1].text
PathOf(text) == text[CHOOSE i \in WordsOf(text, "path") : TRUE]
BadRequest(text) ==
  \/ VerbOf(text) \notin Verbs
  \/ WordsOf(text, "path") = {}
  \/ PathOf(text).text = <<>>

Part(path, i) == Said(path.text[i], i < Len(path.text) \/ path.cut # "value")

(* The form is a HashMap: of pairs with one key the last stays.  Where      *)
(* there is nothing to split the parser takes " = ", a pair of two blanks. *)
NoPairs == {[key |-> "blank", value |-> Said("blank", TRUE)]}
FormOf(text, kind) ==
  LET pairs == {i \in WordsOf(text, kind) : text[i].cut \in {"no", "value"}}
      stay == {i \in pairs : \A j \in pairs : j > i => text[j].text.key # text[i].text.key}
  IN IF \A i \in WordsOf(text, kind) : text[i].cut = "mark" THEN NoPairs
     ELSE {[key |-> text[i].text.key,
            value |-> Said(text[i].text.value, text[i].cut = "no")] : i \in stay}

(* The last part of the target carries the query; the name is cut off it,  *)
(* the type is not.  (partly is not in the code: the text ends in a word.)  *)
Parsed(text) ==
  LET verb == VerbOf(text)
      path == PathOf(text)
  IN [verb |-> verb,
      type |-> IF Len(path.text) = 1 /\ WordsOf(text, "pair") # {}
               THEN Said("withQuery", TRUE) ELSE Part(path, 1),
      name |-> IF Len(path.text) >= 2 THEN Part(path, 2) ELSE Said("null", TRUE),
      form |-> FormOf(text, IF verb = "POST" THEN "field" ELSE "pair"),
      partly |-> text[Len(text)].cut # "no"]

Keys(form) == {pair.key : pair \in form}

--------------------------------------------------------------------------------
TypeOK ==
  /\ sent \in Requests \cup {NoRequest}
  /\ link \in {"up", "ended", "gone"}
  /\ pc \in {"idle", "read", "parse", "headers", "get", "file", "post", "close"}
  /\ DOMAIN buf = 1..BufSize
  /\ nread \in 0..BufSize
  /\ pc \in {"headers", "get", "file", "post"} =>
       /\ request.verb \in {"HEAD", "GET", "POST"}
       /\ \A pair \in request.form : pair.value.whole \in BOOLEAN
  /\ found \in BOOLEAN
  /\ conns \in 0..MaxConns
  /\ answer \in {<<>>, <<"badMethod">>, <<"status">>, <<"status", "lastSwipe">>,
                 <<"status", "thanks">>, <<"status", "text">>, <<"status", "blank">>}

Init ==
  /\ sent = NoRequest /\ wire = <<>> /\ inbox = <<>> /\ link = "gone"
  /\ pc = "idle"
  /\ buf = [i \in 1..BufSize |-> Zero]
  /\ nread = 0
  /\ request = NoRequest
  /\ found = FALSE
  /\ answer = <<>>
  /\ called = NoRequest
  /\ conns = 0

--------------------------------------------------------------------------------
(* The client.  It connects and ...                                        *)
Connect(r) ==
  /\ pc = "idle"
  /\ conns < MaxConns
  /\ conns' = conns + 1
  /\ sent' = r
  /\ wire' = Words(r)
  /\ inbox' = <<>>
  /\ link' = "up"
  /\ pc' = "read"
  /\ nread' = 0
  /\ answer' = <<>>
  /\ called' = NoRequest
  /\ UNCHANGED <<buf, request, found>>

(* ... sends its request, in pieces.                                       *)
Deliver ==
  /\ link = "up" /\ wire # <<>>
  /\ inbox' = Append(inbox, Head(wire))
  /\ wire' = Tail(wire)
  /\ UNCHANGED <<sent, link, pc, buf, nread, request, found, answer, called, conns>>

(* It closes its side, wherever it is, or is lost with what it sent.       *)
Leave ==
  /\ link = "up"
  /\ \/ link' = "ended" /\ UNCHANGED inbox
     \/ link' = "gone" /\ inbox' = <<>>
  /\ wire' = <<>>
  /\ UNCHANGED <<sent, pc, buf, nread, request, found, answer, called, conns>>

--------------------------------------------------------------------------------
(* The worker.  "finally" closes the socket; the buffer stays as it is.    *)
GiveUp ==
  /\ pc' = "idle"
  /\ UNCHANGED <<nread, request, found>>

(* One read, of what is there and fits.  The loop ends with a line's end   *)
(* among the new bytes, or with a full buffer.  Where a read ends inside a *)
(* word the next one brings the rest; if there is none, TextsRead cuts it. *)
ReadSome ==
  LET room == BufSize - nread
      r == IF Len(inbox) < room THEN Len(inbox) ELSE room
      new == nread + 1..nread + r
  IN  /\ pc = "read"
      /\ inbox # <<>>
      /\ buf' = [i \in 1..BufSize |-> IF i \in new THEN inbox[i - nread] ELSE buf[i]]
      /\ inbox' = SubSeq(inbox, r + 1, Len(inbox))
      /\ nread' = nread + r
      /\ pc' = IF (\E i \in new : buf'[i].kind = "line") \/ nread' = BufSize THEN "parse" ELSE "read"
      /\ UNCHANGED <<client, request, found, answer, called>>

NeverLate == link # "up"                                          (* mutant *)
MayBeLate == TRUE

(* The end of the stream, a lost client, or setSoTimeout's exception.      *)
ReadFails ==
  /\ pc = "read"
  /\ inbox = <<>>
  /\ MayBeLate
  /\ GiveUp
  /\ UNCHANGED <<client, inbox, buf, answer, called>>

WholeBuffer == buf                                                (* mutant *)
TextRead == SubSeq(buf, 1, nread)
TextsRead == {[TextRead EXCEPT ![nread] = w] : w \in Beginnings(buf[nread])}

(* The verb is none, or the parser throws: no answer.                      *)
Reject ==
  /\ pc = "parse"
  /\ \E text \in TextsRead : BadRequest(text)
  /\ GiveUp
  /\ UNCHANGED <<client, inbox, buf, answer, called>>

AnyVerb(verb) == TRUE                                             (* mutant *)
Supported(verb) == verb \in {"HEAD", "GET", "POST"}

Parse ==
  /\ pc = "parse"
  /\ \E text \in TextsRead : ~BadRequest(text) /\ request' = Parsed(text)
  /\ IF Supported(request'.verb)
     THEN pc' = "headers" /\ UNCHANGED answer
     ELSE pc' = "idle" /\ answer' = <<"badMethod">>
  /\ UNCHANGED <<client, inbox, buf, nread, found, called>>

(* The status is that of the file, whatever the servlet is going to say.   *)
PrintHeaders ==
  /\ pc = "headers"
  /\ found' \in BOOLEAN
  /\ answer' = <<"status">>
  /\ pc' = CASE request.verb = "HEAD" -> "close"
             [] request.verb = "GET" -> "get"
             [] OTHER -> "post"
  /\ UNCHANGED <<client, inbox, buf, nread, request, called>>

AsksLastSwipe == request.name = Said("kiosk", TRUE) /\ "idTag" \notin Keys(request.form)
                   /\ "type" \in Keys(request.form)

(* doGet: the kiosk's handler, if it is registered, answers its page's     *)
(* poll by itself and closes the stream.                                   *)
CallGet ==
  /\ pc = "get"
  /\ called' = request
  /\ \/ pc' = "file" /\ UNCHANGED answer
     \/ AsksLastSwipe /\ pc' = "close" /\ answer' = Append(answer, "lastSwipe")
  /\ UNCHANGED <<client, inbox, buf, nread, request, found>>

(* doPost answers every post.                                              *)
CallPost ==
  /\ pc = "post"
  /\ called' = request
  /\ answer' = Append(answer, "thanks")
  /\ pc' = "close"
  /\ UNCHANGED <<client, inbox, buf, nread, request, found>>

(* A servlet or an observer throws.                                        *)
CallFails ==
  /\ pc \in {"get", "post"}
  /\ called' = request
  /\ GiveUp
  /\ UNCHANGED <<client, inbox, buf, answer>>

(* send404, or sendFile, which reads the file into the same buffer; ...    *)
SendText ==
  /\ pc = "file"
  /\ answer' = Append(answer, "text")
  /\ buf' = IF found THEN [i \in 1..BufSize |-> FileText] ELSE buf
  /\ pc' = "close"
  /\ UNCHANGED <<client, inbox, nread, request, found, called>>

(* ... the file is gone or cannot be read to its end.                      *)
SendFails ==
  /\ pc = "file" /\ found
  /\ answer' = Append(answer, "blank")
  /\ buf' = [i \in 1..BufSize |-> FileText]
  /\ GiveUp
  /\ UNCHANGED <<client, inbox, called>>

(* The socket is closed; here alone the buffer is zeroed.                  *)
Close ==
  /\ pc = "close"
  /\ pc' = "idle"
  /\ buf' = [i \in 1..BufSize |-> Zero]
  /\ UNCHANGED <<client, inbox, nread, request, found, answer, called>>

Handle ==
  \/ ReadSome \/ ReadFails \/ Reject \/ Parse \/ PrintHeaders
  \/ CallGet \/ CallPost \/ CallFails \/ SendText \/ SendFails \/ Close

Next == Handle \/ Deliver \/ Leave \/ \E r \in Requests : Connect(r)

Spec == Init /\ [][Next]_vars

(* The JVM runs the worker, and a read that waits too long throws.  Nothing *)
(* else has a time limit: a servlet may wait for the text service, and a    *)
(* write for a client that does not read.  (What is written before that is  *)
(* less than a socket holds.)                                               *)
Unbounded == {"get", "post", "file"}
FairSpec == Spec /\ WF_vars(pc \notin Unbounded /\ Handle)

--------------------------------------------------------------------------------
(* The form that the first n of these pairs come to, the last of which may *)
(* have lost its end.                                                      *)
FormFrom(pairs, n, whole) ==
  {[key |-> pairs[i].key, value |-> Said(pairs[i].value, i < n \/ whole)] :
     i \in {j \in 1..n : \A m \in (j + 1)..n : pairs[m].key # pairs[j].key}}

(* A request the parser has made of what was read from this client: of the *)
(* first parts of its path and the first of its pairs.                     *)
SentPairs == IF sent.verb = "POST" THEN sent.body ELSE sent.query
LineFits == Len(RequestLine(sent)) <= BufSize
ReadWhole(r) == IF sent.verb = "POST" THEN nread = Len(Words(sent)) /\ ~r.partly ELSE LineFits

PathAsSent(r) ==
  \E k \in 1..Len(sent.parts), whole \in BOOLEAN :
    /\ LineFits => k = Len(sent.parts) /\ whole
    /\ r.name = IF k >= 2 THEN Said(sent.parts[2], k > 2 \/ whole) ELSE Said("null", TRUE)
    /\ \/ k = 1 /\ k = Len(sent.parts) /\ sent.query # <<>>
       \/ r.type = Said(sent.parts[1], k > 1 \/ whole)

FormAsSent(r) ==
  \/ r.form = NoPairs /\ (ReadWhole(r) => SentPairs = <<>>)
  \/ \E n \in 0..Len(SentPairs), whole \in BOOLEAN :
       /\ ReadWhole(r) => n = Len(SentPairs) /\ n > 0 /\ whole
       /\ r.form = FormFrom(SentPairs, n, whole)

(* What the servlet is called with is what this client has sent, as far as *)
(* it was read, however its bytes were cut up and whatever earlier clients *)
(* and files have left in the buffer: the last name or value may have lost *)
(* its end, of pairs with one key the last has stayed, and where nothing   *)
(* of a query or body was read there is the parser's own pair of blanks.   *)
(* Path and query are complete if the request line fits in the buffer.  Of *)
(* the body there is what came with the request line's end: all of it if   *)
(* all was read, otherwise its beginning, or nothing.                      *)
CalledAsSent ==
  called # NoRequest => called.verb = sent.verb /\ PathAsSent(called) /\ FormAsSent(called)

(* Whether the client sends nothing, or something that cannot be parsed, or *)
(* goes: each connection ends, unless a call of the servlet or a write      *)
(* never returns.                                                           *)
ExchangesEnd ==
  (pc # "idle") ~> (pc = "idle" \/ [](pc = "get") \/ [](pc = "post") \/ [](pc = "file"))

================================================================================
