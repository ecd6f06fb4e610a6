--------------------------- MODULE HttpExchangeProofs ---------------------------
(***************************************************************************)
(* What holds of the exchanges of a worker for any requests, any size of   *)
(* the buffer and any pieces in which the bytes arrive: the servlet is     *)
(* called with what was sent, as far as it was read.                        *)
(***************************************************************************)
EXTENDS HttpExchange, SequenceLemmas

AllWords == UNION {ToSet(Words(r)) : r \in Requests}

(* What was read, what has arrived and what is still to come are the words *)
(* of the request, in their order and without a gap.                       *)
Arriving ==
  pc \in {"read", "parse"} =>
    /\ sent \in Requests
    /\ nread + Len(inbox) + Len(wire) <= Len(Words(sent))
    /\ \A i \in 1..nread : buf[i] = Words(sent)[i]
    /\ \A i \in 1..Len(inbox) : inbox[i] = Words(sent)[nread + i]
    /\ \A i \in 1..Len(wire) : wire[i] = Words(sent)[nread + Len(inbox) + i]

(* The loop reads until the line has ended or the buffer is full.          *)
Enough ==
  /\ pc = "read" => nread < BufSize
  /\ pc = "parse" => nread >= 1 /\ (nread = BufSize \/ \E i \in 1..nread : buf[i].kind = "line")

AsSent(r) == r.verb = sent.verb /\ PathAsSent(r) /\ FormAsSent(r)

(* From the parser to the servlet the request is what was sent; until then *)
(* the servlet was not called, and afterwards nothing of it changes.       *)
Faithful ==
  /\ pc \in {"read", "parse"} => called = NoRequest
  /\ pc \in {"headers", "get", "file", "post"} => sent \in Requests /\ AsSent(request)
  /\ CalledAsSent

Answers ==
  /\ pc \in {"read", "parse", "headers"} => answer = <<>>
  /\ pc \in {"get", "file", "post"} => answer = <<"status">>

Streams == inbox \in Seq(AllWords) /\ wire \in Seq(AllWords)

Inv == TypeOK /\ Streams /\ Arriving /\ Enough /\ Faithful /\ Answers

--------------------------------------------------------------------------------
QueryLen(r) == Len(r.query)
BodyLen(r) == Len(r.body)

LineWordsIn(r, S) ==
  /\ Word("verb", r.verb) \in S
  /\ Word("path", r.parts) \in S
  /\ \A i \in 1..QueryLen(r) : Word("pair", r.query[i]) \in S
  /\ Word("line", NoRequest) \in S

(* Which word stands where in a request.                                   *)
LEMMA RequestLineAt ==
  ASSUME NEW r \in Requests, NEW S, LineWordsIn(r, S)
  PROVE  /\ QueryLen(r) \in Nat
         /\ RequestLine(r) \in Seq(S) /\ Len(RequestLine(r)) = QueryLen(r) + 3
         /\ RequestLine(r)[1] = Word("verb", r.verb)
         /\ RequestLine(r)[2] = Word("path", r.parts)
         /\ \A i \in 1..QueryLen(r) : RequestLine(r)[i + 2] = Word("pair", r.query[i])
         /\ RequestLine(r)[QueryLen(r) + 3] = Word("line", NoRequest)
<1> DEFINE q == QueryLen(r)
           start == <<Word("verb", r.verb), Word("path", r.parts)>>
           pairs == [i \in 1..q |-> Word("pair", r.query[i])]
           end == <<Word("line", NoRequest)>>
           both == start \o pairs
<1>1. q \in Nat
  BY RequestsAssumption, LenProperties DEF QueryLen
<1>2. pairs \in [1..q -> S]
  BY DEF LineWordsIn
<1>3. pairs \in Seq(S) /\ Len(pairs) = q
  BY <1>1, <1>2, SequenceOf
<1>4. /\ start \in Seq(S) /\ Len(start) = 2 /\ start[1] = Word("verb", r.verb) /\ start[2] = Word("path", r.parts)
      /\ end \in Seq(S) /\ Len(end) = 1 /\ end[1] = Word("line", NoRequest)
  BY DEF LineWordsIn
<1>5. \A i \in 1..q : pairs[i] = Word("pair", r.query[i])
  OBVIOUS
<1>6. RequestLine(r) = both \o end
  BY DEF RequestLine, QueryLen
<1> HIDE DEF q, start, pairs, end
<1>7. /\ both \in Seq(S) /\ Len(both) = 2 + q
      /\ \A i \in 1..2 : both[i] = start[i]
      /\ \A i \in 1..q : both[i + 2] = pairs[i]
  <2>0. start \in Seq(S) /\ pairs \in Seq(S)
    BY <1>3, <1>4
  <2>1. /\ both \in Seq(S) /\ Len(both) = Len(start) + Len(pairs)
        /\ \A i \in 1..Len(start) : both[i] = start[i]
        /\ \A i \in 1..Len(pairs) : both[i + Len(start)] = pairs[i]
    BY <2>0, ConcatAt
  <2> QED  BY <1>3, <1>4, <2>1
<1>8. \A i \in 1..q : i + 2 \in 1..(2 + q)
  BY <1>1
<1> HIDE DEF both
<1>9. /\ both \o end \in Seq(S) /\ Len(both \o end) = (2 + q) + 1
      /\ \A i \in 1..(2 + q) : (both \o end)[i] = both[i]
      /\ (both \o end)[1 + (2 + q)] = end[1]
  <2>0. both \in Seq(S) /\ end \in Seq(S)
    BY <1>4, <1>7
  <2>1. /\ both \o end \in Seq(S) /\ Len(both \o end) = Len(both) + Len(end)
        /\ \A i \in 1..Len(both) : (both \o end)[i] = both[i]
        /\ \A i \in 1..Len(end) : (both \o end)[i + Len(both)] = end[i]
    BY <2>0, ConcatAt
  <2>2. 1 \in 1..Len(end)
    BY <1>4
  <2> QED  BY <1>4, <1>7, <2>1, <2>2
<1>10. (both \o end)[1] = Word("verb", r.verb) /\ (both \o end)[2] = Word("path", r.parts)
  BY <1>1, <1>4, <1>7, <1>9
<1>11. \A i \in 1..q : (both \o end)[i + 2] = Word("pair", r.query[i])
  BY <1>5, <1>7, <1>8, <1>9
<1>12. (both \o end)[q + 3] = Word("line", NoRequest)
  <2>1. 1 + (2 + q) = q + 3
    BY <1>1
  <2> QED  BY <1>4, <1>9, <2>1
<1>13. Len(both \o end) = q + 3
  BY <1>1, <1>9
<1> QED  BY <1>1, <1>6, <1>9, <1>10, <1>11, <1>12, <1>13 DEF q

(* The same for a request with its header lines and its body.              *)
LEMMA WordsAt ==
  ASSUME NEW r \in Requests
  PROVE  /\ QueryLen(r) \in Nat /\ BodyLen(r) \in Nat
         /\ Len(RequestLine(r)) = QueryLen(r) + 3
         /\ Words(r) \in Seq(AllWords) /\ Len(Words(r)) = QueryLen(r) + 4 + BodyLen(r)
         /\ Words(r)[1] = Word("verb", r.verb)
         /\ Words(r)[2] = Word("path", r.parts)
         /\ \A i \in 1..QueryLen(r) : Words(r)[i + 2] = Word("pair", r.query[i])
         /\ Words(r)[QueryLen(r) + 3] = Word("line", NoRequest)
         /\ Words(r)[QueryLen(r) + 4] = Word("blank", NoRequest)
         /\ \A i \in 1..BodyLen(r) : Words(r)[i + (QueryLen(r) + 4)] = Word("field", r.body[i])
<1> DEFINE q == QueryLen(r)
           b == BodyLen(r)
           S == {Word("verb", r.verb), Word("path", r.parts), Word("line", NoRequest), Word("blank", NoRequest)}
                  \cup {Word("pair", r.query[i]) : i \in 1..q}
                  \cup {Word("field", r.body[i]) : i \in 1..b}
           head == RequestLine(r)
           blank == <<Word("blank", NoRequest)>>
           fields == [i \in 1..b |-> Word("field", r.body[i])]
           both == head \o blank
           all == both \o fields
<1>1. b \in Nat
  BY RequestsAssumption, LenProperties DEF BodyLen
<1>2. fields \in [1..b -> S] /\ \A i \in 1..b : fields[i] = Word("field", r.body[i])
  OBVIOUS
<1>3. fields \in Seq(S) /\ Len(fields) = b
  BY <1>1, <1>2, SequenceOf
<1>4. blank \in Seq(S) /\ Len(blank) = 1 /\ blank[1] = Word("blank", NoRequest)
  OBVIOUS
<1>5. LineWordsIn(r, S)
  BY DEF LineWordsIn
<1>6. Words(r) = all
  BY DEF Words, BodyLen
<1> HIDE DEF S, b, blank, fields
<1>7. /\ q \in Nat
      /\ head \in Seq(S) /\ Len(head) = q + 3
      /\ head[1] = Word("verb", r.verb)
      /\ head[2] = Word("path", r.parts)
      /\ \A i \in 1..q : head[i + 2] = Word("pair", r.query[i])
      /\ head[q + 3] = Word("line", NoRequest)
  BY <1>5, RequestLineAt
<1>8. Len(RequestLine(r)) = q + 3
  BY <1>7
<1> HIDE DEF head, q
<1>9. /\ both \in Seq(S) /\ Len(both) = (q + 3) + 1
      /\ \A i \in 1..(q + 3) : both[i] = head[i]
      /\ \A i \in 1..1 : both[i + (q + 3)] = blank[i]
  BY <1>4, <1>7, ConcatAt
<1>same. (q + 3) + 1 = q + 4 /\ 1 + (q + 3) = q + 4 /\ (q + 4) + b \in Nat /\ q + 4 + b = (q + 4) + b
  BY <1>1, <1>7
<1> HIDE DEF both
<1>10. /\ all \in Seq(S) /\ Len(all) = (q + 4) + b
       /\ \A i \in 1..(q + 4) : all[i] = both[i]
       /\ \A i \in 1..b : all[i + (q + 4)] = fields[i]
  BY <1>3, <1>9, <1>same, ConcatAt
<1> HIDE DEF all
<1>11. \A i \in 1..(q + 3) : i \in 1..(q + 4) /\ all[i] = head[i]
  <2> TAKE i \in 1..(q + 3)
  <2>1. i \in 1..(q + 4)
    BY <1>7
  <2> QED  BY <1>9, <1>10, <2>1
<1>12. all[1] = Word("verb", r.verb) /\ all[2] = Word("path", r.parts) /\ all[q + 3] = Word("line", NoRequest)
  <2>1. 1 \in 1..(q + 3) /\ 2 \in 1..(q + 3) /\ q + 3 \in 1..(q + 3)
    BY <1>7
  <2> QED  BY <1>7, <1>11, <2>1
<1>13. \A i \in 1..q : all[i + 2] = Word("pair", r.query[i])
  <2> TAKE i \in 1..q
  <2>1. i + 2 \in 1..(q + 3)
    BY <1>7
  <2> QED  BY <1>7, <1>11, <2>1
<1>14. all[q + 4] = Word("blank", NoRequest)
  <2>1. q + 4 \in 1..(q + 4)
    BY <1>7
  <2>2. both[1 + (q + 3)] = blank[1]
    BY <1>9
  <2> QED  BY <1>4, <1>10, <1>same, <2>1, <2>2
<1>15. \A i \in 1..b : all[i + (q + 4)] = Word("field", r.body[i])
  BY <1>2, <1>10
<1>16. all \in Seq(AllWords)
  <2>1. Len(all) \in Nat /\ DOMAIN all = 1..Len(all) /\ all \in [1..Len(all) -> S]
    BY <1>10, LenProperties
  <2>2. \A i \in 1..Len(all) : all[i] \in ToSet(all)
    BY <2>1 DEF ToSet
  <2>3. ToSet(all) \subseteq AllWords
    BY <1>6 DEF AllWords
  <2>4. all \in [1..Len(all) -> AllWords]
    BY <2>1, <2>2, <2>3
  <2> QED  BY <2>1, <2>4, SequenceOf
<1> QED  BY <1>1, <1>6, <1>7, <1>8, <1>10, <1>12, <1>13, <1>14, <1>15, <1>16, <1>same DEF q, b

(* What the words of a request are, place by place.                        *)
LEMMA WordKinds ==
  ASSUME NEW r \in Requests, NEW i \in 1..Len(Words(r))
  PROVE  LET w == Words(r)[i] IN
         \/ i = 1 /\ w.kind = "verb" /\ w.text = r.verb /\ w.cut = "no"
         \/ i = 2 /\ w.kind = "path" /\ w.text = r.parts /\ w.cut = "no"
         \/ \E j \in 1..QueryLen(r) : i = j + 2 /\ w.kind = "pair" /\ w.text = r.query[j] /\ w.cut = "no"
         \/ i = QueryLen(r) + 3 /\ w.kind = "line" /\ w.cut = "no"
         \/ i = QueryLen(r) + 4 /\ w.kind = "blank" /\ w.cut = "no"
         \/ \E j \in 1..BodyLen(r) :
              i = j + (QueryLen(r) + 4) /\ w.kind = "field" /\ w.text = r.body[j] /\ w.cut = "no"
<1> DEFINE q == QueryLen(r)
           b == BodyLen(r)
<1>1. /\ q \in Nat /\ b \in Nat
      /\ Len(Words(r)) = q + 4 + b
      /\ Words(r)[1] = Word("verb", r.verb)
      /\ Words(r)[2] = Word("path", r.parts)
      /\ \A j \in 1..q : Words(r)[j + 2] = Word("pair", r.query[j])
      /\ Words(r)[q + 3] = Word("line", NoRequest)
      /\ Words(r)[q + 4] = Word("blank", NoRequest)
      /\ \A j \in 1..b : Words(r)[j + (q + 4)] = Word("field", r.body[j])
  BY WordsAt
<1>2. \A k, x : Word(k, x).kind = k /\ Word(k, x).text = x /\ Word(k, x).cut = "no"
  BY DEF Word
<1> HIDE DEF q, b
<1>3. CASE i = 1
  BY <1>1, <1>2, <1>3
<1>4. CASE i = 2
  BY <1>1, <1>2, <1>4
<1>5. CASE i \in 3..(q + 2)
  <2>1. i - 2 \in 1..q /\ i = (i - 2) + 2
    BY <1>1, <1>5
  <2>2. PICK j \in 1..q : i = j + 2
    BY <2>1
  <2>3. Words(r)[i] = Word("pair", r.query[j])
    BY <1>1, <2>2
  <2> QED  BY <1>2, <2>2, <2>3 DEF q
<1>6. CASE i = q + 3
  BY <1>1, <1>2, <1>6 DEF q
<1>7. CASE i = q + 4
  BY <1>1, <1>2, <1>7 DEF q
<1>8. CASE i > q + 4
  <2>1. i - (q + 4) \in 1..b /\ i = (i - (q + 4)) + (q + 4)
    BY <1>1, <1>8
  <2>2. PICK j \in 1..b : i = j + (q + 4)
    BY <2>1
  <2>3. Words(r)[i] = Word("field", r.body[j])
    BY <1>1, <2>2
  <2> QED  BY <1>2, <2>2, <2>3 DEF q, b
<1>9. i \in Nat /\ i >= 1
  BY <1>1
<1> QED  BY <1>1, <1>3, <1>4, <1>5, <1>6, <1>7, <1>8, <1>9

(* What may be there of the last word of a text.                           *)
LEMMA BeginningKinds ==
  ASSUME NEW w, NEW v \in Beginnings(w), w.cut = "no"
  PROVE  /\ v.kind = w.kind
         /\ w.kind # "path" => v.text = w.text
         /\ w.kind = "path" =>
              \/ v.text = w.text /\ v.cut = "no"
              \/ \E k \in 0..Len(w.text) : v.text = SubSeq(w.text, 1, k) /\ v.cut \in {"value", "key"}
         /\ w.kind \in {"pair", "field"} => v.cut \in {"no", "value", "key", "mark"}
<1>1. CASE v = w
  BY <1>1
<1>2. CASE w.kind = "path" /\ v # w
  <2>1. PICK k \in 0..Len(w.text), c \in {"value", "key"} : v = CutAt(w, SubSeq(w.text, 1, k), c)
    BY <1>2 DEF Beginnings
  <2>2. v.kind = w.kind /\ v.text = SubSeq(w.text, 1, k) /\ v.cut = c
    BY <2>1 DEF CutAt
  <2> QED  BY <1>2, <2>2
<1>3. CASE w.kind \in {"pair", "field"} /\ v # w
  <2>1. PICK c \in {"value", "key", "mark"} : v = CutAt(w, w.text, c)
    BY <1>3 DEF Beginnings
  <2>2. v.kind = w.kind /\ v.text = w.text /\ v.cut = c
    BY <2>1 DEF CutAt
  <2> QED  BY <1>3, <2>2
<1>4. CASE w.kind \notin {"path", "pair", "field"}
  BY <1>1, <1>4 DEF Beginnings
<1> QED  BY <1>1, <1>2, <1>3, <1>4

(* The text is of the words that were sent and read, the last of them      *)
(* perhaps cut: nothing else is in it, whatever else is in the buffer.     *)
LEMMA TextIsRead ==
  ASSUME TypeOK, Streams, Arriving, Enough, pc = "parse", NEW text \in TextsRead
  PROVE  /\ sent \in Requests
         /\ nread \in 1..Len(Words(sent))
         /\ Len(text) = nread
         /\ \A i \in 1..nread : i # nread => text[i] = Words(sent)[i]
         /\ text[nread] \in Beginnings(Words(sent)[nread])
<1> DEFINE W == Words(sent)
<1>1. /\ sent \in Requests
      /\ \A i \in 1..nread : buf[i] = W[i]
  BY DEF Arriving
<1>2. W \in Seq(AllWords) /\ Len(W) \in Nat
  BY <1>1, WordsAt, LenProperties
<1>3. nread \in 1..Len(W)
  <2>1. nread \in Nat /\ BufSize \in Nat
    BY SizeAssumption DEF TypeOK
  <2>2. Len(inbox) \in Nat /\ Len(wire) \in Nat
    BY LenProperties DEF Streams
  <2>3. nread >= 1 /\ nread + Len(inbox) + Len(wire) <= Len(W)
    BY DEF Arriving, Enough
  <2> HIDE DEF W
  <2> QED  BY <1>2, <2>1, <2>2, <2>3
<1>4. \A i \in 1..nread : buf[i] \in AllWords
  BY <1>1, <1>2, <1>3, ElementOfSeq
<1>5. /\ TextRead \in Seq(AllWords) /\ Len(TextRead) = nread
      /\ \A i \in 1..nread : TextRead[i] = W[i]
  <2>1. nread \in Int /\ 1 \in Int /\ 1 <= nread
    BY <1>2, <1>3
  <2>2. /\ SubSeq(buf, 1, nread) \in Seq(AllWords)
        /\ Len(SubSeq(buf, 1, nread)) = nread - 1 + 1
        /\ \A i \in 1..(nread - 1 + 1) : SubSeq(buf, 1, nread)[i] = buf[1 + i - 1]
    BY <1>4, <2>1, SubSeqProperties
  <2>3. \A i \in 1..nread : 1 + i - 1 = i
    BY <2>1
  <2> QED  BY <1>1, <2>1, <2>2, <2>3 DEF TextRead
<1>6. PICK w \in Beginnings(buf[nread]) : text = [TextRead EXCEPT ![nread] = w]
  BY DEF TextsRead
<1>7. nread \in 1..nread /\ nread \in Nat
  BY <1>2, <1>3
<1>8. TextRead \in [1..nread -> AllWords]
  BY <1>5, LenProperties
<1>9. w \in Beginnings(W[nread])
  BY <1>1, <1>6, <1>7
<1> HIDE DEF W
<1>10. text \in [1..nread -> AllWords \cup {w}]
  BY <1>6, <1>8
<1>11. Len(text) = nread
  BY <1>7, <1>10, SequenceOf
<1>12. text[nread] = w
  BY <1>6, <1>7, <1>8
<1>13. \A i \in 1..nread : i # nread => text[i] = W[i]
  BY <1>5, <1>6, <1>8
<1> QED  BY <1>1, <1>3, <1>9, <1>11, <1>12, <1>13 DEF W

(* Where a text has the words of a kind: at their places in the request,   *)
(* as far as it was read.                                                  *)
LEMMA TextKinds ==
  ASSUME TypeOK, Streams, Arriving, Enough, pc = "parse", NEW text \in TextsRead
  PROVE  LET q == QueryLen(sent)
             b == BodyLen(sent)
         IN  /\ VerbOf(text) = sent.verb
             /\ WordsOf(text, "path") = {i \in 1..nread : i = 2}
             /\ WordsOf(text, "pair") = {j + 2 : j \in {k \in 1..q : k + 2 <= nread}}
             /\ WordsOf(text, "field") = {j + (q + 4) : j \in {k \in 1..b : k + (q + 4) <= nread}}
             /\ \A j \in 1..q : j + 2 <= nread => text[j + 2].text = sent.query[j]
             /\ \A j \in 1..b : j + (q + 4) <= nread => text[j + (q + 4)].text = sent.body[j]
             /\ \A i \in 1..nread : i # nread => text[i].cut = "no"
             /\ \A i \in WordsOf(text, "pair") \cup WordsOf(text, "field") :
                  text[i].cut \in {"no", "value", "key", "mark"}
<1> DEFINE q == QueryLen(sent)
           b == BodyLen(sent)
           W == Words(sent)
<1>1. /\ sent \in Requests /\ nread \in 1..Len(W) /\ Len(text) = nread
      /\ \A i \in 1..nread : i # nread => text[i] = W[i]
      /\ text[nread] \in Beginnings(W[nread])
  BY TextIsRead
<1>2. /\ W \in Seq(AllWords) /\ Len(W) \in Nat
      /\ q \in Nat /\ b \in Nat /\ Len(W) = q + 4 + b
  BY <1>1, WordsAt, LenProperties
<1>3. W[1] = Word("verb", sent.verb)
  BY <1>1, WordsAt
<1>3a. \A j \in 1..q : W[j + 2] = Word("pair", sent.query[j])
  BY <1>1, WordsAt
<1>3b. \A j \in 1..b : W[j + (q + 4)] = Word("field", sent.body[j])
  BY <1>1, WordsAt
<1>3c. W[2] = Word("path", sent.parts)
  BY <1>1, WordsAt
<1>3d. \A k, x : Word(k, x).kind = k /\ Word(k, x).text = x
  BY DEF Word
<1>4. \A kind : WordsOf(text, kind) = {i \in 1..nread : text[i].kind = kind}
  BY <1>1 DEF WordsOf
<1> HIDE DEF q, b, W
<1>5. ASSUME NEW i \in 1..nread
      PROVE \/ i = 1 /\ W[i].kind = "verb" /\ W[i].text = sent.verb /\ W[i].cut = "no"
            \/ i = 2 /\ W[i].kind = "path" /\ W[i].text = sent.parts /\ W[i].cut = "no"
            \/ \E j \in 1..q : i = j + 2 /\ W[i].kind = "pair" /\ W[i].text = sent.query[j] /\ W[i].cut = "no"
            \/ i = q + 3 /\ W[i].kind = "line" /\ W[i].cut = "no"
            \/ i = q + 4 /\ W[i].kind = "blank" /\ W[i].cut = "no"
            \/ \E j \in 1..b : i = j + (q + 4) /\ W[i].kind = "field" /\ W[i].text = sent.body[j] /\ W[i].cut = "no"
  <2>1. i \in 1..Len(W)
    BY <1>1, <1>2
  <2> QED  BY <1>1, <2>1, WordKinds DEF q, b, W
<1>6. \A i \in 1..nread : W[i].cut = "no"
  BY <1>5
<1>7. nread \in Nat /\ nread >= 1 /\ nread \in 1..nread
  BY <1>1, <1>2
<1>8. ASSUME NEW i \in 1..nread
      PROVE  /\ text[i].kind = W[i].kind
             /\ W[i].kind # "path" => text[i].text = W[i].text
             /\ i # nread => text[i].cut = "no"
             /\ W[i].kind \in {"pair", "field"} => text[i].cut \in {"no", "value", "key", "mark"}
  <2>1. CASE i # nread
    BY <1>1, <1>6, <2>1
  <2>2. CASE i = nread
    <3>1. text[i] \in Beginnings(W[i]) /\ W[i].cut = "no"
      BY <1>1, <1>6, <2>2
    <3> DEFINE w == W[i]
               v == text[i]
    <3>2. v \in Beginnings(w) /\ w.cut = "no"
      BY <3>1
    <3> HIDE DEF w, v
    <3>3. /\ v.kind = w.kind
          /\ w.kind # "path" => v.text = w.text
          /\ w.kind \in {"pair", "field"} => v.cut \in {"no", "value", "key", "mark"}
      BY <3>2, BeginningKinds
    <3> QED  BY <2>2, <3>3 DEF w, v
  <2> QED  BY <2>1, <2>2
<1>9. VerbOf(text) = sent.verb
  <2>1. 1 \in 1..nread /\ W[1].kind = "verb" /\ W[1].text = sent.verb
    BY <1>3, <1>7 DEF Word
  <2> QED  BY <1>8, <2>1 DEF VerbOf
<1>10. WordsOf(text, "path") = {i \in 1..nread : i = 2}
  <2>1. ASSUME NEW i \in 1..nread
        PROVE  text[i].kind = "path" <=> i = 2
    <3>1. W[2].kind = "path"
      BY <1>3c DEF Word
    <3>2. W[i].kind = "path" => i = 2
      BY <1>5
    <3> QED  BY <1>8, <3>1, <3>2
  <2> QED  BY <1>4, <2>1
<1>11. WordsOf(text, "pair") = {j + 2 : j \in {k \in 1..q : k + 2 <= nread}}
  <2>1. ASSUME NEW i \in WordsOf(text, "pair")
        PROVE  \E j \in 1..q : j + 2 <= nread /\ i = j + 2
    <3>1. i \in 1..nread /\ W[i].kind = "pair"
      BY <1>4, <1>8
    <3>2. PICK j \in 1..q : i = j + 2
      BY <1>5, <3>1
    <3>3. j + 2 <= nread
      BY <1>7, <3>1, <3>2
    <3> QED  BY <3>2, <3>3
  <2>2. ASSUME NEW j \in 1..q, j + 2 <= nread
        PROVE  j + 2 \in WordsOf(text, "pair")
    <3>1. j + 2 \in 1..nread
      BY <1>2, <1>7, <2>2
    <3>2. W[j + 2].kind = "pair"
      BY <1>3a, <1>3d
    <3> QED  BY <1>4, <1>8, <3>1, <3>2
  <2> QED  BY <2>1, <2>2
<1>12. WordsOf(text, "field") = {j + (q + 4) : j \in {k \in 1..b : k + (q + 4) <= nread}}
  <2>1. ASSUME NEW i \in WordsOf(text, "field")
        PROVE  \E j \in 1..b : j + (q + 4) <= nread /\ i = j + (q + 4)
    <3>1. i \in 1..nread /\ W[i].kind = "field"
      BY <1>4, <1>8
    <3>2. PICK j \in 1..b : i = j + (q + 4)
      BY <1>5, <3>1
    <3>3. j + (q + 4) <= nread
      BY <1>7, <3>1, <3>2
    <3> QED  BY <3>2, <3>3
  <2>2. ASSUME NEW j \in 1..b, j + (q + 4) <= nread
        PROVE  j + (q + 4) \in WordsOf(text, "field")
    <3>1. j + (q + 4) \in 1..nread
      BY <1>2, <1>7, <2>2
    <3>2. W[j + (q + 4)].kind = "field"
      BY <1>3b, <1>3d
    <3> QED  BY <1>4, <1>8, <3>1, <3>2
  <2> QED  BY <2>1, <2>2
<1>13. \A j \in 1..q : j + 2 <= nread => text[j + 2].text = sent.query[j]
  <2> SUFFICES ASSUME NEW j \in 1..q, j + 2 <= nread PROVE text[j + 2].text = sent.query[j]
    OBVIOUS
  <2>1. j + 2 \in 1..nread
    BY <1>2, <1>7
  <2>2. W[j + 2].kind = "pair" /\ W[j + 2].text = sent.query[j]
    BY <1>3a, <1>3d
  <2> QED  BY <1>8, <2>1, <2>2
<1>14. \A j \in 1..b : j + (q + 4) <= nread => text[j + (q + 4)].text = sent.body[j]
  <2> SUFFICES ASSUME NEW j \in 1..b, j + (q + 4) <= nread PROVE text[j + (q + 4)].text = sent.body[j]
    OBVIOUS
  <2>1. j + (q + 4) \in 1..nread
    BY <1>2, <1>7
  <2>2. W[j + (q + 4)].kind = "field" /\ W[j + (q + 4)].text = sent.body[j]
    BY <1>3b, <1>3d
  <2> QED  BY <1>8, <2>1, <2>2
<1>15. \A i \in 1..nread : i # nread => text[i].cut = "no"
  BY <1>8
<1>16. \A i \in WordsOf(text, "pair") \cup WordsOf(text, "field") :
         text[i].cut \in {"no", "value", "key", "mark"}
  BY <1>4, <1>8
<1> QED  BY <1>9, <1>10, <1>11, <1>12, <1>13, <1>14, <1>15, <1>16 DEF q, b, W

(* A line that fits in the buffer was read to its end.                     *)
LEMMA LineRead ==
  ASSUME TypeOK, Streams, Arriving, Enough, pc = "parse", LineFits
  PROVE  QueryLen(sent) + 3 <= nread
<1> DEFINE q == QueryLen(sent)
<1>1. sent \in Requests /\ \A i \in 1..nread : buf[i] = Words(sent)[i]
  BY DEF Arriving
<1>2. Len(RequestLine(sent)) = q + 3 /\ q \in Nat /\ BodyLen(sent) \in Nat
      /\ Len(Words(sent)) = q + 4 + BodyLen(sent)
  BY <1>1, WordsAt
<1>3. q + 3 <= BufSize
  BY <1>2 DEF LineFits
<1>4. nread \in Nat /\ nread <= Len(Words(sent))
  <2>1. nread \in Nat
    BY SizeAssumption DEF TypeOK
  <2>2. Len(inbox) \in Nat /\ Len(wire) \in Nat
    BY LenProperties DEF Streams
  <2>3. nread + Len(inbox) + Len(wire) <= Len(Words(sent))
    BY DEF Arriving
  <2> DEFINE l == Len(Words(sent))
  <2>4. l \in Nat
    BY <1>2
  <2> HIDE DEF l
  <2> QED  BY <2>1, <2>2, <2>3, <2>4 DEF l
<1> HIDE DEF q
<1>5. CASE nread = BufSize
  BY <1>3, <1>5 DEF q
<1>6. CASE \E i \in 1..nread : buf[i].kind = "line"
  <2>1. PICK i \in 1..nread : buf[i].kind = "line"
    BY <1>6
  <2>2. Words(sent)[i].kind = "line"
    BY <1>1, <2>1
  <2>3. i \in 1..Len(Words(sent))
    BY <1>2, <1>4
  <2>4. i = q + 3
    BY <1>1, <2>2, <2>3, WordKinds DEF q
  <2> QED  BY <1>2, <1>4, <2>4 DEF q
<1> QED  BY <1>5, <1>6 DEF Enough

--------------------------------------------------------------------------------
(* The pairs that are complete, or lack but the end of their value, make   *)
(* the form, whatever follows them.                                        *)
HasPairs(text, kind, s, o, n, whole) ==
  /\ {i \in WordsOf(text, kind) : text[i].cut \in {"no", "value"}} = {j + o : j \in 1..n}
  /\ \E i \in WordsOf(text, kind) : text[i].cut # "mark"
  /\ \A j \in 1..n : text[j + o].text = s[j] /\ (text[j + o].cut = "no" <=> (j < n \/ whole))

LEMMA FormOfPairs ==
  ASSUME NEW text, NEW kind, NEW s, NEW o \in Nat, NEW n \in Nat, NEW whole \in BOOLEAN,
         HasPairs(text, kind, s, o, n, whole)
  PROVE  FormOf(text, kind) = FormFrom(s, n, whole)
<1> DEFINE pairs == {i \in WordsOf(text, kind) : text[i].cut \in {"no", "value"}}
           stay == {i \in pairs : \A j \in pairs : j > i => text[j].text.key # text[i].text.key}
           last == {j \in 1..n : \A m \in (j + 1)..n : s[m].key # s[j].key}
           made(i) == [key |-> text[i].text.key, value |-> Said(text[i].text.value, text[i].cut = "no")]
           meant(j) == [key |-> s[j].key, value |-> Said(s[j].value, j < n \/ whole)]
<1>0. \E i \in WordsOf(text, kind) : text[i].cut # "mark"
  BY DEF HasPairs
<1>1. FormOf(text, kind) = {made(i) : i \in stay}
  BY <1>0 DEF FormOf
<1>2. FormFrom(s, n, whole) = {meant(j) : j \in last}
  BY DEF FormFrom
<1>3. pairs = {j + o : j \in 1..n}
  BY DEF HasPairs
<1>same. \A j \in 1..n : text[j + o].text = s[j]
  BY DEF HasPairs
<1>4. \A j \in 1..n : made(j + o) = meant(j)
  <2> SUFFICES ASSUME NEW j \in 1..n PROVE made(j + o) = meant(j)
    OBVIOUS
  <2>1. text[j + o].text = s[j]
    BY DEF HasPairs
  <2>2. (text[j + o].cut = "no") = (j < n \/ whole)
    BY DEF HasPairs
  <2> QED  BY <2>1, <2>2
<1> HIDE DEF pairs, made, meant
<1>5. \A j \in 1..n : j + o \in stay <=> j \in last
  <2> SUFFICES ASSUME NEW j \in 1..n PROVE j + o \in stay <=> j \in last
    OBVIOUS
  <2>1. ASSUME j + o \in stay PROVE j \in last
    <3> SUFFICES ASSUME NEW m \in (j + 1)..n PROVE s[m].key # s[j].key
      OBVIOUS
    <3>1. m \in 1..n /\ m + o > j + o
      OBVIOUS
    <3>2. m + o \in pairs
      BY <1>3, <3>1
    <3>3. text[m + o].text.key # text[j + o].text.key
      BY <2>1, <3>1, <3>2
    <3> QED  BY <1>same, <3>1, <3>3
  <2>2. ASSUME j \in last PROVE j + o \in stay
    <3>1. j + o \in pairs
      BY <1>3
    <3>2. ASSUME NEW i \in pairs, i > j + o
          PROVE  text[i].text.key # text[j + o].text.key
      <4>1. PICK m \in 1..n : i = m + o
        BY <1>3
      <4>2. m \in (j + 1)..n
        BY <3>2, <4>1
      <4>3. s[m].key # s[j].key
        BY <2>2, <4>2
      <4> QED  BY <1>same, <4>1, <4>3
    <3> QED  BY <3>1, <3>2
  <2> QED  BY <2>1, <2>2
<1>6. \A i \in stay : \E j \in 1..n : i = j + o
  BY <1>3
<1> HIDE DEF stay, last
<1>7. {made(i) : i \in stay} \subseteq {meant(j) : j \in last}
  BY <1>4, <1>5, <1>6
<1>8. last \subseteq 1..n
  BY DEF last
<1>9. {meant(j) : j \in last} \subseteq {made(i) : i \in stay}
  BY <1>4, <1>5, <1>8
<1> QED  BY <1>1, <1>2, <1>7, <1>9

(* The form of a text with the first m pairs of s, the last perhaps cut.   *)
ShowsPairs(text, kind, s, o, m) ==
  /\ WordsOf(text, kind) = {j + o : j \in 1..m}
  /\ \A j \in 1..m : text[j + o].text = s[j] /\ (j < m => text[j + o].cut = "no")
  /\ \A i \in WordsOf(text, kind) : text[i].cut \in {"no", "value", "key", "mark"}

LEMMA FormOfText ==
  ASSUME NEW text, NEW kind, NEW s, NEW o \in Nat, NEW m \in Nat,
         ShowsPairs(text, kind, s, o, m)
  PROVE  \/ /\ FormOf(text, kind) = NoPairs
            /\ m > 0 => text[m + o].cut # "no"
         \/ \E n \in 0..m, whole \in BOOLEAN :
              /\ FormOf(text, kind) = FormFrom(s, n, whole)
              /\ m > 0
              /\ text[m + o].cut = "no" => n = m /\ whole
<1> DEFINE cutoff == text[m + o].cut
           pairs == {i \in WordsOf(text, kind) : text[i].cut \in {"no", "value"}}
<1>0. /\ WordsOf(text, kind) = {j + o : j \in 1..m}
      /\ \A j \in 1..m : text[j + o].text = s[j] /\ (j < m => text[j + o].cut = "no")
      /\ \A i \in WordsOf(text, kind) : text[i].cut \in {"no", "value", "key", "mark"}
  BY DEF ShowsPairs
<1>1. CASE \A i \in WordsOf(text, kind) : text[i].cut = "mark"
  <2>1. FormOf(text, kind) = NoPairs
    BY <1>1 DEF FormOf
  <2>2. m > 0 => m + o \in WordsOf(text, kind)
    BY <1>0
  <2> QED  BY <1>1, <2>1, <2>2
<1>2. CASE \E i \in WordsOf(text, kind) : text[i].cut # "mark"
  <2>1. m > 0 /\ m \in 1..m /\ m \in 0..m
    BY <1>0, <1>2
  <2>2. cutoff \in {"no", "value", "key", "mark"}
    BY <1>0, <2>1
  <2>3. CASE cutoff \in {"no", "value"}
    <3>1. pairs = {j + o : j \in 1..m}
      <4>1. ASSUME NEW j \in 1..m PROVE text[j + o].cut \in {"no", "value"}
        <5>1. j < m \/ j = m
          OBVIOUS
        <5> QED  BY <1>0, <2>3, <5>1
      <4> QED  BY <1>0, <4>1
    <3> DEFINE whole == cutoff = "no"
    <3>2. whole \in BOOLEAN
      OBVIOUS
    <3>3. ASSUME NEW j \in 1..m
          PROVE  text[j + o].text = s[j] /\ (text[j + o].cut = "no" <=> (j < m \/ whole))
      <4>1. j < m \/ (j = m /\ ~(j < m))
        OBVIOUS
      <4> QED  BY <1>0, <4>1
    <3> HIDE DEF whole
    <3>4. HasPairs(text, kind, s, o, m, whole)
      BY <1>2, <3>1, <3>3 DEF HasPairs
    <3>5. FormOf(text, kind) = FormFrom(s, m, whole)
      BY <3>2, <3>4, FormOfPairs
    <3>6. text[m + o].cut = "no" => m = m /\ whole
      BY DEF whole
    <3> HIDE DEF cutoff
    <3> QED  BY <2>1, <3>2, <3>5, <3>6
  <2>4. CASE cutoff \in {"key", "mark"}
    <3> DEFINE n == m - 1
    <3>0. n \in Nat /\ n \in 0..m /\ TRUE \in BOOLEAN
      BY <2>1
    <3>1. pairs = {j + o : j \in 1..n}
      <4>1. ASSUME NEW j \in 1..m PROVE text[j + o].cut \in {"no", "value"} <=> j \in 1..n
        <5>1. CASE j < m
          BY <1>0, <2>1, <5>1
        <5>2. CASE j = m
          BY <2>1, <2>4, <5>2
        <5> QED  BY <5>1, <5>2
      <4>2. 1..n \subseteq 1..m
        OBVIOUS
      <4> QED  BY <1>0, <4>1, <4>2
    <3>2. ASSUME NEW j \in 1..n
          PROVE  text[j + o].text = s[j] /\ (text[j + o].cut = "no" <=> (j < n \/ TRUE))
      <4>1. j \in 1..m /\ j < m
        OBVIOUS
      <4> QED  BY <1>0, <4>1
    <3> HIDE DEF n
    <3>3. HasPairs(text, kind, s, o, n, TRUE)
      BY <1>2, <3>1, <3>2 DEF HasPairs
    <3>4. FormOf(text, kind) = FormFrom(s, n, TRUE)
      BY <3>0, <3>3, FormOfPairs
    <3>5. text[m + o].cut # "no"
      BY <2>4
    <3> QED  BY <2>1, <3>0, <3>4, <3>5
  <2> QED  BY <2>2, <2>3, <2>4
<1> QED  BY <1>1, <1>2

(* Every value of a form is known to be whole or not.                      *)
LEMMA FormFromTyped ==
  ASSUME NEW s, NEW n, NEW whole \in BOOLEAN, NEW pair \in FormFrom(s, n, whole)
  PROVE  pair.value.whole \in BOOLEAN
<1>1. PICK j \in 1..n : pair = [key |-> s[j].key, value |-> Said(s[j].value, j < n \/ whole)]
  BY DEF FormFrom
<1>2. pair.value = Said(s[j].value, j < n \/ whole)
  BY <1>1
<1>3. pair.value.whole = (j < n \/ whole)
  BY <1>2 DEF Said
<1>4. (j < n \/ whole) \in BOOLEAN
  OBVIOUS
<1> QED  BY <1>3, <1>4

--------------------------------------------------------------------------------
(* The path the parser finds is that of the request, or a beginning of it  *)
(* where the buffer was too small for the line.                            *)
ShowsParts(path, parts, k, whole) ==
  /\ Len(path.text) = k
  /\ \A i \in 1..k : path.text[i] = parts[i]
  /\ path.cut # "value" <=> whole

LEMMA PathIsSent ==
  ASSUME TypeOK, Streams, Arriving, Enough, pc = "parse",
         NEW text \in TextsRead, ~BadRequest(text)
  PROVE  PathAsSent(Parsed(text))
<1> DEFINE q == QueryLen(sent)
           parts == sent.parts
           path == PathOf(text)
           pairs == WordsOf(text, "pair")
           p == Parsed(text)
<1>1. /\ sent \in Requests /\ nread \in 1..Len(Words(sent))
      /\ \A i \in 1..nread : i # nread => text[i] = Words(sent)[i]
      /\ text[nread] \in Beginnings(Words(sent)[nread])
  BY TextIsRead
<1>2. q \in Nat /\ Words(sent)[2] = Word("path", parts)
      /\ Len(Words(sent)) \in Nat
  BY <1>1, WordsAt, LenProperties
<1>3. parts \in Seq(STRING) /\ sent.query \in Seq(Pairs) /\ Len(parts) \in Nat
  BY <1>1, RequestsAssumption, LenProperties
<1>4. nread \in Nat /\ 2 \in 1..nread /\ path = text[2]
  <2>1. WordsOf(text, "path") = {i \in 1..nread : i = 2}
    BY TextKinds
  <2>2. WordsOf(text, "path") # {} /\ nread \in Nat
    BY <1>1, <1>2 DEF BadRequest
  <2>3. 2 \in 1..nread /\ WordsOf(text, "path") = {2}
    BY <2>1, <2>2
  <2>4. (CHOOSE i \in WordsOf(text, "path") : TRUE) = 2
    BY <2>3
  <2> QED  BY <2>2, <2>3, <2>4 DEF PathOf
<1>5. pairs = {j + 2 : j \in {k \in 1..q : k + 2 <= nread}}
  BY TextKinds
<1>6. path.text # <<>>
  BY DEF BadRequest
<1>7. /\ p.type = IF Len(path.text) = 1 /\ pairs # {} THEN Said("withQuery", TRUE) ELSE Part(path, 1)
      /\ p.name = IF Len(path.text) >= 2 THEN Part(path, 2) ELSE Said("null", TRUE)
  BY DEF Parsed
<1>8. pairs # {} => nread > 2 /\ sent.query # <<>>
  <2> SUFFICES ASSUME pairs # {} PROVE nread > 2 /\ sent.query # <<>>
    OBVIOUS
  <2>1. PICK j \in 1..q : j + 2 <= nread
    BY <1>5
  <2>2. q # 0 /\ nread > 2
    BY <1>2, <1>4, <2>1
  <2> QED  BY <2>2 DEF QueryLen
<1>9. LineFits => nread > 2
  <2> SUFFICES ASSUME LineFits PROVE nread > 2
    OBVIOUS
  <2>1. q + 3 <= nread
    BY LineRead
  <2> QED  BY <1>2, <1>4, <2>1
<1> HIDE DEF q, pairs, p, path
<1>10. ASSUME NEW k \in 1..Len(parts), NEW whole \in BOOLEAN,
              LineFits => k = Len(parts) /\ whole,
              pairs # {} => k = Len(parts),
              ShowsParts(path, parts, k, whole)
       PROVE  PathAsSent(p)
  <2>0. Len(path.text) = k /\ (\A i \in 1..k : path.text[i] = parts[i]) /\ (path.cut # "value" <=> whole)
    BY <1>10 DEF ShowsParts
  <2>1. \A i \in 1..k : Part(path, i) = Said(parts[i], k > i \/ whole)
    <3> SUFFICES ASSUME NEW i \in 1..k PROVE Part(path, i) = Said(parts[i], k > i \/ whole)
      OBVIOUS
    <3>1. (i < Len(path.text) \/ path.cut # "value") = (k > i \/ whole)
      BY <2>0, <1>3
    <3>2. path.text[i] = parts[i]
      BY <2>0
    <3> QED  BY <3>1, <3>2 DEF Part
  <2>2. 1 \in 1..k /\ (k >= 2 => 2 \in 1..k)
    BY <1>3
  <2>3. p.name = IF k >= 2 THEN Said(parts[2], k > 2 \/ whole) ELSE Said("null", TRUE)
    BY <1>7, <2>0, <2>1, <2>2
  <2>4. p.type = IF k = 1 /\ pairs # {} THEN Said("withQuery", TRUE) ELSE Said(parts[1], k > 1 \/ whole)
    BY <1>7, <2>0, <2>1, <2>2
  <2>5. \/ k = 1 /\ k = Len(parts) /\ sent.query # <<>>
        \/ p.type = Said(parts[1], k > 1 \/ whole)
    BY <1>8, <1>10, <2>4
  <2> QED  BY <1>10, <2>3, <2>5 DEF PathAsSent
<1>11. CASE path.text = parts /\ path.cut = "no"
  <2>1. Len(parts) # 0
    BY <1>3, <1>6, <1>11, EmptySeq
  <2>2. Len(parts) \in 1..Len(parts) /\ TRUE \in BOOLEAN
    BY <1>3, <2>1
  <2> DEFINE k == Len(parts)
  <2>3. ShowsParts(path, parts, k, TRUE)
    BY <1>11 DEF ShowsParts
  <2>4. k \in 1..Len(parts) /\ TRUE \in BOOLEAN /\ k = Len(parts)
    BY <2>2
  <2> HIDE DEF k
  <2> QED  BY <1>10, <2>3, <2>4 DEF p
<1>12. CASE nread = 2 /\ \E k \in 0..Len(parts) : path.text = SubSeq(parts, 1, k) /\ path.cut \in {"value", "key"}
  <2>1. PICK k \in 0..Len(parts) : path.text = SubSeq(parts, 1, k) /\ path.cut \in {"value", "key"}
    BY <1>12
  <2>2. k \in Nat /\ 1 \in Int /\ k \in Int
    BY <1>3
  <2>3. \A i \in 1..k : parts[i] \in STRING
    BY <1>3, ElementOfSeq
  <2> DEFINE front == SubSeq(parts, 1, k)
  <2>4. /\ front \in Seq(STRING)
        /\ Len(front) = IF 1 <= k THEN k - 1 + 1 ELSE 0
        /\ \A i \in 1..(k - 1 + 1) : front[i] = parts[1 + i - 1]
    BY <2>2, <2>3, SubSeqProperties
  <2>5. path.text = front /\ front # <<>>
    BY <1>6, <2>1
  <2> HIDE DEF front
  <2>6. Len(front) = k /\ \A i \in 1..k : front[i] = parts[i]
    <3>1. \A i \in 1..k : 1 + i - 1 = i
      BY <2>2
    <3>2. k - 1 + 1 = k /\ (~(1 <= k) => k = 0)
      BY <2>2
    <3> QED  BY <2>4, <3>1, <3>2
  <2>7. k # 0
    BY <2>4, <2>5, <2>6, EmptySeq
  <2>8. k \in 1..Len(parts)
    BY <1>3, <2>7
  <2> DEFINE whole == path.cut # "value"
  <2>9. whole \in BOOLEAN /\ (path.cut # "value" <=> whole)
    OBVIOUS
  <2> HIDE DEF whole
  <2>10. ~LineFits /\ pairs = {}
    BY <1>4, <1>8, <1>9, <1>12
  <2>11. ShowsParts(path, parts, k, whole)
    BY <2>5, <2>6, <2>9 DEF ShowsParts
  <2> QED  BY <1>10, <2>8, <2>9, <2>10, <2>11 DEF p
<1>13. \/ path.text = parts /\ path.cut = "no"
       \/ nread = 2 /\ \E k \in 0..Len(parts) : path.text = SubSeq(parts, 1, k) /\ path.cut \in {"value", "key"}
  <2> DEFINE w == Words(sent)[2]
  <2>0. w.kind = "path" /\ w.text = parts /\ w.cut = "no"
    BY <1>2 DEF Word
  <2>1. CASE nread # 2
    <3>1. path = w
      BY <1>1, <1>4, <2>1
    <3> QED  BY <2>0, <3>1
  <2>2. CASE nread = 2
    <3>1. path \in Beginnings(w)
      BY <1>1, <1>4, <2>2
    <3> HIDE DEF w
    <3>2. \/ path.text = w.text /\ path.cut = "no"
          \/ \E k \in 0..Len(w.text) : path.text = SubSeq(w.text, 1, k) /\ path.cut \in {"value", "key"}
      BY <2>0, <3>1, BeginningKinds
    <3> QED  BY <2>0, <2>2, <3>2
  <2> QED  BY <2>1, <2>2
<1> QED  BY <1>11, <1>12, <1>13 DEF p

(* What the parser makes of the words that were read is what was sent.     *)
LEMMA ParsedIsSent ==
  ASSUME TypeOK, Streams, Arriving, Enough, pc = "parse",
         NEW text \in TextsRead, ~BadRequest(text)
  PROVE  /\ sent \in Requests
         /\ AsSent(Parsed(text))
         /\ \A pair \in Parsed(text).form : pair.value.whole \in BOOLEAN
<1> DEFINE q == QueryLen(sent)
           b == BodyLen(sent)
           p == Parsed(text)
           kind == IF sent.verb = "POST" THEN "field" ELSE "pair"
           s == SentPairs
           o == IF sent.verb = "POST" THEN q + 4 ELSE 2
           m == IF sent.verb = "POST" THEN (IF nread >= q + 4 THEN nread - (q + 4) ELSE 0)
                ELSE IF nread >= q + 2 THEN q ELSE IF nread >= 2 THEN nread - 2 ELSE 0
<1>1. /\ sent \in Requests /\ nread \in 1..Len(Words(sent)) /\ Len(text) = nread
  BY TextIsRead
<1>2. /\ q \in Nat /\ b \in Nat /\ Len(Words(sent)) = q + 4 + b /\ q = Len(sent.query) /\ b = Len(sent.body)
  <2>1. q = Len(sent.query) /\ b = Len(sent.body)
    BY DEF QueryLen, BodyLen
  <2> QED  BY <1>1, <2>1, WordsAt
<1>3. /\ VerbOf(text) = sent.verb
      /\ WordsOf(text, "pair") = {j + 2 : j \in {k \in 1..q : k + 2 <= nread}}
      /\ WordsOf(text, "field") = {j + (q + 4) : j \in {k \in 1..b : k + (q + 4) <= nread}}
  BY TextKinds
<1>4. /\ \A j \in 1..q : j + 2 <= nread => text[j + 2].text = sent.query[j]
      /\ \A j \in 1..b : j + (q + 4) <= nread => text[j + (q + 4)].text = sent.body[j]
  BY TextKinds
<1>5. /\ \A i \in 1..nread : i # nread => text[i].cut = "no"
      /\ \A i \in WordsOf(text, "pair") \cup WordsOf(text, "field") :
           text[i].cut \in {"no", "value", "key", "mark"}
  BY TextKinds
<1>6. /\ p.verb = sent.verb /\ p.form = FormOf(text, kind)
      /\ p.partly <=> text[nread].cut # "no"
  BY <1>1, <1>3 DEF Parsed
<1>7. s \in Seq(Pairs) /\ Len(s) \in Nat
  BY <1>1, RequestsAssumption, LenProperties DEF SentPairs
<1>8. LineFits => q + 3 <= nread
  BY LineRead
<1>9. PathAsSent(p)
  BY PathIsSent
<1>nat. q \in Nat /\ b \in Nat
  BY <1>2
<1> HIDE DEF q, b, p
<1>10. nread \in Nat /\ nread >= 1 /\ nread <= q + 4 + b
  <2>1. nread \in 1..(q + 4 + b)
    BY <1>1, <1>2
  <2> QED  BY <1>nat, <2>1
<1>11. /\ o \in Nat /\ m \in Nat /\ m \in 0..Len(s) /\ (m > 0 => m + o <= nread)
  <2>1. CASE sent.verb = "POST"
    <3>1. o \in Nat /\ m \in 0..b /\ (m > 0 => m + o <= nread)
      BY <1>nat, <1>10, <2>1
    <3>2. Len(s) = b
      BY <1>2, <2>1 DEF SentPairs
    <3> HIDE DEF o, m, s
    <3> QED  BY <1>nat, <3>1, <3>2
  <2>2. CASE sent.verb # "POST"
    <3>1. o \in Nat /\ m \in 0..q /\ (m > 0 => m + o <= nread)
      BY <1>nat, <1>10, <2>2
    <3>2. Len(s) = q
      BY <1>2, <2>2 DEF SentPairs
    <3> HIDE DEF o, m, s
    <3> QED  BY <1>nat, <3>1, <3>2
  <2> QED  BY <2>1, <2>2
<1>12. WordsOf(text, kind) = {j + o : j \in 1..m}
  <2>1. CASE sent.verb = "POST"
    <3>1. {k \in 1..b : k + (q + 4) <= nread} = 1..m
      BY <1>nat, <1>10, <2>1
    <3> QED  BY <1>3, <2>1, <3>1
  <2>2. CASE sent.verb # "POST"
    <3>1. {k \in 1..q : k + 2 <= nread} = 1..m
      BY <1>nat, <1>10, <2>2
    <3> QED  BY <1>3, <2>2, <3>1
  <2> QED  BY <2>1, <2>2
<1>13. \A i \in WordsOf(text, kind) : text[i].cut \in {"no", "value", "key", "mark"}
  BY <1>5
<1>14. \A j \in 1..m : text[j + o].text = s[j]
  <2> SUFFICES ASSUME NEW j \in 1..m PROVE text[j + o].text = s[j]
    OBVIOUS
  <2>1. CASE sent.verb = "POST"
    <3>1. j \in 1..b /\ j + (q + 4) <= nread
      BY <1>nat, <1>10, <2>1
    <3> QED  BY <1>4, <2>1, <3>1 DEF SentPairs
  <2>2. CASE sent.verb # "POST"
    <3>1. j \in 1..q /\ j + 2 <= nread
      BY <1>nat, <1>10, <2>2
    <3> QED  BY <1>4, <2>2, <3>1 DEF SentPairs
  <2> QED  BY <2>1, <2>2
(* If all was read, the last pair is there and whole.                      *)
<1>15. ReadWhole(p) => m = Len(s) /\ (m > 0 => text[m + o].cut = "no")
  <2> SUFFICES ASSUME ReadWhole(p) PROVE m = Len(s) /\ (m > 0 => text[m + o].cut = "no")
    OBVIOUS
  <2>1. CASE sent.verb = "POST"
    <3>1. nread = q + 4 + b /\ ~p.partly
      BY <1>2, <2>1 DEF ReadWhole
    <3>2. m = b /\ m + o = nread
      BY <1>nat, <1>10, <2>1, <3>1
    <3>3. text[nread].cut = "no"
      BY <1>6, <3>1
    <3> QED  BY <1>2, <2>1, <3>2, <3>3 DEF SentPairs
  <2>2. CASE sent.verb # "POST"
    <3>1. q + 3 <= nread
      BY <1>8, <2>2 DEF ReadWhole
    <3>2. m = q
      BY <1>nat, <1>10, <2>2, <3>1
    <3>3. m + o \in 1..nread /\ m + o # nread
      BY <1>nat, <1>10, <2>2, <3>1, <3>2
    <3>4. text[m + o].cut = "no"
      BY <1>5, <3>3
    <3> QED  BY <1>2, <2>2, <3>2, <3>4 DEF SentPairs
  <2> QED  BY <2>1, <2>2
<1> HIDE DEF kind, o, m
<1>16. \A j \in 1..m : j < m => text[j + o].cut = "no"
  <2> SUFFICES ASSUME NEW j \in 1..m, j < m PROVE text[j + o].cut = "no"
    OBVIOUS
  <2>1. j + o \in 1..nread /\ j + o # nread
    BY <1>10, <1>11
  <2> QED  BY <1>5, <2>1
<1> HIDE DEF s
<1>17. \/ p.form = NoPairs /\ (m > 0 => text[m + o].cut # "no")
       \/ \E n \in 0..m, whole \in BOOLEAN :
            p.form = FormFrom(s, n, whole) /\ m > 0 /\ (text[m + o].cut = "no" => n = m /\ whole)
  <2>1. o \in Nat /\ m \in Nat
    BY <1>11
  <2>2. \A j \in 1..m : text[j + o].text = s[j] /\ (j < m => text[j + o].cut = "no")
    BY <1>14, <1>16
  <2>4. ShowsPairs(text, kind, s, o, m)
    BY <1>12, <1>13, <2>2 DEF ShowsPairs
  <2>3. \/ FormOf(text, kind) = NoPairs /\ (m > 0 => text[m + o].cut # "no")
        \/ \E n \in 0..m, whole \in BOOLEAN :
             FormOf(text, kind) = FormFrom(s, n, whole) /\ m > 0 /\ (text[m + o].cut = "no" => n = m /\ whole)
    BY <2>1, <2>4, FormOfText
  <2> QED  BY <1>6, <2>3
<1>18. CASE p.form = NoPairs /\ (m > 0 => text[m + o].cut # "no")
  <2>1. ReadWhole(p) => s = <<>>
    <3> SUFFICES ASSUME ReadWhole(p) PROVE s = <<>>
      OBVIOUS
    <3>1. Len(s) = 0
      BY <1>11, <1>15, <1>18
    <3> QED  BY <1>7, <3>1, EmptySeq
  <2>2. FormAsSent(p)
    BY <1>18, <2>1 DEF FormAsSent, s
  <2>3. \A pair \in p.form : pair.value.whole \in BOOLEAN
    <3> SUFFICES ASSUME NEW pair \in p.form PROVE pair.value.whole \in BOOLEAN
      OBVIOUS
    <3>1. pair \in NoPairs
      BY <1>18
    <3>2. pair = [key |-> "blank", value |-> Said("blank", TRUE)]
      BY <3>1 DEF NoPairs
    <3>3. pair.key = "blank" /\ pair.value = Said("blank", TRUE)
      BY <3>2
    <3> QED  BY <3>3 DEF Said
  <2> QED  BY <1>1, <1>6, <1>9, <2>2, <2>3 DEF AsSent, p
<1>19. CASE \E n \in 0..m, whole \in BOOLEAN :
              p.form = FormFrom(s, n, whole) /\ m > 0 /\ (text[m + o].cut = "no" => n = m /\ whole)
  <2>1. PICK n \in 0..m, whole \in BOOLEAN :
          p.form = FormFrom(s, n, whole) /\ m > 0 /\ (text[m + o].cut = "no" => n = m /\ whole)
    BY <1>19
  <2>2. n \in 0..Len(s)
    BY <1>7, <1>11
  <2>3. ReadWhole(p) => n = Len(s) /\ n > 0 /\ whole
    BY <1>15, <2>1
  <2>4. FormAsSent(p)
    BY <2>1, <2>2, <2>3 DEF FormAsSent, s
  <2>5. \A pair \in p.form : pair.value.whole \in BOOLEAN
    BY <2>1, FormFromTyped
  <2> QED  BY <1>1, <1>6, <1>9, <2>4, <2>5 DEF AsSent, p
<1> QED  BY <1>17, <1>18, <1>19


--------------------------------------------------------------------------------
(* The invariant is inductive: action by action.                           *)
LEMMA InitInv == Init => Inv
<1> SUFFICES ASSUME Init PROVE Inv
  OBVIOUS
<1>1. TypeOK
  <2>1. found \in BOOLEAN
    BY DEF Init
  <2>2. DOMAIN buf = 1..BufSize
    BY DEF Init
  <2>3. nread \in 0..BufSize /\ conns \in 0..MaxConns
    BY SizeAssumption DEF Init
  <2> QED  BY <2>1, <2>2, <2>3 DEF Init, TypeOK
<1>2. Streams /\ Arriving /\ Enough /\ Faithful /\ Answers
  BY DEF Init, Streams, Arriving, Enough, Faithful, Answers, CalledAsSent
<1> QED  BY <1>1, <1>2 DEF Inv

(* A request stays as sent while the client, the buffer's mark and the     *)
(* request stay the same.                                                  *)
LEMMA SameRequest ==
  ASSUME UNCHANGED <<sent, nread, request>>, AsSent(request)
  PROVE  AsSent(request)'
BY DEF AsSent, PathAsSent, FormAsSent, SentPairs, ReadWhole, LineFits

(* A step that calls no servlet and reads nothing leaves CalledAsSent as   *)
(* it was, ...                                                             *)
LEMMA SameCall ==
  ASSUME UNCHANGED <<sent, nread, called>>, CalledAsSent
  PROVE  CalledAsSent'
BY DEF CalledAsSent, PathAsSent, FormAsSent, SentPairs, ReadWhole, LineFits

(* ... and a call with a request that is as it was sent establishes it.    *)
LEMMA CallMade ==
  ASSUME UNCHANGED <<sent, nread>>, called' = request, AsSent(request)
  PROVE  CalledAsSent'
BY DEF AsSent, CalledAsSent, PathAsSent, FormAsSent, SentPairs, ReadWhole, LineFits

(* A new connection: its words are all on the wire, the buffer is what     *)
(* the last connection left.                                               *)
LEMMA ConnectInv ==
  ASSUME Inv, NEW r \in Requests, Connect(r)
  PROVE  Inv'
<1> DEFINE W == Words(r)
<1>1. W \in Seq(AllWords) /\ Len(W) \in Nat
  BY WordsAt, LenProperties
<1> HIDE DEF W
<1>2. /\ pc' = "read" /\ nread' = 0 /\ inbox' = <<>> /\ wire' = W /\ sent' = r /\ answer' = <<>>
      /\ called' = NoRequest /\ link' = "up" /\ conns' = conns + 1 /\ conns < MaxConns
      /\ UNCHANGED <<buf, found>>
  BY DEF Connect, W
<1>3. TypeOK'
  BY <1>2, SizeAssumption DEF Inv, TypeOK
<1>4. Streams'
  BY <1>1, <1>2 DEF Streams
<1>5. Arriving'
  <2>1. Words(sent)' = W
    BY <1>2 DEF W
  <2> QED  BY <1>1, <1>2, <2>1 DEF Arriving
<1>6. Enough'
  BY <1>2, SizeAssumption DEF Enough
<1>7. Faithful' /\ Answers'
  BY <1>2 DEF Faithful, Answers, CalledAsSent
<1> QED  BY <1>3, <1>4, <1>5, <1>6, <1>7 DEF Inv

(* What is delivered moves from the front of the wire to the inbox's end.  *)
LEMMA DeliverInv ==
  ASSUME Inv, Deliver
  PROVE  Inv'
<1> DEFINE W == Words(sent)
           l == Len(inbox)
           m == Len(wire)
<1>1. /\ inbox' = Append(inbox, Head(wire)) /\ wire' = Tail(wire) /\ wire # <<>>
      /\ UNCHANGED <<sent, link, pc, buf, nread, request, found, answer, called, conns>>
  BY DEF Deliver
<1>2. inbox \in Seq(AllWords) /\ wire \in Seq(AllWords) /\ l \in Nat /\ m \in Nat /\ m # 0
  BY <1>1, LenProperties, EmptySeq DEF Inv, Streams
<1>3. /\ Head(wire) \in AllWords /\ Head(wire) = wire[1]
      /\ wire' \in Seq(AllWords) /\ Len(wire') = m - 1
      /\ \A i \in 1..(m - 1) : wire'[i] = wire[i + 1]
  <2>1. wire \in Seq(AllWords) /\ wire # <<>>
    BY <1>1, <1>2
  <2>2. /\ Head(wire) \in AllWords /\ Tail(wire) \in Seq(AllWords) /\ Len(Tail(wire)) = m - 1
        /\ \A i \in 1..(m - 1) : Tail(wire)[i] = wire[i + 1]
    BY <2>1, HeadTailProperties
  <2> QED  BY <1>1, <2>2
<1>4. /\ inbox' \in Seq(AllWords) /\ Len(inbox') = l + 1
      /\ \A i \in 1..l : inbox'[i] = inbox[i]
      /\ inbox'[l + 1] = wire[1]
  BY <1>1, <1>2, <1>3, AppendProperties
<1> HIDE DEF W, l, m
<1>5. TypeOK'
  BY <1>1 DEF Inv, TypeOK
<1>6. Streams'
  BY <1>3, <1>4 DEF Streams
<1>7. Arriving'
  <2> SUFFICES ASSUME pc \in {"read", "parse"}
               PROVE  /\ sent \in Requests
                      /\ nread + Len(inbox') + Len(wire') <= Len(W)
                      /\ \A i \in 1..nread : buf[i] = W[i]
                      /\ \A i \in 1..Len(inbox') : inbox'[i] = W[nread + i]
                      /\ \A i \in 1..Len(wire') : wire'[i] = W[nread + Len(inbox') + i]
    BY <1>1 DEF Arriving, W
  <2>1. /\ sent \in Requests
        /\ nread + l + m <= Len(W)
        /\ \A i \in 1..nread : buf[i] = W[i]
        /\ \A i \in 1..l : inbox[i] = W[nread + i]
        /\ \A i \in 1..m : wire[i] = W[nread + l + i]
    BY DEF Inv, Arriving, W, l, m
  <2>2. nread \in Nat
    BY SizeAssumption DEF Inv, TypeOK
  <2>3. nread + Len(inbox') + Len(wire') = nread + l + m
    BY <1>2, <1>3, <1>4, <2>2
  <2>4. ASSUME NEW i \in 1..(l + 1)
        PROVE  inbox'[i] = W[nread + i]
    <3>1. CASE i \in 1..l
      BY <1>4, <2>1, <3>1
    <3>2. CASE i = l + 1
      <4>1. wire[1] = W[nread + l + 1]
        BY <1>2, <2>1
      <4>2. nread + l + 1 = nread + i
        BY <1>2, <2>2, <3>2
      <4> QED  BY <1>4, <3>2, <4>1, <4>2
    <3> QED  BY <1>2, <3>1, <3>2
  <2>5. ASSUME NEW i \in 1..(m - 1)
        PROVE  wire'[i] = W[nread + (l + 1) + i]
    <3>1. i + 1 \in 1..m /\ nread + l + (i + 1) = nread + (l + 1) + i
      BY <1>2, <2>2
    <3>2. wire[i + 1] = W[nread + l + (i + 1)]
      BY <2>1, <3>1
    <3> QED  BY <1>3, <3>1, <3>2
  <2> QED  BY <1>3, <1>4, <2>1, <2>3, <2>4, <2>5
<1>8. Enough' /\ Answers'
  BY <1>1 DEF Inv, Enough, Answers
<1>9. Faithful'
  BY <1>1, SameRequest, SameCall DEF Inv, Faithful
<1> QED  BY <1>5, <1>6, <1>7, <1>8, <1>9 DEF Inv

(* A client that is gone leaves what has arrived, or nothing.              *)
LEMMA LeaveInv ==
  ASSUME Inv, Leave
  PROVE  Inv'
<1>1. /\ link' \in {"ended", "gone"}
      /\ wire' = <<>>
      /\ inbox' = inbox \/ inbox' = <<>>
      /\ UNCHANGED <<sent, pc, buf, nread, request, found, answer, called, conns>>
  BY DEF Leave
<1>2. TypeOK'
  BY <1>1 DEF Inv, TypeOK
<1>3. Streams'
  <2>1. <<>> \in Seq(AllWords) /\ inbox \in Seq(AllWords)
    BY EmptySeq DEF Inv, Streams
  <2> QED  BY <1>1, <2>1 DEF Streams
<1>4. Arriving'
  <2> SUFFICES ASSUME pc \in {"read", "parse"}
               PROVE  /\ nread + Len(inbox') + Len(wire') <= Len(Words(sent))
                      /\ \A i \in 1..Len(inbox') : inbox'[i] = Words(sent)[nread + i]
                      /\ \A i \in 1..Len(wire') : wire'[i] = Words(sent)[nread + Len(inbox') + i]
    BY <1>1 DEF Inv, Arriving
  <2>1. /\ sent \in Requests
        /\ nread + Len(inbox) + Len(wire) <= Len(Words(sent))
        /\ \A i \in 1..Len(inbox) : inbox[i] = Words(sent)[nread + i]
    BY DEF Inv, Arriving
  <2>2. nread \in Nat
    BY SizeAssumption DEF Inv, TypeOK
  <2>3. Len(inbox) \in Nat /\ Len(wire) \in Nat
    BY LenProperties DEF Inv, Streams
  <2>4. Len(Words(sent)) \in Nat
    BY <2>1, WordsAt, LenProperties
  <2>5. Len(wire') = 0 /\ (Len(inbox') = Len(inbox) \/ Len(inbox') = 0)
    BY <1>1
  <2> QED  BY <1>1, <2>1, <2>2, <2>3, <2>4, <2>5
<1>5. Enough' /\ Answers'
  BY <1>1 DEF Inv, Enough, Answers
<1>6. Faithful'
  BY <1>1, SameRequest, SameCall DEF Inv, Faithful
<1> QED  BY <1>2, <1>3, <1>4, <1>5, <1>6 DEF Inv

(* What is read moves from the front of the inbox behind what was read     *)
(* before: the loop leaves no gap and overtakes nothing.                   *)
LEMMA ReadSomeInv ==
  ASSUME Inv, ReadSome
  PROVE  Inv'
<1> DEFINE W == Words(sent)
           l == Len(inbox)
           m == Len(wire)
           room == BufSize - nread
           r == IF l < room THEN l ELSE room
           new == nread + 1..nread + r
<1>1. /\ pc = "read" /\ inbox # <<>>
      /\ buf' = [i \in 1..BufSize |-> IF i \in new THEN inbox[i - nread] ELSE buf[i]]
      /\ inbox' = SubSeq(inbox, r + 1, l)
      /\ nread' = nread + r
      /\ pc' = IF (\E i \in new : buf'[i].kind = "line") \/ nread' = BufSize THEN "parse" ELSE "read"
      /\ UNCHANGED <<sent, wire, link, conns, request, found, answer, called>>
  BY DEF ReadSome, client
<1>2. /\ nread \in Nat /\ BufSize \in Nat /\ nread < BufSize
  BY <1>1, SizeAssumption DEF Inv, TypeOK, Enough
<1>3. inbox \in Seq(AllWords) /\ l \in Nat /\ m \in Nat /\ l # 0
  BY <1>1, LenProperties, EmptySeq DEF Inv, Streams
<1> HIDE DEF l, m
<1>4. r \in 1..l /\ nread + r <= BufSize
  BY <1>2, <1>3
<1>5. new = (nread + 1)..(nread + r)
  OBVIOUS
<1> HIDE DEF r, room
<1>6. /\ inbox' \in Seq(AllWords) /\ Len(inbox') = l - r
      /\ \A i \in 1..(l - r) : inbox'[i] = inbox[r + i]
  <2>1. r + 1 \in Int /\ l \in Int
    BY <1>3, <1>4
  <2>2. \A i \in (r + 1)..l : inbox[i] \in AllWords
    <3> SUFFICES ASSUME NEW i \in (r + 1)..l PROVE inbox[i] \in AllWords
      OBVIOUS
    <3>1. i \in 1..Len(inbox)
      BY <1>3, <1>4 DEF l
    <3> QED  BY <1>3, <3>1, ElementOfSeq
  <2> DEFINE rest == SubSeq(inbox, r + 1, l)
  <2>3. /\ rest \in Seq(AllWords)
        /\ Len(rest) = IF r + 1 <= l THEN l - (r + 1) + 1 ELSE 0
        /\ \A i \in 1..(l - (r + 1) + 1) : rest[i] = inbox[(r + 1) + i - 1]
    BY <2>1, <2>2, SubSeqProperties
  <2>4. (IF r + 1 <= l THEN l - (r + 1) + 1 ELSE 0) = l - r /\ l - (r + 1) + 1 = l - r
    BY <1>3, <1>4
  <2>5. \A i \in 1..(l - r) : (r + 1) + i - 1 = r + i
    BY <1>3, <1>4
  <2> HIDE DEF rest
  <2>6. /\ rest \in Seq(AllWords) /\ Len(rest) = l - r
        /\ \A i \in 1..(l - r) : rest[i] = inbox[r + i]
    BY <2>3, <2>4, <2>5
  <2> QED  BY <1>1, <2>6 DEF rest
<1>7. /\ sent \in Requests
      /\ nread + l + m <= Len(W)
      /\ \A i \in 1..nread : buf[i] = W[i]
      /\ \A i \in 1..l : inbox[i] = W[nread + i]
      /\ \A i \in 1..m : wire[i] = W[nread + l + i]
  BY <1>1 DEF Inv, Arriving, W, l, m
<1> HIDE DEF W, new
<1>8. \A i \in 1..(nread + r) : buf'[i] = W[i]
  <2> SUFFICES ASSUME NEW i \in 1..(nread + r) PROVE buf'[i] = W[i]
    OBVIOUS
  <2>1. i \in 1..BufSize
    BY <1>2, <1>3, <1>4
  <2>2. buf'[i] = IF i \in new THEN inbox[i - nread] ELSE buf[i]
    BY <1>1, <2>1
  <2>3. CASE i \in new
    <3>1. i - nread \in 1..l /\ nread + (i - nread) = i
      BY <1>2, <1>3, <1>4, <1>5, <2>3
    <3> QED  BY <1>7, <2>2, <2>3, <3>1
  <2>4. CASE i \notin new
    <3>1. i \in 1..nread
      BY <1>2, <1>3, <1>4, <1>5, <2>4
    <3> QED  BY <1>7, <2>2, <2>4, <3>1
  <2> QED  BY <2>3, <2>4
<1>9. TypeOK'
  <2>1. DOMAIN buf' = 1..BufSize
    BY <1>1
  <2>2. nread' \in 0..BufSize
    BY <1>1, <1>2, <1>3, <1>4
  <2>3. pc' \in {"read", "parse"}
    BY <1>1
  <2> QED  BY <1>1, <2>1, <2>2, <2>3 DEF Inv, TypeOK
<1>10. Streams'
  BY <1>1, <1>6 DEF Inv, Streams
<1>11. Arriving'
  <2> SUFFICES /\ nread' + Len(inbox') + Len(wire') <= Len(W)
               /\ \A i \in 1..nread' : buf'[i] = W[i]
               /\ \A i \in 1..Len(inbox') : inbox'[i] = W[nread' + i]
               /\ \A i \in 1..Len(wire') : wire'[i] = W[nread' + Len(inbox') + i]
    BY <1>1, <1>7 DEF Arriving, W
  <2>1. Len(wire') = m
    BY <1>1 DEF m
  <2>2. (nread + r) + (l - r) = nread + l
    BY <1>2, <1>3, <1>4
  <2>3. ASSUME NEW i \in 1..(l - r)
        PROVE  inbox'[i] = W[(nread + r) + i]
    <3>1. r + i \in 1..l /\ nread + (r + i) = (nread + r) + i
      BY <1>2, <1>3, <1>4
    <3> QED  BY <1>6, <1>7, <3>1
  <2>4. nread' + Len(inbox') = nread + l
    BY <1>1, <1>6, <2>2
  <2>5. \A i \in 1..Len(inbox') : inbox'[i] = W[nread' + i]
    BY <1>1, <1>6, <2>3
  <2>6. \A i \in 1..Len(wire') : wire'[i] = W[nread' + Len(inbox') + i]
    BY <1>1, <1>7, <2>1, <2>4
  <2>7. nread' + Len(inbox') + Len(wire') <= Len(W)
    BY <1>7, <2>1, <2>4
  <2>8. \A i \in 1..nread' : buf'[i] = W[i]
    BY <1>1, <1>8
  <2> QED  BY <2>5, <2>6, <2>7, <2>8
<1>12. Enough'
  <2>1. nread' \in Nat /\ nread' >= 1 /\ nread' <= BufSize
    BY <1>1, <1>2, <1>3, <1>4
  <2>2. pc' = "read" => nread' < BufSize
    BY <1>1, <1>2, <2>1
  <2>3. ASSUME pc' = "parse", nread' # BufSize
        PROVE  \E i \in 1..nread' : buf'[i].kind = "line"
    <3>1. PICK i \in new : buf'[i].kind = "line"
      BY <1>1, <2>3
    <3>2. i \in 1..nread'
      BY <1>1, <1>2, <1>3, <1>4, <1>5
    <3> QED  BY <3>1, <3>2
  <2> QED  BY <2>1, <2>2, <2>3 DEF Enough
<1>13. Faithful' /\ Answers'
  BY <1>1 DEF Inv, Faithful, Answers, CalledAsSent
<1> QED  BY <1>9, <1>10, <1>11, <1>12, <1>13 DEF Inv

(* Any other step of the worker leaves the streams alone and ends the      *)
(* part of the invariant that is about them.                               *)
LEMMA NotReading ==
  ASSUME Inv, UNCHANGED <<wire, inbox>>, pc' \notin {"read", "parse"}
  PROVE  Streams' /\ Arriving' /\ Enough'
BY DEF Inv, Streams, Arriving, Enough

(* The parser: it makes a request that is as it was sent, or gives up.     *)
LEMMA ParseInv ==
  ASSUME Inv, Parse
  PROVE  Inv'
<1>0. PICK text \in TextsRead : ~BadRequest(text) /\ request' = Parsed(text)
  BY DEF Parse
<1>1. /\ pc = "parse"
      /\ \/ request'.verb \in {"HEAD", "GET", "POST"} /\ pc' = "headers" /\ answer' = answer
         \/ pc' = "idle" /\ answer' = <<"badMethod">>
      /\ UNCHANGED <<sent, wire, link, conns, inbox, buf, nread, found, called>>
  BY DEF Parse, client, Supported
<1>2. /\ sent \in Requests /\ AsSent(Parsed(text))
      /\ \A pair \in Parsed(text).form : pair.value.whole \in BOOLEAN
  BY <1>0, <1>1, ParsedIsSent DEF Inv
<1>3. AsSent(request)'
  <2> DEFINE made == Parsed(text)
  <2>1. AsSent(made) /\ request' = made
    BY <1>0, <1>2
  <2> HIDE DEF made
  <2> QED  BY <1>1, <2>1 DEF AsSent, PathAsSent, FormAsSent, SentPairs, ReadWhole, LineFits
<1>4. TypeOK'
  BY <1>0, <1>1, <1>2 DEF Inv, TypeOK
<1>5. Streams' /\ Arriving' /\ Enough'
  BY <1>1, NotReading
<1>6. Faithful'
  BY <1>1, <1>2, <1>3, SameCall DEF Inv, Faithful
<1>7. Answers'
  BY <1>1 DEF Inv, Answers
<1> QED  BY <1>4, <1>5, <1>6, <1>7 DEF Inv

(* The status line is answered, the request stays.                         *)
LEMMA PrintHeadersInv ==
  ASSUME Inv, PrintHeaders
  PROVE  Inv'
<1>1. /\ pc = "headers" /\ found' \in BOOLEAN /\ answer' = <<"status">>
      /\ pc' \in {"close", "get", "post"}
      /\ UNCHANGED <<sent, wire, link, conns, inbox, buf, nread, request, called>>
  BY DEF PrintHeaders, client
<1>2. TypeOK'
  BY <1>1 DEF Inv, TypeOK
<1>3. Streams' /\ Arriving' /\ Enough'
  BY <1>1, NotReading
<1>4. Faithful'
  BY <1>1, SameRequest, SameCall DEF Inv, Faithful
<1>5. Answers'
  BY <1>1 DEF Answers
<1> QED  BY <1>2, <1>3, <1>4, <1>5 DEF Inv

(* The servlet's calls, in the ways they end.                              *)
LEMMA CallInv ==
  ASSUME Inv, CallGet \/ CallPost \/ CallFails
  PROVE  Inv'
<1>1. /\ pc \in {"get", "post"} /\ called' = request
      /\ pc' \in {"file", "close", "idle"}
      /\ pc' = "file" => answer' = answer
      /\ answer' \in {answer, Append(answer, "lastSwipe"), Append(answer, "thanks")}
      /\ UNCHANGED <<sent, wire, link, conns, inbox, buf, nread, request, found>>
  BY DEF CallGet, CallPost, CallFails, GiveUp, client
<1>2. answer = <<"status">>
  BY <1>1 DEF Inv, Answers
<1>3. answer' \in {<<"status">>, <<"status", "lastSwipe">>, <<"status", "thanks">>}
  BY <1>1, <1>2
<1>4. TypeOK'
  BY <1>1, <1>3 DEF Inv, TypeOK
<1>5. Streams' /\ Arriving' /\ Enough'
  BY <1>1, NotReading
<1>6. Faithful'
  BY <1>1, SameRequest, CallMade DEF Inv, Faithful
<1>7. Answers'
  BY <1>1, <1>2 DEF Answers
<1> QED  BY <1>4, <1>5, <1>6, <1>7 DEF Inv

(* The page or file that is sent, wholly or not.                           *)
LEMMA SendInv ==
  ASSUME Inv, SendText \/ SendFails
  PROVE  Inv'
<1>1. /\ pc = "file" /\ pc' \in {"close", "idle"}
      /\ answer' \in {Append(answer, "text"), Append(answer, "blank")}
      /\ buf' = buf \/ buf' = [i \in 1..BufSize |-> FileText]
      /\ UNCHANGED <<sent, wire, link, conns, inbox, nread, request, found, called>>
  BY DEF SendText, SendFails, GiveUp, client
<1>2. answer = <<"status">>
  BY <1>1 DEF Inv, Answers
<1>3. answer' \in {<<"status", "text">>, <<"status", "blank">>}
  BY <1>1, <1>2
<1>4. DOMAIN buf' = 1..BufSize
  BY <1>1 DEF Inv, TypeOK
<1>5. TypeOK'
  BY <1>1, <1>3, <1>4 DEF Inv, TypeOK
<1>6. Streams' /\ Arriving' /\ Enough'
  BY <1>1, NotReading
<1>7. Faithful' /\ Answers'
  BY <1>1, SameCall DEF Inv, Faithful, Answers
<1> QED  BY <1>5, <1>6, <1>7 DEF Inv

(* The ends without an answer, and the end that zeroes the buffer.         *)
LEMMA EndInv ==
  ASSUME Inv, ReadFails \/ Reject \/ Close
  PROVE  Inv'
<1>1. /\ pc' = "idle"
      /\ buf' = buf \/ buf' = [i \in 1..BufSize |-> Zero]
      /\ UNCHANGED <<sent, wire, link, conns, inbox, nread, request, found, answer, called>>
  BY DEF ReadFails, Reject, Close, GiveUp, client
<1>2. DOMAIN buf' = 1..BufSize
  BY <1>1 DEF Inv, TypeOK
<1>3. TypeOK'
  BY <1>1, <1>2 DEF Inv, TypeOK
<1>4. Streams' /\ Arriving' /\ Enough'
  BY <1>1, NotReading
<1>5. Faithful' /\ Answers'
  BY <1>1, SameCall DEF Inv, Faithful, Answers
<1> QED  BY <1>3, <1>4, <1>5 DEF Inv

(* Nothing happens.                                                        *)
LEMMA StutterInv == Inv /\ UNCHANGED vars => Inv'
<1> SUFFICES ASSUME Inv, UNCHANGED vars PROVE Inv'
  OBVIOUS
<1>1. UNCHANGED <<sent, wire, inbox, link, pc, buf, nread, request, found, answer, called, conns>>
  BY DEF vars
<1>2. TypeOK' /\ Streams' /\ Arriving' /\ Enough' /\ Answers'
  BY <1>1 DEF Inv, TypeOK, Streams, Arriving, Enough, Answers
<1>3. Faithful'
  BY <1>1, SameRequest, SameCall DEF Inv, Faithful
<1> QED  BY <1>2, <1>3 DEF Inv

(* The invariant that is inductive, for any requests and any buffer.       *)
THEOREM Invariance == Spec => []Inv
<1>1. Inv /\ [Next]_vars => Inv'
  <2> SUFFICES ASSUME Inv, [Next]_vars PROVE Inv'
    OBVIOUS
  <2>1. CASE Handle
    BY <2>1, ReadSomeInv, ParseInv, PrintHeadersInv, CallInv, SendInv, EndInv DEF Handle
  <2>2. CASE Deliver
    BY <2>2, DeliverInv
  <2>3. CASE Leave
    BY <2>3, LeaveInv
  <2>4. CASE \E r \in Requests : Connect(r)
    BY <2>4, ConnectInv
  <2>5. CASE UNCHANGED vars
    BY <2>5, StutterInv
  <2> QED  BY <2>1, <2>2, <2>3, <2>4, <2>5 DEF Next
<1> QED  BY InitInv, <1>1, PTL DEF Spec

(* Every variable keeps its type: the worker is in a step of handleClient, *)
(* the buffer keeps its size, the count of what was read stays within it,  *)
(* and what is written to the client is one of the answers there are.      *)
THEOREM TypeCorrect == Spec => []TypeOK
<1>1. Inv => TypeOK
  BY DEF Inv
<1> QED  BY Invariance, <1>1, PTL

(* handleClient calls the servlet with what this client has sent, as far  *)
(* as it was read: its verb, its first parts and the first of its pairs,   *)
(* and no word or value of an earlier client or a file, however the bytes  *)
(* came.  The last of these may have lost its end, pairs with one key have *)
(* become the last of them, and where nothing of a query or body was read  *)
(* the form holds the parser's pair of blanks.  A line that fits in the    *)
(* buffer, and a body that was read to its end, are complete.              *)
THEOREM CalledWithWhatWasSent == Spec => []CalledAsSent
<1>1. Inv => CalledAsSent
  BY DEF Inv, Faithful
<1> QED  BY Invariance, <1>1, PTL

================================================================================
