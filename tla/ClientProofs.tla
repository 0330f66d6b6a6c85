---------------------------- MODULE ClientProofs ----------------------------
(***************************************************************************)
(* The clients take the replies to their own requests, for any number of   *)
(* workers, connections, keys and calls and any length of the sockets'     *)
(* queues.                                                                 *)
(*                                                                         *)
(* The blocking clients do, and a scan of theirs that ends has all its     *)
(* rows, as long as no call has timed out and no two connections were open *)
(* at once.  The promises of the JavaScript client always do; and while    *)
(* nothing has gone wrong on its connection, a client whose calls have all *)
(* settled has left nothing there for a later call to take.                *)
(***************************************************************************)
EXTENDS SyncClient, JsClient, TLAPS, FiniteSetTheorems, SequenceTheorems

\* No call has timed out and no connections share the path; replies may be lost.
Clean == faults \subseteq {"lost"}

Replies ==
    [from : Conn, id : Nat, opcode : {"value", "ok", "flag", "chunk", "end"},
     body : Key \cup Value \cup BOOLEAN \cup {None}, total : Nat]

\* The one open connection has the path, and it alone may be in a call.
ConnOK ==
    /\ conn \in [Conn -> [state : {"new", "open", "closed"}, counter : Nat]]
    /\ call \in [Conn -> CallRecords \cup {None}]
    /\ DOMAIN outcome = Conn
    /\ path \in Conn \cup {None}
    /\ \A c \in Conn : conn[c].state = "open" <=> path = c
    /\ \A c \in Conn : call[c] # None => path = c /\ call[c].used \subseteq {<<c, call[c].id>>}

WireOK ==
    /\ DOMAIN stored \subseteq Key /\ \A k \in DOMAIN stored : stored[k] \in Value
    /\ job \in [Worker -> Seq(Replies)]
    /\ inbox \in [Conn -> Seq(Replies)]

\* r answers the call k of c and is one of the replies that such a call takes.
Own(c, k, r) ==
    /\ r.from = c /\ r.id = k.id
    /\ k.op = "scan" => r.opcode \in {"chunk", "end"}
    /\ r.opcode = "chunk" => r.body \in Key

\* The call returns when it takes r.
Closes(k, r) == k.op = "scan" => r.opcode = "end"

\* s is what is left of the answer to the call k of c: the reply with which the call
\* returns, if it is there, is the last one.
Stream(c, k, s) ==
    \A i \in 1..Len(s) : Own(c, k, s[i]) /\ (Closes(k, s[i]) => i = Len(s))

\* The rows of a scan: those that k has taken and the chunks in s, of which the last reply
\* is the end.
Rows(k, s) == Cardinality(k.pairs) + Len(s) - 1

\* Nothing of the answer is lost: s has the rows that the scan k has not yet taken, and
\* the end.
Whole(k, s) ==
    /\ s # << >> /\ s[Len(s)].opcode = "end"
    /\ k.total = Rows(k, s) \/ (k.total = 0 /\ k.pairs = {})
    /\ \A i \in 1..Len(s)-1 :
          /\ s[i].total = Rows(k, s) /\ s[i].body \notin k.pairs
          /\ \A j \in 1..Len(s)-1 : s[i].body = s[j].body => i = j

\* Nothing is under way,...
Silent ==
    /\ requests = << >>
    /\ \A w \in Worker : job[w] = << >>
    /\ \A c \in Conn : inbox[c] = << >>

\* ... nothing is and the call of c has yet to be sent, ...
Unsent(c) == Silent /\ ~call[c].sent /\ call[c].pairs = {} /\ call[c].total = 0

\* ... its request is,...
Asked(c) ==
    /\ call[c].sent
    /\ requests = <<Request(c, call[c].id, call[c])>>
    /\ \A w \in Worker : job[w] = << >>
    /\ \A d \in Conn : inbox[d] = << >>
    /\ call[c].pairs = {} /\ call[c].total = 0

\* ... or the answer of a worker w is, partly in the socket of c.
Answers(c, w) ==
    /\ call[c].sent
    /\ requests = << >>
    /\ \A v \in Worker \ {w} : job[v] = << >>
    /\ \A d \in Conn \ {c} : inbox[d] = << >>
    /\ Stream(c, call[c], inbox[c] \o job[w])
    /\ (faults = {} /\ call[c].op = "scan") => Whole(call[c], inbox[c] \o job[w])

\* All that is under way belongs to the one call in progress.
Flight ==
    \/ Silent /\ \A c \in Conn : call[c] = None
    \/ \E c \in Conn :
        call[c] # None /\ (Unsent(c) \/ Asked(c) \/ \E w \in Worker : Answers(c, w))

CleanInv == ConnOK /\ WireOK /\ Flight /\ OwnReply /\ ScanWhole

SyncInv == Clean => CleanInv

-----------------------------------------------------------------------------
\* Sequences

\* A reply that moves from a worker to the socket stays where it was in the answer.
LEMMA MoveHead ==
    ASSUME NEW S, NEW s \in Seq(S), NEW t \in Seq(S), t # << >>
    PROVE  Append(s, Head(t)) \o Tail(t) = s \o t
<1> DEFINE l == Append(s, Head(t)) \o Tail(t)
           r == s \o t
<1>1. Head(t) \in S /\ Tail(t) \in Seq(S) /\ Append(s, Head(t)) \in Seq(S)
      /\ Len(Tail(t)) = Len(t) - 1 /\ Len(Append(s, Head(t))) = Len(s) + 1 /\ Len(t) > 0
  OBVIOUS
<1>2. l \in Seq(S) /\ r \in Seq(S) /\ Len(l) = Len(s) + Len(t) /\ Len(r) = Len(s) + Len(t)
  BY <1>1
<1>3. ASSUME NEW i \in 1..Len(s) + Len(t)
      PROVE  l[i] = r[i]
  <2>1. CASE i <= Len(s)
    BY <1>1, <2>1
  <2>2. CASE i = Len(s) + 1
    BY <1>1, <2>2
  <2>3. CASE i > Len(s) + 1
    <3>1. l[i] = Tail(t)[i - (Len(s) + 1)]
      BY <1>1, <2>3
    <3>2. r[i] = t[i - Len(s)]
      BY <1>1, <2>3
    <3>3. Tail(t)[i - (Len(s) + 1)] = t[i - (Len(s) + 1) + 1]
      BY <1>1, <2>3
    <3> QED
      BY <3>1, <3>2, <3>3
  <2> QED
    BY <2>1, <2>2, <2>3
<1> HIDE DEF l, r
<1> QED
  BY <1>2, <1>3, SeqEqual DEF l, r

\* The head of the socket is the head of the answer.
LEMMA TakeHead ==
    ASSUME NEW S, NEW s \in Seq(S), NEW t \in Seq(S), s # << >>
    PROVE  /\ s \o t \in Seq(S) /\ s \o t # << >>
           /\ Head(s) = (s \o t)[1] /\ Tail(s) \o t = Tail(s \o t)
           /\ Len(Tail(s \o t)) = Len(s \o t) - 1
           /\ \A i \in 1..Len(s \o t) - 1 : Tail(s \o t)[i] = (s \o t)[i + 1]
<1> DEFINE u == s \o t
           l == Tail(s) \o t
           r == Tail(u)
<1>1. Tail(s) \in Seq(S) /\ Len(Tail(s)) = Len(s) - 1 /\ Len(s) > 0
  OBVIOUS
<1>2. u \in Seq(S) /\ Len(u) = Len(s) + Len(t) /\ u # << >> /\ Head(s) = u[1]
  BY <1>1
<1>3. l \in Seq(S) /\ Len(l) = Len(u) - 1
  BY <1>1, <1>2
<1>4. r \in Seq(S) /\ Len(r) = Len(u) - 1 /\ \A i \in 1..Len(u) - 1 : r[i] = u[i + 1]
  <2> HIDE DEF u
  <2> QED
    BY <1>2, HeadTailProperties
<1>5. ASSUME NEW i \in 1..Len(u) - 1
      PROVE  l[i] = u[i + 1]
  <2>1. CASE i <= Len(s) - 1
    BY <1>1, <1>2, <2>1
  <2>2. CASE i > Len(s) - 1
    BY <1>1, <1>2, <2>2
  <2> QED
    BY <1>1, <1>2, <2>1, <2>2
<1>6. l = r
  <2> HIDE DEF l, r, u
  <2> QED
    BY <1>3, <1>4, <1>5, SeqEqual
<1> QED
  BY <1>2, <1>4, <1>6

\* SetToSeq lists a finite set without repetition.
LEMMA Listing ==
    ASSUME NEW S, IsFiniteSet(S)
    PROVE  /\ Cardinality(S) \in Nat
           /\ SetToSeq(S) \in [1..Cardinality(S) -> S]
           /\ \A i, j \in 1..Cardinality(S) : SetToSeq(S)[i] = SetToSeq(S)[j] => i = j
<1>1. Cardinality(S) \in Nat /\ ExistsBijection(1..Cardinality(S), S)
  BY FS_CardinalityType
<1>2. \E f \in [1..Cardinality(S) -> S] : IsInjective(f)
  BY <1>1 DEF ExistsBijection, Bijection, Injection, IsInjective
<1>3. SetToSeq(S) \in [1..Cardinality(S) -> S] /\ IsInjective(SetToSeq(S))
  BY <1>2 DEF SetToSeq
<1> QED
  BY <1>1, <1>3 DEF IsInjective

-----------------------------------------------------------------------------
\* What the server answers

LEMMA ReplyType ==
    ASSUME NEW r, r.from \in Conn, r.id \in Nat,
           NEW opcode \in {"value", "ok", "flag", "chunk", "end"},
           NEW body \in Key \cup Value \cup BOOLEAN \cup {None}, NEW total \in Nat
    PROVE  /\ Reply(r, opcode, body, total) \in Replies
           /\ Reply(r, opcode, body, total).from = r.from /\ Reply(r, opcode, body, total).id = r.id
           /\ Reply(r, opcode, body, total).opcode = opcode /\ Reply(r, opcode, body, total).body = body
           /\ Reply(r, opcode, body, total).total = total
BY DEF Reply, Replies

\* The answer to a scan: n chunks with different keys, each with the total n, and the end.
LEMMA ScanAnswer ==
    ASSUME WireOK, NEW r, r.from \in Conn, r.id \in Nat
    PROVE  LET s == find_by_prefix(r)
               n == Len(s) - 1
           IN  /\ s \in Seq(Replies) /\ n \in Nat
               /\ \A i \in 1..Len(s) : s[i].from = r.from /\ s[i].id = r.id
               /\ s[Len(s)].opcode = "end"
               /\ \A i \in 1..n : /\ s[i].opcode = "chunk" /\ s[i].total = n /\ s[i].body \in Key
                                  /\ \A j \in 1..n : s[i].body = s[j].body => i = j
<1> DEFINE keys == SetToSeq(DOMAIN stored)
           n == IF Len(keys) < MaxChunks THEN Len(keys) ELSE MaxChunks
           chunks == [i \in 1..n |-> Reply(r, "chunk", keys[i], n)]
           end == Reply(r, "end", None, 0)
           s == chunks \o <<end>>
<1>1. IsFiniteSet(DOMAIN stored)
  BY KeyAssumption, FS_Subset DEF WireOK
<1>2. /\ Cardinality(DOMAIN stored) \in Nat
      /\ keys \in [1..Cardinality(DOMAIN stored) -> DOMAIN stored]
      /\ \A i, j \in 1..Cardinality(DOMAIN stored) : keys[i] = keys[j] => i = j
  BY <1>1, Listing
<1> HIDE DEF keys
<1>3. Len(keys) = Cardinality(DOMAIN stored)
  BY <1>2
<1>4. n \in Nat /\ n <= Len(keys)
  BY <1>2, <1>3, MaxChunksAssumption
<1>5. \A i \in 1..n : keys[i] \in Key /\ \A j \in 1..n : keys[i] = keys[j] => i = j
  <2> HIDE DEF n
  <2>1. \A i \in 1..n : i \in 1..Cardinality(DOMAIN stored)
    BY <1>2, <1>3, <1>4
  <2>2. \A i \in 1..n : keys[i] \in DOMAIN stored
    BY <1>2, <2>1
  <2> QED
    BY <1>2, <2>1, <2>2 DEF WireOK
<1> HIDE DEF n
<1>6. \A i \in 1..n : /\ Reply(r, "chunk", keys[i], n) \in Replies
                      /\ Reply(r, "chunk", keys[i], n).from = r.from /\ Reply(r, "chunk", keys[i], n).id = r.id
                      /\ Reply(r, "chunk", keys[i], n).opcode = "chunk"
                      /\ Reply(r, "chunk", keys[i], n).body = keys[i]
                      /\ Reply(r, "chunk", keys[i], n).total = n
  BY <1>4, <1>5, ReplyType
<1>7. end \in Replies /\ end.from = r.from /\ end.id = r.id /\ end.opcode = "end"
  BY ReplyType
<1>8. chunks \in Seq(Replies) /\ Len(chunks) = n
  <2>1. chunks \in [1..n -> Replies]
    BY <1>6
  <2> HIDE DEF chunks
  <2> QED
    BY <1>4, <2>1
<1>9. \A i \in 1..n : /\ chunks[i].from = r.from /\ chunks[i].id = r.id
                      /\ chunks[i].opcode = "chunk" /\ chunks[i].body = keys[i]
                      /\ chunks[i].total = n
  BY <1>6
<1> HIDE DEF chunks, end
<1>10. s \in Seq(Replies) /\ Len(s) = n + 1 /\ s[n + 1] = end /\ \A i \in 1..n : s[i] = chunks[i]
  BY <1>4, <1>7, <1>8
<1>11. find_by_prefix(r) = s
  BY DEF find_by_prefix, s, chunks, end, n, keys
<1> HIDE DEF s
<1> QED
  BY SMTT(60), <1>4, <1>5, <1>7, <1>9, <1>10, <1>11

\* The answer to a request is one that its call takes, from the first reply to the last.
LEMMA WholeAnswer ==
    ASSUME WireOK, NEW c \in Conn, NEW k \in CallRecords, k.pairs = {}, k.total = 0
    PROVE  LET s == dispatch_request(Request(c, k.id, k))
           IN  /\ s \in Seq(Replies) /\ Stream(c, k, s)
               /\ k.op = "scan" => Whole(k, s)
<1> DEFINE r == Request(c, k.id, k)
           s == dispatch_request(r)
<1>1. r.from = c /\ r.id = k.id /\ r.op = k.op /\ r.key \in Key /\ k.id \in Nat /\ k.op \in Ops
  BY CallsAssumption DEF Request, CallRecords
<1> HIDE DEF r
<1>2. CASE k.op = "scan"
  <2>1. s = find_by_prefix(r)
    BY <1>1, <1>2 DEF dispatch_request
  <2> DEFINE n == Len(s) - 1
  <2>2. /\ s \in Seq(Replies) /\ n \in Nat
        /\ \A i \in 1..Len(s) : s[i].from = c /\ s[i].id = k.id
        /\ s[Len(s)].opcode = "end"
        /\ \A i \in 1..n : /\ s[i].opcode = "chunk" /\ s[i].total = n /\ s[i].body \in Key
                           /\ \A j \in 1..n : s[i].body = s[j].body => i = j
    BY <1>1, <2>1, ScanAnswer
  <2> HIDE DEF s
  <2>3. Stream(c, k, s)
    BY <1>2, <2>2 DEF Stream, Own, Closes
  <2>4. Rows(k, s) = n
    BY <2>2, FS_EmptySet DEF Rows
  <2>5. Whole(k, s)
    BY SMTT(60), <2>2, <2>4 DEF Whole
  <2> QED
    BY <2>2, <2>3, <2>5 DEF s, r
<1>3. CASE k.op # "scan"
  <2>1. \E opcode \in {"value", "ok", "flag"}, body \in Key \cup Value \cup BOOLEAN \cup {None} :
           s = <<Reply(r, opcode, body, 0)>>
    <3>1. CASE k.op = "read"
      <4>1. CASE r.key \in DOMAIN stored
        BY <1>1, <3>1, <4>1 DEF dispatch_request, WireOK
      <4>2. CASE r.key \notin DOMAIN stored
        BY <1>1, <3>1, <4>2 DEF dispatch_request
      <4> QED
        BY <4>1, <4>2
    <3>2. CASE k.op \in {"write", "writeTtl", "delete", "ttl"}
      BY <1>1, <3>2 DEF dispatch_request
    <3>3. CASE k.op = "cad"
      BY <1>1, <3>3 DEF dispatch_request, Matches
    <3> QED
      BY <1>1, <1>3, <3>1, <3>2, <3>3 DEF Ops
  <2>2. PICK opcode \in {"value", "ok", "flag"}, body \in Key \cup Value \cup BOOLEAN \cup {None} :
           s = <<Reply(r, opcode, body, 0)>>
    BY <2>1
  <2> DEFINE e == Reply(r, opcode, body, 0)
  <2>3. e \in Replies /\ e.from = c /\ e.id = k.id /\ e.opcode = opcode
    <3>1. opcode \in {"value", "ok", "flag", "chunk", "end"} /\ r.from \in Conn /\ r.id \in Nat
      BY <1>1
    <3> QED
      BY <1>1, <3>1 DEF Reply, Replies
  <2> HIDE DEF s, e
  <2>4. s = <<e>>
    BY <2>2 DEF e
  <2>5. Own(c, k, e)
    BY <1>3, <2>3 DEF Own
  <2>6. s \in Seq(Replies) /\ Stream(c, k, s)
    BY <2>3, <2>4, <2>5 DEF Stream
  <2> QED
    BY <1>3, <2>6 DEF s, r
<1> QED
  BY <1>2, <1>3

-----------------------------------------------------------------------------
\* What is left of an answer

LEMMA StreamTail ==
    ASSUME NEW c, NEW k, NEW s \in Seq(Replies), s # << >>, Stream(c, k, s)
    PROVE  /\ Stream(c, k, Tail(s))
           /\ Own(c, k, s[1])
           /\ Closes(k, s[1]) => Len(s) = 1
<1> DEFINE t == Tail(s)
<1>1. Len(t) = Len(s) - 1 /\ Len(s) \in Nat \ {0} /\ \A i \in 1..Len(s) - 1 : t[i] = s[i + 1]
  OBVIOUS
<1> HIDE DEF t
<1>2. ASSUME NEW i \in 1..Len(t)
      PROVE  Own(c, k, t[i]) /\ (Closes(k, t[i]) => i = Len(t))
  <2>1. i + 1 \in 1..Len(s) /\ t[i] = s[i + 1]
    BY <1>1
  <2>2. Own(c, k, s[i + 1]) /\ (Closes(k, s[i + 1]) => i + 1 = Len(s))
    BY <2>1 DEF Stream
  <2> QED
    BY <1>1, <2>1, <2>2
<1>3. Stream(c, k, t)
  BY <1>2 DEF Stream
<1>4. Own(c, k, s[1]) /\ (Closes(k, s[1]) => 1 = Len(s))
  <2>1. 1 \in 1..Len(s)
    BY <1>1
  <2> QED
    BY <2>1 DEF Stream, Own, Closes
<1> QED
  BY <1>3, <1>4 DEF Own, Closes, t

\* A reply that is lost on the way to the socket.
LEMMA StreamLoss ==
    ASSUME NEW c, NEW k, NEW s \in Seq(Replies), NEW t \in Seq(Replies), t # << >>,
           Stream(c, k, s \o t)
    PROVE  Stream(c, k, s \o Tail(t))
<1> DEFINE u == s \o t
           v == s \o Tail(t)
<1>1. Tail(t) \in Seq(Replies) /\ Len(Tail(t)) = Len(t) - 1 /\ Len(t) \in Nat \ {0} /\ Len(s) \in Nat
      /\ \A i \in 1..Len(t) - 1 : Tail(t)[i] = t[i + 1]
  OBVIOUS
<1>2. Len(u) = Len(s) + Len(t) /\ Len(v) = Len(s) + Len(t) - 1
  BY <1>1
<1>3. ASSUME NEW i \in 1..Len(v)
      PROVE  \E j \in 1..Len(u) : v[i] = u[j] /\ (j = Len(u) => i = Len(v))
  <2>1. CASE i <= Len(s)
    <3>1. v[i] = u[i]
      BY <1>1, <1>2, <2>1
    <3> QED
      BY <1>1, <1>2, <2>1, <3>1
  <2>2. CASE i > Len(s)
    <3>1. v[i] = Tail(t)[i - Len(s)] /\ u[i + 1] = t[i + 1 - Len(s)]
      BY <1>1, <1>2, <2>2
    <3>2. v[i] = u[i + 1]
      BY <1>1, <1>2, <2>2, <3>1
    <3> QED
      BY <1>2, <3>2
  <2> QED
    BY <1>1, <1>2, <2>1, <2>2
<1> HIDE DEF u, v
<1>4. Stream(c, k, u)
  BY DEF u
<1>5. Stream(c, k, v)
  BY <1>3, <1>4 DEF Stream
<1> QED
  BY <1>5 DEF v

\* A scan takes a chunk.
LEMMA WholeTail ==
    ASSUME NEW c \in Conn, NEW k \in CallRecords, NEW s \in Seq(Replies), s # << >>,
           Stream(c, k, s), Whole(k, s), k.op = "scan", s[1].opcode = "chunk",
           NEW l \in CallRecords, l.pairs = k.pairs \cup {s[1].body}, l.total = s[1].total
    PROVE  Whole(l, Tail(s))
<1> DEFINE t == Tail(s)
<1>1. t \in Seq(Replies) /\ Len(t) = Len(s) - 1 /\ Len(s) \in Nat \ {0} /\ \A i \in 1..Len(s) - 1 : t[i] = s[i + 1]
  OBVIOUS
<1> HIDE DEF t
<1>2. s[Len(s)].opcode = "end" /\ Len(s) > 1
  BY <1>1 DEF Whole
<1>3. IsFiniteSet(k.pairs) /\ Cardinality(k.pairs) \in Nat
  BY KeyAssumption, FS_Subset, FS_CardinalityType DEF CallRecords
<1>4. s[1].body \notin k.pairs /\ s[1].total = Rows(k, s)
  BY <1>1, <1>2 DEF Whole
<1>5. Cardinality(l.pairs) = Cardinality(k.pairs) + 1
  <2> DEFINE x == s[1].body
  <2> HIDE DEF x
  <2>1. Cardinality(k.pairs \cup {x}) = IF x \in k.pairs THEN Cardinality(k.pairs) ELSE Cardinality(k.pairs) + 1
    BY <1>3, FS_AddElement
  <2> QED
    BY <1>4, <2>1 DEF x
<1>6. Rows(l, t) = Rows(k, s)
  BY <1>1, <1>3, <1>5 DEF Rows
<1>7. t # << >> /\ t[Len(t)].opcode = "end"
  <2>1. Len(s) - 1 \in 1..Len(s) - 1 /\ t[Len(s) - 1] = s[Len(s) - 1 + 1] /\ Len(s) - 1 + 1 = Len(s)
    BY <1>1, <1>2
  <2>2. t # << >>
    BY <1>1, <1>2
  <2>3. t[Len(t)] = s[Len(s)]
    BY <1>1, <2>1
  <2> QED
    BY <1>2, <2>2, <2>3
<1>8. ASSUME NEW i \in 1..Len(t) - 1
      PROVE  /\ t[i].total = Rows(l, t) /\ t[i].body \notin l.pairs
             /\ \A j \in 1..Len(t) - 1 : t[i].body = t[j].body => i = j
  <2>1. i + 1 \in 1..Len(s) - 1 /\ 1 \in 1..Len(s) - 1 /\ t[i] = s[i + 1] /\ i + 1 # 1
    BY SMTT(60), <1>1
  <2>2. s[i + 1].total = Rows(k, s) /\ s[i + 1].body \notin k.pairs /\ s[i + 1].body # s[1].body
    BY <2>1 DEF Whole
  <2>3. ASSUME NEW j \in 1..Len(t) - 1, t[i].body = t[j].body
        PROVE  i = j
    <3>1. j + 1 \in 1..Len(s) - 1 /\ t[j] = s[j + 1]
      BY <1>1
    <3>2. i + 1 = j + 1
      BY <2>1, <2>3, <3>1 DEF Whole
    <3> QED
      BY <3>2
  <2> QED
    BY <1>6, <2>1, <2>2, <2>3
<1> QED
  BY <1>4, <1>6, <1>7, <1>8 DEF Whole, t

\* A scan that takes the end has as many rows as announced.
LEMMA WholeEnd ==
    ASSUME NEW c \in Conn, NEW k \in CallRecords, NEW s \in Seq(Replies),
           Whole(k, s), Len(s) = 1
    PROVE  Cardinality(k.pairs) = k.total
<1>1. IsFiniteSet(k.pairs) /\ Cardinality(k.pairs) \in Nat
  BY KeyAssumption, FS_Subset, FS_CardinalityType DEF CallRecords
<1>2. Rows(k, s) = Cardinality(k.pairs)
  BY <1>1 DEF Rows
<1> QED
  BY <1>2, FS_EmptySet DEF Whole

-----------------------------------------------------------------------------
\* The outcomes of the calls

LEMMA OutcomesKept ==
    ASSUME OwnReply, ScanWhole, outcome' = outcome, faults \subseteq faults'
    PROVE  OwnReply' /\ ScanWhole'
BY DEF OwnReply, ScanWhole

LEMMA OutcomeAdded ==
    ASSUME OwnReply, ScanWhole, faults \subseteq faults', DOMAIN outcome = Conn,
           NEW c \in Conn, NEW o, outcome' = [outcome EXCEPT ![c] = o],
           o # None => /\ o.used \subseteq {<<c, o.id>>}
                       /\ (o.op = "scan" /\ o.kind = "done" /\ faults' = {})
                             => Cardinality(o.value) = o.total
    PROVE  OwnReply' /\ ScanWhole'
<1>1. outcome'[c] = o /\ \A d \in Conn \ {c} : outcome'[d] = outcome[d]
  OBVIOUS
<1>2. ASSUME NEW d \in Conn, outcome'[d] # None, faults' \subseteq {"lost"}
      PROVE  outcome'[d].used \subseteq {<<d, outcome'[d].id>>}
  <2>1. CASE d = c
    BY <1>1, <1>2, <2>1
  <2>2. CASE d # c
    BY <1>1, <1>2, <2>2 DEF OwnReply
  <2> QED
    BY <2>1, <2>2
<1>3. ASSUME NEW d \in Conn, outcome'[d] # None, outcome'[d].op = "scan",
             outcome'[d].kind = "done", faults' = {}
      PROVE  Cardinality(outcome'[d].value) = outcome'[d].total
  <2>1. CASE d = c
    BY <1>1, <1>3, <2>1
  <2>2. CASE d # c
    BY <1>1, <1>3, <2>2 DEF ScanWhole
  <2> QED
    BY <2>1, <2>2
<1> QED
  BY <1>2, <1>3 DEF OwnReply, ScanWhole

LEMMA OutcomeFields ==
    ASSUME NEW k, NEW kind, NEW value
    PROVE  LET o == Outcome(k, kind, value)
           IN  /\ o.op = k.op /\ o.id = k.id /\ o.kind = kind /\ o.value = value
               /\ o.total = k.total /\ o.used = k.used
BY DEF Outcome

LEMMA TakingFields ==
    ASSUME NEW k \in CallRecords, NEW r \in Replies
    PROVE  LET t == Taking(k, r)
           IN  /\ t \in CallRecords
               /\ t.op = k.op /\ t.id = k.id /\ t.pairs = k.pairs /\ t.total = k.total
               /\ t.used = k.used \cup {<<r.from, r.id>>} /\ t.sent = k.sent
<1>1. <<r.from, r.id>> \in Conn \X Nat
  BY DEF Replies
<1> QED
  BY <1>1 DEF Taking, CallRecords

\* The connection in a call is the open one, and all that is under way is for it.
LEMMA TheCall ==
    ASSUME CleanInv, NEW c \in Conn, call[c] # None
    PROVE  /\ path = c /\ call[c] \in CallRecords
           /\ call[c].used \subseteq {<<c, call[c].id>>}
           /\ \A d \in Conn : call[d] # None => d = c
           /\ Unsent(c) \/ Asked(c) \/ \E w \in Worker : Answers(c, w)
BY NoneAssumption DEF CleanInv, ConnOK, Flight

\* While no connection is open nothing is under way.
LEMMA NoCall ==
    ASSUME CleanInv, \A c \in Conn : call[c] = None
    PROVE  Silent
BY DEF CleanInv, Flight

-----------------------------------------------------------------------------
\* The steps

LEMMA InitClean == SyncInit => CleanInv
<1> SUFFICES ASSUME SyncInit PROVE CleanInv
  OBVIOUS
<1> USE DEF SyncInit, BusInit, SocketsInit
<1>1. ConnOK
  BY NoneAssumption DEF ConnOK
<1>2. WireOK
  BY DEF WireOK
<1>3. Flight
  BY DEF Flight, Silent
<1>4. OwnReply /\ ScanWhole
  BY DEF OwnReply, ScanWhole
<1> QED
  BY <1>1, <1>2, <1>3, <1>4 DEF CleanInv

LEMMA FaultsGrow ==
    ASSUME [SyncNext]_syncVars
    PROVE  faults \subseteq faults'
BY ZenonT(60) DEF SyncNext, syncVars, wireVars, Server, Receive, SendReply, Expire, Client,
       Connect, Disconnect, Make, Send, Recv, ScanRecv, Timeout

LEMMA ReceiveClean ==
    ASSUME CleanInv, NEW w \in Worker, Receive(w), UNCHANGED clientVars
    PROVE  CleanInv'
<1> DEFINE r == Head(requests)
           keys == (DOMAIN stored \ Removed(r)) \cup Written(r)
           s == dispatch_request(r)
<1>1. /\ requests # << >> /\ requests' = Tail(requests)
      /\ job' = [job EXCEPT ![w] = s]
      /\ stored' = [k \in keys |-> IF k \in Written(r) THEN r.value ELSE stored[k]]
      /\ inbox' = inbox /\ path' = path /\ faults' = faults
      /\ conn' = conn /\ call' = call /\ outcome' = outcome
  BY DEF Receive, clientVars
<1>2. PICK c \in Conn : call[c] # None /\ Asked(c)
  <2>1. PICK c \in Conn : call[c] # None /\ (Asked(c) \/ \E v \in Worker : Answers(c, v))
    BY <1>1 DEF CleanInv, Flight, Silent, Unsent
  <2> QED
    BY <1>1, <2>1 DEF Answers
<1>3. call[c].sent /\ requests = <<Request(c, call[c].id, call[c])>>
  BY <1>2 DEF Asked
<1>4. r = Request(c, call[c].id, call[c]) /\ requests' = << >>
  BY <1>1, <1>3
<1>5. call[c] \in CallRecords /\ call[c].pairs = {} /\ call[c].total = 0 /\ WireOK
  BY <1>2, TheCall DEF Asked, CleanInv
<1>6. s \in Seq(Replies) /\ Stream(c, call[c], s) /\ (call[c].op = "scan" => Whole(call[c], s))
  BY <1>3, <1>4, <1>5, WholeAnswer
<1>7. r.key \in Key /\ r.value \in Value
  BY <1>4, <1>5 DEF Request, CallRecords
<1> HIDE DEF r, s
<1>8. ConnOK'
  BY <1>1 DEF CleanInv, ConnOK
<1>9. job' \in [Worker -> Seq(Replies)] /\ inbox' \in [Conn -> Seq(Replies)]
  BY <1>1, <1>5, <1>6 DEF WireOK
<1>10. DOMAIN stored' \subseteq Key /\ \A k \in DOMAIN stored' : stored'[k] \in Value
  <2>1. Written(r) \subseteq {r.key}
    BY DEF Written
  <2>2. keys \subseteq Key /\ \A k \in keys : k \in Written(r) \/ k \in DOMAIN stored
    BY <1>5, <1>7, <2>1 DEF WireOK
  <2> HIDE DEF keys
  <2> QED
    BY <1>1, <1>5, <1>7, <2>2 DEF WireOK
<1>11. Answers(c, w)'
  <2>1. job'[w] = s /\ inbox'[c] = << >> /\ \A v \in Worker \ {w} : job'[v] = << >>
    BY <1>1, <1>2, <1>5 DEF Asked, WireOK
  <2>2. inbox'[c] \o job'[w] = s
    BY <1>6, <2>1
  <2>3. \A d \in Conn \ {c} : inbox'[d] = << >>
    BY <1>1, <1>2 DEF Asked
  <2> QED
    BY <1>1, <1>3, <1>4, <1>6, <2>1, <2>2, <2>3 DEF Answers
<1>12. Flight'
  <2>1. call'[c] # None
    BY <1>1, <1>2
  <2> QED
    BY <1>11, <2>1 DEF Flight
<1>13. OwnReply' /\ ScanWhole'
  BY <1>1, OutcomesKept DEF CleanInv
<1> QED
  BY <1>8, <1>9, <1>10, <1>12, <1>13 DEF CleanInv, WireOK

LEMMA SendReplyClean ==
    ASSUME CleanInv, NEW w \in Worker, SendReply(w), UNCHANGED clientVars
    PROVE  CleanInv'
<1>1. /\ job[w] # << >> /\ job' = [job EXCEPT ![w] = Tail(@)]
      /\ requests' = requests /\ stored' = stored /\ path' = path /\ faults \subseteq faults'
      /\ conn' = conn /\ call' = call /\ outcome' = outcome
  BY DEF SendReply, clientVars
<1>2. WireOK /\ job[w] \in Seq(Replies)
  BY DEF CleanInv, WireOK
<1>3. PICK c \in Conn : call[c] # None /\ Answers(c, w)
  <2>1. PICK c \in Conn : call[c] # None /\ (Asked(c) \/ \E v \in Worker : Answers(c, v))
    BY <1>1 DEF CleanInv, Flight, Silent, Unsent
  <2>2. PICK v \in Worker : Answers(c, v)
    BY <1>1, <2>1 DEF Asked
  <2>3. v = w
    BY <1>1, <2>2 DEF Answers
  <2> QED
    BY <2>1, <2>2, <2>3
<1>4. path = c /\ inbox[c] \in Seq(Replies)
  BY <1>2, <1>3, TheCall DEF WireOK
<1>5. /\ Head(job[w]) \in Replies /\ Tail(job[w]) \in Seq(Replies)
      /\ job'[w] = Tail(job[w]) /\ \A v \in Worker \ {w} : job'[v] = job[v]
  BY <1>1, <1>2 DEF WireOK
<1>6. job' \in [Worker -> Seq(Replies)]
  BY <1>1, <1>2, <1>5 DEF WireOK
<1>7. \/ inbox' = [inbox EXCEPT ![c] = Append(inbox[c], Head(job[w]))] /\ faults' = faults
      \/ inbox' = inbox /\ "lost" \in faults'
  BY <1>4 DEF SendReply
<1>8. inbox' \in [Conn -> Seq(Replies)] /\ \A d \in Conn \ {c} : inbox'[d] = inbox[d]
  <2>1. Append(inbox[c], Head(job[w])) \in Seq(Replies)
    BY <1>4, <1>5
  <2> QED
    BY <1>2, <1>7, <2>1 DEF WireOK
<1>9. /\ Stream(c, call[c], inbox'[c] \o job'[w])
      /\ (faults' = {} /\ call[c].op = "scan") => Whole(call[c], inbox'[c] \o job'[w])
  <2>1. CASE inbox' = [inbox EXCEPT ![c] = Append(inbox[c], Head(job[w]))] /\ faults' = faults
    <3>1. inbox'[c] = Append(inbox[c], Head(job[w]))
      BY <1>2, <2>1 DEF WireOK
    <3>2. inbox'[c] \o job'[w] = inbox[c] \o job[w]
      BY <1>1, <1>2, <1>4, <1>5, <3>1, MoveHead
    <3> QED
      BY <1>3, <2>1, <3>2 DEF Answers
  <2>2. CASE inbox' = inbox /\ "lost" \in faults'
    <3>1. Stream(c, call[c], inbox[c] \o Tail(job[w]))
      BY <1>1, <1>2, <1>3, <1>4, StreamLoss DEF Answers
    <3> QED
      BY <1>5, <2>2, <3>1
  <2> QED
    BY <1>7, <2>1, <2>2
<1>10. Answers(c, w)'
  BY <1>1, <1>3, <1>5, <1>8, <1>9 DEF Answers
<1>11. Flight'
  BY <1>1, <1>3, <1>10 DEF Flight
<1>12. ConnOK' /\ WireOK'
  BY <1>1, <1>2, <1>6, <1>8 DEF CleanInv, ConnOK, WireOK
<1> QED
  BY <1>1, <1>11, <1>12, OutcomesKept DEF CleanInv

LEMMA ExpireClean ==
    ASSUME CleanInv, NEW k \in Key, Expire(k), UNCHANGED clientVars
    PROVE  CleanInv'
<1>1. /\ stored' = [x \in DOMAIN stored \ {k} |-> stored[x]]
      /\ requests' = requests /\ job' = job /\ inbox' = inbox /\ path' = path /\ faults' = faults
      /\ conn' = conn /\ call' = call /\ outcome' = outcome
  BY DEF Expire, clientVars
<1>2. WireOK'
  BY <1>1 DEF CleanInv, WireOK
<1>3. ConnOK'
  BY <1>1 DEF CleanInv, ConnOK
<1>4. Flight'
  BY <1>1 DEF CleanInv, Flight, Silent, Unsent, Asked, Answers
<1> QED
  BY <1>1, <1>2, <1>3, <1>4, OutcomesKept DEF CleanInv

LEMMA ConnectClean ==
    ASSUME CleanInv, Clean', NEW c \in Conn, Connect(c)
    PROVE  CleanInv'
<1>1. /\ conn[c].state = "new" /\ conn' = [conn EXCEPT ![c].state = "open"] /\ path' = c
      /\ stored' = stored /\ requests' = requests /\ job' = job /\ inbox' = inbox
      /\ call' = call /\ outcome' = outcome /\ faults \subseteq faults'
      /\ \A d \in Conn : conn[d].state # "open"
  BY DEF Connect, Clean
<1>2. path = None /\ \A d \in Conn : call[d] = None
  BY <1>1 DEF CleanInv, ConnOK
<1>3. Silent
  BY <1>2, NoCall
<1>4. conn' \in [Conn -> [state : {"new", "open", "closed"}, counter : Nat]]
      /\ conn'[c].state = "open" /\ \A d \in Conn \ {c} : conn'[d] = conn[d]
  BY <1>1 DEF CleanInv, ConnOK
<1>5. ConnOK'
  BY <1>1, <1>2, <1>4, NoneAssumption DEF CleanInv, ConnOK
<1>6. WireOK' /\ Flight'
  BY <1>1, <1>2, <1>3 DEF CleanInv, WireOK, Flight, Silent
<1> QED
  BY <1>1, <1>5, <1>6, OutcomesKept DEF CleanInv

LEMMA CloseClean ==
    ASSUME CleanInv, NEW c \in Conn, Disconnect(c)
    PROVE  CleanInv'
<1>1. /\ conn[c].state = "open" /\ call[c] = None /\ conn' = [conn EXCEPT ![c].state = "closed"]
      /\ path' = None /\ inbox' = [inbox EXCEPT ![c] = << >>]
      /\ stored' = stored /\ requests' = requests /\ job' = job
      /\ call' = call /\ outcome' = outcome /\ faults' = faults
  BY DEF Disconnect
<1>2. path = c /\ \A d \in Conn : call[d] = None
  BY <1>1 DEF CleanInv, ConnOK
<1>3. Silent
  BY <1>2, NoCall
<1>4. conn' \in [Conn -> [state : {"new", "open", "closed"}, counter : Nat]]
      /\ conn'[c].state = "closed" /\ \A d \in Conn \ {c} : conn'[d] = conn[d]
  BY <1>1 DEF CleanInv, ConnOK
<1>5. ConnOK'
  BY <1>1, <1>2, <1>4, NoneAssumption DEF CleanInv, ConnOK
<1>6. inbox' \in [Conn -> Seq(Replies)] /\ \A d \in Conn : inbox'[d] = << >>
  BY <1>1, <1>3 DEF CleanInv, WireOK, Silent
<1>7. WireOK' /\ Flight'
  BY <1>1, <1>2, <1>3, <1>6 DEF CleanInv, WireOK, Flight, Silent
<1> QED
  BY <1>1, <1>5, <1>7, OutcomesKept DEF CleanInv

\* A call is made while nothing is under way.
LEMMA MakeClean ==
    ASSUME CleanInv, NEW c \in Conn, NEW a \in Calls, Make(c, a)
    PROVE  CleanInv'
<1> DEFINE k == Calling(a, conn[c].counter)
<1>1. /\ conn[c].state = "open" /\ call[c] = None
      /\ conn' = [conn EXCEPT ![c].counter = @ + 1]
      /\ stored' = stored /\ job' = job /\ inbox' = inbox /\ path' = path /\ faults' = faults
      /\ requests' = requests
      /\ call' = [call EXCEPT ![c] = k]
      /\ outcome' = [outcome EXCEPT ![c] = None]
  BY DEF Make, wireVars
<1>2. path = c /\ \A d \in Conn : call[d] = None
  BY <1>1 DEF CleanInv, ConnOK
<1>3. Silent
  BY <1>2, NoCall
<1>4. conn[c].counter \in Nat /\ a.op \in Ops /\ a.key \in Key /\ a.value \in Value
  BY CallsAssumption DEF CleanInv, ConnOK
<1>5. /\ k \in CallRecords /\ k # None /\ ~k.sent
      /\ k.pairs = {} /\ k.total = 0 /\ k.used = {}
  <2>1. k \in CallRecords
    BY <1>4 DEF Calling, CallRecords
  <2>2. k.sent = FALSE /\ k.pairs = {} /\ k.total = 0 /\ k.used = {}
    BY DEF Calling
  <2> HIDE DEF k
  <2> QED
    BY <2>1, <2>2, NoCallAssumption
<1> HIDE DEF k
<1>6. conn' \in [Conn -> [state : {"new", "open", "closed"}, counter : Nat]]
      /\ \A d \in Conn : conn'[d].state = conn[d].state
  BY <1>1, <1>4 DEF CleanInv, ConnOK
<1>7. WireOK'
  BY <1>1 DEF CleanInv, WireOK
<1>8. DOMAIN outcome = Conn /\ call \in [Conn -> CallRecords \cup {None}]
  BY DEF CleanInv, ConnOK
<1>9. call'[c] = k /\ \A d \in Conn \ {c} : call'[d] = None
  BY <1>1, <1>2, <1>8
<1>10. Unsent(c)'
  BY <1>1, <1>3, <1>5, <1>9 DEF Unsent, Silent
<1>11. Flight'
  BY <1>5, <1>9, <1>10 DEF Flight
<1>12. ConnOK'
  BY <1>1, <1>2, <1>5, <1>6, <1>8, <1>9 DEF CleanInv, ConnOK
<1>13. OwnReply' /\ ScanWhole'
  BY <1>1, <1>8, OutcomeAdded DEF CleanInv
<1> QED
  BY <1>7, <1>11, <1>12, <1>13 DEF CleanInv

\* Its request is sent, or cannot be.
LEMMA SendClean ==
    ASSUME CleanInv, NEW c \in Conn, Send(c)
    PROVE  CleanInv'
<1> DEFINE k == call[c]
           l == [k EXCEPT !.sent = TRUE]
           o == Outcome(k, "error", None)
<1>1. /\ k # None /\ ~k.sent
      /\ stored' = stored /\ job' = job /\ inbox' = inbox /\ path' = path /\ faults' = faults
      /\ conn' = conn
      /\ \/ /\ requests' = Append(requests, Request(c, k.id, k))
            /\ call' = [call EXCEPT ![c] = l] /\ outcome' = outcome
         \/ /\ call' = [call EXCEPT ![c] = None] /\ outcome' = [outcome EXCEPT ![c] = o]
            /\ requests' = requests
  BY DEF Send, Sending, Finish
<1>2. /\ path = c /\ k \in CallRecords /\ k.used \subseteq {<<c, k.id>>}
      /\ \A d \in Conn \ {c} : call[d] = None
  BY <1>1, TheCall
<1>3. Silent /\ k.pairs = {} /\ k.total = 0
  <2>1. Unsent(c)
    BY <1>1, TheCall DEF Asked, Answers
  <2> QED
    BY <2>1 DEF Unsent
<1>4. /\ l \in CallRecords /\ l # None /\ l.sent /\ l.id = k.id
      /\ l.op = k.op /\ l.key = k.key /\ l.value = k.value
      /\ l.pairs = {} /\ l.total = 0 /\ l.used = k.used
  <2> HIDE DEF k
  <2>1. l \in CallRecords
    BY <1>2 DEF CallRecords
  <2>2. /\ l.sent = TRUE /\ l.id = k.id /\ l.op = k.op /\ l.key = k.key /\ l.value = k.value
        /\ l.pairs = k.pairs /\ l.total = k.total /\ l.used = k.used
    BY <1>2 DEF CallRecords
  <2> HIDE DEF l
  <2> QED
    BY <1>3, <2>1, <2>2, NoCallAssumption
<1>5. o.used = k.used /\ o.id = k.id /\ o.kind = "error"
  BY OutcomeFields
<1>6. WireOK'
  BY <1>1 DEF CleanInv, WireOK
<1>7. DOMAIN outcome = Conn /\ call \in [Conn -> CallRecords \cup {None}]
  BY DEF CleanInv, ConnOK
<1> HIDE DEF l, o
<1>8. CASE /\ requests' = Append(requests, Request(c, k.id, k))
           /\ call' = [call EXCEPT ![c] = l] /\ outcome' = outcome
  <2>1. call'[c] = l /\ \A d \in Conn \ {c} : call'[d] = None
    BY <1>2, <1>7, <1>8
  <2>2. requests' = <<Request(c, l.id, l)>>
    <3>1. Request(c, k.id, k) = Request(c, l.id, l)
      BY <1>4 DEF Request
    <3> HIDE DEF k
    <3> QED
      BY <1>3, <1>8, <3>1 DEF Silent
  <2>3. Asked(c)'
    BY <1>1, <1>3, <1>4, <2>1, <2>2 DEF Asked, Silent
  <2>4. Flight'
    BY <1>4, <2>1, <2>3 DEF Flight
  <2>5. ConnOK'
    BY <1>1, <1>2, <1>4, <1>7, <1>8, <2>1 DEF CleanInv, ConnOK
  <2> QED
    BY <1>1, <1>6, <1>8, <2>4, <2>5, OutcomesKept DEF CleanInv
<1>9. CASE /\ call' = [call EXCEPT ![c] = None] /\ outcome' = [outcome EXCEPT ![c] = o]
           /\ requests' = requests
  <2>1. \A d \in Conn : call'[d] = None
    BY <1>2, <1>7, <1>9
  <2>2. Flight'
    BY <1>1, <1>3, <1>9, <2>1 DEF Flight, Silent
  <2>3. ConnOK'
    BY <1>1, <1>7, <1>9, <2>1 DEF CleanInv, ConnOK
  <2>4. OwnReply' /\ ScanWhole'
    BY <1>1, <1>2, <1>5, <1>7, <1>9, OutcomeAdded DEF CleanInv
  <2> QED
    BY <1>6, <2>2, <2>3, <2>4 DEF CleanInv
<1> QED
  BY <1>1, <1>8, <1>9

LEMMA OneReply ==
    ASSUME NEW m \in Nat, NEW n \in Nat, m # 0, m + n = 1
    PROVE  m = 1 /\ n = 0
OBVIOUS

\* A call that takes a datagram takes the next reply of its own answer; if it then
\* returns, nothing is left.
LEMMA TakesOwn ==
    ASSUME CleanInv, NEW c \in Conn, call[c] # None, inbox[c] # << >>,
           inbox' = [inbox EXCEPT ![c] = Tail(@)],
           requests' = requests, job' = job
    PROVE  \E w \in Worker :
               LET u == inbox[c] \o job[w]
               IN  /\ Answers(c, w)
                   /\ u \in Seq(Replies) /\ u # << >>
                   /\ Head(inbox[c]) = u[1] /\ Head(inbox[c]) \in Replies
                   /\ Own(c, call[c], Head(inbox[c]))
                   /\ inbox'[c] \o job[w] = Tail(u)
                   /\ Stream(c, call[c], Tail(u))
                   /\ Closes(call[c], Head(inbox[c])) => Len(u) = 1 /\ Silent'
<1>1. PICK w \in Worker : Answers(c, w)
  BY TheCall DEF Unsent, Silent, Asked
<1> DEFINE u == inbox[c] \o job[w]
<1>2. inbox[c] \in Seq(Replies) /\ job[w] \in Seq(Replies) /\ inbox'[c] = Tail(inbox[c])
      /\ \A d \in Conn \ {c} : inbox'[d] = inbox[d]
  BY DEF CleanInv, WireOK
<1>3. u \in Seq(Replies) /\ u # << >> /\ Head(inbox[c]) = u[1] /\ inbox'[c] \o job[w] = Tail(u)
  <2> DEFINE x == inbox[c]
             y == job[w]
  <2>1. x \in Seq(Replies) /\ y \in Seq(Replies) /\ x # << >> /\ u = x \o y /\ inbox'[c] = Tail(x)
    BY <1>2
  <2> HIDE DEF x, y, u
  <2>2. x \o y \in Seq(Replies) /\ x \o y # << >> /\ Head(x) = (x \o y)[1] /\ Tail(x) \o y = Tail(x \o y)
    BY <2>1, TakeHead
  <2>3. u \in Seq(Replies) /\ u # << >> /\ Head(x) = u[1] /\ inbox'[c] \o y = Tail(u)
    BY <2>1, <2>2
  <2> QED
    BY <2>3 DEF x, y
<1>4. Len(u) = Len(inbox[c]) + Len(job[w]) /\ Head(inbox[c]) \in Replies
  <2>1. Len(u) = Len(inbox[c]) + Len(job[w])
    BY <1>2, ConcatProperties
  <2>2. Head(inbox[c]) \in Replies
    BY <1>2, HeadTailProperties
  <2> QED
    BY <2>1, <2>2
<1>5. Stream(c, call[c], u)
  BY <1>1 DEF Answers
<1> HIDE DEF u
<1>6. Stream(c, call[c], Tail(u)) /\ Own(c, call[c], u[1]) /\ (Closes(call[c], u[1]) => Len(u) = 1)
  BY <1>3, <1>5, StreamTail
<1>7. ASSUME Len(u) = 1
      PROVE  Silent'
  <2>1. Len(inbox[c]) = 1 /\ Len(job[w]) = 0
    <3>1. Len(inbox[c]) \in Nat /\ Len(inbox[c]) # 0
      <4> DEFINE x == inbox[c]
      <4>1. x \in Seq(Replies) /\ x # << >>
        BY <1>2
      <4> HIDE DEF x
      <4>2. Len(x) \in Nat /\ Len(x) # 0
        BY <4>1
      <4> QED
        BY <4>2 DEF x
    <3>2. Len(job[w]) \in Nat
      BY <1>2, LenProperties
    <3>3. Len(inbox[c]) + Len(job[w]) = 1
      BY <1>4, <1>7
    <3> QED
      BY <3>1, <3>2, <3>3, OneReply
  <2>2. job[w] = << >>
    BY <1>2, <2>1, EmptySeq
  <2>3. Tail(inbox[c]) = << >>
    <3> DEFINE t == Tail(inbox[c])
    <3>1. t \in Seq(Replies) /\ Len(t) = 0
      BY <1>2, <2>1, HeadTailProperties
    <3> HIDE DEF t
    <3>2. t = << >>
      BY <3>1
    <3> QED
      BY <3>2 DEF t
  <2>4. \A d \in Conn : inbox'[d] = << >>
    BY <1>1, <1>2, <2>3 DEF Answers
  <2>5. requests' = << >> /\ \A v \in Worker : job'[v] = << >>
    BY <1>1, <2>2 DEF Answers
  <2> QED
    BY <2>4, <2>5 DEF Silent
<1> QED
  BY <1>1, <1>3, <1>4, <1>6, <1>7 DEF u

\* A call with one reply returns with it.
LEMMA RecvClean ==
    ASSUME CleanInv, Clean, NEW c \in Conn, Recv(c)
    PROVE  CleanInv'
<1> DEFINE k == call[c]
           r == Head(inbox[c])
<1>1. /\ k # None /\ k.op # "scan" /\ inbox[c] # << >> /\ inbox' = [inbox EXCEPT ![c] = Tail(@)]
      /\ stored' = stored /\ requests' = requests /\ job' = job /\ path' = path
      /\ faults' = faults /\ conn' = conn
      /\ call' = [call EXCEPT ![c] = None]
  BY DEF Recv, Finish, Waiting
<1>2. \E kind, value :
         outcome' = [outcome EXCEPT ![c] = Outcome(k, kind, value)]
         \/ outcome' = [outcome EXCEPT ![c] = Outcome(Taking(k, r), kind, value)]
  <2>1. CASE Stray(c, r)
    BY <2>1 DEF Recv, Finish
  <2>2. CASE ~Stray(c, r)
    BY <2>2 DEF Recv, Finish
  <2> QED
    BY <2>1, <2>2
<1>3. Silent' /\ Own(c, k, r) /\ r \in Replies
  BY <1>1, TakesOwn DEF Closes
<1>4. k \in CallRecords /\ k.used \subseteq {<<c, k.id>>} /\ \A d \in Conn : call'[d] = None
  BY <1>1, TheCall DEF CleanInv, ConnOK
<1> HIDE DEF k, r
<1>5. Flight'
  BY <1>3, <1>4 DEF Flight
<1>6. ConnOK' /\ WireOK'
  <2>1. inbox' \in [Conn -> Seq(Replies)]
    BY <1>1 DEF CleanInv, WireOK
  <2>2. DOMAIN outcome' = Conn
    BY <1>2 DEF CleanInv, ConnOK
  <2> QED
    BY <1>1, <1>4, <2>1, <2>2 DEF CleanInv, ConnOK, WireOK
<1>7. PICK o : /\ outcome' = [outcome EXCEPT ![c] = o]
               /\ o.op # "scan" /\ o.used \subseteq {<<c, o.id>>}
  <2>1. PICK kind, value :
          outcome' = [outcome EXCEPT ![c] = Outcome(k, kind, value)]
          \/ outcome' = [outcome EXCEPT ![c] = Outcome(Taking(k, r), kind, value)]
    BY <1>2
  <2> DEFINE o1 == Outcome(k, kind, value)
             o2 == Outcome(Taking(k, r), kind, value)
  <2>2. o1.op # "scan" /\ o1.used \subseteq {<<c, o1.id>>}
    BY <1>1, <1>4, OutcomeFields
  <2>3. o2.op # "scan" /\ o2.used \subseteq {<<c, o2.id>>}
    <3>1. /\ Taking(k, r).op = k.op /\ Taking(k, r).id = k.id
          /\ Taking(k, r).used = k.used \cup {<<r.from, r.id>>}
      BY <1>3, <1>4, TakingFields
    <3>2. o2.op = k.op /\ o2.id = k.id /\ o2.used = k.used \cup {<<r.from, r.id>>}
      BY <3>1, OutcomeFields
    <3> HIDE DEF o2
    <3> QED
      BY <1>1, <1>3, <1>4, <3>2 DEF Own
  <2> HIDE DEF o1, o2
  <2>4. outcome' = [outcome EXCEPT ![c] = o1] \/ outcome' = [outcome EXCEPT ![c] = o2]
    BY <2>1 DEF o1, o2
  <2> QED
    BY <2>2, <2>3, <2>4
<1>8. OwnReply' /\ ScanWhole'
  BY <1>1, <1>7, OutcomeAdded DEF CleanInv, ConnOK
<1> QED
  BY <1>5, <1>6, <1>8 DEF CleanInv

\* A scan takes a chunk, or returns with the end.
LEMMA ScanRecvClean ==
    ASSUME CleanInv, Clean, NEW c \in Conn, ScanRecv(c)
    PROVE  CleanInv'
<1> DEFINE k == call[c]
           r == Head(inbox[c])
           t == Taking(k, r)
           l == [t EXCEPT !.pairs = @ \cup {r.body}, !.total = r.total]
<1>1. /\ k # None /\ k.op = "scan" /\ inbox[c] # << >> /\ inbox' = [inbox EXCEPT ![c] = Tail(@)]
      /\ stored' = stored /\ requests' = requests /\ job' = job /\ path' = path
      /\ faults' = faults /\ conn' = conn
  BY DEF ScanRecv, Waiting
<1>2. PICK w \in Worker :
         /\ Answers(c, w)
         /\ inbox[c] \o job[w] \in Seq(Replies) /\ inbox[c] \o job[w] # << >>
         /\ r = (inbox[c] \o job[w])[1] /\ r \in Replies /\ Own(c, k, r)
         /\ inbox'[c] \o job[w] = Tail(inbox[c] \o job[w])
         /\ Stream(c, k, Tail(inbox[c] \o job[w]))
         /\ Closes(k, r) => Len(inbox[c] \o job[w]) = 1 /\ Silent'
  BY <1>1, TakesOwn
<1>3. k \in CallRecords /\ k.used \subseteq {<<c, k.id>>} /\ \A d \in Conn \ {c} : call[d] = None
  BY <1>1, TheCall DEF CleanInv, ConnOK
<1>4. r.opcode \in {"chunk", "end"} /\ r.from = c /\ r.id = k.id /\ ~Stray(c, r)
      /\ (r.opcode = "chunk" => r.body \in Key)
  BY <1>1, <1>2 DEF Own, Stray
<1>5. /\ t \in CallRecords
      /\ t.op = k.op /\ t.id = k.id /\ t.pairs = k.pairs /\ t.total = k.total
      /\ t.used = k.used \cup {<<c, k.id>>} /\ t.sent = k.sent
  <2> HIDE DEF k, r
  <2>1. /\ t \in CallRecords
        /\ t.op = k.op /\ t.id = k.id /\ t.pairs = k.pairs /\ t.total = k.total
        /\ t.used = k.used \cup {<<r.from, r.id>>} /\ t.sent = k.sent
    BY <1>2, <1>3, TakingFields
  <2> HIDE DEF t
  <2> QED
    BY <1>4, <2>1
<1>6. WireOK'
  BY <1>1 DEF CleanInv, WireOK
<1>7. CASE r.opcode = "end"
  <2> DEFINE o == Outcome(t, "done", t.pairs)
  <2>1. call' = [call EXCEPT ![c] = None] /\ outcome' = [outcome EXCEPT ![c] = o]
    BY <1>4, <1>7 DEF ScanRecv, Finish
  <2>2. Silent' /\ Len(inbox[c] \o job[w]) = 1
    BY <1>2, <1>7 DEF Closes
  <2>3. \A d \in Conn : call'[d] = None
    BY <1>3, <2>1 DEF CleanInv, ConnOK
  <2>4. Flight'
    BY <2>2, <2>3 DEF Flight
  <2>5. o.used \subseteq {<<c, o.id>>} /\ o.value = k.pairs /\ o.total = k.total
    BY <1>3, <1>5, OutcomeFields
  <2>6. faults' = {} => Cardinality(k.pairs) = k.total
    BY <1>1, <1>2, <1>3, <2>2, WholeEnd DEF Answers
  <2> HIDE DEF o, k
  <2>7. OwnReply' /\ ScanWhole'
    BY <1>1, <2>1, <2>5, <2>6, OutcomeAdded DEF CleanInv, ConnOK
  <2>8. ConnOK'
    BY <1>1, <2>1, <2>3 DEF CleanInv, ConnOK
  <2> QED
    BY <1>6, <2>4, <2>7, <2>8 DEF CleanInv
<1>8. CASE r.opcode = "chunk"
  <2>1. call' = [call EXCEPT ![c] = l] /\ outcome' = outcome
    BY <1>4, <1>8 DEF ScanRecv
  <2>2. /\ l \in CallRecords /\ l # None /\ l.op = k.op /\ l.id = k.id
        /\ l.pairs = k.pairs \cup {r.body} /\ l.total = r.total /\ l.used \subseteq {<<c, k.id>>}
        /\ l.sent = k.sent
    <3>1. r.total \in Nat /\ r.body \in Key
      BY <1>2, <1>4, <1>8 DEF Replies
    <3> HIDE DEF t, k, r
    <3>2. l \in CallRecords
      BY <1>5, <3>1 DEF CallRecords
    <3>3. DOMAIN t = {"op", "key", "value", "id", "sent", "pairs", "total", "used"}
      BY <1>5 DEF CallRecords
    <3>4. /\ l.op = t.op /\ l.id = t.id /\ l.used = t.used /\ l.sent = t.sent
          /\ l.pairs = t.pairs \cup {r.body} /\ l.total = r.total
      BY <3>3
    <3> HIDE DEF l
    <3> QED
      BY <1>3, <1>5, <3>2, <3>4, NoCallAssumption
  <2> HIDE DEF l, t
  <2>3. call'[c] = l /\ \A d \in Conn \ {c} : call'[d] = None
    BY <1>3, <2>1 DEF CleanInv, ConnOK
  <2> DEFINE u == inbox[c] \o job[w]
  <2>4. /\ u \in Seq(Replies) /\ u # << >> /\ r = u[1] /\ inbox'[c] \o job'[w] = Tail(u)
        /\ Stream(c, k, Tail(u)) /\ Stream(c, k, u) /\ k.sent
        /\ faults = {} => Whole(k, u)
    BY <1>1, <1>2 DEF Answers
  <2> HIDE DEF u, k, r
  <2>5. Stream(c, l, Tail(u))
    BY <2>2, <2>4 DEF Stream, Own, Closes
  <2>6. faults = {} => Whole(l, Tail(u))
    BY <1>1, <1>3, <1>8, <2>2, <2>4, WholeTail
  <2>7. \A d \in Conn \ {c} : inbox'[d] = inbox[d]
    BY <1>1 DEF CleanInv, WireOK
  <2>8. Answers(c, w)'
    <3>1. l.sent
      BY <2>2, <2>4
    <3>2. requests = << >> /\ (\A v \in Worker \ {w} : job[v] = << >>)
          /\ \A d \in Conn \ {c} : inbox[d] = << >>
      BY <1>2 DEF Answers
    <3>3. /\ requests' = << >> /\ (\A v \in Worker \ {w} : job'[v] = << >>)
          /\ \A d \in Conn \ {c} : inbox'[d] = << >>
      BY <1>1, <2>7, <3>2
    <3>4. call'[c] = l /\ faults' = faults /\ inbox'[c] \o job'[w] = Tail(u)
      BY <1>1, <2>3, <2>4
    <3> QED
      BY <2>5, <2>6, <3>1, <3>3, <3>4 DEF Answers
  <2>9. Flight'
    BY <2>2, <2>3, <2>8 DEF Flight
  <2>10. ConnOK'
    <3>1. path = c
      BY <1>1, TheCall DEF k
    <3>2. call' \in [Conn -> CallRecords \cup {None}]
      BY <2>1, <2>2 DEF CleanInv, ConnOK
    <3> QED
      BY <1>1, <2>1, <2>2, <2>3, <3>1, <3>2 DEF CleanInv, ConnOK
  <2> QED
    BY <1>1, <1>6, <2>1, <2>9, <2>10, OutcomesKept DEF CleanInv
<1> QED
  BY <1>4, <1>7, <1>8

LEMMA NextClean ==
    ASSUME SyncInv, [SyncNext]_syncVars
    PROVE  SyncInv'
<1> SUFFICES ASSUME Clean' PROVE CleanInv'
  BY DEF SyncInv
<1>1. Clean /\ CleanInv
  BY FaultsGrow DEF SyncInv, Clean
<1>2. CASE UNCHANGED syncVars
  <2>1. UNCHANGED <<wireVars, clientVars>>
    BY <1>2 DEF syncVars
  <2>2. ConnOK' /\ WireOK'
    BY <1>1, <2>1 DEF CleanInv, ConnOK, WireOK, wireVars, clientVars
  <2>3. Flight'
    BY <1>1, <2>1 DEF CleanInv, Flight, Silent, Unsent, Asked, Answers, wireVars, clientVars
  <2>4. OwnReply' /\ ScanWhole'
    BY <1>1, <2>1, OutcomesKept DEF CleanInv, wireVars, clientVars
  <2> QED
    BY <2>2, <2>3, <2>4 DEF CleanInv
<1>3. CASE Server /\ UNCHANGED clientVars
  BY <1>1, <1>3, ReceiveClean, SendReplyClean, ExpireClean DEF Server
<1>4. ASSUME NEW c \in Conn, Client(c)
      PROVE  CleanInv'
  <2>1. CASE Connect(c)
    BY <1>1, <2>1, ConnectClean
  <2>2. CASE Disconnect(c)
    BY <1>1, <2>2, CloseClean
  <2>3. CASE (\E a \in Calls : Make(c, a)) \/ Send(c)
    BY <1>1, <2>3, MakeClean, SendClean
  <2>4. CASE Recv(c)
    BY <1>1, <2>4, RecvClean
  <2>5. CASE ScanRecv(c)
    BY <1>1, <2>5, ScanRecvClean
  <2>6. CASE Timeout(c)
    BY <2>6 DEF Timeout, Clean
  <2> QED
    BY <1>4, <2>1, <2>2, <2>3, <2>4, <2>5, <2>6 DEF Client
<1> QED
  BY <1>2, <1>3, <1>4 DEF SyncNext

\* Neither the C client, which does not look at the request_id, nor the Python client
\* returns an answer to another call, as long as no call has timed out and the process
\* has one connection at a time (write_request, _roundtrip).
THEOREM RepliesAreOwn == SyncSpec => []OwnReply
<1>1. SyncInit => SyncInv
  BY InitClean DEF SyncInv
<1>2. SyncInv /\ [SyncNext]_syncVars => SyncInv'
  BY NextClean
<1>3. SyncInv => OwnReply
  BY DEF SyncInv, Clean, CleanInv, OwnReply
<1> QED
  BY <1>1, <1>2, <1>3, PTL DEF SyncSpec

\* A scan of either client that returns rows returns all that the chunks of find_by_prefix
\* announced, each once, if no reply was lost, late or taken by another connection.
THEOREM ScansAreWhole == SyncSpec => []ScanWhole
<1>1. SyncInit => SyncInv
  BY InitClean DEF SyncInv
<1>2. SyncInv /\ [SyncNext]_syncVars => SyncInv'
  BY NextClean
<1>3. SyncInv => ScanWhole
  BY DEF SyncInv, Clean, CleanInv, ScanWhole
<1> QED
  BY <1>1, <1>2, <1>3, PTL DEF SyncSpec

-----------------------------------------------------------------------------
\* The JavaScript client

\* No reply is lost, no scan overlaps another call or could not be sent, the socket has
\* had no error, and the connection was not closed on a call.
Calm == faults = {}

Requests == [from : Conn, id : Nat, op : Ops, key : Key, value : Value]

JsCalls == [op : Ops, sent : BOOLEAN, result : {None, "done", "error"}, used : SUBSET (Conn \X Nat)]

JsTyped ==
    /\ WireOK
    /\ requests \in Seq(Requests)
    /\ path \in Conn \cup {None}
    /\ calls \in Seq(JsCalls)
    /\ waiters \in Seq(1..Len(calls))
    /\ buffered \in Seq(Replies)
    /\ scanWaiter \in 1..Len(calls) \cup {None}

\* A call takes replies to its own request only, resolved or not.
TakesOwnOnly == \A i \in 1..Len(calls) : \A u \in calls[i].used : u[2] = i

JsTypeInv == JsTyped /\ TakesOwnOnly

Unsettled == {i \in 1..Len(calls) : ~Settled(calls[i])}

Busy == {w \in Worker : job[w] # << >>}

Arrived == IF path = None THEN << >> ELSE inbox[path]

\* Requests and replies that a call has yet to take.
UnderWay == Len(requests) + Cardinality(Busy) + Len(Arrived) + Len(buffered)

\* The calls that wait, each once, are plain ones that have been sent and not answered, and
\* a plain call is not answered before it has been sent.
WaitersOK ==
    /\ \A p \in 1..Len(waiters) :
          /\ calls[waiters[p]].sent /\ calls[waiters[p]].result = None /\ calls[waiters[p]].op # "scan"
          /\ \A q \in 1..Len(waiters) : waiters[p] = waiters[q] => p = q
    /\ \A i \in 1..Len(calls) :
          calls[i].op # "scan" /\ ~calls[i].sent => calls[i].result = None

\* Plain calls only: no more is under way than there are calls to take it.
PlainPhase ==
    /\ scanWaiter = None
    /\ \A i \in Unsettled : calls[i].op # "scan"
    /\ \A j \in 1..Len(requests) : requests[j].op # "scan"
    /\ \A w \in Worker : Len(job[w]) <= 1
    /\ UnderWay <= Cardinality(Unsettled)

\* The replies s to scan i from some point on.
ScanStream(i, s) ==
    /\ s # << >> /\ s[Len(s)].opcode = "end"
    /\ \A j \in 1..Len(s) : s[j].id = i /\ (j < Len(s) => s[j].opcode = "chunk")

\* A scan is the only call in progress: its request is under way,...
ScanAsked(i) ==
    /\ scanWaiter = i /\ calls[i].result = None
    /\ Len(requests) = 1 /\ requests[1].op = "scan" /\ requests[1].id = i
    /\ Busy = {} /\ Arrived = << >>

\* ... or the answer of a worker is,...
ScanAnswered(i, w) ==
    /\ scanWaiter = i /\ calls[i].result = None
    /\ requests = << >>
    /\ Busy \subseteq {w} /\ ScanStream(i, Arrived \o job[w])

\* ... or it has been answered before the await of its send was over.
ScanEnded(i) ==
    /\ scanWaiter = None /\ calls[i].result # None
    /\ requests = << >> /\ Busy = {} /\ Arrived = << >>

ScanPhase(i) ==
    /\ Unsettled = {i} /\ calls[i].op = "scan"
    /\ path # None /\ buffered = << >>
    /\ ScanAsked(i) \/ (\E w \in Worker : ScanAnswered(i, w)) \/ ScanEnded(i)

CalmInv ==
    /\ \A c \in Conn : c # path => inbox[c] = << >>
    /\ WaitersOK
    /\ PlainPhase \/ \E i \in 1..Len(calls) : ScanPhase(i)

JsInv == JsTypeInv /\ (Calm => CalmInv)

-----------------------------------------------------------------------------
\* The server

\* A request is answered by one reply, or by the stream of a scan.
LEMMA AnswerOf ==
    ASSUME WireOK, NEW r \in Requests
    PROVE  LET s == dispatch_request(r)
           IN  /\ s \in Seq(Replies)
               /\ r.op # "scan" => Len(s) = 1
               /\ r.op = "scan" => ScanStream(r.id, s)
<1> DEFINE s == dispatch_request(r)
<1>1. r.from \in Conn /\ r.id \in Nat /\ r.op \in Ops /\ r.key \in Key
  BY DEF Requests
<1>2. CASE r.op = "scan"
  <2>1. s = find_by_prefix(r)
    BY <1>2 DEF dispatch_request
  <2>2. /\ s \in Seq(Replies) /\ Len(s) - 1 \in Nat
        /\ \A i \in 1..Len(s) : s[i].id = r.id
        /\ s[Len(s)].opcode = "end"
        /\ \A i \in 1..Len(s) - 1 : s[i].opcode = "chunk"
    BY <1>1, <2>1, ScanAnswer
  <2> HIDE DEF s
  <2>3. ScanStream(r.id, s)
    BY <2>2 DEF ScanStream
  <2> QED
    BY <1>2, <2>2, <2>3 DEF s
<1>3. CASE r.op # "scan"
  <2>1. \E opcode \in {"value", "ok", "flag"}, body \in Key \cup Value \cup BOOLEAN \cup {None} :
           s = <<Reply(r, opcode, body, 0)>>
    <3>1. CASE r.op = "read"
      <4>1. CASE r.key \in DOMAIN stored
        BY <1>1, <3>1, <4>1 DEF dispatch_request, WireOK
      <4>2. CASE r.key \notin DOMAIN stored
        BY <1>1, <3>1, <4>2 DEF dispatch_request
      <4> QED
        BY <4>1, <4>2
    <3>2. CASE r.op \in {"write", "writeTtl", "delete", "ttl"}
      BY <1>1, <3>2 DEF dispatch_request
    <3>3. CASE r.op = "cad"
      BY <1>1, <3>3 DEF dispatch_request, Matches
    <3> QED
      BY <1>1, <1>3, <3>1, <3>2, <3>3 DEF Ops
  <2>2. PICK opcode \in {"value", "ok", "flag"}, body \in Key \cup Value \cup BOOLEAN \cup {None} :
           s = <<Reply(r, opcode, body, 0)>>
    BY <2>1
  <2>3. Reply(r, opcode, body, 0) \in Replies
    BY <1>1 DEF Reply, Replies
  <2> HIDE DEF s
  <2> QED
    BY <1>3, <2>2, <2>3 DEF s
<1> QED
  BY <1>2, <1>3

\* What a worker's steps do to the wire.
LEMMA ReceiveTyped ==
    ASSUME JsTyped, NEW w \in Worker, Receive(w)
    PROVE  /\ WireOK' /\ requests' \in Seq(Requests)
           /\ Head(requests) \in Requests /\ requests # << >> /\ requests' = Tail(requests)
           /\ job[w] = << >> /\ job' = [job EXCEPT ![w] = dispatch_request(Head(requests))]
           /\ inbox' = inbox /\ path' = path /\ faults' = faults
<1> DEFINE r == Head(requests)
           keys == (DOMAIN stored \ Removed(r)) \cup Written(r)
           s == dispatch_request(r)
<1>1. /\ requests # << >> /\ requests' = Tail(requests)
      /\ job[w] = << >> /\ job' = [job EXCEPT ![w] = s]
      /\ stored' = [k \in keys |-> IF k \in Written(r) THEN r.value ELSE stored[k]]
      /\ inbox' = inbox /\ path' = path /\ faults' = faults
  BY DEF Receive
<1>2. WireOK /\ requests \in Seq(Requests)
  BY DEF JsTyped
<1>3. r \in Requests /\ requests' \in Seq(Requests)
  BY <1>1, <1>2
<1>4. s \in Seq(Replies) /\ r.key \in Key /\ r.value \in Value
  BY <1>2, <1>3, AnswerOf DEF Requests
<1> HIDE DEF r, s
<1>5. job' \in [Worker -> Seq(Replies)] /\ inbox' \in [Conn -> Seq(Replies)]
  BY <1>1, <1>2, <1>4 DEF WireOK
<1>6. DOMAIN stored' \subseteq Key /\ \A k \in DOMAIN stored' : stored'[k] \in Value
  <2>1. Written(r) \subseteq {r.key}
    BY DEF Written
  <2>2. keys \subseteq Key /\ \A k \in keys : k \in Written(r) \/ k \in DOMAIN stored
    BY <1>2, <1>4, <2>1 DEF WireOK
  <2> HIDE DEF keys
  <2> QED
    BY <1>1, <1>2, <1>4, <2>2 DEF WireOK
<1>7. WireOK'
  BY <1>5, <1>6 DEF WireOK
<1> QED
  BY <1>1, <1>3, <1>7 DEF r, s

LEMMA SendReplyTyped ==
    ASSUME JsTyped, NEW w \in Worker, SendReply(w)
    PROVE  /\ WireOK' /\ requests' = requests /\ path' = path
           /\ job[w] # << >> /\ job' = [job EXCEPT ![w] = Tail(job[w])]
           /\ \/ /\ path # None /\ faults' = faults
                 /\ inbox' = [inbox EXCEPT ![path] = Append(inbox[path], Head(job[w]))]
              \/ inbox' = inbox /\ "lost" \in faults'
<1>1. /\ job[w] # << >> /\ job' = [job EXCEPT ![w] = Tail(job[w])]
      /\ requests' = requests /\ stored' = stored /\ path' = path
      /\ \/ /\ path # None /\ faults' = faults
            /\ inbox' = [inbox EXCEPT ![path] = Append(inbox[path], Head(job[w]))]
         \/ inbox' = inbox /\ "lost" \in faults'
  BY DEF SendReply
<1>2. WireOK /\ job[w] \in Seq(Replies) /\ path \in Conn \cup {None}
  BY DEF JsTyped, WireOK
<1>3. Head(job[w]) \in Replies /\ Tail(job[w]) \in Seq(Replies)
  BY <1>1, <1>2
<1>4. inbox' \in [Conn -> Seq(Replies)]
  <2>1. CASE path # None
    <3>1. path \in Conn /\ inbox[path] \in Seq(Replies)
      BY <1>2, <2>1 DEF WireOK
    <3>2. Append(inbox[path], Head(job[w])) \in Seq(Replies)
      BY <1>3, <3>1
    <3> QED
      BY <1>1, <1>2, <3>1, <3>2 DEF WireOK
  <2> QED
    BY <1>1, <1>2, <2>1 DEF WireOK
<1>5. WireOK'
  BY <1>1, <1>2, <1>3, <1>4 DEF WireOK
<1> QED
  BY <1>1, <1>5

-----------------------------------------------------------------------------
\* Types, and whose replies a call takes

LEMMA CallFields ==
    ASSUME JsTyped, NEW i \in 1..Len(calls)
    PROVE  /\ calls[i] \in JsCalls /\ Len(calls) \in Nat /\ i \in Nat
           /\ calls[i].op \in Ops /\ calls[i].sent \in BOOLEAN
           /\ calls[i].result \in {None, "done", "error"}
           /\ calls[i].used \in SUBSET (Conn \X Nat)
<1>1. calls[i] \in JsCalls /\ Len(calls) \in Nat
  BY DEF JsTyped
<1> QED
  BY <1>1 DEF JsCalls

\* One call changes: the others stay.
LEMMA CallChanged ==
    ASSUME JsTyped, NEW i \in 1..Len(calls), NEW c \in JsCalls, calls' = [calls EXCEPT ![i] = c]
    PROVE  /\ calls' \in Seq(JsCalls) /\ Len(calls') = Len(calls) /\ calls'[i] = c
           /\ \A j \in 1..Len(calls) : j # i => calls'[j] = calls[j]
BY DEF JsTyped

LEMMA AnsweredFields ==
    ASSUME JsTyped, NEW i \in 1..Len(calls), NEW r \in Replies
    PROVE  LET c == Answered(i, r)
           IN  /\ c \in JsCalls /\ c.op = calls[i].op /\ c.sent = TRUE /\ c.result # None
               /\ \A u \in c.used : u[2] = i
<1> DEFINE c == Answered(i, r)
<1>1. calls[i] \in JsCalls /\ calls[i].op \in Ops
  BY CallFields
<1>2. r.from \in Conn /\ r.id \in Nat
  BY DEF Replies
<1>3. {<<r.from, r.id>>} \in SUBSET (Conn \X Nat)
  BY <1>2
<1>4. c = [op |-> calls[i].op, sent |-> TRUE, result |-> IF r.id = i THEN "done" ELSE "error",
           used |-> IF r.id = i THEN {<<r.from, r.id>>} ELSE {}]
  BY DEF Answered
<1> HIDE DEF c
<1>5. c \in JsCalls
  BY <1>1, <1>3, <1>4 DEF JsCalls
<1>6. c.op = calls[i].op /\ c.sent = TRUE /\ c.result # None
  BY <1>4, NoResultAssumption
<1>7. \A u \in c.used : u[2] = i
  BY <1>4
<1> QED
  BY <1>5, <1>6, <1>7 DEF c

LEMMA JsInitTyped == JsInit => JsTypeInv
<1> SUFFICES ASSUME JsInit PROVE JsTypeInv
  OBVIOUS
<1>1. WireOK
  <2>1. DOMAIN stored \subseteq Key /\ \A k \in DOMAIN stored : stored[k] \in Value
    <3>1. PICK keys \in SUBSET Key : stored \in [keys -> Value]
      BY DEF JsInit, BusInit
    <3> QED
      BY <3>1
  <2>2. job = [w \in Worker |-> << >>] /\ inbox = [c \in Conn |-> << >>]
    BY DEF JsInit, SocketsInit
  <2> QED
    BY <2>1, <2>2 DEF WireOK
<1>2. calls = << >> /\ waiters = << >> /\ buffered = << >> /\ scanWaiter = None
      /\ path \in Conn /\ requests = << >>
  BY DEF JsInit, SocketsInit
<1> QED
  BY <1>1, <1>2 DEF JsTypeInv, JsTyped, TakesOwnOnly

LEMMA ServerTyped == JsTypeInv /\ Server /\ UNCHANGED jsVars => JsTypeInv'
<1> SUFFICES ASSUME JsTypeInv, Server, UNCHANGED jsVars PROVE JsTypeInv'
  OBVIOUS
<1>1. JsTyped /\ calls' = calls /\ waiters' = waiters /\ buffered' = buffered /\ scanWaiter' = scanWaiter
  BY DEF jsVars, JsTypeInv
<1>2. WireOK' /\ requests' \in Seq(Requests) /\ path' = path
  <2>1. ASSUME NEW w \in Worker, Receive(w)
        PROVE  WireOK' /\ requests' \in Seq(Requests) /\ path' = path
    BY <1>1, <2>1, ReceiveTyped
  <2>2. ASSUME NEW w \in Worker, SendReply(w)
        PROVE  WireOK' /\ requests' \in Seq(Requests) /\ path' = path
    BY <1>1, <2>2, SendReplyTyped DEF JsTyped
  <2>3. ASSUME NEW k \in Key, Expire(k)
        PROVE  WireOK' /\ requests' \in Seq(Requests) /\ path' = path
    BY <1>1, <2>3 DEF Expire, JsTyped, WireOK
  <2> QED
    BY <2>1, <2>2, <2>3 DEF Server
<1> QED
  BY <1>1, <1>2 DEF JsTypeInv, JsTyped, TakesOwnOnly

LEMMA StartTyped ==
    ASSUME JsTypeInv, NEW a \in Calls, Start(a)
    PROVE  JsTypeInv'
<1> DEFINE n == Len(calls)
<1>1. JsTyped /\ n \in Nat /\ calls \in Seq(JsCalls) /\ WireOK /\ requests \in Seq(Requests)
      /\ path \in Conn \cup {None}
  BY DEF JsTypeInv, JsTyped
<1>2. a.op \in Ops /\ a.key \in Key /\ a.value \in Value
  BY CallsAssumption
<1>3. PICK c \in JsCalls : calls' = Append(calls, c) /\ c.used = {}
  <2>1. Started(a.op) \in JsCalls /\ Started(a.op).used = {}
    BY <1>2 DEF Started, JsCalls
  <2>2. LET d == [Started(a.op) EXCEPT !.sent = TRUE, !.result = "error"]
        IN  d \in JsCalls /\ d.used = {}
    BY <1>2 DEF Started, JsCalls
  <2> QED
    BY <2>1, <2>2 DEF Start
<1>4. calls' \in Seq(JsCalls) /\ Len(calls') = n + 1 /\ calls'[n + 1] = c
      /\ \A i \in 1..n : calls'[i] = calls[i]
  BY <1>1, <1>3
<1>5. requests' \in Seq(Requests)
  <2>1. ASSUME path # None PROVE Request(path, n + 1, a) \in Requests
    BY <1>1, <1>2, <2>1 DEF Request, Requests
  <2> QED
    BY SMTT(60), <1>1, <2>1 DEF Start
<1>6. waiters' = waiters /\ buffered' = buffered /\ path' = path /\ WireOK'
  BY <1>1 DEF Start, WireOK
<1>7. scanWaiter' \in 1..n + 1 \cup {None}
  BY <1>1 DEF Start, JsTyped
<1>8. waiters \in Seq(1..n + 1)
  <2>1. waiters \in Seq(1..n) /\ 1..n \subseteq 1..n + 1
    BY <1>1 DEF JsTyped
  <2> QED
    BY <2>1, SeqMonotonic
<1>9. TakesOwnOnly'
  BY <1>1, <1>3, <1>4 DEF JsTypeInv, TakesOwnOnly
<1> QED
  BY <1>1, <1>4, <1>5, <1>6, <1>7, <1>8, <1>9 DEF JsTypeInv, JsTyped

\* A step of the client that changes one call, and nothing of the wire but its inbox.
LEMMA CallTyped ==
    ASSUME JsTypeInv, NEW i \in 1..Len(calls), NEW c \in JsCalls, calls' = [calls EXCEPT ![i] = c],
           \A u \in c.used : u[2] = i,
           waiters' \in Seq(1..Len(calls)), buffered' \in Seq(Replies),
           scanWaiter' \in 1..Len(calls) \cup {None},
           inbox' \in [Conn -> Seq(Replies)],
           stored' = stored /\ job' = job /\ requests' = requests /\ path' = path
    PROVE  JsTypeInv'
<1>1. JsTyped
  BY DEF JsTypeInv
<1>2. /\ calls' \in Seq(JsCalls) /\ Len(calls') = Len(calls) /\ calls'[i] = c
      /\ \A j \in 1..Len(calls) : j # i => calls'[j] = calls[j]
  BY <1>1, CallChanged
<1>3. TakesOwnOnly'
  BY <1>2 DEF JsTypeInv, TakesOwnOnly
<1> QED
  BY <1>1, <1>2, <1>3 DEF JsTypeInv, JsTyped, WireOK

LEMMA SentTyped ==
    ASSUME JsTypeInv, NEW i \in 1..MaxCalls, Sent(i)
    PROVE  JsTypeInv'
<1>1. JsTyped /\ i \in 1..Len(calls) /\ inbox \in [Conn -> Seq(Replies)]
  BY DEF JsTypeInv, JsTyped, Sent, WireOK
<1>2. stored' = stored /\ job' = job /\ requests' = requests /\ path' = path /\ inbox' = inbox
      /\ scanWaiter' = scanWaiter
  BY DEF Sent, wireVars
<1>3. /\ waiters \in Seq(1..Len(calls)) /\ buffered \in Seq(Replies)
      /\ scanWaiter \in 1..Len(calls) \cup {None}
  BY <1>1 DEF JsTyped
<1>4. waiters' \in Seq(1..Len(calls)) /\ buffered' \in Seq(Replies)
  <2>1. Append(waiters, i) \in Seq(1..Len(calls)) /\ (buffered # << >> => Tail(buffered) \in Seq(Replies))
    BY <1>1, <1>3
  <2> QED
    BY <1>3, <2>1 DEF Sent
<1>5. calls[i] \in JsCalls /\ \A u \in calls[i].used : u[2] = i
  BY <1>1, CallFields DEF JsTypeInv, TakesOwnOnly
<1>6. PICK c \in JsCalls : calls' = [calls EXCEPT ![i] = c] /\ \A u \in c.used : u[2] = i
  <2>1. CASE calls' = [calls EXCEPT ![i].sent = TRUE]
    <3> DEFINE c == [calls[i] EXCEPT !.sent = TRUE]
    <3>1. c \in JsCalls /\ c.used = calls[i].used
      BY <1>5 DEF JsCalls
    <3>2. calls' = [calls EXCEPT ![i] = c]
      BY <2>1
    <3> HIDE DEF c
    <3> QED
      BY <1>5, <3>1, <3>2
  <2>2. CASE buffered # << >> /\ calls' = [calls EXCEPT ![i] = Answered(i, Head(buffered))]
    <3>1. Head(buffered) \in Replies
      BY <1>3, <2>2
    <3> QED
      BY ZenonT(60), <1>1, <2>2, <3>1, AnsweredFields
  <2> QED
    BY <2>1, <2>2 DEF Sent
<1> QED
  BY <1>1, <1>2, <1>3, <1>4, <1>6, CallTyped

LEMMA OnMessageTyped ==
    ASSUME JsTypeInv, OnMessage
    PROVE  JsTypeInv'
<1> DEFINE r == Head(inbox[path])
<1>1. /\ JsTyped /\ path \in Conn /\ inbox \in [Conn -> Seq(Replies)] /\ inbox[path] # << >>
      /\ waiters \in Seq(1..Len(calls)) /\ buffered \in Seq(Replies)
      /\ scanWaiter \in 1..Len(calls) \cup {None}
  BY DEF JsTypeInv, JsTyped, WireOK, OnMessage
<1>2. r \in Replies /\ Tail(inbox[path]) \in Seq(Replies)
  BY <1>1
<1>3. inbox' = [inbox EXCEPT ![path] = Tail(inbox[path])]
      /\ stored' = stored /\ job' = job /\ requests' = requests /\ path' = path
  BY DEF OnMessage
<1>4. inbox' \in [Conn -> Seq(Replies)]
  BY <1>1, <1>2, <1>3
<1> HIDE DEF r
<1>5. CASE scanWaiter # None /\ Scanned(r) /\ UNCHANGED <<waiters, buffered>>
  <2>1. scanWaiter \in 1..Len(calls) /\ calls[scanWaiter] \in JsCalls
        /\ \A u \in calls[scanWaiter].used : u[2] = scanWaiter
    BY <1>1, <1>5, CallFields DEF JsTypeInv, TakesOwnOnly
  <2>2. r.from \in Conn /\ r.id \in Nat
    BY <1>2 DEF Replies
  <2>3. PICK c \in JsCalls : calls' = [calls EXCEPT ![scanWaiter] = c] /\ \A u \in c.used : u[2] = scanWaiter
    <3>1. CASE r.id = scanWaiter /\ r.opcode = "chunk"
      <4> DEFINE c == [calls[scanWaiter] EXCEPT !.used = calls[scanWaiter].used \cup {<<r.from, r.id>>}]
      <4>1. calls' = [calls EXCEPT ![scanWaiter] = c]
        BY <1>5, <3>1 DEF Scanned
      <4>2. calls[scanWaiter].used \cup {<<r.from, r.id>>} \in SUBSET (Conn \X Nat)
        BY <1>1, <2>1, <2>2, CallFields
      <4>3. c \in JsCalls /\ c.used = calls[scanWaiter].used \cup {<<r.from, r.id>>}
        BY <2>1, <4>2 DEF JsCalls
      <4>4. <<r.from, r.id>>[2] = scanWaiter
        BY <3>1
      <4> HIDE DEF c
      <4> QED
        BY <2>1, <4>1, <4>3, <4>4
    <3>2. CASE ~(r.id = scanWaiter /\ r.opcode = "chunk")
      <4> DEFINE x == IF r.id = scanWaiter /\ r.opcode = "end" THEN "done" ELSE "error"
                 c == [calls[scanWaiter] EXCEPT !.result = x]
      <4>1. calls' = [calls EXCEPT ![scanWaiter] = c]
        BY <1>5, <3>2 DEF Scanned
      <4>2. c \in JsCalls /\ c.used = calls[scanWaiter].used
        BY <2>1 DEF JsCalls
      <4> HIDE DEF c
      <4> QED
        BY <2>1, <4>1, <4>2
    <3> QED
      BY <3>1, <3>2
  <2>4. scanWaiter' \in 1..Len(calls) \cup {None}
    BY <1>5, <2>1 DEF Scanned
  <2> QED
    BY <1>1, <1>3, <1>4, <1>5, <2>1, <2>3, <2>4, CallTyped
<1>6. CASE /\ scanWaiter = None /\ waiters # << >>
           /\ calls' = [calls EXCEPT ![Head(waiters)] = Answered(Head(waiters), r)]
           /\ waiters' = Tail(waiters)
           /\ UNCHANGED <<buffered, scanWaiter>>
  <2>1. Head(waiters) \in 1..Len(calls) /\ Tail(waiters) \in Seq(1..Len(calls))
    BY <1>1, <1>6
  <2>2. Answered(Head(waiters), r) \in JsCalls
        /\ \A u \in Answered(Head(waiters), r).used : u[2] = Head(waiters)
    BY <1>1, <1>2, <2>1, AnsweredFields
  <2> QED
    BY <1>1, <1>3, <1>4, <1>6, <2>1, <2>2, CallTyped
<1>7. CASE /\ scanWaiter = None /\ waiters = << >>
           /\ buffered' = Append(buffered, r)
           /\ UNCHANGED <<calls, waiters, scanWaiter>>
  <2>1. buffered' \in Seq(Replies)
    BY <1>1, <1>2, <1>7
  <2> QED
    BY <1>1, <1>3, <1>4, <1>7, <2>1 DEF JsTypeInv, JsTyped, WireOK, TakesOwnOnly
<1> QED
  BY <1>5, <1>6, <1>7 DEF OnMessage, r

LEMMA OnErrorTyped ==
    ASSUME JsTypeInv, OnError
    PROVE  JsTypeInv'
<1>1. JsTyped /\ calls \in Seq(JsCalls)
  BY DEF JsTypeInv, JsTyped
<1> DEFINE c(i) == IF Contains(waiters, i) THEN [calls[i] EXCEPT !.result = "error"] ELSE calls[i]
<1>2. calls' = [i \in 1..Len(calls) |-> c(i)]
  BY <1>1 DEF OnError
<1>3. ASSUME NEW i \in 1..Len(calls) PROVE c(i) \in JsCalls /\ c(i).used = calls[i].used
  BY <1>1, <1>3, CallFields DEF JsCalls
<1> HIDE DEF c
<1>4. calls' \in Seq(JsCalls) /\ Len(calls') = Len(calls)
  BY <1>1, <1>2, <1>3
<1>5. waiters' = << >> /\ buffered' = buffered /\ scanWaiter' = scanWaiter /\ stored' = stored
      /\ job' = job /\ inbox' = inbox /\ requests' = requests /\ path' = path
  BY DEF OnError
<1>6. TakesOwnOnly'
  BY <1>2, <1>3, <1>4 DEF TakesOwnOnly, JsTypeInv
<1> QED
  BY <1>1, <1>4, <1>5, <1>6 DEF JsTypeInv, JsTyped, WireOK

LEMMA CloseTyped ==
    ASSUME JsTypeInv, Close
    PROVE  JsTypeInv'
<1>1. JsTyped /\ path \in Conn
  BY DEF JsTypeInv, JsTyped, Close
<1>2. /\ calls' = calls /\ waiters' = waiters /\ buffered' = buffered /\ scanWaiter' = scanWaiter
      /\ stored' = stored /\ job' = job /\ requests' = requests /\ path' = None
      /\ inbox' = [inbox EXCEPT ![path] = << >>]
  BY DEF Close, jsVars
<1>3. inbox' \in [Conn -> Seq(Replies)]
  BY <1>1, <1>2 DEF JsTyped, WireOK
<1> QED
  BY <1>1, <1>2, <1>3 DEF JsTypeInv, JsTyped, WireOK, TakesOwnOnly

LEMMA JsNextTyped == JsTypeInv /\ [JsNext]_jsSystem => JsTypeInv'
<1> SUFFICES ASSUME JsTypeInv, [JsNext]_jsSystem PROVE JsTypeInv'
  OBVIOUS
<1>1. CASE UNCHANGED jsSystem
  BY <1>1 DEF jsSystem, wireVars, jsVars, JsTypeInv, JsTyped, WireOK, TakesOwnOnly
<1> QED
  BY <1>1, ServerTyped, StartTyped, SentTyped, OnMessageTyped, OnErrorTyped, CloseTyped DEF JsNext

-----------------------------------------------------------------------------
\* While no fault has happened: counting

LEMMA NotEmpty ==
    ASSUME NEW S, NEW s \in Seq(S), Len(s) = 1
    PROVE  s # << >>
<1> SUFFICES ASSUME s = << >> PROVE FALSE
  OBVIOUS
<1>1. Len(<< >>) = 0
  BY EmptySeq
<1> QED
  BY <1>1

LEMMA OneLong ==
    ASSUME NEW S, NEW s \in Seq(S), s # << >>, Len(s) <= 1
    PROVE  Len(s) = 1 /\ Tail(s) = << >>
<1>0. Len(s) \in Nat /\ Len(s) # 0
  BY EmptySeq
<1>1. Len(s) = 1
  BY <1>0
<1>2. Tail(s) \in Seq(S) /\ Len(Tail(s)) = 0
  BY <1>1
<1> QED
  BY <1>1, <1>2, EmptySeq

LEMMA Counts ==
    ASSUME JsTyped
    PROVE  /\ IsFiniteSet(Unsettled) /\ Cardinality(Unsettled) \in Nat
           /\ IsFiniteSet(Busy) /\ Cardinality(Busy) \in Nat
           /\ Len(requests) \in Nat /\ Arrived \in Seq(Replies) /\ Len(Arrived) \in Nat
           /\ Len(buffered) \in Nat /\ UnderWay \in Nat
           /\ \A w \in Worker : job[w] \in Seq(Replies)
<1>1. Len(calls) \in Nat /\ Unsettled \subseteq 1..Len(calls) /\ Busy \subseteq Worker
  BY DEF JsTyped, Unsettled, Busy
<1>2. IsFiniteSet(1..Len(calls))
  BY <1>1, FS_Interval
<1>3. IsFiniteSet(Unsettled) /\ IsFiniteSet(Busy)
  BY <1>1, <1>2, FS_Subset, WorkerAssumption
<1>4. Cardinality(Unsettled) \in Nat /\ Cardinality(Busy) \in Nat
  BY <1>3, FS_CardinalityType
<1>5. Arrived \in Seq(Replies)
  BY DEF JsTyped, WireOK, Arrived
<1>6. Len(requests) \in Nat /\ Len(Arrived) \in Nat /\ Len(buffered) \in Nat
  BY <1>5 DEF JsTyped
<1>7. \A w \in Worker : job[w] \in Seq(Replies)
  BY DEF JsTyped, WireOK
<1> QED
  BY <1>3, <1>4, <1>5, <1>6, <1>7 DEF UnderWay

\* With nobody to take it, nothing is under way.
LEMMA NoneUnderWay ==
    ASSUME JsTyped, PlainPhase, Unsettled = {}
    PROVE  requests = << >> /\ Busy = {} /\ Arrived = << >> /\ buffered = << >>
<1>1. UnderWay = 0 /\ Cardinality(Unsettled) = 0
  BY Counts, FS_EmptySet DEF PlainPhase
<1>2. Len(requests) = 0 /\ Cardinality(Busy) = 0 /\ Len(Arrived) = 0 /\ Len(buffered) = 0
  BY <1>1, Counts DEF UnderWay
<1>3. Busy = {}
  BY <1>2, Counts, FS_EmptySet
<1> QED
  BY <1>2, <1>3, Counts, EmptySeq DEF JsTyped

\* A client that waits for nothing, with nothing under way.
LEMMA AtRest ==
    ASSUME JsTyped', scanWaiter' = None, Unsettled' = {}, requests' = << >>, Busy' = {},
           Arrived' = << >>, buffered' = << >>
    PROVE  PlainPhase'
<1>1. UnderWay' = 0 /\ Cardinality(Unsettled') = 0
  BY FS_EmptySet DEF UnderWay
<1>2. \A w \in Worker : Len(job'[w]) <= 1
  BY DEF Busy
<1> QED
  BY <1>1, <1>2 DEF PlainPhase

LEMMA UnsettledIs ==
    ASSUME JsTyped, NEW i
    PROVE  i \in Unsettled <=> i \in 1..Len(calls) /\ (~calls[i].sent \/ calls[i].result = None)
BY DEF Unsettled, Settled

\* A call that is settled is one unsettled call less.
LEMMA OneSettled ==
    ASSUME JsTyped, NEW i \in 1..Len(calls), NEW c \in JsCalls, calls' = [calls EXCEPT ![i] = c],
           i \in Unsettled, Settled(c)
    PROVE  /\ Unsettled' = Unsettled \ {i}
           /\ Cardinality(Unsettled') = Cardinality(Unsettled) - 1
<1>1. /\ Len(calls') = Len(calls) /\ calls'[i] = c
      /\ \A j \in 1..Len(calls) : j # i => calls'[j] = calls[j]
  BY CallChanged
<1>2. Unsettled' = Unsettled \ {i}
  BY <1>1 DEF Unsettled
<1> QED
  BY <1>2, Counts, FS_RemoveElement

\* A call that stays unsettled.
LEMMA StillUnsettled ==
    ASSUME JsTyped, NEW i \in 1..Len(calls), NEW c \in JsCalls, calls' = [calls EXCEPT ![i] = c],
           i \in Unsettled, ~Settled(c)
    PROVE  Unsettled' = Unsettled
<1>1. /\ Len(calls') = Len(calls) /\ calls'[i] = c
      /\ \A j \in 1..Len(calls) : j # i => calls'[j] = calls[j]
  BY CallChanged
<1> QED
  BY <1>1 DEF Unsettled

-----------------------------------------------------------------------------
\* While no fault has happened: the steps of the server

LEMMA InitCalm == JsInit => CalmInv
<1> SUFFICES ASSUME JsInit PROVE CalmInv
  OBVIOUS
<1>1. JsTyped
  BY JsInitTyped DEF JsTypeInv
<1>2. /\ calls = << >> /\ waiters = << >> /\ buffered = << >> /\ scanWaiter = None
      /\ path \in Conn /\ requests = << >>
      /\ job = [w \in Worker |-> << >>] /\ inbox = [c \in Conn |-> << >>]
  BY DEF JsInit, SocketsInit
<1>3. Unsettled = {} /\ Busy = {} /\ Arrived = << >>
  BY <1>2 DEF Unsettled, Busy, Arrived
<1>4. UnderWay = 0 /\ Cardinality(Unsettled) = 0
  BY <1>2, <1>3, FS_EmptySet DEF UnderWay
<1>5. PlainPhase
  BY <1>2, <1>3, <1>4 DEF PlainPhase
<1> QED
  BY <1>2, <1>5 DEF CalmInv, WaitersOK

LEMMA ReceiveCalm ==
    ASSUME JsTypeInv, JsTyped', CalmInv, NEW w \in Worker, Receive(w), UNCHANGED jsVars
    PROVE  CalmInv'
<1> DEFINE r == Head(requests)
           s == dispatch_request(r)
<1>1. JsTyped /\ WireOK /\ requests \in Seq(Requests) /\ job \in [Worker -> Seq(Replies)]
  BY DEF JsTypeInv, JsTyped, WireOK
<1>2. /\ r \in Requests /\ requests # << >> /\ requests' = Tail(requests)
      /\ job[w] = << >> /\ job' = [job EXCEPT ![w] = s]
      /\ inbox' = inbox /\ path' = path
  BY <1>1, ReceiveTyped
<1>3. /\ calls' = calls /\ waiters' = waiters /\ buffered' = buffered /\ scanWaiter' = scanWaiter
      /\ Unsettled' = Unsettled /\ Arrived' = Arrived
  BY <1>2 DEF jsVars, Unsettled, Arrived
<1>4. s \in Seq(Replies) /\ (r.op # "scan" => Len(s) = 1) /\ (r.op = "scan" => ScanStream(r.id, s))
  BY <1>1, <1>2, AnswerOf
<1>5. r = requests[1] /\ Len(requests') = Len(requests) - 1 /\ Len(requests) \in Nat \ {0}
      /\ \A j \in 1..Len(requests') : requests'[j] = requests[j + 1] /\ j + 1 \in 1..Len(requests)
  BY <1>1, <1>2
<1> HIDE DEF r, s
<1>6. CASE PlainPhase
  <2>0. requests[1].op # "scan"
    BY <1>5, <1>6 DEF PlainPhase
  <2>1. Len(s) = 1
    BY <1>4, <1>5, <2>0
  <2>2. Busy' = Busy \cup {w} /\ w \notin Busy
    <3>1. s # << >>
      BY <1>4, <2>1, NotEmpty
    <3> QED
      BY <1>1, <1>2, <3>1 DEF Busy
  <2>3. Cardinality(Busy') = Cardinality(Busy) + 1
    BY <1>1, <2>2, Counts, FS_AddElement
  <2>4. UnderWay' = UnderWay
    BY <1>1, <1>3, <1>5, <2>3, Counts DEF UnderWay
  <2>5. \A v \in Worker : Len(job'[v]) <= 1
    <3>1. \A v \in Worker : Len(job[v]) <= 1
      BY <1>6 DEF PlainPhase
    <3>2. job'[w] = s /\ \A v \in Worker : v # w => job'[v] = job[v]
      BY <1>1, <1>2
    <3>3. Len(job'[w]) = 1
      BY <2>1, <3>2, Zenon
    <3>4. \A v \in Worker : v # w => Len(job'[v]) <= 1
      BY <3>1, <3>2, Zenon
    <3>5. Len(job'[w]) <= 1
      BY <3>3
    <3> QED
      BY <3>4, <3>5, Zenon
  <2>6. \A j \in 1..Len(requests') : requests'[j].op # "scan"
    BY <1>5, <1>6 DEF PlainPhase
  <2>7. PlainPhase'
    BY <1>3, <1>6, <2>4, <2>5, <2>6 DEF PlainPhase
  <2> QED
    BY <1>2, <1>3, <2>7 DEF CalmInv, WaitersOK
<1>7. ASSUME NEW i \in 1..Len(calls), ScanPhase(i) PROVE CalmInv'
  <2>1. ScanAsked(i)
    BY <1>2, <1>7 DEF ScanPhase, ScanAnswered, ScanEnded
  <2>2. Len(requests) = 1 /\ r.op = "scan" /\ r.id = i /\ Busy = {} /\ Arrived = << >>
    BY <1>5, <2>1 DEF ScanAsked
  <2>3. requests' = << >>
    BY <1>1, <1>2, <2>2
  <2>4. Busy' \subseteq {w}
    BY <1>1, <1>2, <2>2 DEF Busy
  <2>5. job'[w] = s /\ Arrived' \o job'[w] = s
    BY <1>1, <1>2, <1>3, <1>4, <2>2
  <2>6. ScanAnswered(i, w)'
    BY <1>3, <1>4, <2>1, <2>2, <2>3, <2>4, <2>5 DEF ScanAnswered, ScanAsked, ScanStream
  <2>7. ScanPhase(i)'
    BY <1>2, <1>3, <1>7, <2>6 DEF ScanPhase
  <2> QED
    BY <1>2, <1>3, <2>7 DEF CalmInv, WaitersOK
<1> QED
  BY <1>6, <1>7 DEF CalmInv

LEMMA SendReplyCalm ==
    ASSUME JsTypeInv, JsTyped', CalmInv, NEW w \in Worker, SendReply(w), UNCHANGED jsVars, faults' = {}
    PROVE  CalmInv'
<1>1. JsTyped /\ job \in [Worker -> Seq(Replies)] /\ inbox \in [Conn -> Seq(Replies)]
  BY DEF JsTypeInv, JsTyped, WireOK
<1>2. /\ requests' = requests /\ path' = path
      /\ job[w] # << >> /\ job' = [job EXCEPT ![w] = Tail(job[w])]
      /\ path # None /\ path \in Conn
      /\ inbox' = [inbox EXCEPT ![path] = Append(inbox[path], Head(job[w]))]
  BY <1>1, SendReplyTyped DEF JsTyped
<1>3. /\ calls' = calls /\ waiters' = waiters /\ buffered' = buffered /\ scanWaiter' = scanWaiter
      /\ Unsettled' = Unsettled
  BY DEF jsVars, Unsettled
<1>4. Arrived = inbox[path] /\ Arrived' = Append(Arrived, Head(job[w])) /\ Arrived \in Seq(Replies)
      /\ job[w] \in Seq(Replies) /\ Head(job[w]) \in Replies /\ Len(Arrived') = Len(Arrived) + 1
  BY <1>1, <1>2 DEF Arrived
<1>5. \A c \in Conn : c # path' => inbox'[c] = << >>
  BY <1>1, <1>2 DEF CalmInv
<1>6. CASE PlainPhase
  <2>1. Len(job[w]) = 1 /\ Tail(job[w]) = << >>
    <3>1. Len(job[w]) <= 1
      BY <1>6 DEF PlainPhase
    <3> QED
      BY <1>2, <1>4, <3>1, OneLong
  <2>2. Busy' = Busy \ {w} /\ w \in Busy
    BY <1>1, <1>2, <2>1 DEF Busy
  <2>3. Cardinality(Busy') = Cardinality(Busy) - 1
    BY <1>1, <2>2, Counts, FS_RemoveElement
  <2>4. UnderWay' = UnderWay
    BY SMTT(60), <1>1, <1>2, <1>3, <1>4, <2>3, Counts DEF UnderWay
  <2>5. \A v \in Worker : Len(job'[v]) <= 1
    BY <1>1, <1>2, <1>6, <2>1 DEF PlainPhase
  <2>6. PlainPhase'
    BY <1>2, <1>3, <1>6, <2>4, <2>5 DEF PlainPhase
  <2> QED
    BY <1>3, <1>5, <2>6 DEF CalmInv, WaitersOK
<1>7. ASSUME NEW i \in 1..Len(calls), ScanPhase(i) PROVE CalmInv'
  <2>1. w \in Busy
    BY <1>2 DEF Busy
  <2>2. PICK v \in Worker : ScanAnswered(i, v)
    BY <1>7, <2>1 DEF ScanPhase, ScanAsked, ScanEnded
  <2>3. v = w
    BY <2>1, <2>2 DEF ScanAnswered
  <2>4. Arrived' \o job'[w] = Arrived \o job[w]
    BY <1>1, <1>2, <1>4, MoveHead
  <2>5. Busy' \subseteq {w}
    BY <1>1, <1>2, <2>2, <2>3 DEF Busy, ScanAnswered
  <2>6. ScanAnswered(i, w)'
    BY <1>2, <1>3, <2>2, <2>3, <2>4, <2>5 DEF ScanAnswered, ScanStream
  <2>7. ScanPhase(i)'
    BY <1>2, <1>3, <1>7, <2>6 DEF ScanPhase
  <2> QED
    BY <1>3, <1>5, <2>7 DEF CalmInv, WaitersOK
<1> QED
  BY <1>6, <1>7 DEF CalmInv

\* Steps that touch neither the calls nor what is under way.
LEMMA UnchangedCalm ==
    ASSUME CalmInv, UNCHANGED <<jsVars, requests, job, inbox, path>>
    PROVE  CalmInv'
<1>1. /\ calls' = calls /\ waiters' = waiters /\ buffered' = buffered /\ scanWaiter' = scanWaiter
      /\ requests' = requests /\ job' = job /\ inbox' = inbox /\ path' = path
  BY DEF jsVars
<1>2. Unsettled' = Unsettled /\ Busy' = Busy /\ Arrived' = Arrived
  BY <1>1 DEF Unsettled, Busy, Arrived
<1>3. WaitersOK' /\ (\A c \in Conn : c # path' => inbox'[c] = << >>)
  BY <1>1 DEF CalmInv, WaitersOK
<1>4. CASE PlainPhase
  BY <1>1, <1>2, <1>3, <1>4 DEF CalmInv, PlainPhase, UnderWay
<1>5. ASSUME NEW i \in 1..Len(calls), ScanPhase(i) PROVE ScanPhase(i)'
  BY <1>1, <1>2, <1>5 DEF ScanPhase, ScanAsked, ScanAnswered, ScanEnded, ScanStream
<1> QED
  BY <1>1, <1>3, <1>4, <1>5 DEF CalmInv

-----------------------------------------------------------------------------
\* While no fault has happened: the steps of the client

\* A call that begins beside no scan finds plain calls only, and a scan none at all.
LEMMA Alone ==
    ASSUME JsTyped, CalmInv, NEW a \in Calls, ~Overlaps(a)
    PROVE  PlainPhase /\ (a.op = "scan" => Unsettled = {})
<1>1. DOMAIN calls = 1..Len(calls)
  BY DEF JsTyped
<1>2. \A i \in Unsettled : calls[i].op # "scan" /\ a.op # "scan"
  BY <1>1 DEF Overlaps, Unsettled
<1>3. \A i \in 1..Len(calls) : ~ScanPhase(i)
  BY <1>2 DEF ScanPhase
<1> QED
  BY <1>2, <1>3 DEF CalmInv

\* WaitersOK looks at the calls that there were, and at a new one if it is plain and not sent.
LEMMA WaitersKept ==
    ASSUME JsTyped, WaitersOK, NEW c \in JsCalls, calls' = Append(calls, c), waiters' = waiters,
           ~c.sent => c.result = None
    PROVE  WaitersOK'
<1>1. Len(calls) \in Nat /\ Len(calls') = Len(calls) + 1 /\ calls'[Len(calls) + 1] = c
      /\ \A i \in 1..Len(calls) : calls'[i] = calls[i]
  BY DEF JsTyped
<1>2. \A p \in 1..Len(waiters) : waiters[p] \in 1..Len(calls)
  BY DEF JsTyped
<1>3. \A p \in 1..Len(waiters') :
          /\ calls'[waiters'[p]].sent /\ calls'[waiters'[p]].result = None
          /\ calls'[waiters'[p]].op # "scan"
          /\ \A q \in 1..Len(waiters') : waiters'[p] = waiters'[q] => p = q
  BY <1>1, <1>2 DEF WaitersOK
<1>4. \A i \in 1..Len(calls') : calls'[i].op # "scan" /\ ~calls'[i].sent => calls'[i].result = None
  <2>1. \A i \in 1..Len(calls') : i \in 1..Len(calls) \/ i = Len(calls) + 1
    BY <1>1
  <2> QED
    BY <1>1, <2>1 DEF WaitersOK
<1> QED
  BY <1>3, <1>4 DEF WaitersOK

LEMMA StartCalm ==
    ASSUME JsTypeInv, JsTyped', CalmInv, NEW a \in Calls, Start(a), faults' = {}
    PROVE  CalmInv'
<1> DEFINE n == Len(calls)
<1>1. JsTyped /\ n \in Nat /\ calls \in Seq(JsCalls) /\ requests \in Seq(Requests) /\ WaitersOK
      /\ path \in Conn \cup {None} /\ scanWaiter \in 1..n \cup {None}
  BY DEF JsTypeInv, JsTyped, CalmInv
<1>2. a.op \in Ops /\ a.key \in Key /\ a.value \in Value
  BY CallsAssumption
<1>3. ~Overlaps(a)
  BY DEF Start
<1>4. PlainPhase /\ (a.op = "scan" => Unsettled = {})
  BY <1>1, <1>3, Alone
<1>5. /\ waiters' = waiters /\ buffered' = buffered /\ path' = path /\ job' = job /\ inbox' = inbox
      /\ Arrived' = Arrived /\ Busy' = Busy
      /\ scanWaiter' = IF a.op = "scan" THEN n + 1 ELSE scanWaiter
  BY DEF Start, Arrived, Busy
<1>6. \A c \in Conn : c # path' => inbox'[c] = << >>
  BY <1>5 DEF CalmInv
<1>7. CASE /\ path # None
           /\ calls' = Append(calls, Started(a.op))
           /\ requests' = Append(requests, Request(path, n + 1, a))
  <2> DEFINE c == Started(a.op)
             q == Request(path, n + 1, a)
  <2>1. c \in JsCalls /\ c.op = a.op /\ ~c.sent /\ c.result = None
    BY <1>2 DEF Started, JsCalls
  <2>2. q \in Requests /\ q.op = a.op /\ q.id = n + 1
    BY <1>1, <1>2, <1>7 DEF Request, Requests
  <2> HIDE DEF c, q
  <2>3. Len(calls') = n + 1 /\ calls'[n + 1] = c /\ \A i \in 1..n : calls'[i] = calls[i]
    BY <1>1, <1>7, <2>1 DEF c
  <2>4. Len(requests') = Len(requests) + 1 /\ requests'[Len(requests) + 1] = q
        /\ \A j \in 1..Len(requests) : requests'[j] = requests[j]
    BY <1>1, <1>7, <2>2 DEF q
  <2>5. WaitersOK'
    BY <1>1, <1>5, <1>7, <2>1, WaitersKept DEF c
  <2>6. Unsettled' = Unsettled \cup {n + 1} /\ n + 1 \notin Unsettled
    BY <1>1, <2>1, <2>3 DEF Unsettled, Settled
  <2>7. CASE a.op # "scan"
    <3>1. Cardinality(Unsettled') = Cardinality(Unsettled) + 1
      BY <1>1, <2>6, Counts, FS_AddElement
    <3>2. UnderWay' = UnderWay + 1
      BY SMTT(60), <1>1, <1>5, <2>4, Counts DEF UnderWay
    <3>3. UnderWay' <= Cardinality(Unsettled')
      BY <1>1, <1>4, <3>1, <3>2, Counts DEF PlainPhase
    <3>4. \A i \in Unsettled' : calls'[i].op # "scan"
      <4>1. \A i \in Unsettled : calls[i].op # "scan" /\ calls'[i] = calls[i]
        BY <1>4, <2>3 DEF PlainPhase, Unsettled
      <4>2. calls'[n + 1].op # "scan"
        BY <2>1, <2>3, <2>7
      <4> QED
        BY <2>6, <4>1, <4>2
    <3>5. \A j \in 1..Len(requests') : requests'[j].op # "scan"
      <4>1. \A j \in 1..Len(requests) : requests[j].op # "scan"
        BY <1>4 DEF PlainPhase
      <4>2. \A j \in 1..Len(requests') : j \in 1..Len(requests) \/ j = Len(requests) + 1
        BY <1>1, <2>4
      <4>3. requests'[Len(requests) + 1].op # "scan"
        BY <2>2, <2>4, <2>7
      <4> QED
        BY <2>4, <4>1, <4>2, <4>3
    <3>6. scanWaiter' = None /\ \A w \in Worker : Len(job'[w]) <= 1
      BY <1>4, <1>5, <2>7 DEF PlainPhase
    <3>7. PlainPhase'
      BY <3>3, <3>4, <3>5, <3>6 DEF PlainPhase
    <3> QED
      BY <1>6, <2>5, <3>7 DEF CalmInv
  <2>8. CASE a.op = "scan"
    <3>1. requests = << >> /\ Busy = {} /\ Arrived = << >> /\ buffered = << >>
      BY <1>1, <1>4, <2>8, NoneUnderWay
    <3>2. Len(requests') = 1 /\ requests'[1] = q
      BY <2>4, <3>1
    <3>3. PICK m \in 1..Len(calls') : m = n + 1
      BY <1>1, <2>3
    <3>4. ScanAsked(m)'
      BY <1>5, <2>1, <2>2, <2>3, <2>8, <3>1, <3>2, <3>3 DEF ScanAsked
    <3>5. Unsettled' = {m} /\ calls'[m].op = "scan"
      BY <1>4, <2>1, <2>3, <2>6, <2>8, <3>3
    <3>6. ScanPhase(m)'
      BY <1>5, <1>7, <3>1, <3>4, <3>5 DEF ScanPhase
    <3> QED
      BY <1>6, <2>5, <3>3, <3>6 DEF CalmInv
  <2> QED
    BY <2>7, <2>8
<1>8. CASE /\ calls' = Append(calls, [Started(a.op) EXCEPT !.sent = TRUE, !.result = "error"])
           /\ a.op # "scan" /\ UNCHANGED requests
  <2> DEFINE c == [Started(a.op) EXCEPT !.sent = TRUE, !.result = "error"]
  <2>1. c \in JsCalls /\ c.sent /\ c.result = "error"
    BY <1>2 DEF Started, JsCalls
  <2> HIDE DEF c
  <2>2. Settled(c)
    BY <2>1, NoResultAssumption DEF Settled
  <2>3. Len(calls') = n + 1 /\ calls'[n + 1] = c /\ \A i \in 1..n : calls'[i] = calls[i]
    BY <1>1, <1>8, <2>1 DEF c
  <2>4. WaitersOK'
    BY <1>1, <1>5, <1>8, <2>1, WaitersKept DEF c
  <2>5. Unsettled' = Unsettled
    BY <1>1, <2>2, <2>3 DEF Unsettled
  <2>6. \A i \in Unsettled : calls'[i] = calls[i]
    BY <2>3 DEF Unsettled
  <2>7. UnderWay' = UnderWay
    BY <1>5, <1>8 DEF UnderWay
  <2>8. PlainPhase'
    BY <1>4, <1>5, <1>8, <2>5, <2>6, <2>7 DEF PlainPhase
  <2> QED
    BY <1>6, <2>4, <2>8 DEF CalmInv
<1> QED
  BY <1>7, <1>8 DEF Start

\* A call that is marked as sent.
LEMMA SentFields ==
    ASSUME JsTyped, NEW i \in 1..Len(calls)
    PROVE  LET c == [calls[i] EXCEPT !.sent = TRUE]
           IN  c \in JsCalls /\ c.op = calls[i].op /\ c.sent = TRUE /\ c.result = calls[i].result
<1>1. calls[i] \in JsCalls
  BY CallFields
<1> QED
  BY <1>1 DEF JsCalls

\* The call that waits longest is answered, or one that does not wait.
LEMMA WaitersAnswered ==
    ASSUME JsTyped, WaitersOK, NEW i \in 1..Len(calls), NEW c \in JsCalls,
           calls' = [calls EXCEPT ![i] = c], c.sent = TRUE,
           \/ waiters # << >> /\ i = Head(waiters) /\ waiters' = Tail(waiters)
           \/ waiters' = waiters /\ ~calls[i].sent
    PROVE  WaitersOK'
<1>1. /\ Len(calls') = Len(calls) /\ calls'[i] = c
      /\ \A j \in 1..Len(calls) : j # i => calls'[j] = calls[j]
  BY CallChanged
<1>2. \A j \in 1..Len(calls') : calls'[j].op # "scan" /\ ~calls'[j].sent => calls'[j].result = None
  BY <1>1 DEF WaitersOK
<1>3. waiters \in Seq(1..Len(calls))
  BY DEF JsTyped
<1>4. CASE waiters # << >> /\ i = Head(waiters) /\ waiters' = Tail(waiters)
  <2>1. Len(waiters) \in Nat \ {0} /\ Len(waiters') = Len(waiters) - 1 /\ i = waiters[1]
        /\ \A p \in 1..Len(waiters') : waiters'[p] = waiters[p + 1] /\ p + 1 \in 1..Len(waiters)
    BY <1>3, <1>4
  <2>2. ASSUME NEW p \in 1..Len(waiters')
        PROVE  /\ calls'[waiters'[p]].sent /\ calls'[waiters'[p]].result = None
               /\ calls'[waiters'[p]].op # "scan"
               /\ \A q \in 1..Len(waiters') : waiters'[p] = waiters'[q] => p = q
    <3>1. p + 1 \in 1..Len(waiters) /\ waiters'[p] = waiters[p + 1] /\ 1 \in 1..Len(waiters) /\ p + 1 # 1
      BY <2>1
    <3>2. waiters[p + 1] \in 1..Len(calls) /\ waiters[p + 1] # i
      BY SMTT(60), <1>3, <2>1, <3>1 DEF WaitersOK
    <3>3. calls'[waiters'[p]] = calls[waiters[p + 1]]
      BY <1>1, <3>1, <3>2
    <3>4. calls'[waiters'[p]].sent /\ calls'[waiters'[p]].result = None /\ calls'[waiters'[p]].op # "scan"
      BY <3>1, <3>3 DEF WaitersOK
    <3>5. ASSUME NEW q \in 1..Len(waiters'), waiters'[p] = waiters'[q] PROVE p = q
      <4>1. waiters[p + 1] = waiters[q + 1] /\ q + 1 \in 1..Len(waiters)
        BY <2>1, <3>1, <3>5
      <4>2. p + 1 = q + 1
        BY <3>1, <4>1 DEF WaitersOK
      <4> QED
        BY <2>1, <4>2
    <3> QED
      BY <3>4, <3>5
  <2> QED
    BY <1>2, <2>2 DEF WaitersOK
<1>5. CASE waiters' = waiters /\ ~calls[i].sent
  <2>1. \A p \in 1..Len(waiters) : waiters[p] \in 1..Len(calls) /\ waiters[p] # i
    BY <1>3, <1>5 DEF WaitersOK
  <2> QED
    BY <1>1, <1>2, <1>5, <2>1 DEF WaitersOK
<1> QED
  BY <1>4, <1>5

LEMMA SentCalm ==
    ASSUME JsTypeInv, JsTyped', CalmInv, NEW i \in 1..MaxCalls, Sent(i)
    PROVE  CalmInv'
<1>1. /\ JsTyped /\ i \in 1..Len(calls) /\ ~calls[i].sent /\ WaitersOK
      /\ waiters \in Seq(1..Len(calls)) /\ buffered \in Seq(Replies)
  BY DEF JsTypeInv, JsTyped, Sent, CalmInv
<1>2. /\ job' = job /\ requests' = requests /\ path' = path /\ inbox' = inbox
      /\ scanWaiter' = scanWaiter /\ Busy' = Busy /\ Arrived' = Arrived
  BY DEF Sent, wireVars, Busy, Arrived
<1>3. \A d \in Conn : d # path' => inbox'[d] = << >>
  BY <1>2 DEF CalmInv
<1>4. i \in Unsettled
  BY <1>1, UnsettledIs
<1>5. CASE calls[i].op = "scan"
  <2> DEFINE c == [calls[i] EXCEPT !.sent = TRUE]
  <2>1. c \in JsCalls /\ c.op = "scan" /\ c.sent = TRUE /\ c.result = calls[i].result
    BY <1>1, <1>5, SentFields
  <2>2. calls' = [calls EXCEPT ![i] = c] /\ waiters' = waiters /\ buffered' = buffered
    BY <1>5 DEF Sent
  <2> HIDE DEF c
  <2>3. Len(calls') = Len(calls) /\ calls'[i] = c
    BY <1>1, <2>1, <2>2, CallChanged
  <2>4. WaitersOK'
    BY <1>1, <2>1, <2>2, WaitersAnswered
  <2>5. ScanPhase(i)
    <3>1. ~PlainPhase
      BY <1>4, <1>5 DEF PlainPhase
    <3> QED
      BY <1>4, <3>1 DEF CalmInv, ScanPhase
  <2>6. CASE calls[i].result = None
    <3>1. Unsettled' = Unsettled
      BY <1>1, <1>4, <2>1, <2>2, <2>6, StillUnsettled DEF Settled
    <3>2. ScanPhase(i)'
      <4>1. ScanAsked(i) => ScanAsked(i)'
        BY <1>2, <2>1, <2>3 DEF ScanAsked
      <4>2. ASSUME NEW w \in Worker, ScanAnswered(i, w) PROVE ScanAnswered(i, w)'
        BY <1>2, <2>1, <2>3, <4>2 DEF ScanAnswered, ScanStream
      <4>3. ScanAsked(i) \/ \E w \in Worker : ScanAnswered(i, w)
        BY <2>5, <2>6 DEF ScanPhase, ScanEnded
      <4>4. /\ Unsettled' = {i} /\ calls'[i].op = "scan"
            /\ path' # None /\ buffered' = << >>
        BY <1>2, <2>1, <2>2, <2>3, <2>5, <3>1 DEF ScanPhase
      <4> QED
        BY <4>1, <4>2, <4>3, <4>4 DEF ScanPhase
    <3> QED
      BY <1>1, <1>3, <2>3, <2>4, <3>2 DEF CalmInv
  <2>7. CASE calls[i].result # None
    <3>1. ScanEnded(i) /\ Unsettled = {i} /\ buffered = << >>
      BY <2>5, <2>7 DEF ScanPhase, ScanAsked, ScanAnswered
    <3>2. Unsettled' = Unsettled \ {i}
      BY <1>1, <1>4, <2>1, <2>2, <2>7, OneSettled DEF Settled
    <3>3. Unsettled' = {}
      BY <3>1, <3>2
    <3>4. PlainPhase'
      BY <1>2, <2>2, <3>1, <3>3, AtRest DEF ScanEnded
    <3> QED
      BY <1>3, <2>4, <3>4 DEF CalmInv
  <2> QED
    BY <2>6, <2>7
<1>6. CASE calls[i].op # "scan"
  <2>1. PlainPhase
    BY <1>4, <1>6 DEF CalmInv, ScanPhase
  <2>2. ASSUME NEW c \in JsCalls, calls' = [calls EXCEPT ![i] = c], c.op = calls[i].op
        PROVE  \A j \in 1..Len(calls) : calls'[j].op = calls[j].op
    BY <1>1, <2>2, CallChanged
  <2>3. CASE buffered # << >>
    <3> DEFINE c == Answered(i, Head(buffered))
    <3>0. Head(buffered) \in Replies
      BY <1>1, <2>3
    <3>1. c \in JsCalls /\ c.op = calls[i].op /\ c.sent = TRUE /\ c.result # None
      BY <1>1, <3>0, AnsweredFields
    <3>2. calls' = [calls EXCEPT ![i] = c] /\ waiters' = waiters /\ buffered' = Tail(buffered)
      BY <1>6, <2>3 DEF Sent
    <3> HIDE DEF c
    <3>3. WaitersOK'
      BY <1>1, <3>1, <3>2, WaitersAnswered
    <3>4. Unsettled' = Unsettled \ {i} /\ Cardinality(Unsettled') = Cardinality(Unsettled) - 1
      BY <1>1, <1>4, <3>1, <3>2, OneSettled DEF Settled
    <3>5. Len(buffered') = Len(buffered) - 1
      BY <1>1, <2>3, <3>2
    <3>6. UnderWay' <= Cardinality(Unsettled')
      <4>1. UnderWay <= Cardinality(Unsettled)
        BY <2>1 DEF PlainPhase
      <4>2. UnderWay' = UnderWay - 1
        BY SMTT(60), <1>1, <1>2, <3>5, Counts DEF UnderWay
      <4>3. UnderWay \in Nat /\ Cardinality(Unsettled) \in Nat
        BY <1>1, Counts
      <4> QED
        BY <3>4, <4>1, <4>2, <4>3
    <3>7. \A j \in Unsettled' : calls'[j].op # "scan"
      <4>1. \A j \in Unsettled : calls[j].op # "scan" /\ j \in 1..Len(calls)
        BY <2>1 DEF PlainPhase, Unsettled
      <4>2. \A j \in 1..Len(calls) : calls'[j].op = calls[j].op
        BY <2>2, <3>1, <3>2
      <4> QED
        BY <3>4, <4>1, <4>2
    <3>8. PlainPhase'
      BY <1>2, <2>1, <3>6, <3>7 DEF PlainPhase
    <3> QED
      BY <1>3, <3>3, <3>8 DEF CalmInv
  <2>4. CASE buffered = << >>
    <3> DEFINE c == [calls[i] EXCEPT !.sent = TRUE]
    <3>1. c \in JsCalls /\ c.op = calls[i].op /\ c.sent = TRUE /\ c.result = None
      BY <1>1, <1>6, SentFields DEF WaitersOK
    <3>2. calls' = [calls EXCEPT ![i] = c] /\ waiters' = Append(waiters, i) /\ buffered' = buffered
      BY <1>6, <2>4 DEF Sent
    <3> HIDE DEF c
    <3>3. /\ Len(calls') = Len(calls) /\ calls'[i] = c
          /\ \A j \in 1..Len(calls) : j # i => calls'[j] = calls[j]
      BY <1>1, <3>1, <3>2, CallChanged
    <3>4. WaitersOK'
      <4>1. Len(waiters) \in Nat /\ Len(waiters') = Len(waiters) + 1 /\ waiters'[Len(waiters) + 1] = i
            /\ \A p \in 1..Len(waiters) : waiters'[p] = waiters[p]
        BY <1>1, <3>2
      <4>2. \A p \in 1..Len(waiters) : waiters[p] \in 1..Len(calls) /\ waiters[p] # i
        BY <1>1 DEF WaitersOK
      <4>3. \A p \in 1..Len(waiters') : p \in 1..Len(waiters) \/ p = Len(waiters) + 1
        BY <4>1
      <4>4. ASSUME NEW p \in 1..Len(waiters')
            PROVE  /\ calls'[waiters'[p]].sent /\ calls'[waiters'[p]].result = None
                   /\ calls'[waiters'[p]].op # "scan"
                   /\ \A q \in 1..Len(waiters') : waiters'[p] = waiters'[q] => p = q
        <5>1. CASE p \in 1..Len(waiters)
          <6>1. calls'[waiters'[p]] = calls[waiters[p]]
            BY <3>3, <4>1, <4>2, <5>1
          <6>2. calls[waiters[p]].sent /\ calls[waiters[p]].result = None /\ calls[waiters[p]].op # "scan"
            BY <1>1, <5>1 DEF WaitersOK
          <6>3. \A q \in 1..Len(waiters') : waiters'[p] = waiters'[q] => p = q
            <7>1. \A q \in 1..Len(waiters) : waiters[p] = waiters[q] => p = q
              BY <1>1, <5>1 DEF WaitersOK
            <7>2. waiters'[p] = waiters[p] /\ waiters[p] # i
              BY <4>1, <4>2, <5>1
            <7>3. ASSUME NEW q \in 1..Len(waiters'), waiters'[p] = waiters'[q] PROVE p = q
              <8>1. CASE q \in 1..Len(waiters)
                BY <4>1, <7>1, <7>2, <7>3, <8>1
              <8>2. CASE q = Len(waiters) + 1
                BY <4>1, <7>2, <7>3, <8>2
              <8> QED
                BY <4>3, <8>1, <8>2
            <7> QED
              BY <7>3
          <6> QED
            BY <6>1, <6>2, <6>3
        <5>2. CASE p = Len(waiters) + 1
          BY <1>6, <3>1, <3>3, <4>1, <4>2, <4>3, <5>2
        <5> QED
          BY <4>3, <5>1, <5>2
      <4>5. \A j \in 1..Len(calls') : calls'[j].op # "scan" /\ ~calls'[j].sent => calls'[j].result = None
        BY <1>1, <3>1, <3>3 DEF WaitersOK
      <4> QED
        BY <4>4, <4>5 DEF WaitersOK
    <3>5. Unsettled' = Unsettled
      BY <1>1, <1>4, <3>1, <3>2, StillUnsettled DEF Settled
    <3>6. UnderWay' = UnderWay
      BY <1>2, <3>2 DEF UnderWay
    <3>7. \A j \in Unsettled' : calls'[j].op # "scan"
      BY <2>1, <2>2, <3>1, <3>2, <3>5 DEF PlainPhase, Unsettled
    <3>8. PlainPhase'
      BY <1>2, <2>1, <3>5, <3>6, <3>7 DEF PlainPhase
    <3> QED
      BY <1>3, <3>4, <3>8 DEF CalmInv
  <2> QED
    BY <2>3, <2>4
<1> QED
  BY <1>5, <1>6

\* The handler of a scan takes the next reply of its stream.
LEMMA ScannedCalm ==
    ASSUME JsTypeInv, JsTyped', CalmInv, path # None, inbox[path] # << >>,
           inbox' = [inbox EXCEPT ![path] = Tail(inbox[path])],
           requests' = requests /\ job' = job /\ path' = path,
           scanWaiter # None, Scanned(Head(inbox[path])), waiters' = waiters, buffered' = buffered
    PROVE  CalmInv'
<1> DEFINE r == Head(inbox[path])
<1>1. /\ JsTyped /\ path \in Conn /\ inbox \in [Conn -> Seq(Replies)] /\ inbox[path] # << >>
      /\ Arrived = inbox[path] /\ Arrived \in Seq(Replies) /\ Arrived # << >> /\ WaitersOK
      /\ job \in [Worker -> Seq(Replies)]
  BY DEF JsTypeInv, JsTyped, WireOK, Arrived, CalmInv
<1>2. Arrived' = Tail(Arrived) /\ (\A d \in Conn : d # path' => inbox'[d] = << >>) /\ Busy' = Busy
  BY <1>1 DEF Arrived, CalmInv, Busy
<1>3. PICK i \in 1..Len(calls) : ScanPhase(i)
  BY DEF CalmInv, PlainPhase
<1>4. PICK w \in Worker : ScanAnswered(i, w)
  BY <1>1, <1>3 DEF ScanPhase, ScanAsked, ScanEnded
<1> DEFINE s == Arrived \o job[w]
<1>5. /\ scanWaiter = i /\ calls[i].result = None /\ requests = << >> /\ Busy \subseteq {w}
      /\ s # << >> /\ s[Len(s)].opcode = "end"
      /\ \A j \in 1..Len(s) : s[j].id = i /\ (j < Len(s) => s[j].opcode = "chunk")
  BY <1>4 DEF ScanAnswered, ScanStream
<1>6. job[w] \in Seq(Replies)
  BY <1>1
<1>7. /\ s \in Seq(Replies) /\ r = s[1] /\ Tail(Arrived) \o job[w] = Tail(s)
      /\ Len(Tail(s)) = Len(s) - 1 /\ \A j \in 1..Len(s) - 1 : Tail(s)[j] = s[j + 1]
  BY <1>1, <1>6, TakeHead
<1>8. Len(s) = Len(Arrived) + Len(job[w]) /\ Len(Arrived) \in Nat \ {0} /\ Len(job[w]) \in Nat
  BY <1>1, <1>6
<1> HIDE DEF r, s
<1>9. r.id = i /\ (Len(s) > 1 => r.opcode = "chunk") /\ (Len(s) = 1 => r.opcode = "end")
  BY <1>5, <1>7, <1>8
<1>10. calls[i] \in JsCalls /\ calls[i].used \in SUBSET (Conn \X Nat) /\ i \in Unsettled
  BY <1>1, <1>5, CallFields, UnsettledIs
<1>11. Scanned(r)
  BY DEF r
<1>12. Unsettled = {i} /\ calls[i].op = "scan" /\ buffered = << >> /\ calls[i].sent \in BOOLEAN
  BY <1>1, <1>3, CallFields DEF ScanPhase
<1>13. ASSUME NEW c \in JsCalls, calls' = [calls EXCEPT ![i] = c], c.op = "scan", c.sent = calls[i].sent
       PROVE  WaitersOK'
  <2>1. /\ Len(calls') = Len(calls) /\ calls'[i] = c
        /\ \A j \in 1..Len(calls) : j # i => calls'[j] = calls[j]
    BY <1>1, <1>13, CallChanged
  <2>2. \A p \in 1..Len(waiters) : waiters[p] \in 1..Len(calls)
    BY SMTT(60), <1>1 DEF JsTyped
  <2>3. \A p \in 1..Len(waiters) : waiters[p] # i
    BY <1>1, <1>12 DEF WaitersOK
  <2>4. \A p \in 1..Len(waiters) : calls'[waiters[p]] = calls[waiters[p]]
    BY <2>1, <2>2, <2>3
  <2>5. \A j \in 1..Len(calls) : calls'[j].op # "scan" /\ ~calls'[j].sent => calls'[j].result = None
    BY <1>1, <1>13, <2>1 DEF WaitersOK
  <2> QED
    BY ZenonT(60), <1>1, <2>1, <2>4, <2>5 DEF WaitersOK
<1>14. CASE Len(s) > 1
  <2> DEFINE u == calls[i].used \cup {<<r.from, r.id>>}
             c == [calls[i] EXCEPT !.used = u]
  <2>1. r \in Replies
    BY <1>7, <1>8
  <2>2. u \in SUBSET (Conn \X Nat)
    BY <1>10, <2>1 DEF Replies
  <2>3. /\ c \in JsCalls /\ c.op = calls[i].op /\ c.sent = calls[i].sent /\ c.result = calls[i].result
    BY <1>10, <2>2 DEF JsCalls
  <2>4. calls' = [calls EXCEPT ![i] = c] /\ scanWaiter' = scanWaiter
    BY <1>5, <1>9, <1>11, <1>14 DEF Scanned
  <2> HIDE DEF c
  <2>5. Len(calls') = Len(calls) /\ calls'[i] = c
    BY <1>1, <2>3, <2>4, CallChanged
  <2>6. Unsettled' = Unsettled
    BY <1>1, <1>5, <1>10, <2>3, <2>4, StillUnsettled DEF Settled
  <2>7. Arrived' \o job'[w] = Tail(s)
    BY <1>2, <1>7
  <2>8. ScanStream(i, Tail(s))
    <3> DEFINE t == Tail(s)
    <3>1. Len(s) \in Nat /\ Len(t) = Len(s) - 1 /\ t \in Seq(Replies) /\ Len(t) \in 1..Len(s) - 1
          /\ \A j \in 1..Len(t) : t[j] = s[j + 1] /\ j + 1 \in 1..Len(s)
      BY <1>5, <1>7, <1>8, <1>14
    <3> HIDE DEF t
    <3>2. t # << >>
      BY <3>1, EmptySeq
    <3>3. t[Len(t)] = s[Len(s)]
      BY <3>1
    <3>4. ASSUME NEW j \in 1..Len(t) PROVE t[j].id = i /\ (j < Len(t) => t[j].opcode = "chunk")
      <4>1. t[j] = s[j + 1] /\ j + 1 \in 1..Len(s) /\ (j < Len(t) => j + 1 < Len(s))
        BY <3>1
      <4> QED
        BY <1>5, <4>1
    <3>5. ScanStream(i, t)
      BY <1>5, <3>2, <3>3, <3>4 DEF ScanStream
    <3> QED
      BY <3>5 DEF t
  <2>9. ScanAnswered(i, w)'
    BY <1>2, <1>5, <2>3, <2>4, <2>5, <2>7, <2>8 DEF ScanAnswered
  <2>10. ScanPhase(i)'
    BY <1>12, <2>3, <2>5, <2>6, <2>9 DEF ScanPhase
  <2> QED
    BY <1>2, <1>12, <1>13, <2>3, <2>4, <2>5, <2>10 DEF CalmInv
<1>15. CASE Len(s) = 1
  <2> DEFINE c == [calls[i] EXCEPT !.result = "done"]
  <2>1. c \in JsCalls /\ c.op = calls[i].op /\ c.sent = calls[i].sent /\ c.result = "done"
    BY <1>10 DEF JsCalls
  <2>2. calls' = [calls EXCEPT ![i] = c] /\ scanWaiter' = None
    BY <1>5, <1>9, <1>11, <1>15 DEF Scanned
  <2> HIDE DEF c
  <2>3. Len(calls') = Len(calls) /\ calls'[i] = c /\ c.result # None
    BY <1>1, <2>1, <2>2, CallChanged, NoResultAssumption
  <2>4. WaitersOK'
    BY <1>12, <1>13, <2>1, <2>2
  <2>5. Len(Arrived) = 1 /\ Len(job[w]) = 0
    <3>1. Len(Arrived) + Len(job[w]) = 1
      BY <1>8, <1>15, Zenon
    <3>2. Len(Arrived) \in Nat /\ Len(Arrived) # 0 /\ Len(job[w]) \in Nat
      BY <1>8
    <3>3. \A a, b \in Nat : a # 0 /\ a + b = 1 => a = 1 /\ b = 0
      OBVIOUS
    <3> QED
      BY <3>1, <3>2, <3>3, Zenon
  <2>6. Arrived' = << >> /\ job[w] = << >>
    BY SMTT(60), <1>1, <1>2, <1>6, <2>5, OneLong
  <2>7. Busy' = {}
    BY <1>2, <1>5, <2>6 DEF Busy
  <2>8. CASE calls[i].sent
    <3>1. Unsettled' = Unsettled \ {i}
      BY <1>1, <1>10, <2>1, <2>2, <2>3, <2>8, OneSettled DEF Settled
    <3>2. Unsettled' = {}
      BY <1>12, <3>1
    <3>3. PlainPhase'
      BY <1>5, <1>12, <2>2, <2>6, <2>7, <3>2, AtRest
    <3> QED
      BY <1>2, <2>4, <3>3 DEF CalmInv
  <2>9. CASE ~calls[i].sent
    <3>1. Unsettled' = Unsettled
      BY <1>1, <1>10, <2>1, <2>2, <2>9, StillUnsettled DEF Settled
    <3>2. ScanEnded(i)'
      BY <1>5, <2>2, <2>3, <2>6, <2>7 DEF ScanEnded
    <3>3. ScanPhase(i)'
      BY <1>12, <2>1, <2>3, <3>1, <3>2 DEF ScanPhase
    <3> QED
      BY <1>2, <2>3, <2>4, <3>3 DEF CalmInv
  <2> QED
    BY <2>8, <2>9
<1> QED
  BY <1>8, <1>14, <1>15

LEMMA OnMessageCalm ==
    ASSUME JsTypeInv, JsTyped', CalmInv, OnMessage
    PROVE  CalmInv'
<1> DEFINE r == Head(inbox[path])
<1>1. /\ JsTyped /\ path \in Conn /\ inbox \in [Conn -> Seq(Replies)] /\ inbox[path] # << >>
      /\ waiters \in Seq(1..Len(calls)) /\ buffered \in Seq(Replies)
      /\ Arrived = inbox[path] /\ Arrived \in Seq(Replies) /\ WaitersOK
  BY DEF JsTypeInv, JsTyped, WireOK, OnMessage, Arrived, CalmInv
<1>2. inbox' = [inbox EXCEPT ![path] = Tail(inbox[path])]
      /\ stored' = stored /\ job' = job /\ requests' = requests /\ path' = path
  BY DEF OnMessage
<1>3. Arrived' = Tail(Arrived) /\ Len(Arrived') = Len(Arrived) - 1 /\ Busy' = Busy /\ r \in Replies
      /\ \A d \in Conn : d # path' => inbox'[d] = << >>
  BY <1>1, <1>2 DEF Arrived, CalmInv, Busy
<1>4. CASE scanWaiter # None /\ Scanned(r) /\ UNCHANGED <<waiters, buffered>>
  BY <1>1, <1>2, <1>4, ScannedCalm, NoneAssumption
<1> HIDE DEF r
<1>5. scanWaiter = None => PlainPhase
  <2>1. ASSUME scanWaiter = None, NEW i \in 1..Len(calls), ScanPhase(i) PROVE FALSE
    <3>1. i # None
      BY <1>1, CallFields, NoResultAssumption
    <3> QED
      BY <1>1, <2>1, <3>1 DEF ScanPhase, ScanAsked, ScanAnswered, ScanEnded
  <2> QED
    BY <2>1 DEF CalmInv
<1>6. CASE /\ scanWaiter = None /\ waiters # << >>
           /\ calls' = [calls EXCEPT ![Head(waiters)] = Answered(Head(waiters), r)]
           /\ waiters' = Tail(waiters)
           /\ UNCHANGED <<buffered, scanWaiter>>
  <2>1. PICK i \in 1..Len(calls) : i = Head(waiters)
    BY <1>1, <1>6
  <2> DEFINE c == Answered(i, r)
  <2>2. c \in JsCalls /\ c.op = calls[i].op /\ c.sent = TRUE /\ c.result # None
    BY <1>1, <1>3, AnsweredFields
  <2> HIDE DEF c
  <2>3. calls' = [calls EXCEPT ![i] = c]
    BY <1>6, <2>1 DEF c
  <2>4. WaitersOK'
    BY <1>1, <1>6, <2>1, <2>2, <2>3, WaitersAnswered
  <2>5. i \in Unsettled
    <3>1. i = waiters[1] /\ 1 \in 1..Len(waiters)
      BY <1>1, <1>6, <2>1
    <3>2. calls[i].result = None
      BY <1>1, <3>1 DEF WaitersOK
    <3> QED
      BY <1>1, <3>2, UnsettledIs
  <2>6. Unsettled' = Unsettled \ {i} /\ Cardinality(Unsettled') = Cardinality(Unsettled) - 1
    BY <1>1, <2>2, <2>3, <2>5, OneSettled DEF Settled
  <2>7. UnderWay' <= Cardinality(Unsettled')
    <3>1. UnderWay <= Cardinality(Unsettled)
      BY <1>5, <1>6 DEF PlainPhase
    <3>2. UnderWay' = UnderWay - 1
      BY SMTT(60), <1>1, <1>2, <1>3, <1>6, Counts DEF UnderWay
    <3>3. UnderWay \in Nat /\ Cardinality(Unsettled) \in Nat
      BY <1>1, Counts
    <3> QED
      BY <2>6, <3>1, <3>2, <3>3
  <2>8. \A j \in Unsettled' : calls'[j].op # "scan"
    <3>1. \A j \in Unsettled' : j \in Unsettled /\ calls'[j] = calls[j]
      BY <1>1, <2>2, <2>3, <2>6, CallChanged DEF Unsettled
    <3> QED
      BY <1>5, <1>6, <3>1 DEF PlainPhase
  <2>9. PlainPhase'
    BY <1>2, <1>5, <1>6, <2>7, <2>8 DEF PlainPhase
  <2> QED
    BY <1>3, <2>4, <2>9 DEF CalmInv
<1>7. CASE /\ scanWaiter = None /\ waiters = << >>
           /\ buffered' = Append(buffered, r)
           /\ UNCHANGED <<calls, waiters, scanWaiter>>
  <2>1. Len(buffered') = Len(buffered) + 1 /\ Unsettled' = Unsettled
    BY <1>1, <1>3, <1>7 DEF Unsettled
  <2>2. UnderWay' = UnderWay
    <3>1. /\ Len(requests) \in Nat /\ Cardinality(Busy) \in Nat
          /\ Len(Arrived) \in Nat /\ Len(buffered) \in Nat
      BY <1>1, Counts
    <3>2. UnderWay' = Len(requests) + Cardinality(Busy) + (Len(Arrived) - 1) + (Len(buffered) + 1)
      BY <1>2, <1>3, <2>1 DEF UnderWay
    <3> QED
      BY SMTT(60), <3>1, <3>2 DEF UnderWay
  <2>3. PlainPhase'
    BY <1>2, <1>5, <1>7, <2>1, <2>2 DEF PlainPhase
  <2> QED
    BY <1>1, <1>3, <1>7, <2>3 DEF CalmInv, WaitersOK
<1> QED
  BY <1>4, <1>6, <1>7 DEF OnMessage, r

LEMMA CloseCalm ==
    ASSUME JsTypeInv, JsTyped', CalmInv, Close, faults' = {}
    PROVE  CalmInv'
<1>1. JsTyped /\ path \in Conn /\ DOMAIN calls = 1..Len(calls) /\ inbox \in [Conn -> Seq(Replies)]
  BY DEF JsTypeInv, JsTyped, Close, WireOK
<1>2. /\ calls' = calls /\ waiters' = waiters /\ buffered' = buffered /\ scanWaiter' = scanWaiter
      /\ job' = job /\ requests' = requests /\ path' = None
      /\ inbox' = [inbox EXCEPT ![path] = << >>]
  BY DEF Close, jsVars
<1>3. Unsettled = {}
  BY <1>1 DEF Close, Unsettled
<1>4. PlainPhase
  BY <1>3 DEF CalmInv, ScanPhase
<1>5. requests = << >> /\ Busy = {} /\ Arrived = << >> /\ buffered = << >>
  BY <1>1, <1>3, <1>4, NoneUnderWay
<1>6. Unsettled' = {} /\ Busy' = {} /\ Arrived' = << >> /\ scanWaiter' = None
  BY <1>2, <1>3, <1>4, <1>5 DEF Unsettled, Busy, Arrived, PlainPhase
<1>7. PlainPhase'
  BY <1>2, <1>5, <1>6, AtRest
<1>8. \A d \in Conn : inbox'[d] = << >>
  BY <1>1, <1>2 DEF CalmInv
<1> QED
  BY <1>2, <1>7, <1>8 DEF CalmInv, WaitersOK

LEMMA JsNextInv == JsInv /\ [JsNext]_jsSystem => JsInv'
<1> SUFFICES ASSUME JsInv, [JsNext]_jsSystem PROVE JsInv'
  OBVIOUS
<1>1. JsTypeInv /\ JsTypeInv' /\ JsTyped'
  BY JsNextTyped DEF JsInv, JsTypeInv
<1>2. SUFFICES ASSUME faults' = {} PROVE CalmInv'
  BY <1>1 DEF JsInv, Calm
<1>3. faults = {}
  BY <1>2 DEF JsNext, jsSystem, wireVars, Server, Receive, SendReply, Expire, Start, Sent, OnMessage,
              OnError, Close
<1>4. CalmInv
  BY <1>3 DEF JsInv, Calm
<1>5. CASE UNCHANGED jsSystem
  BY <1>4, <1>5, UnchangedCalm DEF jsSystem, wireVars, jsVars
<1>6. CASE Server /\ UNCHANGED jsVars
  <2>1. ASSUME NEW k \in Key, Expire(k) PROVE CalmInv'
    BY <1>4, <1>6, <2>1, UnchangedCalm DEF Expire
  <2> QED
    BY <1>1, <1>2, <1>4, <1>6, <2>1, ReceiveCalm, SendReplyCalm DEF Server
<1>7. ~OnError
  BY <1>2 DEF OnError
<1> QED
  BY <1>1, <1>2, <1>4, <1>5, <1>6, <1>7, StartCalm, SentCalm, OnMessageCalm, CloseCalm DEF JsNext

\* What the invariant says when every call has settled.
LEMMA RestIsQuiet == JsInv => NothingLeftOver
<1> SUFFICES ASSUME JsInv, faults = {}, \A i \in DOMAIN calls : Settled(calls[i])
             PROVE  /\ buffered = << >> /\ waiters = << >> /\ scanWaiter = None
                    /\ \A c \in Conn : inbox[c] = << >>
                    /\ requests = << >> /\ \A w \in Worker : job[w] = << >>
  BY DEF NothingLeftOver
<1>1. JsTyped /\ CalmInv /\ DOMAIN calls = 1..Len(calls) /\ waiters \in Seq(1..Len(calls)) /\ WaitersOK
  BY DEF JsInv, Calm, JsTypeInv, JsTyped, CalmInv
<1>2. Unsettled = {}
  BY <1>1 DEF Unsettled
<1>3. PlainPhase
  BY <1>1, <1>2 DEF CalmInv, ScanPhase
<1>4. requests = << >> /\ Busy = {} /\ Arrived = << >> /\ buffered = << >>
  BY <1>1, <1>2, <1>3, NoneUnderWay
<1>5. waiters = << >>
  <2> SUFFICES ASSUME waiters # << >> PROVE FALSE
    OBVIOUS
  <2>1. 1 \in 1..Len(waiters) /\ waiters[1] \in 1..Len(calls)
    BY <1>1, EmptySeq
  <2>2. calls[waiters[1]].result = None
    BY <1>1, <2>1 DEF WaitersOK
  <2>3. waiters[1] \in Unsettled
    BY <1>1, <2>1, <2>2, UnsettledIs
  <2> QED
    BY <1>2, <2>3
<1>6. \A c \in Conn : inbox[c] = << >>
  BY <1>1, <1>4, NoneAssumption DEF CalmInv, Arrived
<1>7. \A w \in Worker : job[w] = << >>
  BY <1>4 DEF Busy
<1> QED
  BY <1>3, <1>4, <1>5, <1>6, <1>7 DEF PlainPhase

\* A promise of the JavaScript client that resolves does so with the answer to its own
\* request, for any number of workers and calls, in whatever order replies arrive and
\* however calls, scans, failed sends, errors of the socket and close() overlap: roundtrip
\* compares the request_id, and the handler of a scan keeps the chunks that carry its own.
THEOREM PromisesResolveWithOwnReply == JsSpec => []ResolvesOwn
<1>1. JsInit => JsTypeInv
  BY JsInitTyped
<1>2. JsTypeInv /\ [JsNext]_jsSystem => JsTypeInv'
  BY JsNextTyped
<1>3. JsTypeInv => ResolvesOwn
  <2> SUFFICES ASSUME JsTypeInv PROVE ResolvesOwn
    OBVIOUS
  <2>1. DOMAIN calls = 1..Len(calls)
    BY DEF JsTypeInv, JsTyped
  <2> QED
    BY <2>1 DEF JsTypeInv, TakesOwnOnly, ResolvesOwn
<1> QED
  BY <1>1, <1>2, <1>3, PTL DEF JsSpec

\* While no reply was lost, no scan ran beside another call or failed to be sent, and the
\* socket had no error, a JavaScript client whose calls have all settled leaves nothing for
\* a later call to take: nothing waits in its queues or in its socket, and nothing it
\* asked for is under way in the server, however the workers' replies were reordered.
THEOREM NothingIsLeftOver == JsSpec => []NothingLeftOver
<1>1. JsInit => JsInv
  BY JsInitTyped, InitCalm DEF JsInv
<1>2. JsInv /\ [JsNext]_jsSystem => JsInv'
  BY JsNextInv
<1>3. JsInv => NothingLeftOver
  BY RestIsQuiet
<1> QED
  BY <1>1, <1>2, <1>3, PTL DEF JsSpec

=============================================================================
