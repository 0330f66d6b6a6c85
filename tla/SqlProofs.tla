------------------------------ MODULE SqlProofs -----------------------------
(***************************************************************************)
(* Statements, imports and exports side by side, for any number of         *)
(* sessions, statements and dumps: the rows that an export must see have a *)
(* schema, an import that has ended is complete, an UPDATE is no upsert.   *)
(***************************************************************************)
EXTENDS Sql, TLAPS, FiniteSetTheorems, SequenceTheorems, NaturalsInduction

\* The frames have the fields of their statement.
Shaped(f) ==
    \/ f = Rest
    \/ f.op = "insert" /\ DOMAIN f = {"op", "table", "rows", "width", "missing", "touched"}
    \/ f.op = "update" /\ DOMAIN f = {"op", "key", "value", "touched"}
    \/ f.op = "import" /\ DOMAIN f = {"op", "inserts", "plan", "tables", "done", "rels", "touched"}
    \/ f.op = "export" /\ DOMAIN f = {"op", "todo", "schemas", "dump", "stale", "touched"}

\* An INSERT that will write no schema has seen one.
InsertOK(f, S) == f.op = "insert" => f.missing \/ f.table \in DOMAIN S

\* The schema of the i-th table of the import f is there or was replaced,...
SchemaKept(f, S, i) ==
    \/ <<f.plan[i].name>> \in f.touched
    \/ M!Get(S, f.plan[i].name, None) = render_schema_entry(f.plan[i])
    \/ \E j \in 1..f.tables : j > i /\ f.plan[j].name = f.plan[i].name

\* ... and so is its i-th row.
RowKept(f, R, i) ==
    \/ ImportedKey(f.plan, f.inserts[i]) \in f.touched
    \/ M!Get(R, ImportedKey(f.plan, f.inserts[i]), None) = ImportedValue(f.plan, f.inserts[i])
    \/ \E j \in 1..f.done :
          /\ j > i /\ Imports(f.plan, f.inserts[j])
          /\ ImportedKey(f.plan, f.inserts[j]) = ImportedKey(f.plan, f.inserts[i])

\* The relationships of the i-th row are there or still to be written.
RelsKept(f, L, i) == ImportedRels(f.plan, f.inserts[i]) \subseteq L \cup f.rels

\* What an import has done so far.
ImportOK(f, S, R, L) ==
    f.op = "import" =>
        /\ IsSeq(f.plan) /\ IsSeq(f.inserts)
        /\ f.tables \in 0..Len(f.plan) /\ f.done \in 0..Len(f.inserts)
        /\ \A i \in 1..f.tables : f.plan[i].name \in DOMAIN S /\ SchemaKept(f, S, i)
        /\ \A i \in 1..f.done :
              Imports(f.plan, f.inserts[i]) => RelsKept(f, L, i) /\ RowKept(f, R, i)

DumpOK(dump) == IsSeq(dump.tables) /\ IsSeq(dump.inserts)

ExportOK(f) == f.op = "export" => DumpOK(f.dump)

FrameOK(f, S, R, L) ==
    Shaped(f) /\ InsertOK(f, S) /\ ImportOK(f, S, R, L) /\ ExportOK(f)

SessionsOK ==
    DOMAIN session = Session /\ \A s \in Session : FrameOK(session[s], schemas, rows, rels)

\* The table t has a schema, or will get one, or the server stopped before it did.
OwedIn(t, S, T, frames) ==
    \/ t \in DOMAIN S \cup T
    \/ \E s \in Session : frames[s].op = "insert" /\ frames[s].table = t /\ frames[s].missing

Owed(t) == OwedIn(t, schemas, torn, session)

\* An UPDATE writes to such a table, even where it brings a row back.
UpdatesOwed == \A s \in Session : session[s].op = "update" => Owed(session[s].key[1])

\* What holds of the rows and the sessions...
BusInv ==
    /\ SessionsOK
    /\ UpdatesOwed
    /\ IsFiniteSet(DOMAIN rows)
    /\ file # None => DumpOK(file)
    /\ SchemaPresent
    /\ ImportComplete

\* A step takes no schema, and no promise of one, from a table.
OwedKept == \A t : Owed(t) => OwedIn(t, schemas', torn', session')

\* ... and of the copies: the key has a copy or will get one.
Cached(k) == k \in DOMAIN copies \/ Reading(k)

\* What is under the key has not been removed, unless a read ran beside the DELETE.
PresentIn(k, S, R, X) == IF Len(k) = 1 THEN k[1] \in DOMAIN S ELSE k \in DOMAIN R \cup X

Present(k) == PresentIn(k, schemas, rows, raced)

\* An UPDATE has seen the row, or a copy of it; another session may have removed it since.
UpdatesSeen ==
    \A s \in Session :
        session[s].op = "update" => session[s].key \in DOMAIN rows \cup session[s].touched \cup raced

TierInv ==
    /\ DOMAIN pending = Session
    /\ \A s \in Session : pending[s] # None /\ pending[s].op = "delete" => session[s] = Rest
    /\ IsFiniteSet(DOMAIN copies)
    /\ \A k : Cached(k) => Present(k)
    /\ \A k : Deleting(k) /\ Cached(k) => k \in raced
    /\ \A k \in raced : Owed(k[1])
    /\ UpdatesSeen

SqlInv == BusInv /\ TierInv

-----------------------------------------------------------------------------
\* Sequences and maps

LEMMA IsSeqDomain ==
    ASSUME NEW s, IsSeq(s)
    PROVE  Len(s) \in Nat /\ DOMAIN s = 1..Len(s)
BY DEF IsSeq

LEMMA SeqIsSeq ==
    ASSUME NEW S, NEW s \in Seq(S)
    PROVE  IsSeq(s)
<1>1. s \in [1..Len(s) -> Range(s)] /\ Len(s) \in Nat
  BY DEF Range
<1> QED
  BY <1>1 DEF IsSeq

LEMMA FunctionIsSeq ==
    ASSUME NEW s, NEW n \in Nat, s = [i \in 1..n |-> s[i]]
    PROVE  IsSeq(s)
<1>1. s \in [1..n -> Range(s)]
  BY DEF Range
<1> QED
  BY <1>1 DEF IsSeq

LEMMA AppendIsSeq ==
    ASSUME NEW s, IsSeq(s), NEW e
    PROVE  IsSeq(Append(s, e))
<1> DEFINE S == Range(s) \cup {e}
<1>1. s \in Seq(S)
  BY SeqMonotonic DEF IsSeq
<1>2. Append(s, e) \in Seq(S)
  BY <1>1
<1> QED
  BY <1>2, SeqIsSeq

LEMMA ConcatIsSeq ==
    ASSUME NEW s, IsSeq(s), NEW t, IsSeq(t)
    PROVE  IsSeq(s \o t)
<1> DEFINE S == Range(s) \cup Range(t)
<1>1. s \in Seq(S) /\ t \in Seq(S)
  BY SeqMonotonic DEF IsSeq
<1>2. s \o t \in Seq(S)
  BY <1>1, ConcatProperties
<1> QED
  BY <1>2, SeqIsSeq

LEMMA MinIn ==
    ASSUME NEW T, T \subseteq Nat, T # {}
    PROVE  Min(T) \in T
<1> DEFINE Less == {p \in Nat \X Nat : p[1] < p[2]}
<1>1. IsWellFoundedOn(Less, Nat)
  BY NatLessThanWellFounded DEF OpToRel
<1>2. \A x, y \in Nat : <<y, x>> \in Less <=> y < x
  OBVIOUS
<1> HIDE DEF Less
<1>3. \E x \in T : \A y \in T : ~(<<y, x>> \in Less)
  BY <1>1, WFMin
<1>4. PICK x \in T : \A y \in T : ~(<<y, x>> \in Less)
  BY <1>3
<1>5. ASSUME NEW y \in T PROVE x <= y
  <2>1. x \in Nat /\ y \in Nat /\ ~(<<y, x>> \in Less)
    BY <1>4
  <2>2. ~(y < x)
    BY <1>2, <2>1
  <2> QED
    BY <2>1, <2>2
<1> QED
  BY <1>5 DEF Min

LEMMA InsertMap ==
    ASSUME NEW m, NEW k, NEW v
    PROVE  /\ DOMAIN M!Insert(m, k, v) = DOMAIN m \cup {k}
           /\ M!Get(M!Insert(m, k, v), k, None) = v
           /\ \A x : x # k => M!Get(M!Insert(m, k, v), x, None) = M!Get(m, x, None)
BY DEF M!Insert, M!Get

LEMMA RemoveMap ==
    ASSUME NEW m, NEW k
    PROVE  /\ DOMAIN M!Remove(m, k) = DOMAIN m \ {k}
           /\ \A x : x # k => M!Get(M!Remove(m, k), x, None) = M!Get(m, x, None)
BY DEF M!Remove, M!RemoveAll, M!Get

-----------------------------------------------------------------------------
\* The other sessions are told of what is written, and keep their facts.

\* The bus, whose rows at the keys K and tables with a key in K may have been written.
Changed(S, R, L, S1, R1, L1, K) ==
    /\ DOMAIN S \subseteq DOMAIN S1 /\ L \subseteq L1
    /\ \A t : <<t>> \notin K => M!Get(S1, t, None) = M!Get(S, t, None)
    /\ \A k : k \notin K => /\ k \in DOMAIN R1 <=> k \in DOMAIN R
                            /\ M!Get(R1, k, None) = M!Get(R, k, None)

Told(f, K) == IF f = Rest THEN Rest ELSE [f EXCEPT !.touched = @ \cup K]

LEMMA RestOK ==
    ASSUME NEW S, NEW R, NEW L
    PROVE  FrameOK(Rest, S, R, L) /\ Rest.op = "none"
BY DEF FrameOK, Shaped, InsertOK, ImportOK, ExportOK, Rest

LEMMA ToldFields ==
    ASSUME NEW f, Shaped(f), f # Rest, NEW K
    PROVE  LET g == Told(f, K)
           IN  /\ DOMAIN g = DOMAIN f /\ g.op = f.op /\ g.touched = f.touched \cup K
               /\ \A x \in DOMAIN f \ {"touched"} : g[x] = f[x]
<1>1. "touched" \in DOMAIN f /\ "op" \in DOMAIN f
  BY DEF Shaped
<1>2. Told(f, K) = [f EXCEPT !.touched = @ \cup K]
  BY DEF Told
<1> QED
  BY <1>1, <1>2

LEMMA ToldOK ==
    ASSUME NEW S, NEW R, NEW L, NEW S1, NEW R1, NEW L1, NEW K, Changed(S, R, L, S1, R1, L1, K),
           NEW f, FrameOK(f, S, R, L)
    PROVE  FrameOK(Told(f, K), S1, R1, L1)
<1>1. CASE f = Rest
  BY <1>1, RestOK DEF Told
<1>2. CASE f # Rest
  <2> DEFINE g == Told(f, K)
  <2>0. Shaped(f)
    BY DEF FrameOK
  <2>1. /\ DOMAIN g = DOMAIN f /\ g.op = f.op /\ g.touched = f.touched \cup K
        /\ \A x \in DOMAIN f \ {"touched"} : g[x] = f[x]
    BY <1>2, <2>0, ToldFields
  <2> HIDE DEF g
  <2>2. Shaped(g)
    BY <1>2, <2>0, <2>1 DEF Shaped
  <2>3. InsertOK(g, S1)
    <3> SUFFICES ASSUME f.op = "insert" PROVE g.missing \/ g.table \in DOMAIN S1
      BY <2>1 DEF InsertOK
    <3>1. g.missing = f.missing /\ g.table = f.table
      BY <1>2, <2>0, <2>1 DEF Shaped
    <3> QED
      BY <3>1 DEF FrameOK, InsertOK, Changed
  <2>5. ImportOK(g, S1, R1, L1)
    <3> SUFFICES ASSUME f.op = "import" PROVE ImportOK(g, S1, R1, L1)
      BY <2>1 DEF ImportOK
    <3>1. /\ g.plan = f.plan /\ g.inserts = f.inserts /\ g.tables = f.tables
          /\ g.done = f.done /\ g.rels = f.rels
      BY <1>2, <2>0, <2>1 DEF Shaped
    <3>2. ASSUME NEW i \in 1..f.tables, f.plan[i].name \in DOMAIN S, SchemaKept(f, S, i)
          PROVE  g.plan[i].name \in DOMAIN S1 /\ SchemaKept(g, S1, i)
      BY <2>1, <3>1, <3>2 DEF SchemaKept, Changed
    <3>3. ASSUME NEW i \in 1..f.done, RelsKept(f, L, i)
          PROVE  RelsKept(g, L1, i)
      BY <3>1, <3>3 DEF RelsKept, Changed
    <3>4. ASSUME NEW i \in 1..f.done, RowKept(f, R, i)
          PROVE  RowKept(g, R1, i)
      BY <2>1, <3>1, <3>4 DEF RowKept, Changed
    <3> QED
      BY <3>1, <3>2, <3>3, <3>4 DEF FrameOK, ImportOK
  <2>6. ExportOK(g)
    <3> SUFFICES ASSUME f.op = "export" PROVE DumpOK(g.dump)
      BY <2>1 DEF ExportOK
    <3>1. g.dump = f.dump
      BY <1>2, <2>0, <2>1 DEF Shaped
    <3> QED
      BY <3>1 DEF FrameOK, ExportOK
  <2> QED
    BY <2>2, <2>3, <2>5, <2>6 DEF FrameOK, g
<1> QED
  BY <1>1, <1>2

-----------------------------------------------------------------------------
\* One step of a session

LEMMA GoOn ==
    ASSUME SessionsOK, NEW s \in Session, NEW frame, NEW K, Go(s, frame, K)
    PROVE  /\ DOMAIN session' = Session /\ session'[s] = frame
           /\ \A o \in Session \ {s} : session'[o] = Told(session[o], K)
BY DEF Go, Told, Idle

\* The frame of s was no INSERT that owes a schema, or it still is, or it has written it.
StillOwes(f, frame, S) ==
    f.op = "insert" /\ f.missing =>
        \/ f.table \in DOMAIN S
        \/ frame.op = "insert" /\ frame.missing /\ frame.table = f.table

LEMMA OwedStep ==
    ASSUME SessionsOK, NEW s \in Session, NEW frame, NEW K, Go(s, frame, K),
           DOMAIN schemas \subseteq DOMAIN schemas', torn \subseteq torn',
           StillOwes(session[s], frame, schemas'), NEW t, Owed(t)
    PROVE  OwedIn(t, schemas', torn', session')
<1>1. CASE t \in DOMAIN schemas \cup torn
  BY <1>1 DEF Owed, OwedIn
<1>2. CASE \E o \in Session : session[o].op = "insert" /\ session[o].table = t /\ session[o].missing
  <2>1. PICK o \in Session : session[o].op = "insert" /\ session[o].table = t /\ session[o].missing
    BY <1>2
  <2>2. CASE o = s
    BY <2>1, <2>2, GoOn DEF StillOwes, OwedIn
  <2>3. CASE o # s
    <3>1. Shaped(session[o]) /\ session[o] # Rest
      BY <2>1, RestOK DEF SessionsOK, FrameOK
    <3>2. DOMAIN session[o] = {"op", "table", "rows", "width", "missing", "touched"}
      BY <2>1, <3>1 DEF Shaped
    <3>3. session'[o] = Told(session[o], K)
      BY <2>3, GoOn
    <3>4. session'[o].op = "insert" /\ session'[o].table = t /\ session'[o].missing
      BY <2>1, <3>1, <3>2, <3>3, ToldFields
    <3> QED
      BY <3>4 DEF Owed, OwedIn
  <2> QED
    BY <2>2, <2>3
<1> QED
  BY <1>1, <1>2 DEF Owed, OwedIn

LEMMA StepOK ==
    ASSUME BusInv, NEW s \in Session, NEW frame, NEW K, Go(s, frame, K), torn' = torn,
           Changed(schemas, rows, rels, schemas', rows', rels', K),
           FrameOK(frame, schemas', rows', rels'),
           StillOwes(session[s], frame, schemas'),
           frame.op = "update" => Owed(frame.key[1]),
           \A k \in DOMAIN rows' \ DOMAIN rows : Owed(k[1])
    PROVE  SessionsOK' /\ UpdatesOwed' /\ SchemaPresent' /\ OwedKept
<1>1. DOMAIN session' = Session /\ session'[s] = frame
      /\ \A o \in Session \ {s} : session'[o] = Told(session[o], K)
  BY GoOn DEF BusInv
<1>2. \A t : Owed(t) => OwedIn(t, schemas', torn', session')
  BY OwedStep DEF BusInv, Changed
<1>0. OwedKept
  BY <1>2 DEF OwedKept
<1>3. SessionsOK'
  <2> SUFFICES ASSUME NEW o \in Session
               PROVE  FrameOK(session'[o], schemas', rows', rels')
    BY <1>1 DEF SessionsOK
  <2>1. FrameOK(session[o], schemas, rows, rels)
    BY DEF BusInv, SessionsOK
  <2> QED
    BY <1>1, <2>1, ToldOK
<1>4. UpdatesOwed'
  <2> SUFFICES ASSUME NEW o \in Session, session'[o].op = "update"
               PROVE  OwedIn(session'[o].key[1], schemas', torn', session')
    BY DEF UpdatesOwed, Owed, In
  <2>1. CASE o = s
    BY <1>1, <1>2, <2>1
  <2>2. CASE o # s
    <3>1. session[o] # Rest
      BY <1>1, <2>2, RestOK DEF Told
    <3>2. Shaped(session[o])
      BY DEF BusInv, SessionsOK, FrameOK
    <3>3. session[o].op = "update"
      BY <1>1, <2>2, <3>1, <3>2, ToldFields
    <3>4. session'[o].key = session[o].key
      <4>1. "key" \in DOMAIN session[o] \ {"touched"}
        BY <3>1, <3>2, <3>3 DEF Shaped
      <4> QED
        BY <1>1, <2>2, <3>1, <3>2, <4>1, ToldFields
    <3> QED
      BY <1>2, <3>3, <3>4 DEF BusInv, UpdatesOwed, In
  <2> QED
    BY <2>1, <2>2
<1>5. SchemaPresent'
  <2> SUFFICES ASSUME NEW k \in DOMAIN rows' PROVE OwedIn(k[1], schemas', torn', session')
    BY DEF SchemaPresent, Owed, OwedIn, In
  <2>1. Owed(k[1])
    BY DEF BusInv, SchemaPresent, Owed, OwedIn, In
  <2> QED
    BY <1>2, <2>1
<1> QED
  BY <1>0, <1>3, <1>4, <1>5

LEMMA Unchanged ==
    ASSUME NEW S, NEW R, NEW L, NEW K
    PROVE  Changed(S, R, L, S, R, L, K)
BY DEF Changed

LEMMA SchemaChanged ==
    ASSUME NEW S, NEW R, NEW L, NEW t, NEW columns
    PROVE  Changed(S, R, L, M!Insert(S, t, columns), R, L, {<<t>>})
<1> DEFINE S1 == M!Insert(S, t, columns)
<1>1. /\ DOMAIN S1 = DOMAIN S \cup {t}
      /\ \A x : x # t => M!Get(S1, x, None) = M!Get(S, x, None)
  BY DEF M!Insert, M!Get
<1> HIDE DEF S1
<1>2. \A x : <<x>> \notin {<<t>>} => x # t
  OBVIOUS
<1>3. Changed(S, R, L, S1, R, L, {<<t>>})
  BY <1>1, <1>2 DEF Changed
<1> QED
  BY <1>3 DEF S1

LEMMA RowChanged ==
    ASSUME NEW S, NEW R, NEW L, NEW k, NEW v
    PROVE  /\ Changed(S, R, L, S, M!Insert(R, k, v), L, {k})
           /\ Changed(S, R, L, S, M!Remove(R, k), L, {k})
<1> DEFINE R1 == M!Insert(R, k, v)
           R2 == M!Remove(R, k)
<1>1. /\ DOMAIN R1 = DOMAIN R \cup {k}
      /\ \A x : x # k => M!Get(R1, x, None) = M!Get(R, x, None)
  BY DEF M!Insert, M!Get
<1>2. /\ DOMAIN R2 = DOMAIN R \ {k}
      /\ \A x : x # k => M!Get(R2, x, None) = M!Get(R, x, None)
  BY RemoveMap
<1> HIDE DEF R1, R2
<1>3. Changed(S, R, L, S, R1, L, {k}) /\ Changed(S, R, L, S, R2, L, {k})
  BY <1>1, <1>2 DEF Changed
<1> QED
  BY <1>3 DEF R1, R2

LEMMA LastRest ==
    ASSUME last' = Rest
    PROVE  ImportComplete'
<1>1. ~(last'.op = "import")
  BY DEF Rest
<1> QED
  BY <1>1 DEF ImportComplete

LEMMA BeginOK ==
    ASSUME BusInv, NEW s \in Session, NEW frame, Begin(s, frame),
           FrameOK(frame, schemas, rows, rels), frame.op = "update" => Owed(frame.key[1])
    PROVE  BusInv' /\ OwedKept
<1>1. /\ Go(s, frame, {}) /\ last' = Rest /\ torn' = torn /\ file' = file
      /\ schemas' = schemas /\ rows' = rows /\ rels' = rels /\ session[s] = Rest
  BY DEF Begin, bus, Idle
<1>2. StillOwes(session[s], frame, schemas')
  BY <1>1, RestOK DEF StillOwes
<1>3. Changed(schemas, rows, rels, schemas', rows', rels', {})
  BY <1>1, Unchanged
<1>4. SessionsOK' /\ UpdatesOwed' /\ SchemaPresent' /\ OwedKept
  BY <1>1, <1>2, <1>3, StepOK
<1> QED
  BY <1>1, <1>4, LastRest DEF BusInv

\* A statement or command goes on and writes the keys K.
LEMMA ContinueOK ==
    ASSUME BusInv, NEW s \in Session, NEW frame, NEW K, Continue(s, frame, K),
           Changed(schemas, rows, rels, schemas', rows', rels', K),
           IsFiniteSet(DOMAIN rows'), FrameOK(frame, schemas', rows', rels'),
           StillOwes(session[s], frame, schemas'), frame.op # "update",
           \A k \in DOMAIN rows' \ DOMAIN rows : Owed(k[1])
    PROVE  BusInv' /\ OwedKept
<1>1. Go(s, frame, K) /\ last' = Rest /\ torn' = torn /\ file' = file
  BY DEF Continue
<1>2. SessionsOK' /\ UpdatesOwed' /\ SchemaPresent' /\ OwedKept
  BY <1>1, StepOK
<1> QED
  BY <1>1, <1>2, LastRest DEF BusInv

-----------------------------------------------------------------------------
\* The actions

\* No schema is removed: one that INSERT finds, if only as a copy, is there.
LEMMA BeginInsertOK ==
    ASSUME SqlInv, NEW s \in Session, NEW i, BeginInsert(s, i)
    PROVE  BusInv' /\ OwedKept
<1> DEFINE f == [op |-> "insert", table |-> i.table, rows |-> i.rows, width |-> Len(i.rows[1]),
                 missing |-> ~Found(<<i.table>>, i.table \in DOMAIN schemas), touched |-> {}]
<1>0. f.missing \/ i.table \in DOMAIN schemas
  <2>1. Len(<<i.table>>) = 1 /\ <<i.table>>[1] = i.table
    OBVIOUS
  <2>2. <<i.table>> \in DOMAIN copies => i.table \in DOMAIN schemas
    BY <2>1 DEF SqlInv, TierInv, Cached, Present, PresentIn
  <2> QED
    BY <2>2 DEF Found
<1>1. FrameOK(f, schemas, rows, rels) /\ f.op # "update"
  <2> HIDE DEF Found
  <2> QED
    BY <1>0 DEF FrameOK, Shaped, InsertOK, ImportOK, ExportOK
<1>2. Begin(s, f) /\ BusInv
  BY DEF BeginInsert, SqlInv
<1> HIDE DEF f
<1> QED
  BY <1>1, <1>2, BeginOK

\* The fields of an INSERT.
LEMMA InsertFrame ==
    ASSUME BusInv, NEW s \in Session, In(s, "insert")
    PROVE  /\ DOMAIN session[s] = {"op", "table", "rows", "width", "missing", "touched"}
           /\ session[s].missing \/ session[s].table \in DOMAIN schemas
           /\ Owed(session[s].table)
<1>1. Shaped(session[s]) /\ InsertOK(session[s], schemas) /\ session[s].op = "insert"
  BY DEF BusInv, SessionsOK, FrameOK, In
<1>2. session[s] # Rest
  BY <1>1, RestOK
<1>3. DOMAIN session[s] = {"op", "table", "rows", "width", "missing", "touched"}
  BY <1>1, <1>2 DEF Shaped
<1> QED
  BY <1>1, <1>3 DEF InsertOK, Owed, OwedIn

LEMMA InsertRowOK ==
    ASSUME BusInv, NEW s \in Session, InsertRow(s)
    PROVE  BusInv' /\ OwedKept
<1> DEFINE row == Head(session[s].rows)
           key == <<session[s].table, Head(row)>>
           f == [session[s] EXCEPT !.rows = Tail(@)]
<1>1. /\ rows' = M!Insert(rows, key, Lines(Tail(row))) /\ Continue(s, f, {key})
      /\ schemas' = schemas /\ rels' = rels /\ In(s, "insert")
  BY DEF InsertRow
<1>2. /\ DOMAIN session[s] = {"op", "table", "rows", "width", "missing", "touched"}
      /\ session[s].missing \/ session[s].table \in DOMAIN schemas
      /\ Owed(session[s].table)
  BY <1>1, InsertFrame
<1>3. /\ DOMAIN f = DOMAIN session[s] /\ f.op = "insert" /\ f.table = session[s].table
      /\ f.missing = session[s].missing
  BY <1>1, <1>2 DEF In
<1>4. key[1] = session[s].table
  OBVIOUS
<1> HIDE DEF f, key, row
<1>5. FrameOK(f, schemas', rows', rels') /\ StillOwes(session[s], f, schemas')
  BY <1>1, <1>2, <1>3
     DEF FrameOK, Shaped, InsertOK, ImportOK, ExportOK, StillOwes
<1>6. Changed(schemas, rows, rels, schemas', rows', rels', {key})
  BY <1>1, RowChanged
<1>7. IsFiniteSet(DOMAIN rows') /\ \A k \in DOMAIN rows' \ DOMAIN rows : Owed(k[1])
  <2>1. DOMAIN rows' = DOMAIN rows \cup {key}
    BY <1>1, InsertMap
  <2> QED
    BY <1>2, <1>4, <2>1, FS_AddElement DEF BusInv
<1> QED
  BY <1>1, <1>3, <1>5, <1>6, <1>7, ContinueOK

LEMMA InsertEndOK ==
    ASSUME BusInv, NEW s \in Session, InsertEnd(s)
    PROVE  BusInv' /\ OwedKept
<1>1. In(s, "insert") /\ rows' = rows /\ rels' = rels
  BY DEF InsertEnd
<1>2. IsFiniteSet(DOMAIN rows') /\ \A k \in DOMAIN rows' \ DOMAIN rows : Owed(k[1])
  BY <1>1 DEF BusInv
<1>3. FrameOK(Rest, schemas', rows', rels') /\ Rest.op # "update"
  BY RestOK
<1>4. CASE session[s].missing
  <2>1. /\ schemas' = M!Insert(schemas, session[s].table, Inferred(session[s].width))
        /\ Continue(s, Rest, {<<session[s].table>>})
    BY <1>4 DEF InsertEnd
  <2>2. StillOwes(session[s], Rest, schemas')
    <3>1. DOMAIN schemas' = DOMAIN schemas \cup {session[s].table}
      BY <2>1, InsertMap
    <3> QED
      BY <3>1 DEF StillOwes
  <2>3. Changed(schemas, rows, rels, schemas', rows', rels', {<<session[s].table>>})
    BY <1>1, <2>1, SchemaChanged
  <2> QED
    BY <1>2, <1>3, <2>1, <2>2, <2>3, ContinueOK
<1>5. CASE ~session[s].missing
  <2>1. schemas' = schemas /\ Continue(s, Rest, {})
    BY <1>5 DEF InsertEnd
  <2>2. StillOwes(session[s], Rest, schemas')
    BY <1>5 DEF StillOwes
  <2>3. Changed(schemas, rows, rels, schemas', rows', rels', {})
    BY <1>1, <2>1, Unchanged
  <2> QED
    BY <1>2, <1>3, <2>1, <2>2, <2>3, ContinueOK
<1> QED
  BY <1>4, <1>5

\* The table of what is or will be copied has a schema, or is owed one.
LEMMA CachedOwed ==
    ASSUME SqlInv, NEW k, Cached(k) \/ k \in DOMAIN rows
    PROVE  Owed(k[1])
<1>1. CASE Cached(k)
  <2>1. Present(k)
    BY <1>1 DEF SqlInv, TierInv
  <2>2. k[1] \in DOMAIN schemas \/ k \in DOMAIN rows \/ k \in raced
    BY <2>1 DEF Present, PresentIn
  <2>3. ASSUME k \in DOMAIN rows PROVE Owed(k[1])
    BY <2>3 DEF SqlInv, BusInv, SchemaPresent, Owed, OwedIn
  <2> QED
    BY <2>2, <2>3 DEF SqlInv, TierInv, Owed, OwedIn
<1>2. CASE k \in DOMAIN rows
  BY <1>2 DEF SqlInv, BusInv, SchemaPresent, Owed, OwedIn
<1> QED
  BY <1>1, <1>2

LEMMA BeginUpdateOK ==
    ASSUME SqlInv, NEW s \in Session, NEW u, BeginUpdate(s, u)
    PROVE  BusInv' /\ OwedKept
<1> DEFINE key == <<u.table, u.key>>
           f == [op |-> "update", key |-> key, value |-> u.value, touched |-> {}]
<1>0. BusInv
  BY DEF SqlInv
<1>1. CASE Found(key, key \in DOMAIN rows)
  <2>1. Begin(s, f)
    BY <1>1 DEF BeginUpdate
  <2>2. Owed(key[1])
    BY <1>1, CachedOwed DEF Found, Cached
  <2> HIDE DEF key
  <2>3. FrameOK(f, schemas, rows, rels) /\ f.key = key
    BY DEF FrameOK, Shaped, InsertOK, ImportOK, ExportOK
  <2> HIDE DEF f
  <2> QED
    BY <1>0, <2>1, <2>2, <2>3, BeginOK
<1>2. CASE ~Found(key, key \in DOMAIN rows)
  <2>1. Begin(s, Rest)
    BY <1>2 DEF BeginUpdate
  <2> QED
    BY <1>0, <2>1, RestOK, BeginOK
<1> QED
  BY <1>1, <1>2

LEMMA UpdateRowOK ==
    ASSUME BusInv, NEW s \in Session, UpdateRow(s)
    PROVE  BusInv' /\ OwedKept
<1>1. /\ rows' = M!Insert(rows, session[s].key, session[s].value) /\ session[s].op = "update"
      /\ Continue(s, Rest, {session[s].key}) /\ schemas' = schemas /\ rels' = rels
  BY DEF UpdateRow, In
<1>2. Changed(schemas, rows, rels, schemas', rows', rels', {session[s].key})
  BY <1>1, RowChanged
<1>3. IsFiniteSet(DOMAIN rows') /\ \A k \in DOMAIN rows' \ DOMAIN rows : Owed(k[1])
  <2>1. DOMAIN rows' = DOMAIN rows \cup {session[s].key} /\ Owed(session[s].key[1])
    BY <1>1, InsertMap DEF BusInv, UpdatesOwed, In
  <2> QED
    BY <2>1, FS_AddElement DEF BusInv
<1>4. FrameOK(Rest, schemas', rows', rels') /\ Rest.op # "update"
      /\ StillOwes(session[s], Rest, schemas')
  BY <1>1, RestOK DEF StillOwes
<1> QED
  BY <1>1, <1>2, <1>3, <1>4, ContinueOK

\* A session that is in no statement begins one that is its one call of the bus.
LEMMA BeginRestOK ==
    ASSUME BusInv, NEW s \in Session, Begin(s, Rest)
    PROVE  BusInv' /\ OwedKept
BY RestOK, BeginOK

\* A session in no statement does the second half of its DELETE.
LEMMA DeleteRowOK ==
    ASSUME BusInv, NEW s \in Session, DeleteRow(s), session[s] = Rest
    PROVE  BusInv' /\ OwedKept
<1> DEFINE key == pending[s].key
<1>1. /\ rows' = M!Remove(rows, key) /\ Continue(s, Rest, {key})
      /\ schemas' = schemas /\ rels' = rels
  BY DEF DeleteRow
<1> HIDE DEF key
<1>2. Changed(schemas, rows, rels, schemas', rows', rels', {key})
  BY <1>1, RowChanged
<1>3. DOMAIN rows' \subseteq DOMAIN rows
  BY <1>1, RemoveMap
<1>4. FrameOK(Rest, schemas', rows', rels') /\ Rest.op # "update"
      /\ StillOwes(session[s], Rest, schemas')
  BY <1>1, RestOK DEF StillOwes
<1> QED
  BY <1>1, <1>2, <1>3, <1>4, ContinueOK, FS_Subset DEF BusInv

-----------------------------------------------------------------------------
\* Import

LEMMA BeginImportOK ==
    ASSUME BusInv, NEW s \in Session, NEW dump, DumpOK(dump), BeginImport(s, dump)
    PROVE  BusInv' /\ OwedKept
<1> DEFINE parsed == parse_sql(dump)
           plan == analyse_statements(parsed)
           inserts == parsed.inserts
           f == [op |-> "import", inserts |-> inserts, plan |-> plan,
                 tables |-> 0, done |-> 0, rels |-> {}, touched |-> {}]
<1>1. IsSeq(parsed.tables) /\ IsSeq(inserts)
  <2>1. IsSeq(<< >>)
    BY DEF IsSeq, Range
  <2> QED
    BY <2>1 DEF parse_sql, DumpOK
<1>2. IsSeq(plan)
  <2>1. Len(parsed.tables) \in Nat /\ DOMAIN parsed.tables = 1..Len(parsed.tables)
    BY <1>1, IsSeqDomain
  <2> DEFINE n == Len(parsed.tables)
  <2>2. plan = [i \in 1..n |-> analyse_create_table(parsed.tables[i])]
    BY <2>1 DEF analyse_statements
  <2> HIDE DEF plan, parsed, n
  <2>3. n \in Nat /\ plan = [i \in 1..n |-> plan[i]]
    BY <2>1, <2>2 DEF n
  <2> QED
    BY <2>3, FunctionIsSeq
<1>3. Begin(s, f)
  BY DEF BeginImport
<1> HIDE DEF parsed, plan, inserts
<1>4. f.op = "import" /\ f.tables = 0 /\ f.done = 0 /\ f.plan = plan /\ f.inserts = inserts
      /\ DOMAIN f = {"op", "inserts", "plan", "tables", "done", "rels", "touched"}
  OBVIOUS
<1> HIDE DEF f
<1>5. ImportOK(f, schemas, rows, rels)
  <2>1. Len(plan) \in Nat /\ Len(inserts) \in Nat
    BY <1>1, <1>2, IsSeqDomain
  <2> QED
    BY <1>1, <1>2, <1>4, <2>1 DEF ImportOK
<1>6. FrameOK(f, schemas, rows, rels)
  BY <1>4, <1>5 DEF FrameOK, Shaped, InsertOK, ExportOK
<1> QED
  BY <1>3, <1>4, <1>6, BeginOK

LEMMA ImportFrame ==
    ASSUME BusInv, NEW s \in Session, In(s, "import")
    PROVE  LET f == session[s]
           IN  /\ DOMAIN f = {"op", "inserts", "plan", "tables", "done", "rels", "touched"}
               /\ f.op = "import" /\ ImportOK(f, schemas, rows, rels)
               /\ IsSeq(f.plan) /\ IsSeq(f.inserts)
               /\ Len(f.plan) \in Nat /\ DOMAIN f.plan = 1..Len(f.plan)
               /\ Len(f.inserts) \in Nat /\ DOMAIN f.inserts = 1..Len(f.inserts)
               /\ f.tables \in 0..Len(f.plan) /\ f.done \in 0..Len(f.inserts)
<1>1. Shaped(session[s]) /\ ImportOK(session[s], schemas, rows, rels) /\ session[s].op = "import"
  BY DEF BusInv, SessionsOK, FrameOK, In
<1>2. session[s] # Rest
  BY <1>1, RestOK
<1>3. DOMAIN session[s] = {"op", "inserts", "plan", "tables", "done", "rels", "touched"}
  BY <1>1, <1>2 DEF Shaped
<1>4. /\ IsSeq(session[s].plan) /\ IsSeq(session[s].inserts)
      /\ session[s].tables \in 0..Len(session[s].plan)
      /\ session[s].done \in 0..Len(session[s].inserts)
  BY <1>1 DEF ImportOK
<1> QED
  BY <1>1, <1>3, <1>4, IsSeqDomain

\* An import that is well and an arbitrary next frame of it.
LEMMA ImportStepOK ==
    ASSUME BusInv, NEW s \in Session, In(s, "import"), NEW g, NEW K, Continue(s, g, K),
           DOMAIN g = DOMAIN session[s], g.op = "import",
           Changed(schemas, rows, rels, schemas', rows', rels', K),
           IsFiniteSet(DOMAIN rows'), ImportOK(g, schemas', rows', rels'),
           \A k \in DOMAIN rows' \ DOMAIN rows : Owed(k[1])
    PROVE  BusInv' /\ OwedKept
<1>1. session[s].op = "import"
      /\ DOMAIN g = {"op", "inserts", "plan", "tables", "done", "rels", "touched"}
  BY ImportFrame
<1>2. FrameOK(g, schemas', rows', rels') /\ StillOwes(session[s], g, schemas')
  BY <1>1 DEF FrameOK, Shaped, InsertOK, ExportOK, StillOwes
<1> QED
  BY <1>2, ContinueOK

LEMMA ImportSchemaOK ==
    ASSUME BusInv, NEW s \in Session, ImportSchema(s)
    PROVE  BusInv' /\ OwedKept
<1> DEFINE f == session[s]
           table == f.plan[f.tables + 1]
           entry == render_schema_entry(table)
           g == [session[s] EXCEPT !.tables = @ + 1]
<1>1. /\ In(s, "import") /\ f.tables < Len(f.plan) /\ schemas' = M!Insert(schemas, table.name, entry)
      /\ Continue(s, g, {<<table.name>>}) /\ rows' = rows /\ rels' = rels
  BY DEF ImportSchema
<1>2. /\ DOMAIN f = {"op", "inserts", "plan", "tables", "done", "rels", "touched"}
      /\ f.op = "import" /\ ImportOK(f, schemas, rows, rels)
      /\ IsSeq(f.plan) /\ IsSeq(f.inserts) /\ Len(f.plan) \in Nat
      /\ f.tables \in 0..Len(f.plan) /\ f.done \in 0..Len(f.inserts)
  BY <1>1, ImportFrame
<1>3. /\ DOMAIN g = DOMAIN f /\ g.op = "import" /\ g.tables = f.tables + 1
      /\ g.plan = f.plan /\ g.inserts = f.inserts /\ g.done = f.done /\ g.rels = f.rels
      /\ g.touched = f.touched
  BY SMTT(60), <1>2
<1>4. /\ DOMAIN schemas' = DOMAIN schemas \cup {table.name}
      /\ M!Get(schemas', table.name, None) = entry
      /\ \A x : x # table.name => M!Get(schemas', x, None) = M!Get(schemas, x, None)
  BY <1>1 DEF M!Insert, M!Get
<1> HIDE DEF g
<1>5. ASSUME NEW i \in 1..g.tables
      PROVE  g.plan[i].name \in DOMAIN schemas' /\ SchemaKept(g, schemas', i)
  <2>1. CASE i = g.tables
    BY <1>3, <1>4, <2>1 DEF SchemaKept
  <2>2. CASE i # g.tables
    <3>1. i \in 1..f.tables /\ g.tables \in 1..g.tables /\ g.tables > i
      BY <1>2, <1>3, <2>2
    <3>2. f.plan[i].name \in DOMAIN schemas /\ SchemaKept(f, schemas, i)
      BY <1>2, <3>1 DEF ImportOK
    <3>3. CASE f.plan[i].name = table.name
      BY <1>3, <1>4, <3>1, <3>3 DEF SchemaKept
    <3>4. CASE f.plan[i].name # table.name
      <4>1. \A j \in 1..f.tables : j \in 1..g.tables
        BY <1>2, <1>3
      <4>2. M!Get(schemas', f.plan[i].name, None) = M!Get(schemas, f.plan[i].name, None)
        BY <1>4, <3>4
      <4> QED
        BY <1>3, <1>4, <3>2, <4>1, <4>2 DEF SchemaKept
    <3> QED
      BY <3>3, <3>4
  <2> QED
    BY <2>1, <2>2
<1>6. ASSUME NEW i \in 1..g.done, Imports(g.plan, g.inserts[i])
      PROVE  RelsKept(g, rels', i) /\ RowKept(g, rows', i)
  BY <1>1, <1>2, <1>3, <1>6 DEF ImportOK, RelsKept, RowKept
<1>7. g.tables \in 0..Len(g.plan)
  BY <1>1, <1>2, <1>3
<1>8. ImportOK(g, schemas', rows', rels')
  BY <1>2, <1>3, <1>5, <1>6, <1>7 DEF ImportOK
<1>9. Changed(schemas, rows, rels, schemas', rows', rels', {<<table.name>>})
  BY <1>1, SchemaChanged
<1> QED
  <2>1. IsFiniteSet(DOMAIN rows') /\ \A k \in DOMAIN rows' \ DOMAIN rows : Owed(k[1])
    BY <1>1 DEF BusInv
  <2> HIDE DEF table
  <2> QED
    BY <1>1, <1>3, <1>8, <1>9, <2>1, ImportStepOK

\* A row is imported into a table of the plan.
LEMMA ImportedTable ==
    ASSUME NEW plan, IsSeq(plan), NEW insert, Imports(plan, insert)
    PROVE  \E i \in 1..Len(plan) : ImportedKey(plan, insert)[1] = plan[i].name
<1>1. Len(plan) \in Nat /\ DOMAIN plan = 1..Len(plan)
  BY IsSeqDomain
<1>2. Named(plan, insert) # {} /\ Named(plan, insert) \subseteq 1..Len(plan)
  BY <1>1 DEF Imports, Named
<1>3. Min(Named(plan, insert)) \in 1..Len(plan)
  <2>1. Named(plan, insert) \subseteq Nat
    BY <1>2
  <2> QED
    BY <1>2, <2>1, MinIn
<1>4. ImportedKey(plan, insert)[1] = plan[Min(Named(plan, insert))].name
  BY DEF ImportedKey, KeyOf, TableOf
<1> QED
  BY <1>3, <1>4

LEMMA ImportRowOK ==
    ASSUME BusInv, NEW s \in Session, ImportRow(s)
    PROVE  BusInv' /\ OwedKept
<1> DEFINE f == session[s]
           plan == f.plan
           insert == f.inserts[f.done + 1]
           next == [session[s] EXCEPT !.done = @ + 1]
           key == ImportedKey(plan, insert)
           value == ImportedValue(plan, insert)
           new == ImportedRels(plan, insert)
<1>1. /\ In(s, "import") /\ f.tables = Len(plan) /\ f.rels = {} /\ f.done < Len(f.inserts)
      /\ schemas' = schemas /\ rels' = rels
  BY DEF ImportRow, RowDue
<1>2. /\ DOMAIN f = {"op", "inserts", "plan", "tables", "done", "rels", "touched"}
      /\ f.op = "import" /\ ImportOK(f, schemas, rows, rels)
      /\ IsSeq(plan) /\ IsSeq(f.inserts) /\ Len(plan) \in Nat /\ Len(f.inserts) \in Nat
      /\ f.tables \in 0..Len(plan) /\ f.done \in 0..Len(f.inserts)
  BY <1>1, ImportFrame
<1>3. /\ DOMAIN next = DOMAIN f /\ next.op = "import" /\ next.tables = f.tables
      /\ next.plan = plan /\ next.inserts = f.inserts /\ next.done = f.done + 1 /\ next.rels = f.rels
      /\ next.touched = f.touched
  BY <1>2
<1>4. CASE Imports(plan, insert)
  <2> DEFINE g == [next EXCEPT !.rels = new]
  <2>1. rows' = M!Insert(rows, key, value) /\ Continue(s, g, {key})
    BY <1>4 DEF ImportRow
  <2> HIDE DEF next, key, value, new
  <2>2. /\ DOMAIN g = DOMAIN f /\ g.op = "import" /\ g.tables = f.tables
        /\ g.plan = plan /\ g.inserts = f.inserts /\ g.done = f.done + 1 /\ g.rels = new
        /\ g.touched = f.touched
    BY <1>2, <1>3
  <2> HIDE DEF g
  <2>3. /\ DOMAIN rows' = DOMAIN rows \cup {key}
        /\ M!Get(rows', key, None) = value
        /\ \A x : x # key => M!Get(rows', x, None) = M!Get(rows, x, None)
    BY <2>1 DEF M!Insert, M!Get
  <2>4. ASSUME NEW i \in 1..g.done, Imports(g.plan, g.inserts[i])
        PROVE  RelsKept(g, rels', i) /\ RowKept(g, rows', i)
    <3>1. CASE i = g.done
      <4>1. key = ImportedKey(g.plan, g.inserts[i]) /\ value = ImportedValue(g.plan, g.inserts[i])
            /\ new = ImportedRels(g.plan, g.inserts[i])
        BY <2>2, <3>1 DEF key, value, new
      <4>2. RelsKept(g, rels', i)
        BY <2>2, <4>1 DEF RelsKept
      <4>3. RowKept(g, rows', i)
        BY <2>3, <4>1 DEF RowKept
      <4> QED
        BY <4>2, <4>3
    <3>2. CASE i # g.done
      <4>1. i \in 1..f.done /\ g.done \in 1..g.done /\ g.done > i
        BY <1>2, <2>2, <3>2
      <4>2. RelsKept(f, rels, i) /\ RowKept(f, rows, i)
        BY <1>2, <2>2, <2>4, <4>1 DEF ImportOK
      <4>3. RelsKept(g, rels', i)
        BY <1>1, <2>2, <4>2 DEF RelsKept
      <4>4. CASE ImportedKey(plan, f.inserts[i]) = key
        <5>1. ImportedKey(g.plan, g.inserts[g.done]) = ImportedKey(g.plan, g.inserts[i])
              /\ Imports(g.plan, g.inserts[g.done])
          BY <1>4, <2>2, <4>4 DEF key
        <5> QED
          BY <4>1, <4>3, <5>1 DEF RowKept
      <4>5. CASE ImportedKey(plan, f.inserts[i]) # key
        <5>1. \A j \in 1..f.done : j \in 1..g.done
          BY <1>2, <2>2
        <5>2. M!Get(rows', ImportedKey(plan, f.inserts[i]), None)
                = M!Get(rows, ImportedKey(plan, f.inserts[i]), None)
          BY <2>3, <4>5
        <5> QED
          BY <2>2, <4>2, <4>3, <5>1, <5>2 DEF RowKept
      <4> QED
        BY <4>4, <4>5
    <3> QED
      BY <3>1, <3>2
  <2>5. ASSUME NEW i \in 1..g.tables
        PROVE  g.plan[i].name \in DOMAIN schemas' /\ SchemaKept(g, schemas', i)
    BY <1>1, <1>2, <2>2 DEF ImportOK, SchemaKept
  <2>6. g.done \in 0..Len(g.inserts)
    BY <1>1, <1>2, <2>2
  <2>7. ImportOK(g, schemas', rows', rels')
    BY <1>2, <2>2, <2>4, <2>5, <2>6 DEF ImportOK
  <2>8. Changed(schemas, rows, rels, schemas', rows', rels', {key})
    BY <1>1, <2>1, RowChanged
  <2>9. Owed(key[1])
    <3>1. PICK i \in 1..Len(plan) : key[1] = plan[i].name
      BY <1>2, <1>4, ImportedTable DEF key
    <3>2. plan[i].name \in DOMAIN schemas
      BY <1>1, <1>2, <3>1 DEF ImportOK
    <3> QED
      BY <3>1, <3>2 DEF Owed, OwedIn
  <2>10. IsFiniteSet(DOMAIN rows') /\ \A k \in DOMAIN rows' \ DOMAIN rows : Owed(k[1])
    BY <2>3, <2>9, FS_AddElement DEF BusInv
  <2> QED
    BY <1>1, <2>1, <2>2, <2>7, <2>8, <2>10, ImportStepOK
<1>5. CASE ~Imports(plan, insert)
  <2>1. rows' = rows /\ Continue(s, next, {})
    BY <1>5 DEF ImportRow
  <2> HIDE DEF next
  <2>2. ASSUME NEW i \in 1..next.done, Imports(next.plan, next.inserts[i])
        PROVE  RelsKept(next, rels', i) /\ RowKept(next, rows', i)
    <3>1. i \in 1..f.done /\ \A j \in 1..f.done : j \in 1..next.done
      BY <1>2, <1>3, <1>5, <2>2
    <3>2. RelsKept(f, rels, i) /\ RowKept(f, rows, i)
      BY <1>2, <1>3, <2>2, <3>1 DEF ImportOK
    <3> QED
      BY <1>1, <1>3, <2>1, <3>1, <3>2 DEF RelsKept, RowKept
  <2>3. ASSUME NEW i \in 1..next.tables
        PROVE  next.plan[i].name \in DOMAIN schemas' /\ SchemaKept(next, schemas', i)
    <3>1. f.plan[i].name \in DOMAIN schemas /\ SchemaKept(f, schemas, i)
      BY <1>2, <1>3 DEF ImportOK
    <3> QED
      BY <1>1, <1>3, <3>1 DEF SchemaKept
  <2>4. next.done \in 0..Len(next.inserts)
    BY <1>1, <1>2, <1>3
  <2>5. ImportOK(next, schemas', rows', rels')
    BY <1>2, <1>3, <2>2, <2>3, <2>4 DEF ImportOK
  <2>6. Changed(schemas, rows, rels, schemas', rows', rels', {})
    BY <1>1, <2>1, Unchanged
  <2>7. IsFiniteSet(DOMAIN rows') /\ \A k \in DOMAIN rows' \ DOMAIN rows : Owed(k[1])
    BY <2>1 DEF BusInv
  <2> QED
    BY <1>1, <1>3, <2>1, <2>5, <2>6, <2>7, ImportStepOK
<1> QED
  BY <1>4, <1>5

LEMMA ImportRelOK ==
    ASSUME BusInv, NEW s \in Session, NEW r, ImportRel(s, r)
    PROVE  BusInv' /\ OwedKept
<1> DEFINE f == session[s]
           g == [session[s] EXCEPT !.rels = @ \ {r}]
<1>1. /\ In(s, "import") /\ rels' = rels \cup {r} /\ Continue(s, g, {})
      /\ schemas' = schemas /\ rows' = rows
  BY DEF ImportRel
<1>2. /\ DOMAIN f = {"op", "inserts", "plan", "tables", "done", "rels", "touched"}
      /\ f.op = "import" /\ ImportOK(f, schemas, rows, rels)
  BY <1>1, ImportFrame
<1>3. /\ DOMAIN g = DOMAIN f /\ g.op = "import" /\ g.tables = f.tables
      /\ g.plan = f.plan /\ g.inserts = f.inserts /\ g.done = f.done /\ g.rels = f.rels \ {r}
      /\ g.touched = f.touched
  BY <1>2
<1> HIDE DEF g
<1>4. ASSUME NEW i \in 1..g.done, Imports(g.plan, g.inserts[i])
      PROVE  RelsKept(g, rels', i) /\ RowKept(g, rows', i)
  <2>1. RelsKept(f, rels, i) /\ RowKept(f, rows, i)
    BY <1>2, <1>3, <1>4 DEF ImportOK
  <2>2. RelsKept(g, rels', i)
    BY <1>1, <1>3, <2>1 DEF RelsKept
  <2>3. RowKept(g, rows', i)
    BY <1>1, <1>3, <2>1 DEF RowKept
  <2> QED
    BY <2>2, <2>3
<1>5. ASSUME NEW i \in 1..g.tables
      PROVE  g.plan[i].name \in DOMAIN schemas' /\ SchemaKept(g, schemas', i)
  BY <1>1, <1>2, <1>3 DEF ImportOK, SchemaKept
<1>6. ImportOK(g, schemas', rows', rels')
  BY <1>2, <1>3, <1>4, <1>5 DEF ImportOK
<1>7. Changed(schemas, rows, rels, schemas', rows', rels', {})
  BY <1>1 DEF Changed
<1>8. IsFiniteSet(DOMAIN rows') /\ \A k \in DOMAIN rows' \ DOMAIN rows : Owed(k[1])
  BY <1>1 DEF BusInv
<1> QED
  BY <1>1, <1>3, <1>6, <1>7, <1>8, ImportStepOK

\* An import ends when it has written everything: what BusInv says of its frame is then
\* ImportComplete.
LEMMA ImportEndOK ==
    ASSUME BusInv, NEW s \in Session, ImportEnd(s)
    PROVE  BusInv' /\ OwedKept
<1> DEFINE f == session[s]
<1>1. /\ In(s, "import") /\ f.tables = Len(f.plan) /\ f.rels = {} /\ f.done = Len(f.inserts)
      /\ Go(s, Rest, {}) /\ last' = f /\ schemas' = schemas /\ rows' = rows /\ rels' = rels
      /\ file' = file /\ torn' = torn
  BY DEF ImportEnd, bus
<1>2. /\ f.op = "import" /\ ImportOK(f, schemas, rows, rels)
      /\ DOMAIN f.plan = 1..f.tables /\ DOMAIN f.inserts = 1..f.done
  BY <1>1, ImportFrame
<1>3. SessionsOK' /\ UpdatesOwed' /\ SchemaPresent' /\ OwedKept
  <2>1. Changed(schemas, rows, rels, schemas', rows', rels', {})
    BY <1>1, Unchanged
  <2>2. FrameOK(Rest, schemas', rows', rels') /\ Rest.op # "update"
        /\ StillOwes(session[s], Rest, schemas')
    BY <1>2, RestOK DEF StillOwes
  <2> QED
    BY <1>1, <2>1, <2>2, StepOK
<1> HIDE DEF f
<1>4. ImportComplete'
  <2>1. ASSUME NEW i \in DOMAIN f.inserts, Imports(f.plan, f.inserts[i])
        PROVE  /\ ImportedRels(f.plan, f.inserts[i]) \subseteq rels
               /\ RowKept(f, rows, i)
    BY <1>1, <1>2, <2>1 DEF ImportOK, RelsKept
  <2>2. ASSUME NEW i \in DOMAIN f.plan
        PROVE  SchemaKept(f, schemas, i)
    BY <1>2 DEF ImportOK
  <2> QED
    BY <1>1, <1>2, <2>1, <2>2 DEF ImportComplete, RowKept, SchemaKept
<1> QED
  BY <1>1, <1>3, <1>4 DEF BusInv

-----------------------------------------------------------------------------
\* Export

LEMMA BeginExportOK ==
    ASSUME BusInv, NEW s \in Session, BeginExport(s)
    PROVE  BusInv' /\ OwedKept
<1> DEFINE todo == SetToSeq(DOMAIN schemas)
           scan == [t \in DOMAIN schemas |-> Scanned(<<t>>, schemas[t])]
           f == [op |-> "export", todo |-> todo, schemas |-> scan,
                 dump |-> [tables |-> << >>, inserts |-> << >>], stale |-> {}, touched |-> {}]
<1>1. Begin(s, f)
  BY DEF BeginExport
<1> HIDE DEF todo, scan
<1>2. IsSeq(<< >>)
  BY DEF IsSeq, Range
<1>3. FrameOK(f, schemas, rows, rels) /\ f.op # "update"
  BY <1>2 DEF FrameOK, Shaped, InsertOK, ImportOK, ExportOK, DumpOK
<1> HIDE DEF f
<1> QED
  BY <1>1, <1>3, BeginOK

LEMMA ExportFrame ==
    ASSUME BusInv, NEW s \in Session, In(s, "export")
    PROVE  /\ DOMAIN session[s] = {"op", "todo", "schemas", "dump", "stale", "touched"}
           /\ session[s].op = "export" /\ DumpOK(session[s].dump)
<1>1. Shaped(session[s]) /\ ExportOK(session[s]) /\ session[s].op = "export"
  BY DEF BusInv, SessionsOK, FrameOK, In
<1>2. session[s] # Rest
  BY <1>1, RestOK
<1> QED
  BY <1>1, <1>2 DEF Shaped, ExportOK

LEMMA Listing ==
    ASSUME NEW S, IsFiniteSet(S)
    PROVE  Cardinality(S) \in Nat /\ DOMAIN SetToSeq(S) = 1..Cardinality(S)
<1>1. Cardinality(S) \in Nat /\ ExistsBijection(1..Cardinality(S), S)
  BY FS_CardinalityType
<1>2. \E f \in [1..Cardinality(S) -> S] : IsInjective(f)
  BY <1>1 DEF ExistsBijection, Bijection, Injection, IsInjective
<1>3. SetToSeq(S) \in [1..Cardinality(S) -> S]
  BY <1>2 DEF SetToSeq
<1> QED
  BY <1>1, <1>3

LEMMA ExportTableOK ==
    ASSUME SqlInv, NEW s \in Session, ExportTable(s)
    PROVE  BusInv' /\ OwedKept
<1> DEFINE f == session[s]
           name == Head(f.todo)
           columns == f.schemas[name]
           keys == SetToSeq(Listed(name))
           old == {k \in Listed(name) \cap DOMAIN rows : Scanned(k, rows[k]) # rows[k]}
           add == [i \in DOMAIN keys |->
                      build_insert(name, columns, keys[i][2], Scanned(keys[i], rows[keys[i]]))]
           dump == [tables  |-> Append(f.dump.tables, build_create_table(name, columns)),
                    inserts |-> f.dump.inserts \o add]
           g == [session[s] EXCEPT !.todo = Tail(@), !.stale = @ \cup old, !.dump = dump]
<1>0. BusInv /\ IsFiniteSet(DOMAIN rows) /\ IsFiniteSet(DOMAIN copies)
  BY DEF SqlInv, BusInv, TierInv
<1>1. /\ In(s, "export") /\ schemas' = schemas /\ rows' = rows /\ rels' = rels
  BY DEF ExportTable, bus
<1>2. /\ DOMAIN f = {"op", "todo", "schemas", "dump", "stale", "touched"}
      /\ f.op = "export" /\ IsSeq(f.dump.tables) /\ IsSeq(f.dump.inserts)
  BY <1>0, <1>1, ExportFrame DEF DumpOK
<1>3. Continue(s, g, {})
  BY DEF ExportTable
<1> HIDE DEF old
<1>4. IsSeq(add)
  <2>1. IsFiniteSet(Listed(name))
    <3>1. IsFiniteSet(DOMAIN rows \cup DOMAIN copies)
      BY <1>0, FS_Union
    <3>2. Listed(name) \subseteq DOMAIN rows \cup DOMAIN copies
      BY DEF Listed
    <3> QED
      BY <3>1, <3>2, FS_Subset
  <2> DEFINE n == Cardinality(Listed(name))
  <2>2. n \in Nat /\ DOMAIN keys = 1..n
    BY <2>1, Listing
  <2> HIDE DEF n, keys, columns, name
  <2>3. add = [i \in 1..n |-> add[i]]
    BY <2>2
  <2> HIDE DEF add
  <2> QED
    BY <2>2, <2>3, FunctionIsSeq
<1> HIDE DEF add
<1>5. DumpOK(dump)
  BY <1>2, <1>4, AppendIsSeq, ConcatIsSeq DEF DumpOK
<1> HIDE DEF dump
<1>6. DOMAIN g = DOMAIN f /\ g.op = "export" /\ g.dump = dump
  BY <1>2
<1> HIDE DEF g
<1>7. FrameOK(g, schemas', rows', rels') /\ StillOwes(session[s], g, schemas')
  BY <1>2, <1>5, <1>6
     DEF FrameOK, Shaped, InsertOK, ImportOK, ExportOK, StillOwes
<1>8. Changed(schemas, rows, rels, schemas', rows', rels', {})
  BY <1>1, Unchanged
<1>9. IsFiniteSet(DOMAIN rows') /\ \A k \in DOMAIN rows' \ DOMAIN rows : Owed(k[1])
  BY <1>0, <1>1
<1> QED
  BY <1>0, <1>3, <1>6, <1>7, <1>8, <1>9, ContinueOK

LEMMA ExportEndOK ==
    ASSUME BusInv, NEW s \in Session, ExportEnd(s)
    PROVE  BusInv' /\ OwedKept
<1>1. /\ In(s, "export") /\ file' = session[s].dump /\ Go(s, Rest, {}) /\ last' = session[s]
      /\ schemas' = schemas /\ rows' = rows /\ rels' = rels /\ torn' = torn
  BY DEF ExportEnd, bus
<1>2. session[s].op = "export" /\ DumpOK(session[s].dump)
  BY <1>1, ExportFrame
<1>3. SessionsOK' /\ UpdatesOwed' /\ SchemaPresent' /\ OwedKept
  <2>1. Changed(schemas, rows, rels, schemas', rows', rels', {})
    BY <1>1, Unchanged
  <2>2. FrameOK(Rest, schemas', rows', rels') /\ Rest.op # "update"
        /\ StillOwes(session[s], Rest, schemas')
    BY <1>2, RestOK DEF StillOwes
  <2> QED
    BY <1>1, <2>1, <2>2, StepOK
<1>4. ImportComplete'
  BY <1>1, <1>2 DEF ImportComplete
<1> QED
  BY <1>1, <1>2, <1>3, <1>4 DEF BusInv

-----------------------------------------------------------------------------
\* The copies

\* The sessions are told of the rows that are removed.
LEMMA SeenStep ==
    ASSUME BusInv, UpdatesSeen, NEW s \in Session, NEW frame, NEW K, Go(s, frame, K),
           raced \subseteq raced', DOMAIN rows \subseteq DOMAIN rows' \cup K,
           frame.op = "update" => frame.key \in DOMAIN rows' \cup raced'
    PROVE  UpdatesSeen'
<1> SUFFICES ASSUME NEW o \in Session, session'[o].op = "update"
             PROVE  session'[o].key \in DOMAIN rows' \cup session'[o].touched \cup raced'
  BY DEF UpdatesSeen
<1>1. /\ session'[s] = frame
      /\ \A x \in Session \ {s} : session'[x] = Told(session[x], K)
  BY GoOn DEF BusInv
<1>2. CASE o = s
  BY <1>1, <1>2
<1>3. CASE o # s
  <2>1. session[o] # Rest
    BY <1>1, <1>3, RestOK DEF Told
  <2>2. Shaped(session[o])
    BY DEF BusInv, SessionsOK, FrameOK
  <2>3. session[o].op = "update" /\ session'[o].touched = session[o].touched \cup K
    BY <1>1, <1>3, <2>1, <2>2, ToldFields
  <2>4. session'[o].key = session[o].key
    <3>1. "key" \in DOMAIN session[o] \ {"touched"}
      BY <2>1, <2>2, <2>3 DEF Shaped
    <3> QED
      BY <1>1, <1>3, <2>1, <2>2, <3>1, ToldFields
  <2>5. session[o].key \in DOMAIN rows \cup session[o].touched \cup raced
    BY <2>3 DEF UpdatesSeen
  <2> QED
    BY <2>3, <2>4, <2>5
<1> QED
  BY <1>2, <1>3

\* A step of a session, after which h is what is left of its call of the bus: a key that
\* will be copied is there, and a DELETE has removed the copy.
LEMMA TierStep ==
    ASSUME SqlInv, OwedKept, NEW s \in Session, NEW frame, NEW K, Go(s, frame, K),
           NEW h, pending' = [pending EXCEPT ![s] = h],
           DOMAIN schemas \subseteq DOMAIN schemas', DOMAIN rows \subseteq DOMAIN rows',
           DOMAIN copies' \subseteq DOMAIN copies, raced \subseteq raced',
           \A k \in raced' \ raced : Owed(k[1]),
           h # None /\ h.op = "promote" =>
               /\ PresentIn(h.key, schemas', rows', raced')
               /\ Deleting(h.key) => h.key \in raced',
           h # None /\ h.op = "delete" =>
               /\ frame = Rest /\ h.key \notin DOMAIN copies'
               /\ Reading(h.key) => h.key \in raced',
           frame.op = "update" => frame.key \in DOMAIN rows' \cup raced'
    PROVE  TierInv'
<1>1. BusInv /\ UpdatesSeen /\ DOMAIN pending = Session
  BY DEF SqlInv, TierInv
<1>2. /\ DOMAIN pending' = Session /\ pending'[s] = h
      /\ \A o \in Session \ {s} : pending'[o] = pending[o]
      /\ \A k : Reading(k)' => Reading(k) \/ (h # None /\ h.op = "promote" /\ h.key = k)
      /\ \A k : Deleting(k)' => Deleting(k) \/ (h # None /\ h.op = "delete" /\ h.key = k)
  <2>1. /\ DOMAIN pending' = Session /\ pending'[s] = h
        /\ \A o \in Session \ {s} : pending'[o] = pending[o]
    BY <1>1
  <2>2. ASSUME NEW k, Reading(k)'
        PROVE  Reading(k) \/ (h # None /\ h.op = "promote" /\ h.key = k)
    BY <2>1, <2>2 DEF Reading, Half
  <2>3. ASSUME NEW k, Deleting(k)'
        PROVE  Deleting(k) \/ (h # None /\ h.op = "delete" /\ h.key = k)
    BY <2>1, <2>3 DEF Deleting, Half
  <2> QED
    BY <2>1, <2>2, <2>3
<1>3. UpdatesSeen'
  BY <1>1, SeenStep
<1>4. IsFiniteSet(DOMAIN copies')
  BY FS_Subset DEF SqlInv, TierInv
<1>5. ASSUME NEW k, Present(k) PROVE Present(k)'
  BY <1>5 DEF Present, PresentIn
<1>6. ASSUME NEW k, Cached(k)' PROVE Present(k)'
  <2>1. Cached(k) \/ (h # None /\ h.op = "promote" /\ h.key = k)
    BY <1>2, <1>6 DEF Cached
  <2>2. CASE Cached(k)
    <3>1. Present(k)
      BY <2>2 DEF SqlInv, TierInv
    <3> QED
      BY <1>5, <3>1
  <2>3. CASE h # None /\ h.op = "promote" /\ h.key = k
    BY <2>3 DEF Present
  <2> QED
    BY <2>1, <2>2, <2>3
<1>7. ASSUME NEW k, Deleting(k)', Cached(k)' PROVE k \in raced'
  <2>1. k \in DOMAIN copies' => k \in DOMAIN copies
    OBVIOUS
  <2>2. CASE Deleting(k) /\ Cached(k)
    BY <2>2 DEF SqlInv, TierInv
  <2>3. CASE h # None /\ h.op = "delete" /\ h.key = k
    <3>1. h.op # "promote" /\ k \notin DOMAIN copies'
      BY <2>3
    <3>2. Reading(k)
      BY <1>2, <1>7, <3>1 DEF Cached
    <3> QED
      BY <2>3, <3>2
  <2>4. CASE Deleting(k) /\ ~Cached(k)
    <3>1. h # None /\ h.op = "promote" /\ h.key = k
      BY <1>2, <1>7, <2>1, <2>4 DEF Cached
    <3> QED
      BY <2>4, <3>1
  <2> QED
    BY <1>2, <1>7, <2>2, <2>3, <2>4
<1>8. ASSUME NEW k \in raced' PROVE OwedIn(k[1], schemas', torn', session')
  <2>1. Owed(k[1])
    BY <1>8 DEF SqlInv, TierInv
  <2> QED
    BY <2>1 DEF OwedKept
<1>9. ASSUME NEW o \in Session, pending'[o] # None, pending'[o].op = "delete"
      PROVE  session'[o] = Rest
  <2>1. session'[s] = frame /\ \A x \in Session \ {s} : session'[x] = Told(session[x], K)
    BY <1>1, GoOn DEF BusInv
  <2>2. CASE o = s
    BY <1>2, <1>9, <2>1, <2>2
  <2>3. CASE o # s
    <3>1. session[o] = Rest
      BY <1>2, <1>9, <2>3 DEF SqlInv, TierInv
    <3> QED
      BY <2>1, <2>3, <3>1 DEF Told
  <2> QED
    BY <2>2, <2>3
<1> QED
  BY <1>2, <1>3, <1>4, <1>6, <1>7, <1>8, <1>9 DEF TierInv, Owed

\* A step that makes no call of the bus, or only writes.
LEMMA WriteTier ==
    ASSUME SqlInv, OwedKept, NEW s \in Session, pending[s] = None, NEW frame, NEW K, Go(s, frame, K),
           NEW key, write_value(s, key) \/ UNCHANGED tier,
           DOMAIN schemas \subseteq DOMAIN schemas', DOMAIN rows \subseteq DOMAIN rows',
           frame.op # "update"
    PROVE  TierInv'
<1> DEFINE w == [op |-> "write", key |-> key]
<1>0. w.op = "write"
  OBVIOUS
<1> HIDE DEF w
<1>1. CASE write_value(s, key)
  <2>1. pending' = [pending EXCEPT ![s] = w] /\ copies' = copies /\ raced' = raced
    BY <1>1 DEF write_value, w
  <2>2. w.op # "promote" /\ w.op # "delete"
    BY <1>0
  <2>3. DOMAIN copies' \subseteq DOMAIN copies /\ raced \subseteq raced' /\ raced' \ raced = {}
    BY <2>1
  <2> QED
    BY <2>1, <2>2, <2>3, TierStep
<1>2. CASE UNCHANGED tier
  <2>1. copies' = copies /\ raced' = raced /\ pending' = pending
    BY <1>2 DEF tier
  <2>2. DOMAIN pending = Session
    BY DEF SqlInv, TierInv
  <2>3. \A o \in Session : pending'[o] = pending[o]
    BY <2>1
  <2>4. /\ \A k : Reading(k)' => Reading(k)
        /\ \A k : Deleting(k)' => Deleting(k)
    BY <2>1 DEF Reading, Deleting, Half
  <2>5. UpdatesSeen'
    <3>1. BusInv /\ UpdatesSeen /\ raced \subseteq raced' /\ DOMAIN rows \subseteq DOMAIN rows' \cup K
      BY <2>1 DEF SqlInv, TierInv
    <3> QED
      BY <3>1, SeenStep
  <2>6. ASSUME NEW k, Cached(k)' PROVE Present(k)' /\ (Deleting(k)' => k \in raced')
    <3>1. Cached(k)
      BY <2>1, <2>4, <2>6 DEF Cached
    <3>2. Present(k) /\ (Deleting(k) => k \in raced)
      BY <3>1 DEF SqlInv, TierInv
    <3> QED
      BY <2>1, <2>4, <3>2 DEF Present, PresentIn
  <2>7. ASSUME NEW k \in raced' PROVE OwedIn(k[1], schemas', torn', session')
    BY <2>1, <2>7 DEF SqlInv, TierInv, OwedKept
  <2>8. ASSUME NEW o \in Session, pending'[o] # None, pending'[o].op = "delete"
        PROVE  session'[o] = Rest
    <3>1. o # s /\ session[o] = Rest
      BY <2>1, <2>8 DEF SqlInv, TierInv
    <3>2. session'[o] = Told(session[o], K)
      BY <3>1, GoOn DEF SqlInv, BusInv
    <3> QED
      BY <3>1, <3>2 DEF Told
  <2>9. IsFiniteSet(DOMAIN copies') /\ DOMAIN pending' = Session
    BY <2>1, <2>2 DEF SqlInv, TierInv
  <2> QED
    BY <2>5, <2>6, <2>7, <2>8, <2>9 DEF TierInv, Owed
<1> QED
  BY <1>1, <1>2

\* A statement begins with a read.
LEMMA ReadTier ==
    ASSUME SqlInv, OwedKept, NEW s \in Session, NEW frame, Go(s, frame, {}),
           NEW key, NEW stored \in BOOLEAN, NEW value, read_value(s, key, stored, value),
           schemas' = schemas, rows' = rows,
           stored => IF Len(key) = 1 THEN key[1] \in DOMAIN schemas ELSE key \in DOMAIN rows,
           frame.op = "update" => frame.key \in DOMAIN rows \cup raced
    PROVE  TierInv'
<1> DEFINE p == [op |-> "promote", key |-> key, value |-> value]
           h == IF stored /\ key \notin DOMAIN copies THEN p ELSE None
<1>1. /\ pending' = [pending EXCEPT ![s] = h] /\ copies' = copies
      /\ raced' = IF stored /\ Deleting(key) THEN raced \cup {key} ELSE raced
  BY DEF read_value
<1>2. p.op = "promote" /\ p.key = key
  OBVIOUS
<1> HIDE DEF p
<1>3. /\ h # None => h = p /\ stored
      /\ h # None /\ h.op = "delete" => FALSE
  BY <1>2
<1>4. stored => Owed(key[1]) /\ Present(key)
  BY DEF SqlInv, BusInv, SchemaPresent, Owed, OwedIn, Present, PresentIn
<1>5. DOMAIN copies' \subseteq DOMAIN copies /\ raced \subseteq raced'
      /\ \A k \in raced' \ raced : Owed(k[1])
  BY <1>1, <1>4
<1>6. stored => PresentIn(key, schemas', rows', raced')
  BY <1>1, <1>4 DEF Present, PresentIn
<1>7. stored /\ Deleting(key) => key \in raced'
  BY <1>1
<1> HIDE DEF h
<1>8. h # None /\ h.op = "promote" =>
          /\ PresentIn(h.key, schemas', rows', raced')
          /\ Deleting(h.key) => h.key \in raced'
  <2> SUFFICES ASSUME h # None
               PROVE  /\ PresentIn(h.key, schemas', rows', raced')
                      /\ Deleting(h.key) => h.key \in raced'
    OBVIOUS
  <2>1. h.key = key /\ stored
    BY <1>2, <1>3
  <2> QED
    BY <1>6, <1>7, <2>1
<1>9. frame.op = "update" => frame.key \in DOMAIN rows' \cup raced'
  BY <1>5
<1> QED
  BY <1>1, <1>3, <1>5, <1>8, <1>9, TierStep

\* Only the transient tier changes.
Quiet ==
    /\ schemas' = schemas /\ rows' = rows /\ rels' = rels /\ session' = session
    /\ file' = file /\ torn' = torn /\ raced' = raced /\ last' = Rest

LEMMA QuietOK ==
    ASSUME SqlInv, Quiet, IsFiniteSet(DOMAIN copies'),
           pending' = pending \/ \E s \in Session : pending' = [pending EXCEPT ![s] = None],
           \A k : k \in DOMAIN copies' => Cached(k)
    PROVE  SqlInv'
<1>1. ImportComplete'
  BY LastRest DEF Quiet
<1>2. BusInv'
  BY <1>1 DEF SqlInv, BusInv, Quiet, SessionsOK, UpdatesOwed, Owed, OwedIn, SchemaPresent
<1>3. DOMAIN pending' = Session /\ \A o \in Session : pending'[o] \in {pending[o], None}
  BY DEF SqlInv, TierInv
<1>4. \A k : (Reading(k)' => Reading(k)) /\ (Deleting(k)' => Deleting(k))
  BY <1>3 DEF Reading, Deleting, Half
<1>5. ASSUME NEW k, Cached(k)' PROVE Present(k)' /\ (Deleting(k)' => k \in raced')
  <2>1. Cached(k)
    BY <1>4, <1>5 DEF Cached
  <2>2. Present(k) /\ (Deleting(k) => k \in raced)
    BY <2>1 DEF SqlInv, TierInv
  <2> QED
    BY <1>4, <2>2 DEF Present, PresentIn, Quiet
<1>6. UpdatesSeen' /\ \A k \in raced' : OwedIn(k[1], schemas', torn', session')
  BY DEF SqlInv, TierInv, UpdatesSeen, Quiet, Owed
<1>7. ASSUME NEW o \in Session, pending'[o] # None, pending'[o].op = "delete"
      PROVE  session'[o] = Rest
  BY <1>3, <1>7 DEF SqlInv, TierInv, Quiet
<1>8. TierInv'
  BY <1>3, <1>5, <1>6, <1>7 DEF TierInv, Owed
<1> QED
  BY <1>2, <1>8 DEF SqlInv

\* The second halves of reads and writes, and the end of a copy.
LEMMA PromoteOK ==
    ASSUME SqlInv, NEW s \in Session, Promote(s)
    PROVE  SqlInv'
<1> DEFINE key == pending[s].key
<1>1. /\ pending[s] # None /\ pending[s].op = "promote"
      /\ copies' = M!Insert(copies, key, pending[s].value)
      /\ pending' = [pending EXCEPT ![s] = None]
      /\ Quiet
  BY DEF Promote, bus, Quiet
<1>2. DOMAIN copies' = DOMAIN copies \cup {key} /\ Cached(key)
  BY <1>1, InsertMap DEF Cached, Reading, Half
<1> HIDE DEF key
<1>3. \A k : k \in DOMAIN copies' => Cached(k)
  BY <1>2 DEF Cached
<1>4. IsFiniteSet(DOMAIN copies')
  BY <1>2, FS_AddElement DEF SqlInv, TierInv
<1> QED
  BY <1>1, <1>3, <1>4, QuietOK

LEMMA EvictOK ==
    ASSUME SqlInv, NEW s \in Session, Evict(s)
    PROVE  SqlInv'
<1>1. copies' = M!Remove(copies, pending[s].key) /\ pending' = [pending EXCEPT ![s] = None] /\ Quiet
  BY DEF Evict, bus, Quiet
<1>2. DOMAIN copies' \subseteq DOMAIN copies
  BY <1>1, RemoveMap
<1>3. IsFiniteSet(DOMAIN copies') /\ \A k : k \in DOMAIN copies' => Cached(k)
  BY <1>2, FS_Subset DEF SqlInv, TierInv, Cached
<1> QED
  BY <1>1, <1>3, QuietOK

LEMMA ExpireOK ==
    ASSUME SqlInv, NEW key, Expire(key)
    PROVE  SqlInv'
<1>1. copies' = M!Remove(copies, key) /\ pending' = pending /\ Quiet
  BY DEF Expire, bus, Quiet
<1>2. DOMAIN copies' \subseteq DOMAIN copies
  BY <1>1, RemoveMap
<1>3. IsFiniteSet(DOMAIN copies') /\ \A k : k \in DOMAIN copies' => Cached(k)
  BY <1>2, FS_Subset DEF SqlInv, TierInv, Cached
<1> QED
  BY <1>1, <1>3, QuietOK

LEMMA CrashOK ==
    ASSUME BusInv, Crash
    PROVE  BusInv'
<1>1. /\ session' = [s \in Session |-> Rest] /\ last' = Rest /\ file' = file
      /\ torn' = torn \cup ({k[1] : k \in DOMAIN rows} \ DOMAIN schemas)
      /\ schemas' = schemas /\ rows' = rows /\ rels' = rels
  BY DEF Crash, bus
<1>2. SessionsOK'
  BY <1>1, RestOK DEF SessionsOK
<1>3. UpdatesOwed'
  BY <1>1, RestOK DEF UpdatesOwed, In
<1>4. SchemaPresent'
  <2> SUFFICES ASSUME NEW k \in DOMAIN rows PROVE k[1] \in DOMAIN schemas' \cup torn'
    BY <1>1 DEF SchemaPresent
  <2> QED
    BY <1>1
<1> QED
  BY <1>1, <1>2, <1>3, <1>4, LastRest DEF BusInv

LEMMA CrashTier ==
    ASSUME SqlInv, Crash
    PROVE  TierInv'
<1>1. /\ session' = [s \in Session |-> Rest] /\ pending' = [s \in Session |-> None]
      /\ DOMAIN copies' = {} /\ raced' = {}
  BY DEF Crash, M!EmptyMap
<1>2. \A k : ~Cached(k)'
  BY <1>1 DEF Cached, Reading, Half
<1>3. UpdatesSeen'
  BY <1>1, RestOK DEF UpdatesSeen
<1>4. IsFiniteSet(DOMAIN copies')
  BY <1>1, FS_EmptySet
<1> QED
  BY <1>1, <1>2, <1>3, <1>4 DEF TierInv

-----------------------------------------------------------------------------

LEMMA Init_SqlInv == Init => SqlInv
<1> SUFFICES ASSUME Init PROVE SqlInv
  OBVIOUS
<1>1. /\ DOMAIN rows = {} /\ session = [s \in Session |-> Rest] /\ last = Rest /\ file = None
      /\ DOMAIN copies = {} /\ pending = [s \in Session |-> None] /\ raced = {}
  BY DEF Init, M!EmptyMap
<1>2. SessionsOK /\ UpdatesOwed /\ UpdatesSeen
  BY <1>1, RestOK DEF SessionsOK, UpdatesOwed, UpdatesSeen
<1>3. SchemaPresent /\ IsFiniteSet(DOMAIN rows) /\ IsFiniteSet(DOMAIN copies)
  BY <1>1, FS_EmptySet DEF SchemaPresent
<1>4. ImportComplete
  BY <1>1, RestOK DEF ImportComplete
<1>5. \A k : ~Cached(k)
  BY <1>1 DEF Cached, Reading, Half
<1>6. BusInv
  BY <1>1, <1>2, <1>3, <1>4 DEF BusInv
<1>7. TierInv
  BY <1>1, <1>2, <1>3, <1>5 DEF TierInv
<1> QED
  BY <1>6, <1>7 DEF SqlInv

\* Statements that begin with a read.
LEMMA ReadsOK ==
    ASSUME SqlInv, NEW s \in Session
    PROVE  /\ \A i : BeginInsert(s, i) => SqlInv'
           /\ \A u : BeginUpdate(s, u) => SqlInv'
           /\ \A q : Select(s, q) => SqlInv'
<1>1. ASSUME NEW i, BeginInsert(s, i) PROVE SqlInv'
  <2> DEFINE key == <<i.table>>
             stored == i.table \in DOMAIN schemas
             f == [op |-> "insert", table |-> i.table, rows |-> i.rows, width |-> Len(i.rows[1]),
                   missing |-> ~Found(key, stored), touched |-> {}]
  <2>1. BusInv' /\ OwedKept
    BY <1>1, BeginInsertOK
  <2>2. /\ Go(s, f, {}) /\ schemas' = schemas /\ rows' = rows
        /\ read_value(s, key, stored, schemas[i.table])
    BY <1>1 DEF BeginInsert, Begin, bus
  <2>3. f.op # "update"
    OBVIOUS
  <2>4. stored => IF Len(key) = 1 THEN key[1] \in DOMAIN schemas ELSE key \in DOMAIN rows
    OBVIOUS
  <2>6. stored \in BOOLEAN
    OBVIOUS
  <2> HIDE DEF f, key, stored
  <2>5. TierInv'
    BY <2>1, <2>2, <2>3, <2>4, <2>6, ReadTier
  <2> QED
    BY <2>1, <2>5 DEF SqlInv
<1>2. ASSUME NEW u, BeginUpdate(s, u) PROVE SqlInv'
  <2> DEFINE key == <<u.table, u.key>>
             stored == key \in DOMAIN rows
             g == [op |-> "update", key |-> key, value |-> u.value, touched |-> {}]
             f == IF Found(key, stored) THEN g ELSE Rest
  <2>1. BusInv' /\ OwedKept
    BY <1>2, BeginUpdateOK
  <2>2. /\ Go(s, f, {}) /\ schemas' = schemas /\ rows' = rows
        /\ read_value(s, key, stored, rows[key])
    BY <1>2 DEF BeginUpdate, Begin, bus
  <2>3. Len(key) # 1
    OBVIOUS
  <2>4. Found(key, stored) => key \in DOMAIN rows \cup raced
    <3>1. key \in DOMAIN copies => Present(key)
      BY DEF SqlInv, TierInv, Cached
    <3> QED
      BY <2>3, <3>1 DEF Found, Present, PresentIn
  <2>5. stored => IF Len(key) = 1 THEN key[1] \in DOMAIN schemas ELSE key \in DOMAIN rows
    BY <2>3
  <2> HIDE DEF key
  <2>6. f.op = "update" => f.key \in DOMAIN rows \cup raced
    <3>1. g.key = key
      OBVIOUS
    <3> HIDE DEF g
    <3> QED
      BY <2>4, <3>1, RestOK
  <2>8. stored \in BOOLEAN
    OBVIOUS
  <2> HIDE DEF f, stored
  <2>7. TierInv'
    BY <2>1, <2>2, <2>5, <2>6, <2>8, ReadTier
  <2> QED
    BY <2>1, <2>7 DEF SqlInv
<1>3. ASSUME NEW q, Select(s, q) PROVE SqlInv'
  <2> DEFINE key == <<q.table, q.key>>
             stored == key \in DOMAIN rows
  <2>1. BusInv' /\ OwedKept
    BY <1>3, BeginRestOK DEF Select, SqlInv
  <2>2. /\ Go(s, Rest, {}) /\ schemas' = schemas /\ rows' = rows
        /\ read_value(s, key, stored, rows[key])
    BY <1>3 DEF Select, Begin, bus
  <2>3. Len(key) # 1 /\ Rest.op # "update"
    BY DEF Rest
  <2>4. stored => IF Len(key) = 1 THEN key[1] \in DOMAIN schemas ELSE key \in DOMAIN rows
    BY <2>3
  <2>5. stored \in BOOLEAN
    OBVIOUS
  <2> HIDE DEF key, stored
  <2>6. TierInv'
    BY <2>1, <2>2, <2>3, <2>4, <2>5, ReadTier
  <2> QED
    BY <2>1, <2>6 DEF SqlInv
<1> QED
  BY <1>1, <1>2, <1>3

LEMMA BeginDeleteOK ==
    ASSUME SqlInv, NEW s \in Session, NEW d, BeginDelete(s, d)
    PROVE  SqlInv'
<1> DEFINE key == <<d.table, d.key>>
           h == [op |-> "delete", key |-> key]
<1>1. /\ Begin(s, Rest) /\ Go(s, Rest, {}) /\ schemas' = schemas /\ rows' = rows
      /\ copies' = M!Remove(copies, key) /\ pending' = [pending EXCEPT ![s] = h]
      /\ raced' = IF Reading(key) THEN raced \cup {key} ELSE raced
  BY DEF BeginDelete, Begin, bus
<1> HIDE DEF key
<1>2. h.op = "delete" /\ h.key = key
  OBVIOUS
<1> HIDE DEF h
<1>3. BusInv' /\ OwedKept
  BY <1>1, BeginRestOK DEF SqlInv
<1>4. DOMAIN copies' = DOMAIN copies \ {key}
  BY <1>1, RemoveMap
<1>5. Reading(key) => Owed(key[1])
  BY CachedOwed DEF Cached
<1>6. raced \subseteq raced' /\ (\A k \in raced' \ raced : Owed(k[1])) /\ (Reading(key) => key \in raced')
  BY <1>1, <1>5
<1>7. h.op # "promote" /\ Rest.op # "update"
  BY <1>2 DEF Rest
<1>8. h # None /\ h.op = "delete" =>
         Rest = Rest /\ h.key \notin DOMAIN copies' /\ (Reading(h.key) => h.key \in raced')
  BY <1>2, <1>4, <1>6
<1>9. DOMAIN schemas \subseteq DOMAIN schemas' /\ DOMAIN rows \subseteq DOMAIN rows'
      /\ DOMAIN copies' \subseteq DOMAIN copies
  BY <1>1, <1>4
<1>10. TierInv'
  BY <1>1, <1>3, <1>6, <1>7, <1>8, <1>9, TierStep
<1> QED
  BY <1>3, <1>10 DEF SqlInv

\* The row goes: what is left of it are copies of reads that ran beside the DELETE.
LEMMA DeleteEndOK ==
    ASSUME SqlInv, NEW s \in Session, DeleteRow(s)
    PROVE  SqlInv'
<1> DEFINE key == pending[s].key
<1>1. /\ pending[s] # None /\ pending[s].op = "delete" /\ rows' = M!Remove(rows, key)
      /\ pending' = [pending EXCEPT ![s] = None] /\ Go(s, Rest, {key})
      /\ schemas' = schemas /\ copies' = copies /\ raced' = raced
  BY DEF DeleteRow, Continue
<1>2. session[s] = Rest /\ DOMAIN pending = Session
  BY <1>1 DEF SqlInv, TierInv
<1>3. BusInv' /\ OwedKept
  BY <1>2, DeleteRowOK DEF SqlInv
<1>4. Deleting(key)
  BY <1>1 DEF Deleting, Half
<1> HIDE DEF key
<1>5. DOMAIN rows' = DOMAIN rows \ {key}
  BY <1>1, RemoveMap
<1>6. DOMAIN pending' = Session /\ \A o \in Session : pending'[o] \in {pending[o], None}
  BY <1>1, <1>2
<1>7. \A k : (Reading(k)' => Reading(k)) /\ (Deleting(k)' => Deleting(k))
  BY <1>6 DEF Reading, Deleting, Half
<1>8. ASSUME NEW k, Cached(k)' PROVE Present(k)' /\ (Deleting(k)' => k \in raced')
  <2>1. Cached(k)
    BY <1>1, <1>7, <1>8 DEF Cached
  <2>2. Present(k) /\ (Deleting(k) => k \in raced)
    BY <2>1 DEF SqlInv, TierInv
  <2> QED
    BY <1>1, <1>4, <1>5, <1>7, <2>2 DEF Present, PresentIn
<1>9. UpdatesSeen'
  <2>1. BusInv /\ UpdatesSeen /\ raced \subseteq raced' /\ Rest.op # "update"
        /\ DOMAIN rows \subseteq DOMAIN rows' \cup {key}
    BY <1>1, <1>5, RestOK DEF SqlInv, TierInv
  <2> QED
    BY <1>1, <2>1, SeenStep
<1>10. \A k \in raced' : OwedIn(k[1], schemas', torn', session')
  BY <1>1, <1>3 DEF OwedKept, SqlInv, TierInv
<1>11. ASSUME NEW o \in Session, pending'[o] # None, pending'[o].op = "delete"
       PROVE  session'[o] = Rest
  <2>1. session[o] = Rest
    BY <1>6, <1>11 DEF SqlInv, TierInv
  <2> QED
    BY <1>1, <2>1, GoOn DEF SqlInv, BusInv, Told
<1>12. IsFiniteSet(DOMAIN copies')
  BY <1>1 DEF SqlInv, TierInv
<1>13. TierInv'
  BY <1>6, <1>8, <1>9, <1>10, <1>11, <1>12 DEF TierInv, Owed
<1> QED
  BY <1>3, <1>13 DEF SqlInv

\* A statement or command goes on and writes a key, or none.
LEMMA WritesOK ==
    ASSUME SqlInv, BusInv' /\ OwedKept, NEW s \in Session, pending[s] = None,
           NEW frame, NEW K, Go(s, frame, K), frame.op # "update",
           NEW key, write_value(s, key) \/ UNCHANGED tier,
           NEW k, NEW v, schemas' = schemas \/ schemas' = M!Insert(schemas, k, v),
           rows' = rows \/ rows' = M!Insert(rows, k, v)
    PROVE  SqlInv'
<1>1. DOMAIN schemas \subseteq DOMAIN schemas' /\ DOMAIN rows \subseteq DOMAIN rows'
  <2>1. /\ DOMAIN M!Insert(schemas, k, v) = DOMAIN schemas \cup {k}
        /\ DOMAIN M!Insert(rows, k, v) = DOMAIN rows \cup {k}
    BY InsertMap
  <2> QED
    BY <2>1
<1>2. TierInv'
  BY <1>1, WriteTier
<1> QED
  BY <1>2 DEF SqlInv

LEMMA StatementOK ==
    ASSUME SqlInv, NEW s \in Session, Statement(s)
    PROVE  SqlInv'
<1>0. BusInv
  BY DEF SqlInv
<1>1. CASE InsertRow(s)
  <2> DEFINE row == Head(session[s].rows)
             key == <<session[s].table, Head(row)>>
             f == [session[s] EXCEPT !.rows = Tail(@)]
  <2>1. BusInv' /\ OwedKept
    BY <1>0, <1>1, InsertRowOK
  <2>2. /\ pending[s] = None /\ session[s].op = "insert" /\ write_value(s, key)
        /\ rows' = M!Insert(rows, key, Lines(Tail(row))) /\ schemas' = schemas
        /\ Go(s, f, {key})
    BY <1>1 DEF InsertRow, In, Continue
  <2>3. f.op # "update"
    <3>1. "op" \in DOMAIN session[s]
      BY <1>0, <1>1, InsertFrame DEF InsertRow
    <3> QED
      BY <2>2, <3>1
  <2> HIDE DEF f, key, row
  <2> QED
    BY <2>1, <2>2, <2>3, WritesOK
<1>2. CASE InsertEnd(s)
  <2> DEFINE t == session[s].table
             v == Inferred(session[s].width)
  <2>1. BusInv' /\ OwedKept
    BY <1>0, <1>2, InsertEndOK
  <2>2. /\ pending[s] = None
        /\ write_value(s, <<t>>) \/ UNCHANGED tier
        /\ rows' = rows
        /\ schemas' = schemas \/ schemas' = M!Insert(schemas, t, v)
    BY <1>2 DEF InsertEnd, In, tier
  <2>3. PICK K : Go(s, Rest, K)
    BY <1>2 DEF InsertEnd, Continue
  <2>4. Rest.op # "update"
    BY RestOK
  <2> HIDE DEF t, v
  <2> QED
    BY <2>1, <2>2, <2>3, <2>4, WritesOK
<1>3. CASE UpdateRow(s)
  <2> DEFINE key == session[s].key
             v == session[s].value
  <2>1. BusInv' /\ OwedKept
    BY <1>0, <1>3, UpdateRowOK
  <2>2. /\ pending[s] = None /\ write_value(s, key) /\ schemas' = schemas
        /\ rows' = M!Insert(rows, key, v) /\ Go(s, Rest, {key})
    BY <1>3 DEF UpdateRow, In, Continue
  <2>3. Rest.op # "update"
    BY RestOK
  <2> HIDE DEF key, v
  <2> QED
    BY <2>1, <2>2, <2>3, WritesOK
<1> QED
  BY <1>1, <1>2, <1>3, ReadsOK, BeginDeleteOK, DeleteEndOK, PromoteOK, EvictOK DEF Statement

LEMMA CommandOK ==
    ASSUME SqlInv, Command(Cli)
    PROVE  SqlInv'
<1>0. BusInv
  BY DEF SqlInv
<1>1. Cli \in Session
  BY CliAssumption
<1> DEFINE Quick == \E frame, K : Go(Cli, frame, K) /\ frame.op # "update"
           Writes == \E key : write_value(Cli, key) \/ UNCHANGED tier
           Stores == \E k, v : /\ schemas' = schemas \/ schemas' = M!Insert(schemas, k, v)
                               /\ rows' = rows \/ rows' = M!Insert(rows, k, v)
<1>2. ASSUME BusInv' /\ OwedKept, pending[Cli] = None, Quick, Writes, Stores
      PROVE  SqlInv'
  BY <1>1, <1>2, WritesOK
<1>3. CASE \E dump \in Dumps \cup ({file} \ {None}) : BeginImport(Cli, dump)
  <2>1. PICK dump \in Dumps \cup ({file} \ {None}) : BeginImport(Cli, dump)
    BY <1>3
  <2>2. DumpOK(dump)
    BY <1>0, DumpsAssumption DEF BusInv, DumpOK
  <2>3. BusInv' /\ OwedKept
    BY <1>0, <1>1, <2>1, <2>2, BeginImportOK
  <2>4. /\ pending[Cli] = None /\ UNCHANGED tier /\ schemas' = schemas /\ rows' = rows
        /\ \E frame : Go(Cli, frame, {}) /\ frame.op = "import"
    BY <2>1 DEF BeginImport, Begin, Idle, bus
  <2> QED
    BY <1>2, <2>3, <2>4
<1>4. CASE ImportSchema(Cli)
  <2>1. BusInv' /\ OwedKept
    BY <1>0, <1>1, <1>4, ImportSchemaOK
  <2>2. Quick
    <3> DEFINE g == [session[Cli] EXCEPT !.tables = @ + 1]
    <3>1. (\E K : Go(Cli, g, K)) /\ session[Cli].op = "import"
      BY <1>4 DEF ImportSchema, Continue, In
    <3>2. g.op # "update"
      BY <1>0, <1>1, <1>4, <3>1, ImportFrame DEF ImportSchema
    <3> HIDE DEF g
    <3> QED
      BY <3>1, <3>2
  <2>3. pending[Cli] = None /\ Writes /\ Stores
    BY <1>4 DEF ImportSchema, In
  <2> QED
    BY <1>2, <2>1, <2>2, <2>3
<1>5. CASE ImportRow(Cli)
  <2> DEFINE f == session[Cli]
             insert == f.inserts[f.done + 1]
             next == [session[Cli] EXCEPT !.done = @ + 1]
             g == [next EXCEPT !.rels = ImportedRels(f.plan, insert)]
  <2>1. BusInv' /\ OwedKept
    BY <1>0, <1>1, <1>5, ImportRowOK
  <2>2. RowDue(Cli) /\ In(Cli, "import") /\ pending[Cli] = None /\ f.op = "import"
    BY <1>5 DEF ImportRow, RowDue, In
  <2>3. Writes /\ Stores
    BY <1>5 DEF ImportRow
  <2>4. Quick
    <3>1. "op" \in DOMAIN f
      BY <1>0, <1>1, <2>2, ImportFrame
    <3>2. \E K : Go(Cli, next, K) \/ Go(Cli, g, K)
      BY <1>5 DEF ImportRow, Continue
    <3>3. next.op = "import" /\ "op" \in DOMAIN next
      BY <2>2, <3>1
    <3> HIDE DEF next
    <3>4. g.op = "import"
      BY <3>3
    <3> HIDE DEF g
    <3> QED
      BY <3>2, <3>3, <3>4
  <2> QED
    BY <1>2, <2>1, <2>2, <2>3, <2>4
<1>6. CASE \E r \in (IF In(Cli, "import") THEN session[Cli].rels ELSE {}) : ImportRel(Cli, r)
  <2>1. PICK r : ImportRel(Cli, r)
    BY <1>6
  <2> DEFINE g == [session[Cli] EXCEPT !.rels = @ \ {r}]
  <2>2. BusInv' /\ OwedKept
    BY <1>0, <1>1, <2>1, ImportRelOK
  <2>3. /\ In(Cli, "import") /\ pending[Cli] = None /\ session[Cli].op = "import" /\ UNCHANGED tier
        /\ schemas' = schemas /\ rows' = rows /\ Go(Cli, g, {})
    BY <2>1 DEF ImportRel, In, Continue
  <2>4. g.op = "import"
    BY <1>0, <1>1, <2>3, ImportFrame
  <2> HIDE DEF g
  <2> QED
    BY <1>2, <2>2, <2>3, <2>4
<1>7. CASE ImportEnd(Cli)
  <2>1. BusInv' /\ OwedKept
    BY <1>0, <1>1, <1>7, ImportEndOK
  <2>2. /\ pending[Cli] = None /\ UNCHANGED tier /\ schemas' = schemas /\ rows' = rows
        /\ Go(Cli, Rest, {}) /\ Rest.op # "update"
    BY <1>7, RestOK DEF ImportEnd, In, bus
  <2> QED
    BY <1>2, <2>1, <2>2
<1>8. CASE BeginExport(Cli)
  <2>1. BusInv' /\ OwedKept
    BY <1>0, <1>1, <1>8, BeginExportOK
  <2>2. /\ pending[Cli] = None /\ UNCHANGED tier /\ schemas' = schemas /\ rows' = rows
        /\ \E frame : Go(Cli, frame, {}) /\ frame.op = "export"
    BY <1>8 DEF BeginExport, Begin, Idle, bus
  <2> QED
    BY <1>2, <2>1, <2>2
<1>9. CASE ExportTable(Cli)
  <2>1. BusInv' /\ OwedKept
    BY <1>1, <1>9, ExportTableOK
  <2>2. /\ In(Cli, "export") /\ pending[Cli] = None /\ session[Cli].op = "export" /\ UNCHANGED tier
        /\ schemas' = schemas /\ rows' = rows
    BY <1>9 DEF ExportTable, In, bus
  <2>3. \E todo, stale, dump :
           Go(Cli, [session[Cli] EXCEPT !.todo = todo, !.stale = stale, !.dump = dump], {})
    BY <1>9 DEF ExportTable, Continue
  <2>4. PICK todo, stale, dump :
           Go(Cli, [session[Cli] EXCEPT !.todo = todo, !.stale = stale, !.dump = dump], {})
    BY <2>3
  <2> DEFINE g == [session[Cli] EXCEPT !.todo = todo, !.stale = stale, !.dump = dump]
  <2>5. g.op = "export"
    BY <1>0, <1>1, <2>2, ExportFrame
  <2> HIDE DEF g
  <2> QED
    BY <1>2, <2>1, <2>2, <2>4, <2>5 DEF g
<1>10. CASE ExportEnd(Cli)
  <2>1. BusInv' /\ OwedKept
    BY <1>0, <1>1, <1>10, ExportEndOK
  <2>2. /\ pending[Cli] = None /\ UNCHANGED tier /\ schemas' = schemas /\ rows' = rows
        /\ Go(Cli, Rest, {}) /\ Rest.op # "update"
    BY <1>10, RestOK DEF ExportEnd, In, bus
  <2> QED
    BY <1>2, <2>1, <2>2
<1> QED
  BY <1>3, <1>4, <1>5, <1>6, <1>7, <1>8, <1>9, <1>10 DEF Command

LEMMA Next_SqlInv == SqlInv /\ [Next]_vars => SqlInv'
<1> SUFFICES ASSUME SqlInv, [Next]_vars PROVE SqlInv'
  OBVIOUS
<1>1. CASE Crash
  BY <1>1, CrashOK, CrashTier DEF SqlInv
<1>2. CASE UNCHANGED vars
  <2>1. BusInv'
    BY <1>2 DEF vars, SqlInv, BusInv, SessionsOK, UpdatesOwed, Owed, OwedIn, SchemaPresent, ImportComplete
  <2>2. TierInv'
    BY <1>2 DEF vars, SqlInv, TierInv, Cached, Reading, Deleting, Half, Present, PresentIn, Owed,
                OwedIn, UpdatesSeen
  <2> QED
    BY <2>1, <2>2 DEF SqlInv
<1>3. CASE \E key \in DOMAIN copies : Expire(key)
  BY <1>3, ExpireOK
<1> QED
  BY <1>1, <1>2, <1>3, StatementOK, CommandOK DEF Next

LEMMA Invariant == Spec => []SqlInv
BY Init_SqlInv, Next_SqlInv, PTL DEF Spec

\* A table with rows has a schema, or an INSERT that will write it is under way, or the
\* server stopped in such an INSERT: an export sees all other rows (parse_insert,
\* parse_update, parse_import).
THEOREM SchemasPresent == Spec => []SchemaPresent
<1>1. SqlInv => SchemaPresent
  BY DEF SqlInv, BusInv
<1> QED
  BY <1>1, Invariant, PTL

\* An import that has ended has stored every row that it accepted, with its relationships,
\* and every schema, but for what others or later statements of the dump wrote over
\* (parse_import, write_row).
THEOREM ImportsComplete == Spec => []ImportComplete
<1>1. SqlInv => ImportComplete
  BY DEF SqlInv, BusInv
<1> QED
  BY <1>1, Invariant, PTL

\* An UPDATE stores a row only where there is one, or was one that another session removed
\* after parse_update had read it, or was one that somebody read while a DELETE was removing
\* it: an UPDATE finds no other copy of a row that is gone (parse_update, read_value,
\* delete_value).
THEOREM UpdatesNoUpsert == Spec => NoUpsert
<1>1. SqlInv /\ [Next]_vars =>
        [\A s \in Session :
            UpdateRow(s) => session[s].key \in DOMAIN rows \cup session[s].touched \cup raced]_vars
  <2> SUFFICES ASSUME SqlInv, NEW s \in Session, UpdateRow(s)
               PROVE  session[s].key \in DOMAIN rows \cup session[s].touched \cup raced
    OBVIOUS
  <2>1. session[s].op = "update"
    BY DEF UpdateRow, In
  <2> QED
    BY <2>1 DEF SqlInv, TierInv, UpdatesSeen
<1> QED
  BY <1>1, Invariant, PTL DEF Spec, NoUpsert

=============================================================================
