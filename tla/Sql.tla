--------------------------------- MODULE Sql --------------------------------
(***************************************************************************)
(* SQL over the bus: the statements of modules/query.rs, which the workers *)
(* of the server and the CLI run side by side, and the import and export   *)
(* of SQL dumps by the CLI.                                                *)
(*                                                                         *)
(* A row is a key made of the table's name and the primary key; its value  *)
(* holds the other columns, one per line.  The columns of a table are      *)
(* under a key of their own, without which an export does not see its      *)
(* rows; a row with a foreign key has a relationship key.  All these keys  *)
(* are persistent.  A read of the bus leaves a copy in the transient tier, *)
(* which reads and scans then prefer; a call of the bus on the two tiers   *)
(* is two steps.                                                           *)
(*                                                                         *)
(* A text is the sequence of its parts between colons, without line        *)
(* breaks.  Columns are named by numbers.                                  *)
(***************************************************************************)
EXTENDS Integers, FiniteSets, SequencesExt

M == INSTANCE Maps

CONSTANTS
    Session,         \* threads that execute statements: workers and the CLI
    Cli,             \* the thread of the CLI, the only one with commands
    Inserts,         \* INSERT statements: table and rows
    Updates,         \* UPDATE statements: table, primary key and assigned texts
    Deletes,         \* DELETE statements: table and primary key
    Selects,         \* SELECT WHERE key = statements: table and primary key
    Dumps,           \* dumps of other databases: tables and inserts
    Plain,           \* per name of a table: its letters, digits and underscores
    ReadAs,          \* per cell of a dump that parses: the text that parse_value makes of it
    None,
    MaxStatements    \* bound: statements and commands

IsSeq(s) == s \in Seq(Range(s))

ASSUME CliAssumption == Cli \in Session
ASSUME DumpsAssumption == \A dump \in Dumps : IsSeq(dump.tables) /\ IsSeq(dump.inserts)

VARIABLES
    schemas,         \* _schema:{table} -> columns
    rows,            \* {table}:{primary key} -> the texts of the other columns
    rels,            \* the _rel: keys
    copies,          \* the transient tier: copies of rows, and of schemas, by <<table>>
    pending,         \* per session: the second half of its call of the bus, or None
    session,         \* per session: the statement or command it is in, or Rest
    file,            \* the dump that was exported last, or None
    last,            \* the command that ended in the step before, or Rest; for properties
    torn,            \* tables that lacked a schema when the server stopped; for properties
    raced,           \* keys that were read while a DELETE was removing them; for properties
    count            \* statements and commands begun

bus  == <<schemas, rows, rels>>
tier == <<copies, pending, raced>>
vars == <<schemas, rows, rels, copies, pending, session, file, last, torn, raced, count>>

-----------------------------------------------------------------------------
\* How a row is stored

\* The texts of the columns that are not in the primary key.
Others(columns, values) ==
    LET at == SelectSeq([i \in DOMAIN columns |-> i], LAMBDA i : ~columns[i].pk)
    IN  [i \in DOMAIN at |-> values[at[i]]]

Empty == <<"">>

\* join("\n"): of no texts it is the empty text.
Lines(texts) == IF texts = << >> THEN <<Empty>> ELSE texts

HasColumn(table, name) == \E i \in DOMAIN table.columns : table.columns[i].name = name

Cell(table, values, name) ==
    values[CHOOSE i \in DOMAIN table.columns : table.columns[i].name = name]

\* The columns of the primary key that the table has.
KeyColumns(table) == SelectSeq(table.primary_key, LAMBDA name : HasColumn(table, name))

KeyOf(table, values) ==
    <<table.name, FlattenSeq([i \in DOMAIN KeyColumns(table) |->
                                  Cell(table, values, KeyColumns(table)[i])])>>

ValueOf(table, values) == Lines(Others(table.columns, values))

RelsOf(table, values) ==
    {<<fk.table, Cell(table, values, fk.column), KeyOf(table, values)>> :
        fk \in {f \in ToSet(table.foreign_keys) : HasColumn(table, f.column)}}

\* The checks of write_row.
Accepts(table, values) == Len(values) = Len(table.columns) /\ KeyColumns(table) # << >>

-----------------------------------------------------------------------------
\* modules/analyser.rs: what CREATE TABLE tells

\* The PRIMARY KEY constraint, or else the first column that is declared the primary key.
find_primary_key_columns(t) ==
    LET declared == SelectSeq(t.columns, LAMBDA c : c.primary)
    IN  IF t.primary # << >> \/ declared = << >> THEN t.primary ELSE <<declared[1].name>>

\* The first column of every FOREIGN KEY constraint that says what it refers to.
find_foreign_keys(t) ==
    LET whole == SelectSeq(t.foreign, LAMBDA f : f.columns # << >> /\ f.referred # << >>)
    IN  [i \in DOMAIN whole |-> [column |-> whole[i].columns[1], table |-> whole[i].table]]

analyse_create_table(t) ==
    LET pk == find_primary_key_columns(t)
    IN  [name |-> Plain[t.name], primary_key |-> pk, foreign_keys |-> find_foreign_keys(t),
         columns |-> [i \in DOMAIN t.columns |->
             [name |-> t.columns[i].name, type |-> t.columns[i].type,
              pk |-> t.columns[i].name \in ToSet(pk)]]]

analyse_statements(dump) == [i \in DOMAIN dump.tables |-> analyse_create_table(dump.tables[i])]

\* What is stored under _schema: the columns, each with its first foreign key.
render_schema_entry(table) ==
    LET fks(name) == SelectSeq(table.foreign_keys, LAMBDA fk : fk.column = name)
        first(name) == IF fks(name) = << >> THEN None ELSE fks(name)[1].table
    IN  [i \in DOMAIN table.columns |->
            [name |-> table.columns[i].name, type |-> table.columns[i].type,
             pk |-> table.columns[i].pk, fk |-> first(table.columns[i].name)]]

-----------------------------------------------------------------------------
\* Dumps: tables is a sequence of CREATE TABLE, inserts of INSERT statements

\* Numbers are written bare, texts in quotes, and the empty text as NULL.
format_sql_value(text, type) ==
    IF text = Empty THEN [text |-> <<"NULL">>, quoted |-> FALSE]
                    ELSE [text |-> text, quoted |-> type = "TEXT"]

\* CREATE TABLE has the types and the primary key as a constraint, no foreign keys.
build_create_table(name, columns) ==
    LET pk == SelectSeq(columns, LAMBDA c : c.pk)
    IN  [name |-> name, primary |-> [i \in DOMAIN pk |-> pk[i].name], foreign |-> << >>,
         columns |-> [i \in DOMAIN columns |->
             [name |-> columns[i].name, type |-> columns[i].type, primary |-> FALSE]]]

\* Mutant: the primary key is written first, wherever its column stands.
build_insert_pk_first(name, columns, key, value) ==
    [table |-> name,
     cells |-> <<format_sql_value(key, "INT")>> \o [i \in DOMAIN value |-> format_sql_value(value[i], "TEXT")]]

\* An INSERT of a dump: every column of the primary key gets the whole key, and a
\* column for which the value has no line is left out.
build_insert(name, columns, key, value) ==
    LET cell(i) ==
            LET n == Cardinality({j \in 1..i : ~columns[j].pk})
            IN  CASE columns[i].pk    -> <<format_sql_value(key, columns[i].type)>>
                  [] ~columns[i].pk /\ n <= Len(value) ->
                                         <<format_sql_value(value[n], columns[i].type)>>
                  [] OTHER            -> << >>
    IN  [table |-> name, cells |-> FlattenSeq([i \in DOMAIN columns |-> cell(i)])]

Parses(dump) == \A i \in DOMAIN dump.inserts : Range(dump.inserts[i].cells) \subseteq DOMAIN ReadAs

\* One statement that does not parse, and nothing of the dump is left.
parse_sql(dump) == IF Parses(dump) THEN dump ELSE [tables |-> << >>, inserts |-> << >>]

\* parse_value: an expression that is no literal is printed, NULL is the empty text.
Values(insert) == [i \in DOMAIN insert.cells |-> ReadAs[insert.cells[i]]]

\* The tables of the plan that the INSERT names.  It names them as they are written, the
\* plan has the plain names.
Named(plan, insert) == {i \in DOMAIN plan : plan[i].name = insert.table}

TableOf(plan, insert) == plan[Min(Named(plan, insert))]

\* Is the INSERT of the dump written, or counted as an error or passed over?
Imports(plan, insert) ==
    Named(plan, insert) # {} /\ Accepts(TableOf(plan, insert), Values(insert))

\* What it writes.
ImportedKey(plan, insert) == KeyOf(TableOf(plan, insert), Values(insert))

ImportedValue(plan, insert) == ValueOf(TableOf(plan, insert), Values(insert))

ImportedRels(plan, insert) == RelsOf(TableOf(plan, insert), Values(insert))

-----------------------------------------------------------------------------
\* Steps of the sessions

\* The frame of a session that is in no statement.
Rest == [op |-> "none"]

Idle(s) == session[s] = Rest /\ pending[s] = None

In(s, op) == session[s].op = op /\ pending[s] = None

\* The session goes on with frame, having written the keys: the others are told, for
\* the properties.
Go(s, frame, keys) ==
    session' = [o \in Session |->
        IF o = s THEN frame
        ELSE IF session[o] = Rest THEN Rest
        ELSE [session[o] EXCEPT !.touched = @ \cup keys]]

Begin(s, frame) ==
    /\ Idle(s) /\ count < MaxStatements
    /\ count' = count + 1
    /\ Go(s, frame, {})
    /\ last' = Rest
    /\ UNCHANGED <<bus, file, torn>>

Continue(s, frame, keys) ==
    /\ Go(s, frame, keys)
    /\ last' = Rest
    /\ UNCHANGED <<file, torn, count>>

-----------------------------------------------------------------------------
\* Calls of the bus

\* The session has the second half of a call to do.
Half(s, op, key) == pending[s] # None /\ pending[s].op = op /\ pending[s].key = key

Deleting(key) == \E s \in Session : Half(s, "delete", key)

Reading(key) == \E s \in Session : Half(s, "promote", key)

\* read_value finds a copy or what is stored (one step), which it then copies to the transient
\* tier.
Found(key, stored) == stored \/ key \in DOMAIN copies

read_value(s, key, stored, value) ==
    /\ pending' = [pending EXCEPT ![s] = IF stored /\ key \notin DOMAIN copies
                                         THEN [op |-> "promote", key |-> key, value |-> value]
                                         ELSE None]
    /\ raced' = IF stored /\ Deleting(key) THEN raced \cup {key} ELSE raced
    /\ UNCHANGED copies

Promote(s) ==
    /\ pending[s] # None /\ pending[s].op = "promote"
    /\ copies' = M!Insert(copies, pending[s].key, pending[s].value)
    /\ pending' = [pending EXCEPT ![s] = None]
    /\ last' = Rest
    /\ UNCHANGED <<bus, session, file, torn, raced, count>>

\* write_value stores the value and then removes the copy.
write_value(s, key) ==
    /\ pending' = [pending EXCEPT ![s] = [op |-> "write", key |-> key]]
    /\ UNCHANGED <<copies, raced>>

Evict(s) ==
    /\ pending[s] # None /\ pending[s].op = "write"
    /\ copies' = M!Remove(copies, pending[s].key)
    /\ pending' = [pending EXCEPT ![s] = None]
    /\ last' = Rest
    /\ UNCHANGED <<bus, session, file, torn, raced, count>>

\* A copy's time is over.
Expire(key) ==
    /\ copies' = M!Remove(copies, key)
    /\ last' = Rest
    /\ UNCHANGED <<bus, pending, session, file, torn, raced, count>>

\* What a scan finds under the key: the copy, if there is one.  (The scan is one step: its
\* two halves differ for keys that are written in between.)
Scanned(key, value) == IF key \in DOMAIN copies THEN copies[key] ELSE value

-----------------------------------------------------------------------------
\* The columns that INSERT supposes: a number as the primary key, and texts.
Inferred(width) ==
    [i \in 1..width |-> [name |-> i - 1, type |-> IF i = 1 THEN "INT" ELSE "TEXT",
                        pk |-> i = 1, fk |-> None]]

\* INSERT: look for the schema, write the rows, write a schema if there was none.
\* The first text is the primary key, whatever the schema says.

BeginInsert(s, i) ==
    LET stored == i.table \in DOMAIN schemas
    IN  /\ Begin(s, [op |-> "insert", table |-> i.table, rows |-> i.rows, width |-> Len(i.rows[1]),
                     missing |-> ~Found(<<i.table>>, stored), touched |-> {}])
        /\ read_value(s, <<i.table>>, stored, schemas[i.table])

InsertRow(s) ==
    /\ In(s, "insert") /\ session[s].rows # << >>
    /\ LET row == Head(session[s].rows)
           key == <<session[s].table, Head(row)>>
       IN  /\ rows' = M!Insert(rows, key, Lines(Tail(row)))
           /\ write_value(s, key)
           /\ Continue(s, [session[s] EXCEPT !.rows = Tail(@)], {key})
    /\ UNCHANGED <<schemas, rels>>

\* Mutant: the schema is inferred only for the first row of the table.
InsertEnd_if_empty(s) ==
    /\ In(s, "insert") /\ session[s].rows = << >>
    /\ LET table == session[s].table
           only  == Cardinality({k \in DOMAIN rows : k[1] = table}) <= 1
       IN  /\ schemas' = IF session[s].missing /\ only
                         THEN M!Insert(schemas, table, Inferred(session[s].width)) ELSE schemas
           /\ Continue(s, Rest, IF session[s].missing THEN {<<table>>} ELSE {})
    /\ UNCHANGED <<rows, rels, tier>>

InsertEnd(s) ==
    /\ In(s, "insert") /\ session[s].rows = << >>
    /\ IF session[s].missing
       THEN /\ schemas' = M!Insert(schemas, session[s].table, Inferred(session[s].width))
            /\ write_value(s, <<session[s].table>>)
            /\ Continue(s, Rest, {<<session[s].table>>})
       ELSE /\ Continue(s, Rest, {})
            /\ UNCHANGED <<schemas, tier>>
    /\ UNCHANGED <<rows, rels>>

\* UPDATE: read the row, and if it is there replace its value by the assigned texts.
BeginUpdate(s, u) ==
    LET key    == <<u.table, u.key>>
        stored == key \in DOMAIN rows
    IN  /\ Begin(s, IF Found(key, stored)
                    THEN [op |-> "update", key |-> key, value |-> u.value, touched |-> {}]
                    ELSE Rest)
        /\ read_value(s, key, stored, rows[key])

UpdateRow(s) ==
    /\ In(s, "update")
    /\ rows' = M!Insert(rows, session[s].key, session[s].value)
    /\ write_value(s, session[s].key)
    /\ Continue(s, Rest, {session[s].key})
    /\ UNCHANGED <<schemas, rels>>

\* Mutant: DELETE removes the row and leaves the copy to its time.
BeginDelete_keeps(s, d) ==
    /\ Begin(s, Rest)
    /\ pending' = [pending EXCEPT ![s] = [op |-> "delete", key |-> <<d.table, d.key>>]]
    /\ UNCHANGED <<copies, raced>>

\* DELETE removes the copy and then the row; its relationships stay.
BeginDelete(s, d) ==
    LET key == <<d.table, d.key>>
    IN  /\ Begin(s, Rest)
        /\ copies' = M!Remove(copies, key)
        /\ pending' = [pending EXCEPT ![s] = [op |-> "delete", key |-> key]]
        /\ raced' = IF Reading(key) THEN raced \cup {key} ELSE raced

DeleteRow(s) ==
    /\ pending[s] # None /\ pending[s].op = "delete"
    /\ rows' = M!Remove(rows, pending[s].key)
    /\ pending' = [pending EXCEPT ![s] = None]
    /\ Continue(s, Rest, {pending[s].key})
    /\ UNCHANGED <<schemas, rels, copies, raced>>

\* SELECT of one key; the other SELECTs are scans, which change nothing.
Select(s, q) ==
    LET key == <<q.table, q.key>>
    IN  /\ Begin(s, Rest)
        /\ read_value(s, key, key \in DOMAIN rows, rows[key])

-----------------------------------------------------------------------------
\* Import: the schemas, then row after row, each followed by its relationships.

BeginImport(s, dump) ==
    LET parsed == parse_sql(dump)
    IN  /\ Begin(s, [op |-> "import", inserts |-> parsed.inserts, plan |-> analyse_statements(parsed),
                     tables |-> 0, done |-> 0, rels |-> {}, touched |-> {}])
        /\ UNCHANGED tier

ImportSchema(s) ==
    /\ In(s, "import") /\ session[s].tables < Len(session[s].plan)
    /\ LET table == session[s].plan[session[s].tables + 1]
       IN  /\ schemas' = M!Insert(schemas, table.name, render_schema_entry(table))
           /\ write_value(s, <<table.name>>)
           /\ Continue(s, [session[s] EXCEPT !.tables = @ + 1], {<<table.name>>})
    /\ UNCHANGED <<rows, rels>>

RowDue(s) ==
    /\ In(s, "import") /\ session[s].tables = Len(session[s].plan)
    /\ session[s].rels = {} /\ session[s].done < Len(session[s].inserts)

\* Mutant: relationships are written for new rows only.
ImportRow_new(s) ==
    /\ RowDue(s)
    /\ LET plan   == session[s].plan
           insert == session[s].inserts[session[s].done + 1]
           next   == [session[s] EXCEPT !.done = @ + 1]
       IN  IF Imports(plan, insert)
           THEN LET key == ImportedKey(plan, insert)
                    new == IF key \in DOMAIN rows THEN {} ELSE ImportedRels(plan, insert)
                IN  /\ rows' = M!Insert(rows, key, ImportedValue(plan, insert))
                    /\ write_value(s, key)
                    /\ Continue(s, [next EXCEPT !.rels = new], {key})
           ELSE /\ Continue(s, next, {})
                /\ UNCHANGED <<rows, tier>>
    /\ UNCHANGED <<schemas, rels>>

ImportRow(s) ==
    /\ RowDue(s)
    /\ LET plan   == session[s].plan
           insert == session[s].inserts[session[s].done + 1]
           next   == [session[s] EXCEPT !.done = @ + 1]
       IN  IF Imports(plan, insert)
           THEN /\ rows' = M!Insert(rows, ImportedKey(plan, insert), ImportedValue(plan, insert))
                /\ write_value(s, ImportedKey(plan, insert))
                /\ Continue(s, [next EXCEPT !.rels = ImportedRels(plan, insert)],
                            {ImportedKey(plan, insert)})
           ELSE /\ Continue(s, next, {})
                /\ UNCHANGED <<rows, tier>>
    /\ UNCHANGED <<schemas, rels>>

\* (No statement of the model reads a relationship: it has no copy.)
ImportRel(s, r) ==
    /\ In(s, "import") /\ r \in session[s].rels
    /\ rels' = rels \cup {r}
    /\ Continue(s, [session[s] EXCEPT !.rels = @ \ {r}], {})
    /\ UNCHANGED <<schemas, rows, tier>>

ImportEnd(s) ==
    /\ In(s, "import") /\ session[s].tables = Len(session[s].plan)
    /\ session[s].rels = {} /\ session[s].done = Len(session[s].inserts)
    /\ Go(s, Rest, {})
    /\ last' = session[s]
    /\ UNCHANGED <<bus, tier, file, torn, count>>

-----------------------------------------------------------------------------
\* Export: scan the schemas, then scan the rows of one table after the other.  stale: rows
\* whose copy the scan found, and it was another value; for properties.

BeginExport(s) ==
    /\ Begin(s, [op |-> "export", todo |-> SetToSeq(DOMAIN schemas),
                 schemas |-> [t \in DOMAIN schemas |-> Scanned(<<t>>, schemas[t])],
                 dump |-> [tables |-> << >>, inserts |-> << >>], stale |-> {}, touched |-> {}])
    /\ UNCHANGED tier

\* A copy is listed even if its row is gone.
Listed(name) == {k \in DOMAIN rows \cup DOMAIN copies : Len(k) = 2 /\ k[1] = name}

ExportTable(s) ==
    /\ In(s, "export") /\ session[s].todo # << >>
    /\ LET name    == Head(session[s].todo)
           columns == session[s].schemas[name]
           keys    == SetToSeq(Listed(name))
       IN  Continue(s,
               [session[s] EXCEPT
                   !.todo  = Tail(@),
                   !.stale = @ \cup {k \in Listed(name) \cap DOMAIN rows : Scanned(k, rows[k]) # rows[k]},
                   !.dump  = [tables  |-> Append(@.tables, build_create_table(name, columns)),
                              inserts |-> @.inserts \o [i \in DOMAIN keys |->
                                  build_insert(name, columns, keys[i][2], Scanned(keys[i], rows[keys[i]]))]]],
               {})
    /\ UNCHANGED <<bus, tier>>

ExportEnd(s) ==
    /\ In(s, "export") /\ session[s].todo = << >>
    /\ file' = session[s].dump
    /\ Go(s, Rest, {})
    /\ last' = session[s]
    /\ UNCHANGED <<bus, tier, torn, count>>

-----------------------------------------------------------------------------

\* A new server.
Init ==
    /\ schemas = M!EmptyMap /\ rows = M!EmptyMap /\ rels = {}
    /\ copies = M!EmptyMap /\ pending = [s \in Session |-> None]
    /\ session = [s \in Session |-> Rest]
    /\ file = None /\ last = Rest /\ torn = {} /\ raced = {} /\ count = 0

\* The server stops in the middle of something and is started again; the copies are gone.
Crash ==
    /\ \E s \in Session : ~Idle(s)
    /\ session' = [s \in Session |-> Rest]
    /\ copies' = M!EmptyMap /\ pending' = [s \in Session |-> None] /\ raced' = {}
    /\ torn' = torn \cup ({k[1] : k \in DOMAIN rows} \ DOMAIN schemas)
    /\ last' = Rest
    /\ UNCHANGED <<bus, file, count>>

Statement(s) ==
    \/ \E i \in Inserts : BeginInsert(s, i)
    \/ InsertRow(s) \/ InsertEnd(s)
    \/ \E u \in Updates : BeginUpdate(s, u)
    \/ UpdateRow(s)
    \/ \E d \in Deletes : BeginDelete(s, d)
    \/ DeleteRow(s)
    \/ \E q \in Selects : Select(s, q)
    \/ Promote(s) \/ Evict(s)

\* The CLI takes one command after the other.
Command(s) ==
    \/ \E dump \in Dumps \cup ({file} \ {None}) : BeginImport(s, dump)
    \/ ImportSchema(s) \/ ImportRow(s) \/ ImportEnd(s)
    \/ \E r \in (IF In(s, "import") THEN session[s].rels ELSE {}) : ImportRel(s, r)
    \/ BeginExport(s) \/ ExportTable(s) \/ ExportEnd(s)

Next ==
    \/ \E s \in Session : Statement(s)
    \/ Command(Cli)
    \/ \E key \in DOMAIN copies : Expire(key)
    \/ Crash

Spec == Init /\ [][Next]_vars

-----------------------------------------------------------------------------

\* The rows that an export must see have a schema: a table with rows has one, or an
\* INSERT that will write it is under way, or the server stopped in such an INSERT
\* (parse_insert, parse_import).
SchemaPresent ==
    \A k \in DOMAIN rows :
        \/ k[1] \in DOMAIN schemas \cup torn
        \/ \E s \in Session : session[s].op = "insert" /\ session[s].table = k[1] /\ session[s].missing

\* When an import has ended every row of the dump is stored under its key, unless
\* another session or a later row of the dump wrote there, with its relationships, and
\* every table has its schema, unless an INSERT that began before or a later table of the
\* dump wrote another one (parse_import, write_row).
ImportComplete ==
    last.op = "import" =>
        LET key(i)     == ImportedKey(last.plan, last.inserts[i])
            imports(i) == Imports(last.plan, last.inserts[i])
        IN  /\ \A i \in DOMAIN last.inserts : imports(i) =>
                  /\ ImportedRels(last.plan, last.inserts[i]) \subseteq rels
                  /\ \/ key(i) \in last.touched
                     \/ M!Get(rows, key(i), None) = ImportedValue(last.plan, last.inserts[i])
                     \/ \E j \in DOMAIN last.inserts : j > i /\ imports(j) /\ key(j) = key(i)
            /\ \A i \in DOMAIN last.plan :
                  \/ <<last.plan[i].name>> \in last.touched
                  \/ M!Get(schemas, last.plan[i].name, None) = render_schema_entry(last.plan[i])
                  \/ \E j \in DOMAIN last.plan : j > i /\ last.plan[j].name = last.plan[i].name

\* A text of the column comes back as it was written.
ReadsBack(text, column) == ReadAs[format_sql_value(text, column.type)] = text

\* The row has a line for every column, one column is its primary key, its texts are read as
\* they are written, no other key of the dump is read as its own, and the name of its table is
\* plain and not what analyse_create_table makes of another one's.
Regular(columns, key) ==
    /\ Cardinality({i \in DOMAIN columns : columns[i].pk}) = 1
    /\ LET pk == CHOOSE i \in DOMAIN columns : columns[i].pk
           others == Others(columns, columns)
       IN  /\ Len(rows[key]) = Len(Lines(others))
           /\ ReadsBack(key[2], columns[pk])
           /\ \A i \in DOMAIN others : ReadsBack(rows[key][i], others[i])
           /\ \A i \in DOMAIN last.dump.inserts :
                 LET insert == last.dump.inserts[i]
                 IN  (insert.table = key[1] /\ Values(insert)[pk] = key[2]) =>
                         insert.cells[pk] = format_sql_value(key[2], columns[pk].type)
    /\ Plain[key[1]] = key[1]
    /\ \A name \in DOMAIN last.schemas : Plain[name] = key[1] => name = key[1]

\* An import of an exported dump gives back, with key and value, every regular row of
\* the tables with a schema that no session wrote during the export and of which the scan
\* found no older copy, if the dump parses at all (write_sql_file, parse_import).
ExportReadsBack ==
    (last.op = "export" /\ Parses(last.dump)) =>
        LET plan    == analyse_statements(last.dump)
            inserts == {i \in DOMAIN last.dump.inserts : Imports(plan, last.dump.inserts[i])}
        IN  \A k \in DOMAIN rows \ (last.touched \cup last.stale) :
                (k[1] \in DOMAIN last.schemas /\ Regular(last.schemas[k[1]], k)) =>
                    LET of == {i \in inserts : ImportedKey(plan, last.dump.inserts[i]) = k}
                    IN  /\ Cardinality(of) = 1
                        /\ \A i \in of : ImportedValue(plan, last.dump.inserts[i]) = rows[k]

\* An UPDATE stores a row only where there is one, or was one that another session removed
\* after parse_update had read it, or was one that somebody read while a DELETE was removing
\* it, whose copy may be found for a while (parse_update, read_value, delete_value).
NoUpsert ==
    [][\A s \in Session :
          UpdateRow(s) => session[s].key \in DOMAIN rows \cup session[s].touched \cup raced]_vars

=============================================================================
