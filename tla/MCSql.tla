-------------------------------- MODULE MCSql -------------------------------
(***************************************************************************)
(* Sql for TLC.  Table t has a primary key that is not its first column    *)
(* and a foreign key; table c has a primary key of two columns, not in the *)
(* order of the columns; the name of table p.u is not plain, and pu is     *)
(* what the analyser makes of it.                                          *)
(***************************************************************************)
EXTENDS Sql

one    == <<"1">>
two    == <<"2">>
a      == <<"a">>
phrase == <<"a b">>
null   == <<"NULL">>
date   == <<"2024-01-02">>
path   == <<"c\\d">>

Quoted(text) == [text |-> text, quoted |-> TRUE]
Number(text) == [text |-> text, quoted |-> FALSE]

\* Without quotes a phrase does not parse, a date is a difference and NULL is empty; in
\* quotes a backslash (of MySQL) takes the next letter.
MCReadAs ==
    [cell \in {Number(t) : t \in {one, two, a, date, null}}
                \cup {Quoted(t) : t \in {one, two, a, phrase, date, path, two \o one}} |->
        CASE cell = Number(date) -> <<"2024 - 01 - 02">>
          [] cell = Number(null) -> Empty
          [] cell = Quoted(path) -> <<"cd">>
          [] OTHER -> cell.text]

\* A statement with two rows, one as wide as t with a key that needs quotes, and one into
\* the table whose name is not plain.
MCInserts == {[table |-> "t", rows |-> <<<<one, a>>, <<date, Empty>>>>],
              [table |-> "t", rows |-> <<<<phrase, a, a>>>>],
              [table |-> "p.u", rows |-> <<<<one, a>>>>]}

\* All columns of a row, or one of them.
MCUpdates == {[table |-> "t", key |-> one, value |-> <<a, Empty>>],
              [table |-> "t", key |-> one, value |-> <<path>>]}

\* One row.
OneRow == {[table |-> "t", key |-> one]}

MCPlain == [name \in {"t", "u", "c", "p.u", "pu"} |-> IF name = "p.u" THEN "pu" ELSE name]

Column(name, type, primary) == [name |-> name, type |-> type, primary |-> primary]

tablet == [name |-> "t", primary |-> << >>,
           foreign |-> <<[columns |-> <<0, 2>>, table |-> "u", referred |-> <<0, 1>>],
                         [columns |-> <<2>>, table |-> "c", referred |-> << >>]>>,
           columns |-> <<Column(0, "TEXT", FALSE), Column(1, "INT", TRUE), Column(2, "TEXT", FALSE)>>]
tablec == [name |-> "c", primary |-> <<1, 0>>, foreign |-> << >>,
           columns |-> <<Column(0, "TEXT", TRUE), Column(1, "TEXT", FALSE)>>]
tablep == [name |-> "p.u", primary |-> <<0>>, foreign |-> << >>, columns |-> <<Column(0, "INT", FALSE)>>]

\* With a row that has too few values, one of a table whose name is not plain, and one
\* that names this table as the analyser does.
MCDumps == {[tables  |-> <<tablet, tablec, tablep>>,
             inserts |-> <<[table |-> "t", cells |-> <<Quoted(a), Number(one), Quoted(phrase)>>],
                           [table |-> "t", cells |-> <<Quoted(a), Number(one)>>],
                           [table |-> "c", cells |-> <<Quoted(one), Quoted(two)>>],
                           [table |-> "p.u", cells |-> <<Number(one)>>],
                           [table |-> "pu", cells |-> <<Number(one)>>]>>]}
=============================================================================
