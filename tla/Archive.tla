------------------------------- MODULE Archive ------------------------------
(***************************************************************************)
(* Backups: the binary dump and restore of modules/cli.rs, the .tric       *)
(* archive of modules/export.rs, and the diff import of modules/import.rs, *)
(* which brings a bus from one archived state to another.                  *)
(*                                                                         *)
(* An archive is a tar file: a path for every key, and one for every TTL.  *)
(* A key becomes a path by turning every colon into a slash, and a path    *)
(* becomes a key by turning the first slash into a colon.                  *)
(*                                                                         *)
(* The server may stop in the middle of an import, which loses the         *)
(* transient tier; the operator then runs the command again.               *)
(***************************************************************************)
EXTENDS Integers, FiniteSets, SequencesExt

M == INSTANCE Maps

CONSTANTS
    Key,       \* keys: sequences of words, colons and slashes
    Row        \* what a key may hold: a value, and the time left to it or to its cached copy

ASSUME KeyAssumption == IsFiniteSet(Key) /\ Key \subseteq Seq(STRING)
ASSUME RowAssumption ==
    \A r \in Row : r = [value |-> r.value, ttl |-> r.ttl] /\ r.ttl \in Nat

\* b"", the value of the relationship keys that imports write.
Empty == "empty"

VARIABLES
    command,   \* "diff" or "restore"
    old, new,  \* the stores that were exported; a restore reads a dump of new
    bus,       \* the live store; old was exported from it
    todo,      \* diff: the paths that have not been visited yet
    file,      \* restore: the keys whose records are in the dump
    next,      \* restore: the record to read
    half,      \* restore: its value is written, its TTL is not
    crashed    \* has the server stopped? (bound: once)

vars == <<command, old, new, bus, todo, file, next, half, crashed>>

IsRel(k) == Len(k) > 1 /\ k[1] = "_rel" /\ k[2] = ":"

\* Relationships, and only they, are persistent rows without a value.
Stores ==
    {s \in UNION {[keys -> Row] : keys \in SUBSET Key} :
        \A k \in DOMAIN s : IF IsRel(k) THEN s[k] = [value |-> Empty, ttl |-> 0]
                                       ELSE s[k].value # Empty}

-----------------------------------------------------------------------------
\* The calls of the bus

write_value(b, k, v) == M!Insert(b, k, [value |-> v, ttl |-> 0])

write_ttl(b, k, t) == IF k \in DOMAIN b THEN M!Insert(b, k, [b[k] EXCEPT !.ttl = t]) ELSE b

-----------------------------------------------------------------------------
\* Export

Special(k) == Len(k) > 1 /\ k[1] \in {"_schema", "_rel"} /\ k[2] = ":"

tar_path(k) == IF Special(k) THEN ReplaceAt(k, 2, "/") ELSE ReplaceAll(k, ":", "/")

ttl_path(k) == <<"_ttl", "/">> \o ReplaceAll(k, ":", "/")

\* The path of the archive's version, which imports pass over.
Version == <<"_meta", "/", "version">>

\* The tar entries of a store: paths with a value or a TTL.  Of two keys with one path
\* the reader keeps one.  (The scan and the questions for the TTLs are calls of their own;
\* the archive is that of a store which stands still meanwhile.  Tar refuses paths that
\* begin with a slash or have a part "..", and the export fails as a whole: there is no
\* archive of a store with such a key.)
write_tar_contents(s) ==
    LET paths == {tar_path(k) : k \in DOMAIN s}
        timed == {k \in DOMAIN s : ~Special(k) /\ s[k].ttl > 0}
        at(p) == CHOOSE k \in DOMAIN s : tar_path(k) = p
        of(p) == CHOOSE k \in timed : ttl_path(k) = p
    IN  [p \in paths \cup {ttl_path(k) : k \in timed} |->
            IF p \in paths THEN [value |-> IF IsRel(at(p)) THEN Empty ELSE s[at(p)].value]
                           ELSE [ttl |-> s[of(p)].ttl]]

-----------------------------------------------------------------------------
\* Diff import

\* str::replacen('/', ":", 1)
replacen(p) == IF Contains(p, "/") THEN ReplaceAt(p, Min({i \in DOMAIN p : p[i] = "/"}), ":")
                                   ELSE p

IsTtl(p) == Len(p) > 1 /\ p[1] = "_ttl" /\ p[2] = "/"

\* Mutant: the path of a TTL stands for the key that has it.
parse_tar_path_to_key_stripped(p) == replacen(IF IsTtl(p) THEN SubSeq(p, 3, Len(p)) ELSE p)

parse_tar_path_to_key(p) ==
    IF IsTtl(p) THEN <<"_ttl", ":">> \o replacen(SubSeq(p, 3, Len(p)))
                ELSE replacen(p)

\* A value does not read as the number of a TTL.
write_diff_entry(b, p, content) ==
    CASE ~IsTtl(p) -> write_value(b, parse_tar_path_to_key(p), content.value)
      [] IsTtl(p) /\ "ttl" \in DOMAIN content ->
             write_ttl(b, replacen(SubSeq(p, 3, Len(p))), content.ttl)
      [] OTHER -> b

\* The paths that parse_diff_import visits: those of the new archive, and then those
\* that only the old one has.
Added == DOMAIN write_tar_contents(new) \ {Version}

Dropped == DOMAIN write_tar_contents(old) \ ({Version} \cup Added)

\* Mutant: unchanged entries are told by their path alone.
Apply_by_path(p) ==
    /\ p \in todo \cap Added
    /\ todo' = todo \ {p}
    /\ bus' = IF p \in DOMAIN write_tar_contents(old) THEN bus
              ELSE write_diff_entry(bus, p, write_tar_contents(new)[p])
    /\ UNCHANGED <<command, old, new, file, next, half, crashed>>

\* An entry of the new archive, in the order of a HashMap: skipped if the old archive
\* has the same.
Apply(p) ==
    /\ p \in todo \cap Added
    /\ todo' = todo \ {p}
    /\ LET was == write_tar_contents(old)
           is  == write_tar_contents(new)
       IN  bus' = IF p \in DOMAIN was /\ was[p] = is[p] THEN bus
                  ELSE write_diff_entry(bus, p, is[p])
    /\ UNCHANGED <<command, old, new, file, next, half, crashed>>

Delete(p) ==
    /\ todo \subseteq Dropped /\ p \in todo
    /\ todo' = todo \ {p}
    /\ bus' = M!Remove(bus, parse_tar_path_to_key(p))
    /\ UNCHANGED <<command, old, new, file, next, half, crashed>>

-----------------------------------------------------------------------------
\* Dump and restore

\* A dump may lack its end: the errors of write_all are dropped, and a torn record
\* ends the restore.  (As above, of a store that stands still: a key that expires between
\* the scan and read_ttl_remaining would be dumped as one without a TTL.)
Dumps(s) == {SubSeq(SetToSeq(DOMAIN s), 1, n) : n \in 0..Cardinality(DOMAIN s)}

\* A record, in two calls on the bus: its value, then its TTL if it has one.
RestoreValue ==
    /\ next <= Len(file) /\ ~half
    /\ LET k == file[next]
       IN  /\ bus' = write_value(bus, k, new[k].value)
           /\ half' = (new[k].ttl > 0)
           /\ next' = IF half' THEN next ELSE next + 1
    /\ UNCHANGED <<command, old, new, todo, file, crashed>>

\* Mutant: the TTL goes to the record that follows.
RestoreTtl_shifted ==
    /\ half
    /\ bus' = IF next < Len(file) THEN write_ttl(bus, file[next + 1], new[file[next]].ttl) ELSE bus
    /\ half' = FALSE /\ next' = next + 1
    /\ UNCHANGED <<command, old, new, todo, file, crashed>>

RestoreTtl ==
    /\ half
    /\ bus' = write_ttl(bus, file[next], new[file[next]].ttl)
    /\ half' = FALSE /\ next' = next + 1
    /\ UNCHANGED <<command, old, new, todo, file, crashed>>

-----------------------------------------------------------------------------

Init ==
    /\ command \in {"diff", "restore"}
    /\ old \in Stores /\ new \in Stores
    /\ bus = old
    /\ todo = IF command = "diff" THEN Added \cup Dropped ELSE {}
    /\ file \in IF command = "restore" THEN Dumps(new) ELSE {<< >>}
    /\ next = 1 /\ half = FALSE
    /\ crashed = FALSE

Finished == todo = {} /\ next > Len(file)

\* The server stops, which leaves the persistent rows, and the command is run again.
Crash ==
    /\ ~crashed /\ ~Finished
    /\ crashed' = TRUE
    /\ bus' = M!Keep(bus, {k \in DOMAIN bus : bus[k].ttl = 0})
    /\ todo' = IF command = "diff" THEN Added \cup Dropped ELSE {}
    /\ next' = 1 /\ half' = FALSE
    /\ UNCHANGED <<command, old, new, file>>

Next ==
    \/ \E p \in todo : Apply(p) \/ Delete(p)
    \/ RestoreValue \/ RestoreTtl
    \/ Crash

Spec == Init /\ [][Next]_vars

-----------------------------------------------------------------------------

\* The key comes back from its path, which is none of a TTL or the version, and no other
\* key of the archives has that path or the path of its TTL.
Faithful(k) ==
    /\ parse_tar_path_to_key(tar_path(k)) = k
    /\ tar_path(k) # Version /\ ~IsTtl(tar_path(k))
    /\ \A j \in (DOMAIN old \cup DOMAIN new) \ {k} : tar_path(j) \notin {tar_path(k), ttl_path(k)}

\* Is the key persistent, or absent, in both archives?
Persistent(k) == \A s \in {old, new} : k \in DOMAIN s => s[k].ttl = 0

\* The live store holds of the key what the archived one does.
SameIn(s, k) ==
    /\ k \in DOMAIN bus <=> k \in DOMAIN s
    /\ k \in DOMAIN s => bus[k] = s[k]

\* A diff import brings every persistent key whose path is faithful to its state in the
\* new archive, whatever the order of the entries, other keys with TTLs or unfaithful
\* paths, and a crash after which it is run again (parse_diff_import).
DiffApplied ==
    (command = "diff" /\ Finished)
        => \A k \in Key : Faithful(k) /\ Persistent(k)
                => SameIn(new, k)

\* A diff import that is not interrupted gives every key with a faithful path its value in
\* the new archive and deletes the others, with TTLs and cached copies in either archive:
\* the TTL that write_tar_contents records of a cached copy, an entry that is visited before
\* its value, and a TTL that only the old archive has change lifetimes and nothing else.
ValuesApplied ==
    (command = "diff" /\ Finished /\ ~crashed)
        => \A k \in Key : Faithful(k)
                => /\ k \in DOMAIN bus <=> k \in DOMAIN new
                   /\ k \in DOMAIN new => bus[k].value = new[k].value

\* A restore, run again after a crash if need be, gives every key with a whole record in
\* the dump its value and its TTL, and leaves the other persistent rows alone
\* (render_restore, write_restore).
RestoreExact ==
    (command = "restore" /\ Finished)
        => \A k \in Key :
            IF Contains(file, k) THEN k \in DOMAIN bus /\ bus[k] = new[k]
            ELSE (Persistent(k) \/ ~crashed) => SameIn(old, k)

=============================================================================
