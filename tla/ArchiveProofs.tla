---------------------------- MODULE ArchiveProofs ---------------------------
(***************************************************************************)
(* Diff imports and restores for any keys, rows, archives and orders of    *)
(* the entries, and a crash at any step.                                   *)
(***************************************************************************)
EXTENDS Archive, TLAPS, FiniteSetTheorems, SequenceTheorems, NaturalsInduction

\* The store b holds of the key what s does, or at least the value.
Same(b, s, k) ==
    /\ k \in DOMAIN b <=> k \in DOMAIN s
    /\ k \in DOMAIN s => b[k] = s[k]

SameValue(b, s, k) ==
    /\ k \in DOMAIN b <=> k \in DOMAIN s
    /\ k \in DOMAIN s => b[k].value = s[k].value

\* A diff import changes a key when it visits the path of its value, and only then: a
\* persistent key entirely, and any key in its value unless a crash has come between.
KeyOK(k, b, left, interrupted) ==
    /\ Persistent(k) => Same(b, old, k) \/ Same(b, new, k)
    /\ Persistent(k) /\ tar_path(k) \notin left => Same(b, new, k)
    /\ ~interrupted => IF tar_path(k) \in left THEN SameValue(b, old, k) ELSE SameValue(b, new, k)

DiffInv ==
    /\ todo \subseteq Added \cup Dropped
    /\ \A k \in Key : Faithful(k) => KeyOK(k, bus, todo, crashed)

\* The records before next are restored, the one at next may be so in half, and the other
\* keys are as they were.
RestoreInv ==
    /\ todo = {}
    /\ file \in Seq(DOMAIN new) /\ \A i, j \in 1..Len(file) : file[i] = file[j] => i = j
    /\ next \in 1..Len(file) + 1 /\ half \in BOOLEAN /\ (half => next <= Len(file))
    /\ \A i \in 1..next - 1 : file[i] \in DOMAIN bus /\ bus[file[i]] = new[file[i]]
    /\ half => /\ file[next] \in DOMAIN bus
               /\ bus[file[next]] = [value |-> new[file[next]].value, ttl |-> 0]
    /\ \A k \in Key : ~Contains(file, k) /\ (Persistent(k) \/ ~crashed) => Same(bus, old, k)

ArchiveInv ==
    /\ command \in {"diff", "restore"} /\ old \in Stores /\ new \in Stores
    /\ crashed \in BOOLEAN
    /\ \A k \in DOMAIN bus : bus[k] = [value |-> bus[k].value, ttl |-> bus[k].ttl]
    /\ command = "diff" => file = << >> /\ next = 1 /\ half = FALSE /\ DiffInv
    /\ command = "restore" => RestoreInv

\* The parts of keys and paths.  (All of them are in STRING, but that is beyond the provers.)
Part == STRING \cup {":", "/", "_ttl"}

Text == Seq(Part)

LEMMA Parts == ":" \in Part /\ "/" \in Part /\ "_ttl" \in Part
BY DEF Part

LEMMA KeysAreTexts == Key \subseteq Text
<1>1. Seq(STRING) \subseteq Seq(Part)
  BY SeqMonotonic DEF Part
<1> QED
  BY <1>1, KeyAssumption DEF Text

-----------------------------------------------------------------------------
\* Keys and paths

LEMMA MinOf ==
    ASSUME NEW T, T \subseteq Nat, T # {}
    PROVE  Min(T) \in T /\ \A y \in T : Min(T) <= y
<1> DEFINE Less == {p \in Nat \X Nat : p[1] < p[2]}
<1>1. IsWellFoundedOn(Less, Nat)
  BY NatLessThanWellFounded DEF OpToRel
<1>2. \A x, y \in Nat : <<y, x>> \in Less <=> y < x
  OBVIOUS
<1> HIDE DEF Less
<1>3. PICK x \in T : \A y \in T : ~(<<y, x>> \in Less)
  BY <1>1, WFMin
<1>4. ASSUME NEW y \in T PROVE x <= y
  <2>1. x \in Nat /\ y \in Nat /\ ~(<<y, x>> \in Less)
    BY <1>3
  <2>2. ~(y < x)
    BY <1>2, <2>1
  <2> QED
    BY <2>1, <2>2
<1> QED
  BY <1>4 DEF Min

LEMMA SameText ==
    ASSUME NEW s \in Text, NEW t \in Text, Len(s) = Len(t), \A i \in 1..Len(s) : s[i] = t[i]
    PROVE  s = t
BY DEF Text

\* A text without colons, as the paths of most keys are.
Slashed(q) == q \in Text /\ \A i \in 1..Len(q) : q[i] # ":"

LEMMA ReplaceAllText ==
    ASSUME NEW k \in Text
    PROVE  LET q == ReplaceAll(k, ":", "/")
           IN  /\ Slashed(q) /\ Len(q) = Len(k)
               /\ \A i \in 1..Len(k) : q[i] = IF k[i] = ":" THEN "/" ELSE k[i]
<1> DEFINE q == ReplaceAll(k, ":", "/")
<1>1. Len(k) \in Nat /\ \A i \in 1..Len(k) : k[i] \in Part
  BY DEF Text
<1>2. q = [i \in 1..Len(k) |-> IF k[i] = ":" THEN "/" ELSE k[i]]
  BY DEF ReplaceAll
<1> HIDE DEF q
<1>3. q \in [1..Len(k) -> Part]
  BY <1>1, <1>2, Parts
<1>4. q \in Text /\ Len(q) = Len(k)
  BY <1>1, <1>3 DEF Text
<1> QED
  BY <1>2, <1>4 DEF Slashed, q

\* replacen changes the first slash, if there is one.
LEMMA ReplacenText ==
    ASSUME NEW q \in Text
    PROVE  \/ replacen(q) = q /\ \A i \in 1..Len(q) : q[i] # "/"
           \/ \E m \in 1..Len(q) :
                 /\ q[m] = "/" /\ \A i \in 1..Len(q) : i < m => q[i] # "/"
                 /\ replacen(q) \in Text /\ Len(replacen(q)) = Len(q)
                 /\ replacen(q)[m] = ":"
                 /\ \A i \in 1..Len(q) : i # m => replacen(q)[i] = q[i]
<1>1. Len(q) \in Nat /\ DOMAIN q = 1..Len(q) /\ q \in [1..Len(q) -> Part]
  BY DEF Text
<1>2. CASE ~Contains(q, "/")
  BY <1>2 DEF replacen, Contains
<1>3. CASE Contains(q, "/")
  <2> DEFINE I == {i \in DOMAIN q : q[i] = "/"}
             m == Min(I)
  <2>1. I # {} /\ I \subseteq Nat
    BY <1>1, <1>3 DEF Contains
  <2>2. m \in I /\ \A y \in I : m <= y
    BY <2>1, MinOf
  <2>3. replacen(q) = [q EXCEPT ![m] = ":"]
    BY <1>3 DEF replacen, ReplaceAt
  <2>4. m \in 1..Len(q) /\ q[m] = "/"
    BY <1>1, <2>2
  <2>5. ASSUME NEW i \in 1..Len(q), i < m PROVE q[i] # "/"
    <3>1. \A y \in I : m <= y
      BY <2>2
    <3>2. m \in Nat /\ i \in Nat /\ ~(m <= i)
      BY <1>1, <2>4, <2>5
    <3> HIDE DEF m
    <3>3. i \notin I
      BY <3>1, <3>2
    <3> QED
      BY <1>1, <3>3
  <2> HIDE DEF m, I
  <2>6. replacen(q) \in [1..Len(q) -> Part]
    BY <1>1, <2>3, Parts
  <2>7. replacen(q) \in Text /\ Len(replacen(q)) = Len(q)
    BY <1>1, <2>6 DEF Text
  <2> QED
    BY <1>1, <2>3, <2>4, <2>5, <2>7
<1> QED
  BY <1>2, <1>3

\* A path without colons is the path of the key that it is read as.
LEMMA SlashedBack ==
    ASSUME NEW q, Slashed(q)
    PROVE  /\ replacen(q) \in Text
           /\ ReplaceAll(replacen(q), ":", "/") = q
           /\ tar_path(replacen(q)) = q
<1> DEFINE k == replacen(q)
           r == ReplaceAll(k, ":", "/")
<1>1. q \in Text /\ Len(q) \in Nat
  BY DEF Slashed, Text
<1>2. CASE k = q /\ \A i \in 1..Len(q) : q[i] # "/"
  <2>1. Slashed(r) /\ Len(r) = Len(q) /\ \A i \in 1..Len(q) : r[i] = q[i]
    BY <1>1, <1>2, ReplaceAllText DEF Slashed
  <2>2. r = q
    BY <1>1, <2>1, SameText DEF Slashed
  <2>3. ~Special(k)
    BY <1>1, <1>2 DEF Special, Slashed
  <2> QED
    BY <1>1, <1>2, <2>2, <2>3 DEF tar_path
<1>3. CASE \E m \in 1..Len(q) :
              /\ q[m] = "/" /\ \A i \in 1..Len(q) : i < m => q[i] # "/"
              /\ k \in Text /\ Len(k) = Len(q)
              /\ k[m] = ":"
              /\ \A i \in 1..Len(q) : i # m => k[i] = q[i]
  <2>1. PICK m \in 1..Len(q) :
              /\ q[m] = "/" /\ \A i \in 1..Len(q) : i < m => q[i] # "/"
              /\ k \in Text /\ Len(k) = Len(q)
              /\ k[m] = ":"
              /\ \A i \in 1..Len(q) : i # m => k[i] = q[i]
    BY <1>3
  <2> HIDE DEF k
  <2>2. Slashed(r) /\ Len(r) = Len(q)
        /\ \A i \in 1..Len(q) : r[i] = IF k[i] = ":" THEN "/" ELSE k[i]
    BY <2>1, ReplaceAllText
  <2> HIDE DEF r
  <2>3. r = q
    BY <1>1, <2>1, <2>2, SameText DEF Slashed
  <2>4. CASE Special(k)
    <3>1. k[2] = ":" /\ 2 \in 1..Len(q)
      BY <1>1, <2>1, <2>4 DEF Special
    <3>2. m = 2
      BY <2>1, <3>1 DEF Slashed
    <3>3. tar_path(k) = [k EXCEPT ![2] = "/"]
      BY <2>4 DEF tar_path, ReplaceAt
    <3>4. k \in [1..Len(q) -> Part]
      BY <2>1 DEF Text
    <3>5. tar_path(k) \in [1..Len(q) -> Part]
      BY <3>3, <3>4, Parts
    <3>6. tar_path(k) \in Text /\ Len(tar_path(k)) = Len(q)
      BY <1>1, <3>5 DEF Text
    <3>7. \A i \in 1..Len(q) : tar_path(k)[i] = q[i]
      BY <2>1, <3>1, <3>2, <3>3, <3>4
    <3>8. tar_path(k) = q
      BY <1>1, <3>6, <3>7, SameText
    <3> QED
      BY <2>1, <2>3, <3>8 DEF k, r
  <2>5. CASE ~Special(k)
    BY <2>1, <2>3, <2>5 DEF tar_path, k, r
  <2> QED
    BY <2>4, <2>5
<1> QED
  BY <1>1, <1>2, <1>3, ReplacenText

\* Schemas and relationships come back from their paths.
LEMMA SpecialBack ==
    ASSUME NEW k \in Text, Special(k)
    PROVE  /\ tar_path(k) \in Text /\ ~IsTtl(tar_path(k))
           /\ replacen(tar_path(k)) = k /\ parse_tar_path_to_key(tar_path(k)) = k
<1> DEFINE p == tar_path(k)
<1>1. /\ Len(k) \in Nat /\ Len(k) > 1 /\ k \in [1..Len(k) -> Part]
      /\ k[1] \in {"_schema", "_rel"} /\ k[2] = ":"
  BY DEF Special, Text
<1>2. p = [k EXCEPT ![2] = "/"]
  BY DEF tar_path, ReplaceAt
<1> HIDE DEF p
<1>3. p \in [1..Len(k) -> Part]
  BY <1>1, <1>2, Parts
<1>4. p \in Text /\ Len(p) = Len(k) /\ p[1] = k[1] /\ p[2] = "/"
      /\ \A i \in 1..Len(k) : i # 2 => p[i] = k[i]
  BY <1>1, <1>2, <1>3 DEF Text
<1>5. ~IsTtl(p)
  BY <1>1, <1>4 DEF IsTtl
<1>6. replacen(p) = k
  <2>1. ~(\A i \in 1..Len(p) : p[i] # "/")
    BY <1>1, <1>4
  <2>2. PICK m \in 1..Len(p) :
          /\ p[m] = "/" /\ \A i \in 1..Len(p) : i < m => p[i] # "/"
          /\ replacen(p) \in Text /\ Len(replacen(p)) = Len(p)
          /\ replacen(p)[m] = ":"
          /\ \A i \in 1..Len(p) : i # m => replacen(p)[i] = p[i]
    BY <1>4, <2>1, ReplacenText
  <2>3. m = 2
    BY <1>1, <1>4, <2>2
  <2>4. \A i \in 1..Len(k) : replacen(p)[i] = k[i]
    BY <1>1, <1>4, <2>2, <2>3
  <2> QED
    BY <1>4, <2>2, <2>4, SameText
<1> QED
  BY <1>4, <1>5, <1>6 DEF parse_tar_path_to_key, p

LEMMA PathText ==
    ASSUME NEW k \in Text
    PROVE  tar_path(k) \in Text /\ (~Special(k) => Slashed(tar_path(k)))
BY ReplaceAllText, SpecialBack DEF tar_path, Slashed

LEMMA TtlPathText ==
    ASSUME NEW k \in Text
    PROVE  /\ ttl_path(k) \in Text /\ IsTtl(ttl_path(k))
           /\ SubSeq(ttl_path(k), 3, Len(ttl_path(k))) = ReplaceAll(k, ":", "/")
<1> DEFINE q == ReplaceAll(k, ":", "/")
           p == ttl_path(k)
           r == SubSeq(p, 3, Len(p))
<1>1. q \in Text /\ Len(q) \in Nat
  BY ReplaceAllText DEF Slashed, Text
<1> HIDE DEF q
<1>2. p = <<"_ttl", "/">> \o q
  BY DEF ttl_path, q
<1>3. <<"_ttl", "/">> \in Text
  BY Parts DEF Text
<1>4. /\ p \in Text /\ Len(p) = 2 + Len(q) /\ p[1] = "_ttl" /\ p[2] = "/"
      /\ \A i \in 1..Len(q) : p[i + 2] = q[i]
  BY <1>1, <1>2, <1>3 DEF Text
<1> HIDE DEF p
<1>5. IsTtl(p)
  BY <1>1, <1>4 DEF IsTtl
<1>6. r \in Text /\ Len(r) = Len(q) /\ \A i \in 1..Len(q) : r[i] = p[i + 2]
  BY <1>1, <1>4 DEF Text
<1> HIDE DEF r
<1>7. r = q
  BY <1>1, <1>4, <1>6, SameText
<1> QED
  BY <1>4, <1>5, <1>7 DEF p, q, r

-----------------------------------------------------------------------------
\* Archives

\* The keys whose TTLs are in the archive of s.
TimedKeys(s) == {k \in DOMAIN s : ~Special(k) /\ s[k].ttl > 0}

LEMMA StoreRows ==
    ASSUME NEW s \in Stores
    PROVE  /\ DOMAIN s \subseteq Key /\ DOMAIN s \subseteq Text
           /\ \A k \in DOMAIN s : /\ s[k] = [value |-> s[k].value, ttl |-> s[k].ttl]
                                  /\ s[k].ttl \in Nat
                                  /\ IsRel(k) => s[k].value = Empty
<1>1. s \in UNION {[keys -> Row] : keys \in SUBSET Key}
  BY DEF Stores
<1>2. \A k \in DOMAIN s : IsRel(k) => s[k].value = Empty
  BY DEF Stores
<1>3. DOMAIN s \subseteq Key /\ \A k \in DOMAIN s : s[k] \in Row
  BY <1>1
<1> QED
  BY <1>2, <1>3, RowAssumption, KeysAreTexts

LEMMA Contents ==
    ASSUME NEW s
    PROVE  /\ DOMAIN write_tar_contents(s)
                 = {tar_path(k) : k \in DOMAIN s} \cup {ttl_path(k) : k \in TimedKeys(s)}
           /\ \A p \in {tar_path(k) : k \in DOMAIN s} :
                 \E j \in DOMAIN s :
                    /\ tar_path(j) = p
                    /\ write_tar_contents(s)[p] = [value |-> IF IsRel(j) THEN Empty ELSE s[j].value]
           /\ \A p \in DOMAIN write_tar_contents(s) :
                 "ttl" \in DOMAIN write_tar_contents(s)[p] =>
                    \E j \in TimedKeys(s) :
                        ttl_path(j) = p /\ write_tar_contents(s)[p] = [ttl |-> s[j].ttl]
<1> DEFINE paths == {tar_path(k) : k \in DOMAIN s}
           times == {ttl_path(k) : k \in TimedKeys(s)}
           at(p) == CHOOSE k \in DOMAIN s : tar_path(k) = p
           of(p) == CHOOSE k \in TimedKeys(s) : ttl_path(k) = p
           w == write_tar_contents(s)
<1>1. w = [p \in paths \cup times |->
              IF p \in paths THEN [value |-> IF IsRel(at(p)) THEN Empty ELSE s[at(p)].value]
                             ELSE [ttl |-> s[of(p)].ttl]]
  BY DEF write_tar_contents, TimedKeys
<1>2. \A p \in paths : at(p) \in DOMAIN s /\ tar_path(at(p)) = p
  OBVIOUS
<1>3. \A p \in times : of(p) \in TimedKeys(s) /\ ttl_path(of(p)) = p
  OBVIOUS
<1> HIDE DEF paths, times, at, of, w
<1>4. DOMAIN w = paths \cup times
  BY <1>1
<1>5. \A p \in paths : w[p] = [value |-> IF IsRel(at(p)) THEN Empty ELSE s[at(p)].value]
  BY <1>1
<1>6. \A p \in DOMAIN w : "ttl" \in DOMAIN w[p] => p \notin paths
  <2>1. \A v : DOMAIN [value |-> v] = {"value"}
    OBVIOUS
  <2>2. \A p \in paths : DOMAIN w[p] = {"value"}
    BY <1>5, <2>1
  <2> QED
    BY <2>2
<1>7. \A p \in times : p \notin paths => w[p] = [ttl |-> s[of(p)].ttl]
  BY <1>1
<1>8. \A p \in paths : \E j \in DOMAIN s :
          tar_path(j) = p /\ w[p] = [value |-> IF IsRel(j) THEN Empty ELSE s[j].value]
  BY <1>2, <1>5
<1>9. \A p \in DOMAIN w : "ttl" \in DOMAIN w[p] =>
          \E j \in TimedKeys(s) : ttl_path(j) = p /\ w[p] = [ttl |-> s[j].ttl]
  BY <1>3, <1>4, <1>6, <1>7
<1> QED
  BY <1>4, <1>8, <1>9 DEF w, paths, times

LEMMA PathsAreTexts ==
    ASSUME NEW s \in Stores, NEW p \in DOMAIN write_tar_contents(s)
    PROVE  p \in Text /\ (~IsTtl(p) => \E j \in DOMAIN s : p = tar_path(j))
<1>1. CASE p \in {tar_path(k) : k \in DOMAIN s}
  BY <1>1, StoreRows, PathText
<1>2. CASE p \in {ttl_path(k) : k \in TimedKeys(s)}
  BY <1>2, StoreRows, TtlPathText DEF TimedKeys
<1> QED
  BY <1>1, <1>2, Contents

\* The archive has the value of a faithful key, if it has the key.
LEMMA FaithfulEntry ==
    ASSUME NEW s \in Stores, s = old \/ s = new, NEW k \in Key, Faithful(k)
    PROVE  /\ tar_path(k) \in DOMAIN write_tar_contents(s) <=> k \in DOMAIN s
           /\ k \in DOMAIN s => write_tar_contents(s)[tar_path(k)] = [value |-> s[k].value]
<1>1. \A j \in DOMAIN s : tar_path(j) = tar_path(k) => j = k
  BY DEF Faithful
<1>2. ASSUME tar_path(k) \in DOMAIN write_tar_contents(s) PROVE k \in DOMAIN s
  BY <1>1, <1>2, PathsAreTexts DEF Faithful
<1>3. ASSUME k \in DOMAIN s
      PROVE  /\ tar_path(k) \in DOMAIN write_tar_contents(s)
             /\ write_tar_contents(s)[tar_path(k)] = [value |-> s[k].value]
  <2>1. tar_path(k) \in {tar_path(j) : j \in DOMAIN s}
    BY <1>3
  <2>2. PICK j \in DOMAIN s :
            /\ tar_path(j) = tar_path(k)
            /\ write_tar_contents(s)[tar_path(k)] = [value |-> IF IsRel(j) THEN Empty ELSE s[j].value]
    BY ZenonT(60), <2>1, Contents
  <2>3. j = k
    BY <1>1, <2>2
  <2> QED
    BY <2>1, <2>2, <2>3, Contents, StoreRows
<1> QED
  BY <1>2, <1>3

\* No other path is read as the key, ...
LEMMA OtherPath ==
    ASSUME NEW s \in Stores, s = old \/ s = new, NEW k \in Key, Faithful(k),
           NEW p \in DOMAIN write_tar_contents(s), p # tar_path(k)
    PROVE  parse_tar_path_to_key(p) # k
<1> SUFFICES ASSUME parse_tar_path_to_key(p) = k PROVE FALSE
  OBVIOUS
<1>0. k \in Text /\ p \in Text
  BY KeysAreTexts, PathsAreTexts
<1>1. CASE ~IsTtl(p)
  <2>1. PICK j \in DOMAIN s : p = tar_path(j)
    BY <1>1, PathsAreTexts
  <2>2. j # k /\ j \in Text
    BY <2>1, StoreRows
  <2>3. ~Special(j)
    BY <2>1, <2>2, SpecialBack
  <2>4. Slashed(p)
    BY <2>1, <2>2, <2>3, PathText
  <2>5. replacen(p) = k
    BY <1>1 DEF parse_tar_path_to_key
  <2>6. tar_path(k) = p
    BY <2>4, <2>5, SlashedBack
  <2> QED
    BY <2>6
<1>2. CASE IsTtl(p)
  <2> DEFINE r == SubSeq(p, 3, Len(p))
             x == replacen(r)
             q == ReplaceAll(k, ":", "/")
  <2>1. Len(p) \in Nat /\ Len(p) > 1
    BY <1>0, <1>2 DEF Text, IsTtl
  <2>2. r \in Text
    BY <1>0, <2>1 DEF Text
  <2>3. x \in Text
    BY <2>2, ReplacenText
  <2>4. k = <<"_ttl", ":">> \o x
    BY <1>2 DEF parse_tar_path_to_key
  <2> HIDE DEF x, r
  <2>5. Len(k) \in Nat /\ Len(k) > 1 /\ k[1] = "_ttl" /\ k[2] = ":"
    BY <2>3, <2>4, Parts DEF Text
  <2>6. tar_path(k) = q
    BY <2>5 DEF tar_path, Special
  <2>7. Len(q) = Len(k) /\ q[1] = "_ttl" /\ q[2] = "/"
    BY <1>0, <2>5, ReplaceAllText
  <2> HIDE DEF q
  <2>8. IsTtl(tar_path(k))
    BY <2>5, <2>6, <2>7 DEF IsTtl
  <2> QED
    BY <2>8 DEF Faithful
<1> QED
  BY <1>1, <1>2

\* ... and the only TTL that is applied to the key is its own.
LEMMA OwnTtl ==
    ASSUME NEW s \in Stores, s = old \/ s = new, NEW k \in Key, Faithful(k),
           NEW p \in DOMAIN write_tar_contents(s), "ttl" \in DOMAIN write_tar_contents(s)[p],
           replacen(SubSeq(p, 3, Len(p))) = k
    PROVE  k \in DOMAIN s /\ s[k].ttl > 0
<1>1. PICK j \in TimedKeys(s) : ttl_path(j) = p
  BY Contents
<1>2. j \in DOMAIN s /\ j \in Text /\ ~Special(j) /\ s[j].ttl > 0
  BY StoreRows DEF TimedKeys
<1>3. SubSeq(p, 3, Len(p)) = ReplaceAll(j, ":", "/")
  BY <1>1, <1>2, TtlPathText
<1>4. Slashed(ReplaceAll(j, ":", "/")) /\ tar_path(j) = ReplaceAll(j, ":", "/")
  BY <1>2, ReplaceAllText DEF tar_path
<1>5. tar_path(k) = tar_path(j)
  BY <1>3, <1>4, SlashedBack
<1>6. j = k
  BY <1>2, <1>5 DEF Faithful
<1> QED
  BY <1>2, <1>6

-----------------------------------------------------------------------------
\* The diff import

IsRow(r) == r = [value |-> r.value, ttl |-> r.ttl]

LEMMA RowTtl ==
    ASSUME NEW r, IsRow(r), NEW t
    PROVE  [r EXCEPT !.ttl = t] = [value |-> r.value, ttl |-> t]
BY DEF IsRow

\* c is b but for the TTL of k.
ButForTtl(b, k, c) ==
    /\ DOMAIN c = DOMAIN b
    /\ \A x \in DOMAIN b \ {k} : c[x] = b[x]
    /\ \A x \in DOMAIN b : c[x].value = b[x].value /\ IsRow(c[x])

LEMMA WriteTtl ==
    ASSUME NEW b, \A x \in DOMAIN b : IsRow(b[x]), NEW k, NEW t,
           NEW c, c = write_ttl(b, k, t)
    PROVE  ButForTtl(b, k, c) /\ (k \in DOMAIN b => c[k] = [value |-> b[k].value, ttl |-> t])
<1>1. CASE k \in DOMAIN b
  <2>1. [b[k] EXCEPT !.ttl = t] = [value |-> b[k].value, ttl |-> t]
    BY <1>1, RowTtl
  <2>2. c = M!Insert(b, k, [value |-> b[k].value, ttl |-> t])
    BY <1>1, <2>1 DEF write_ttl
  <2>3. /\ DOMAIN c = DOMAIN b /\ c[k] = [value |-> b[k].value, ttl |-> t]
        /\ \A x \in DOMAIN b \ {k} : c[x] = b[x]
    BY <1>1, <2>2 DEF M!Insert
  <2>4. c[k].value = b[k].value /\ IsRow(c[k])
    BY <2>3 DEF IsRow
  <2>5. \A x \in DOMAIN b : c[x].value = b[x].value /\ IsRow(c[x])
    BY <2>3, <2>4
  <2> QED
    BY <2>3, <2>5 DEF ButForTtl
<1>2. CASE k \notin DOMAIN b
  BY <1>2 DEF write_ttl, ButForTtl
<1> QED
  BY <1>1, <1>2

\* A step on the path p leaves the faithful keys with other paths as they are, but for
\* the TTLs of timed keys.
Untouched(p, b) ==
    \A k \in Key : Faithful(k) /\ p # tar_path(k) =>
        /\ k \in DOMAIN b <=> k \in DOMAIN bus
        /\ k \in DOMAIN b => b[k].value = bus[k].value /\ (Persistent(k) => b[k] = bus[k])

LEMMA ApplyBus ==
    ASSUME ArchiveInv, NEW p, Apply(p)
    PROVE  /\ Untouched(p, bus') /\ \A k \in DOMAIN bus' : IsRow(bus'[k])
           /\ \A k \in Key : Faithful(k) /\ p = tar_path(k) =>
                 /\ k \in DOMAIN new
                 /\ \/ bus' = bus /\ k \in DOMAIN old /\ old[k].value = new[k].value
                    \/ k \in DOMAIN bus' /\ bus'[k] = [value |-> new[k].value, ttl |-> 0]
<1> DEFINE was == write_tar_contents(old)
           is == write_tar_contents(new)
<1>1. /\ p \in DOMAIN is
      /\ bus' = IF p \in DOMAIN was /\ was[p] = is[p] THEN bus ELSE write_diff_entry(bus, p, is[p])
  BY DEF Apply, Added
<1>2. old \in Stores /\ new \in Stores /\ \A k \in DOMAIN bus : IsRow(bus[k])
  BY DEF ArchiveInv, IsRow
<1>3. ASSUME NEW k \in Key, Faithful(k), p = tar_path(k)
      PROVE  /\ k \in DOMAIN new /\ is[p] = [value |-> new[k].value]
             /\ p \in DOMAIN was => k \in DOMAIN old /\ was[p] = [value |-> old[k].value]
             /\ ~IsTtl(p) /\ parse_tar_path_to_key(p) = k
  BY <1>1, <1>2, <1>3, FaithfulEntry DEF Faithful
<1>4. CASE p \in DOMAIN was /\ was[p] = is[p]
  <2>1. bus' = bus
    BY <1>1, <1>4
  <2>2. ASSUME NEW k \in Key, Faithful(k), p = tar_path(k)
        PROVE  k \in DOMAIN new /\ k \in DOMAIN old /\ old[k].value = new[k].value
    <3>1. k \in DOMAIN new /\ k \in DOMAIN old
          /\ [value |-> new[k].value] = [value |-> old[k].value]
      BY <1>3, <1>4, <2>2
    <3>2. \A v, w : [value |-> v] = [value |-> w] => v = w
      OBVIOUS
    <3> QED
      BY <3>1, <3>2
  <2> HIDE DEF was, is
  <2> QED
    BY <1>2, <2>1, <2>2 DEF Untouched
<1>5. CASE ~(p \in DOMAIN was /\ was[p] = is[p])
  <2>1. bus' = write_diff_entry(bus, p, is[p])
    BY <1>1, <1>5
  <2>2. CASE ~IsTtl(p)
    <3> DEFINE j == parse_tar_path_to_key(p)
               v == is[p].value
    <3>1. bus' = write_value(bus, j, v)
      BY <2>1, <2>2 DEF write_diff_entry
    <3>2. \A k \in Key : Faithful(k) /\ p # tar_path(k) => j # k
      BY <1>1, <1>2, OtherPath
    <3>3. \A k \in Key : Faithful(k) /\ p = tar_path(k) =>
              k \in DOMAIN new /\ v = new[k].value /\ j = k
      <4>1. \A w : [value |-> w].value = w
        OBVIOUS
      <4> QED
        BY <1>3, <4>1
    <3> HIDE DEF j, v, was, is
    <3>4. /\ DOMAIN bus' = DOMAIN bus \cup {j} /\ bus'[j] = [value |-> v, ttl |-> 0]
          /\ \A x \in DOMAIN bus \ {j} : bus'[x] = bus[x]
      BY <3>1 DEF write_value, M!Insert
    <3>5. Untouched(p, bus')
      BY <3>2, <3>4 DEF Untouched
    <3>6. IsRow(bus'[j])
      BY <3>4 DEF IsRow
    <3>7. \A k \in DOMAIN bus' : IsRow(bus'[k])
      BY <1>2, <3>4, <3>6
    <3>8. \A k \in Key : Faithful(k) /\ p = tar_path(k) =>
              /\ k \in DOMAIN new
              /\ k \in DOMAIN bus' /\ bus'[k] = [value |-> new[k].value, ttl |-> 0]
      BY <3>3, <3>4
    <3> QED
      BY <3>5, <3>7, <3>8
  <2>3. CASE IsTtl(p) /\ "ttl" \in DOMAIN is[p]
    <3> DEFINE j == replacen(SubSeq(p, 3, Len(p)))
               t == is[p].ttl
    <3>1. bus' = write_ttl(bus, j, t)
      BY <2>1, <2>3 DEF write_diff_entry
    <3>2. \A k \in Key : Faithful(k) /\ j = k => ~Persistent(k)
      <4> SUFFICES ASSUME NEW k \in Key, Faithful(k), j = k, Persistent(k) PROVE FALSE
        OBVIOUS
      <4>1. k \in DOMAIN new /\ new[k].ttl > 0
        BY <1>1, <1>2, <2>3, OwnTtl
      <4>2. new[k].ttl = 0
        BY <4>1 DEF Persistent
      <4> QED
        BY <4>1, <4>2
    <3>3. \A k \in Key : Faithful(k) => p # tar_path(k)
      BY <2>3 DEF Faithful
    <3> HIDE DEF j, t, was, is
    <3>4. ButForTtl(bus, j, bus')
      BY <1>2, <3>1, WriteTtl
    <3>5. Untouched(p, bus')
      BY <3>2, <3>4 DEF Untouched, ButForTtl
    <3> QED
      BY <3>3, <3>4, <3>5 DEF ButForTtl
  <2>4. CASE IsTtl(p) /\ "ttl" \notin DOMAIN is[p]
    <3>1. bus' = bus
      BY <2>1, <2>4 DEF write_diff_entry
    <3>2. \A k \in Key : Faithful(k) => p # tar_path(k)
      BY <2>4 DEF Faithful
    <3> HIDE DEF was, is
    <3> QED
      BY <1>2, <3>1, <3>2 DEF Untouched
  <2> QED
    BY <2>2, <2>3, <2>4
<1> QED
  BY <1>4, <1>5

LEMMA DeleteBus ==
    ASSUME ArchiveInv, command = "diff", NEW p, Delete(p)
    PROVE  /\ Untouched(p, bus') /\ \A k \in DOMAIN bus' : IsRow(bus'[k])
           /\ \A k \in Key : Faithful(k) /\ p = tar_path(k) =>
                 k \notin DOMAIN new /\ k \notin DOMAIN bus'
<1> DEFINE j == parse_tar_path_to_key(p)
<1>1. p \in Dropped /\ bus' = M!Remove(bus, j)
  BY DEF Delete, ArchiveInv, DiffInv
<1>2. old \in Stores /\ new \in Stores /\ \A k \in DOMAIN bus : IsRow(bus[k])
  BY DEF ArchiveInv, IsRow
<1>3. /\ p \in DOMAIN write_tar_contents(old) /\ p # Version
      /\ p \notin DOMAIN write_tar_contents(new)
  BY <1>1 DEF Dropped, Added
<1>4. \A k \in Key : Faithful(k) /\ p # tar_path(k) => j # k
  BY <1>2, <1>3, OtherPath
<1>5. \A k \in Key : Faithful(k) /\ p = tar_path(k) => k \notin DOMAIN new /\ j = k
  <2> SUFFICES ASSUME NEW k \in Key, Faithful(k), p = tar_path(k)
               PROVE  k \notin DOMAIN new /\ j = k
    OBVIOUS
  <2>1. k \notin DOMAIN new
    BY <1>2, <1>3, FaithfulEntry
  <2> QED
    BY <2>1 DEF Faithful
<1> HIDE DEF j
<1>6. DOMAIN bus' = DOMAIN bus \ {j} /\ \A x \in DOMAIN bus \ {j} : bus'[x] = bus[x]
  BY <1>1 DEF M!Remove, M!RemoveAll
<1>7. Untouched(p, bus')
  BY <1>4, <1>6 DEF Untouched
<1> QED
  BY <1>2, <1>5, <1>6, <1>7

\* The invariant of the diff import in terms of the archives, which do not change.
LEMMA DiffInvPrime ==
    ASSUME old' = old, new' = new, todo' \subseteq Added \cup Dropped,
           \A k \in Key : Faithful(k) => KeyOK(k, bus', todo', crashed')
    PROVE  DiffInv'
<1>1. Added' = Added /\ Dropped' = Dropped
  BY DEF Added, Dropped, write_tar_contents
<1>2. ASSUME NEW k \in Key, Faithful(k)' PROVE KeyOK(k, bus, todo, crashed)'
  <2>1. Faithful(k)
    BY <1>2 DEF Faithful
  <2>2. KeyOK(k, bus', todo', crashed')
    BY <2>1
  <2> QED
    BY <2>2 DEF KeyOK, Persistent
<1> QED
  BY <1>1, <1>2 DEF DiffInv

LEMMA SameStays ==
    ASSUME NEW b, NEW c, NEW s, NEW k, k \in DOMAIN c <=> k \in DOMAIN b,
           k \in DOMAIN c => c[k] = b[k], Same(b, s, k)
    PROVE  Same(c, s, k)
BY DEF Same

LEMMA SameValueStays ==
    ASSUME NEW b, NEW c, NEW s, NEW k, k \in DOMAIN c <=> k \in DOMAIN b,
           k \in DOMAIN c => c[k].value = b[k].value, SameValue(b, s, k)
    PROVE  SameValue(c, s, k)
BY DEF SameValue

LEMMA DiffStep ==
    ASSUME ArchiveInv, command = "diff", NEW p \in todo, todo' = todo \ {p},
           command' = command, old' = old, new' = new, file' = file, next' = next, half' = half,
           crashed' = crashed, Untouched(p, bus'), \A k \in DOMAIN bus' : IsRow(bus'[k]),
           \A k \in Key : Faithful(k) /\ p = tar_path(k) =>
               /\ ~crashed => SameValue(bus', new, k)
               /\ Persistent(k) => Same(bus', new, k)
    PROVE  ArchiveInv'
<1>1. ASSUME NEW k \in Key, Faithful(k) PROVE KeyOK(k, bus', todo', crashed')
  <2>1. KeyOK(k, bus, todo, crashed)
    BY <1>1 DEF ArchiveInv, DiffInv
  <2>2. CASE p = tar_path(k)
    BY <1>1, <2>2 DEF KeyOK
  <2>3. CASE p # tar_path(k)
    <3>1. /\ k \in DOMAIN bus' <=> k \in DOMAIN bus
          /\ k \in DOMAIN bus' => bus'[k].value = bus[k].value
          /\ k \in DOMAIN bus' /\ Persistent(k) => bus'[k] = bus[k]
      BY <1>1, <2>3 DEF Untouched
    <3>2. tar_path(k) \in todo' <=> tar_path(k) \in todo
      BY <2>3
    <3>3. /\ SameValue(bus, old, k) => SameValue(bus', old, k)
          /\ SameValue(bus, new, k) => SameValue(bus', new, k)
      BY <3>1, SameValueStays
    <3>4. Persistent(k) => /\ Same(bus, old, k) => Same(bus', old, k)
                           /\ Same(bus, new, k) => Same(bus', new, k)
      BY <3>1, SameStays
    <3> QED
      BY <2>1, <3>2, <3>3, <3>4 DEF KeyOK
  <2> QED
    BY <2>2, <2>3
<1>2. todo' \subseteq Added \cup Dropped
  BY DEF ArchiveInv, DiffInv
<1>3. DiffInv'
  BY <1>1, <1>2, DiffInvPrime
<1> QED
  BY <1>3 DEF ArchiveInv, IsRow

LEMMA NoEntries ==
    ASSUME ArchiveInv, todo # {}
    PROVE  command = "diff"
BY DEF ArchiveInv, RestoreInv

LEMMA ApplyOK ==
    ASSUME ArchiveInv, NEW p, Apply(p)
    PROVE  ArchiveInv'
<1>1. /\ p \in todo /\ todo' = todo \ {p}
      /\ command' = command /\ old' = old /\ new' = new /\ file' = file /\ next' = next
      /\ half' = half /\ crashed' = crashed
  BY DEF Apply
<1>2. command = "diff"
  BY <1>1, NoEntries
<1>3. Untouched(p, bus') /\ \A k \in DOMAIN bus' : IsRow(bus'[k])
  BY ApplyBus
<1>4. ASSUME NEW k \in Key, Faithful(k), p = tar_path(k)
      PROVE  /\ ~crashed => SameValue(bus', new, k)
             /\ Persistent(k) => Same(bus', new, k)
  <2>1. /\ k \in DOMAIN new
        /\ \/ bus' = bus /\ k \in DOMAIN old /\ old[k].value = new[k].value
           \/ k \in DOMAIN bus' /\ bus'[k] = [value |-> new[k].value, ttl |-> 0]
    BY <1>4, ApplyBus
  <2>2. KeyOK(k, bus, todo, crashed)
    BY <1>2, <1>4 DEF ArchiveInv, DiffInv
  <2>3. /\ new[k] = [value |-> new[k].value, ttl |-> new[k].ttl]
        /\ k \in DOMAIN old => old[k] = [value |-> old[k].value, ttl |-> old[k].ttl]
    BY <2>1, StoreRows DEF ArchiveInv
  <2>4. Persistent(k) => new[k].ttl = 0 /\ (k \in DOMAIN old => old[k].ttl = 0)
    BY <2>1 DEF Persistent
  <2>5. CASE bus' = bus /\ k \in DOMAIN old /\ old[k].value = new[k].value
    <3>1. Persistent(k) => old[k] = new[k]
      BY <2>3, <2>4, <2>5
    <3> QED
      BY <1>1, <1>4, <2>1, <2>2, <2>5, <3>1 DEF KeyOK, Same, SameValue
  <2>6. CASE k \in DOMAIN bus' /\ bus'[k] = [value |-> new[k].value, ttl |-> 0]
    <3>1. bus'[k].value = new[k].value
      BY <2>6
    <3>2. Persistent(k) => bus'[k] = new[k]
      BY <2>3, <2>4, <2>6
    <3> QED
      BY <2>1, <2>6, <3>1, <3>2 DEF Same, SameValue
  <2> QED
    BY <2>1, <2>5, <2>6
<1> QED
  BY <1>1, <1>2, <1>3, <1>4, DiffStep

LEMMA DeleteOK ==
    ASSUME ArchiveInv, NEW p, Delete(p)
    PROVE  ArchiveInv'
<1>1. /\ p \in todo /\ todo' = todo \ {p}
      /\ command' = command /\ old' = old /\ new' = new /\ file' = file /\ next' = next
      /\ half' = half /\ crashed' = crashed
  BY DEF Delete
<1>2. command = "diff"
  BY <1>1, NoEntries
<1>3. /\ Untouched(p, bus') /\ \A k \in DOMAIN bus' : IsRow(bus'[k])
      /\ \A k \in Key : Faithful(k) /\ p = tar_path(k) =>
            k \notin DOMAIN new /\ k \notin DOMAIN bus'
  BY <1>2, DeleteBus
<1>4. \A k \in Key : Faithful(k) /\ p = tar_path(k) =>
          SameValue(bus', new, k) /\ Same(bus', new, k)
  BY <1>3 DEF Same, SameValue
<1> QED
  BY <1>1, <1>2, <1>3, <1>4, DiffStep

-----------------------------------------------------------------------------
\* The restore

LEMMA Restoring ==
    ASSUME ArchiveInv, half \/ next <= Len(file)
    PROVE  command = "restore" /\ RestoreInv
<1>1. Len(<< >>) = 0
  OBVIOUS
<1> QED
  BY <1>1 DEF ArchiveInv

\* A step of the restore changes the key of the record at next.
LEMMA RestoreStep ==
    ASSUME ArchiveInv, command = "restore", RestoreInv, next <= Len(file),
           command' = command, old' = old, new' = new, todo' = todo, file' = file,
           crashed' = crashed,
           DOMAIN bus' = DOMAIN bus \cup {file[next]},
           \A x \in DOMAIN bus \ {file[next]} : bus'[x] = bus[x],
           IsRow(bus'[file[next]]), half' \in BOOLEAN,
           \/ /\ half' /\ next' = next
              /\ bus'[file[next]] = [value |-> new[file[next]].value, ttl |-> 0]
           \/ ~half' /\ next' = next + 1 /\ bus'[file[next]] = new[file[next]]
    PROVE  ArchiveInv'
<1> DEFINE k == file[next]
           n == Len(file)
<1>1. /\ todo = {} /\ file \in Seq(DOMAIN new) /\ n \in Nat /\ next \in 1..n
      /\ \A i, j \in 1..n : file[i] = file[j] => i = j
      /\ \A i \in 1..next - 1 : file[i] \in DOMAIN bus /\ bus[file[i]] = new[file[i]]
      /\ \A x \in Key : ~Contains(file, x) /\ (Persistent(x) \/ ~crashed) => Same(bus, old, x)
  BY DEF RestoreInv
<1>2. Contains(file, k)
  BY <1>1 DEF Contains
<1>3. ASSUME NEW i \in 1..next - 1 PROVE file[i] \in DOMAIN bus' /\ bus'[file[i]] = new[file[i]]
  <2>1. file[i] # k
    BY <1>1
  <2> QED
    BY <1>1, <2>1
<1>4. ASSUME NEW i \in 1..next' - 1 PROVE file[i] \in DOMAIN bus' /\ bus'[file[i]] = new[file[i]]
  <2>1. CASE i \in 1..next - 1
    BY <1>3, <2>1
  <2>2. CASE i = next
    BY <1>1, <2>2
  <2> QED
    BY <1>1, <2>1, <2>2
<1>5. ASSUME NEW x \in Key, ~Contains(file, x), Persistent(x) \/ ~crashed PROVE Same(bus', old, x)
  <2>1. x # k /\ Same(bus, old, x)
    BY <1>1, <1>2, <1>5
  <2>2. /\ x \in DOMAIN bus' <=> x \in DOMAIN bus
        /\ x \in DOMAIN bus' => bus'[x] = bus[x]
    BY <2>1
  <2> QED
    BY <2>1, <2>2, SameStays
<1>6. \A x \in Key : Persistent(x)' => Persistent(x)
  BY DEF Persistent
<1>7. next' \in 1..n + 1 /\ (half' => next' <= n /\ next' = next)
  BY <1>1
<1>8. k \in DOMAIN bus'
  OBVIOUS
<1>9. half' => /\ file[next'] \in DOMAIN bus'
              /\ bus'[file[next']] = [value |-> new[file[next']].value, ttl |-> 0]
  BY <1>7, <1>8
<1>10. RestoreInv'
  BY <1>1, <1>4, <1>5, <1>6, <1>7, <1>9 DEF RestoreInv
<1>11. \A x \in DOMAIN bus' : bus'[x] = [value |-> bus'[x].value, ttl |-> bus'[x].ttl]
  BY DEF ArchiveInv, IsRow
<1> QED
  BY <1>10, <1>11 DEF ArchiveInv

LEMMA RestoreValueOK ==
    ASSUME ArchiveInv, RestoreValue
    PROVE  ArchiveInv'
<1> DEFINE k == file[next]
<1>1. /\ next <= Len(file) /\ ~half /\ bus' = write_value(bus, k, new[k].value)
      /\ half' = (new[k].ttl > 0) /\ next' = IF half' THEN next ELSE next + 1
      /\ command' = command /\ old' = old /\ new' = new /\ todo' = todo /\ file' = file
      /\ crashed' = crashed
  BY DEF RestoreValue
<1>2. command = "restore" /\ RestoreInv
  BY <1>1, Restoring
<1>3. k \in DOMAIN new
  <2>1. file \in Seq(DOMAIN new) /\ next \in 1..Len(file)
    BY <1>1, <1>2 DEF RestoreInv
  <2> QED
    BY <2>1
<1>4. new[k] = [value |-> new[k].value, ttl |-> new[k].ttl] /\ new[k].ttl \in Nat
  BY <1>3, StoreRows DEF ArchiveInv
<1> HIDE DEF k
<1>5. /\ DOMAIN bus' = DOMAIN bus \cup {k} /\ bus'[k] = [value |-> new[k].value, ttl |-> 0]
      /\ \A x \in DOMAIN bus \ {k} : bus'[x] = bus[x]
  BY <1>1 DEF write_value, M!Insert
<1>6. IsRow(bus'[k])
  BY <1>5 DEF IsRow
<1>7. CASE half'
  <2>1. next' = next /\ half' \in BOOLEAN
    BY <1>1, <1>7
  <2> QED
    BY <1>1, <1>2, <1>5, <1>6, <1>7, <2>1, RestoreStep DEF k
<1>8. CASE ~half'
  <2>1. new[k].ttl = 0
    <3> DEFINE timed == new[k].ttl > 0
    <3>1. half' = timed
      BY <1>1
    <3> HIDE DEF timed
    <3>2. ~timed
      BY <1>8, <3>1, Zenon
    <3> QED
      BY <1>4, <3>2 DEF timed
  <2>2. bus'[k] = new[k]
    BY <1>4, <1>5, <2>1
  <2>3. next' = next + 1 /\ half' \in BOOLEAN
    BY <1>1, <1>8
  <2> QED
    BY <1>1, <1>2, <1>5, <1>6, <1>8, <2>2, <2>3, RestoreStep DEF k
<1> QED
  BY <1>7, <1>8

LEMMA RestoreTtlOK ==
    ASSUME ArchiveInv, RestoreTtl
    PROVE  ArchiveInv'
<1> DEFINE k == file[next]
           t == new[k].ttl
<1>1. /\ half /\ bus' = write_ttl(bus, k, t) /\ half' = FALSE /\ next' = next + 1
      /\ command' = command /\ old' = old /\ new' = new /\ todo' = todo /\ file' = file
      /\ crashed' = crashed
  BY DEF RestoreTtl
<1>2. command = "restore" /\ RestoreInv
  BY <1>1, Restoring
<1>3. /\ next \in 1..Len(file) /\ file \in Seq(DOMAIN new) /\ k \in DOMAIN bus
      /\ bus[k] = [value |-> new[k].value, ttl |-> 0]
  BY <1>1, <1>2 DEF RestoreInv
<1>4. k \in DOMAIN new
  BY <1>3
<1>5. new[k] = [value |-> new[k].value, ttl |-> t]
  BY <1>4, StoreRows DEF ArchiveInv
<1>6. \A x \in DOMAIN bus : IsRow(bus[x])
  BY DEF ArchiveInv, IsRow
<1> HIDE DEF k, t
<1>7. ButForTtl(bus, k, bus') /\ bus'[k] = [value |-> bus[k].value, ttl |-> t]
  BY <1>1, <1>3, <1>6, WriteTtl
<1>8. bus[k].value = new[k].value
  BY <1>3
<1>9. bus'[k] = new[k]
  BY <1>5, <1>7, <1>8
<1>10. /\ DOMAIN bus' = DOMAIN bus \cup {k} /\ IsRow(bus'[k])
       /\ \A x \in DOMAIN bus \ {k} : bus'[x] = bus[x]
  BY <1>3, <1>7 DEF ButForTtl
<1>11. half' \in BOOLEAN /\ ~half'
  BY <1>1, Zenon
<1>12. next <= Len(file)
  BY <1>3
<1> QED
  BY <1>1, <1>2, <1>9, <1>10, <1>11, <1>12, RestoreStep DEF k

-----------------------------------------------------------------------------

\* What a crash leaves of the store.
LEMMA Kept ==
    ASSUME Crash
    PROVE  /\ DOMAIN bus' = {k \in DOMAIN bus : bus[k].ttl = 0}
           /\ \A k \in DOMAIN bus' : bus'[k] = bus[k]
BY DEF Crash, M!Keep

LEMMA KeptSame ==
    ASSUME Crash, NEW s, NEW k, k \in DOMAIN s => s[k].ttl = 0, Same(bus, s, k)
    PROVE  Same(bus', s, k)
BY Kept DEF Same

LEMMA CrashOK ==
    ASSUME ArchiveInv, Crash
    PROVE  ArchiveInv'
<1>1. /\ crashed' = TRUE /\ next' = 1 /\ half' = FALSE
      /\ todo' = IF command = "diff" THEN Added \cup Dropped ELSE {}
      /\ command' = command /\ old' = old /\ new' = new /\ file' = file
  BY DEF Crash
<1>2. \A k \in DOMAIN bus' : bus'[k] = [value |-> bus'[k].value, ttl |-> bus'[k].ttl]
  BY Kept DEF ArchiveInv
<1>3. old \in Stores /\ new \in Stores
  BY DEF ArchiveInv
<1>4. ASSUME command = "diff" PROVE DiffInv'
  <2>1. todo' = Added \cup Dropped
    BY <1>1, <1>4
  <2>2. ASSUME NEW k \in Key, Faithful(k) PROVE KeyOK(k, bus', todo', crashed')
    <3>1. KeyOK(k, bus, todo, crashed)
      BY <1>4, <2>2 DEF ArchiveInv, DiffInv
    <3>2. Persistent(k) => Same(bus', old, k) \/ Same(bus', new, k)
      BY <3>1, KeptSame DEF KeyOK, Persistent
    <3>3. tar_path(k) \notin todo' => k \notin DOMAIN old /\ k \notin DOMAIN new
      BY <1>3, <2>1, <2>2, FaithfulEntry DEF Added, Dropped, Faithful
    <3> QED
      BY <1>1, <3>2, <3>3 DEF KeyOK, Same
  <2> QED
    BY <1>1, <2>1, <2>2, DiffInvPrime
<1>5. ASSUME command = "restore" PROVE RestoreInv'
  <2>1. /\ todo' = {} /\ file \in Seq(DOMAIN new) /\ Len(file) \in Nat
        /\ \A i, j \in 1..Len(file) : file[i] = file[j] => i = j
        /\ \A x \in Key : ~Contains(file, x) /\ (Persistent(x) \/ ~crashed) => Same(bus, old, x)
    BY <1>1, <1>5 DEF ArchiveInv, RestoreInv
  <2>2. ASSUME NEW x \in Key, ~Contains(file, x), Persistent(x) PROVE Same(bus', old, x)
    BY <2>1, <2>2, KeptSame DEF Persistent
  <2>3. \A x \in Key : Persistent(x)' => Persistent(x)
    BY <1>1 DEF Persistent
  <2>4. next' \in 1..Len(file) + 1 /\ \A i \in 1..next' - 1 : FALSE
    BY <1>1, <2>1
  <2> QED
    BY <1>1, <2>1, <2>2, <2>3, <2>4 DEF RestoreInv
<1> QED
  BY <1>1, <1>2, <1>4, <1>5 DEF ArchiveInv

LEMMA Listing ==
    ASSUME NEW S, IsFiniteSet(S)
    PROVE  /\ Cardinality(S) \in Nat /\ SetToSeq(S) \in Seq(S) /\ Len(SetToSeq(S)) = Cardinality(S)
           /\ \A i, j \in 1..Cardinality(S) : SetToSeq(S)[i] = SetToSeq(S)[j] => i = j
<1>1. Cardinality(S) \in Nat /\ ExistsBijection(1..Cardinality(S), S)
  BY FS_CardinalityType
<1>2. \E f \in [1..Cardinality(S) -> S] : IsInjective(f)
  BY <1>1 DEF ExistsBijection, Bijection, Injection, IsInjective
<1>3. SetToSeq(S) \in [1..Cardinality(S) -> S] /\ IsInjective(SetToSeq(S))
  BY <1>2 DEF SetToSeq
<1> HIDE DEF SetToSeq
<1> QED
  BY <1>1, <1>3 DEF IsInjective

\* A dump has no key twice.
LEMMA DumpOnce ==
    ASSUME NEW s \in Stores, NEW f \in Dumps(s)
    PROVE  f \in Seq(DOMAIN s) /\ \A i, j \in 1..Len(f) : f[i] = f[j] => i = j
<1> DEFINE all == SetToSeq(DOMAIN s)
           c == Cardinality(DOMAIN s)
<1>1. IsFiniteSet(DOMAIN s)
  BY StoreRows, KeyAssumption, FS_Subset
<1>2. /\ c \in Nat /\ all \in Seq(DOMAIN s) /\ Len(all) = c
      /\ \A i, j \in 1..c : all[i] = all[j] => i = j
  BY <1>1, Listing
<1>3. PICK n \in 0..c : f = SubSeq(all, 1, n)
  BY DEF Dumps
<1> HIDE DEF all, c
<1>4. f \in Seq(DOMAIN s) /\ Len(f) = n /\ \A i \in 1..n : f[i] = all[i]
  BY <1>2, <1>3
<1>5. \A i \in 1..n : i \in 1..c
  BY <1>2
<1> QED
  BY <1>2, <1>4, <1>5

LEMMA InitOK == Init => ArchiveInv
<1> SUFFICES ASSUME Init PROVE ArchiveInv
  OBVIOUS
<1>1. /\ command \in {"diff", "restore"} /\ old \in Stores /\ new \in Stores /\ bus = old
      /\ todo = (IF command = "diff" THEN Added \cup Dropped ELSE {})
      /\ file \in (IF command = "restore" THEN Dumps(new) ELSE {<< >>})
      /\ next = 1 /\ half = FALSE /\ crashed = FALSE
  BY DEF Init
<1>2. \A k \in DOMAIN bus : bus[k] = [value |-> bus[k].value, ttl |-> bus[k].ttl]
  BY <1>1, StoreRows
<1>3. ASSUME command = "diff" PROVE file = << >> /\ DiffInv
  <2>1. ASSUME NEW k \in Key, Faithful(k) PROVE KeyOK(k, bus, todo, crashed)
    <3>1. tar_path(k) \notin todo => k \notin DOMAIN old /\ k \notin DOMAIN new
      BY <1>1, <1>3, <2>1, FaithfulEntry DEF Added, Dropped, Faithful
    <3> QED
      BY <1>1, <3>1 DEF KeyOK, Same, SameValue
  <2> QED
    BY <1>1, <1>3, <2>1 DEF DiffInv
<1>4. ASSUME command = "restore" PROVE RestoreInv
  <2>1. file \in Seq(DOMAIN new) /\ \A i, j \in 1..Len(file) : file[i] = file[j] => i = j
    BY <1>1, <1>4, DumpOnce
  <2>2. \A k : Same(bus, old, k)
    BY <1>1 DEF Same
  <2>3. todo = {} /\ Len(file) \in Nat
    BY <1>1, <1>4, <2>1
  <2>4. next \in 1..Len(file) + 1 /\ \A i \in 1..next - 1 : FALSE
    BY <1>1, <2>3
  <2> QED
    BY <1>1, <2>1, <2>2, <2>3, <2>4 DEF RestoreInv
<1> QED
  BY <1>1, <1>2, <1>3, <1>4 DEF ArchiveInv

LEMMA NextOK == ArchiveInv /\ [Next]_vars => ArchiveInv'
<1> SUFFICES ASSUME ArchiveInv, [Next]_vars PROVE ArchiveInv'
  OBVIOUS
<1>1. CASE Next
  BY <1>1, ApplyOK, DeleteOK, RestoreValueOK, RestoreTtlOK, CrashOK DEF Next
<1>2. CASE UNCHANGED vars
  <2>1. /\ command' = command /\ old' = old /\ new' = new /\ bus' = bus /\ todo' = todo
        /\ file' = file /\ next' = next /\ half' = half /\ crashed' = crashed
    BY <1>2 DEF vars
  <2>2. DiffInv => DiffInv'
    BY <2>1, DiffInvPrime DEF DiffInv
  <2>3. RestoreInv => RestoreInv'
    BY <2>1 DEF RestoreInv, Persistent
  <2> QED
    BY <2>1, <2>2, <2>3 DEF ArchiveInv
<1> QED
  BY <1>1, <1>2

LEMMA Invariant == Spec => []ArchiveInv
BY InitOK, NextOK, PTL DEF Spec

\* A diff import brings every persistent key with a faithful path to its state in the new
\* archive, in any order of the entries and with a crash after which it is run again
\* (parse_diff_import).
THEOREM DiffsApplied == Spec => []DiffApplied
<1>1. ArchiveInv => DiffApplied
  BY DEF ArchiveInv, DiffInv, KeyOK, DiffApplied, Finished, Same, SameIn
<1> QED
  BY <1>1, Invariant, PTL

\* A diff import that is not interrupted gives every key with a faithful path its value in
\* the new archive, whatever the TTLs, and deletes it if it is not there (parse_diff_import,
\* write_diff_entry).
THEOREM DiffValuesApplied == Spec => []ValuesApplied
<1>1. ArchiveInv => ValuesApplied
  BY DEF ArchiveInv, DiffInv, KeyOK, ValuesApplied, Finished, SameValue
<1> QED
  BY <1>1, Invariant, PTL

\* A restore gives every key with a whole record its value and TTL and leaves the other rows
\* alone, run again after a crash if need be (render_restore).
THEOREM RestoresExact == Spec => []RestoreExact
<1>1. ArchiveInv => RestoreExact
  <2> SUFFICES ASSUME ArchiveInv, command = "restore", Finished, NEW k \in Key
               PROVE  IF Contains(file, k) THEN k \in DOMAIN bus /\ bus[k] = new[k]
                      ELSE (Persistent(k) \/ ~crashed) => SameIn(old, k)
    BY DEF RestoreExact
  <2>1. RestoreInv /\ next > Len(file)
    BY DEF ArchiveInv, Finished
  <2>2. CASE Contains(file, k)
    <3>1. PICK i \in 1..Len(file) : file[i] = k
      BY <2>2 DEF Contains
    <3>2. i \in 1..next - 1
      BY <2>1, <3>1 DEF RestoreInv
    <3> QED
      BY <2>1, <2>2, <3>1, <3>2 DEF RestoreInv
  <2>3. CASE ~Contains(file, k)
    BY <2>1, <2>3 DEF RestoreInv, Same, SameIn
  <2> QED
    BY <2>2, <2>3
<1> QED
  BY <1>1, Invariant, PTL

=============================================================================
