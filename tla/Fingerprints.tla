---------------------------- MODULE Fingerprints ----------------------------
(***************************************************************************)
(* Fingerprints of snapshots (src/refresh_engine/fingerprints.py): a value *)
(* is encoded into a canonical byte string, type by type, and hashed.      *)
(* Whether a resource has changed is decided by comparing the hashes, so   *)
(* two different values with one encoding are a change nobody sees, and    *)
(* one value with two encodings is a change in every refresh.              *)
(*                                                                         *)
(* A value is a record of its type and its contents.  Texts are given as   *)
(* their UTF-8 bytes (isoformat, str and as_posix included), floats and    *)
(* UUIDs as the bytes they are packed into.  SHA-256 is the identity, that *)
(* is, free of collisions.  A length takes one byte, not eight.  The state *)
(* is two values that applications nest into each other.                   *)
(***************************************************************************)
EXTENDS Integers, Sequences, SequencesExt

CONSTANTS
    Classes,        \* type -> its name (bytes), the types it derives from, and
                    \*   the form of value it is (see Canonical)
    Atoms,          \* the values that are not built from other values
    Absent,         \* None
    MaxNested       \* bound: values nested

VARIABLES
    built,          \* the value under construction, if any
    nested          \* for the bound

fingerprintsVars == <<built, nested>>

----------------------------------------------------------------------------
(* The encoders.  Bytes are numbers, a tag is the code of its letter. *)

Text(tag, text) == <<tag, Len(text)>> \o text

\* int.to_bytes, signed: (bit_length + 8) // 8 bytes.
BitLength(n) ==
    LET size == IF n < 0 THEN -n ELSE n
    IN  CHOOSE b \in 0..20 : size < 2 ^ b /\ (b > 0 => size >= 2 ^ (b - 1))
Signed(n) ==
    LET width == (BitLength(n) + 8) \div 8
    IN  Text(73, [i \in 1..width |->
                    ((n % 256 ^ width) \div 256 ^ (width - i)) % 256])

Before(s, t) ==                                        \* the order of bytes
    \/ IsStrictPrefix(s, t)
    \/ \E i \in 1..Len(s) \cap 1..Len(t) :
          /\ s[i] < t[i]
          /\ \A j \in 1..(i - 1) : s[j] = t[j]

AsGiven(entries) == entries                                         \* mutant
SortedByKey(entries) == SortSeq(entries, LAMBDA p, q : Before(p[1], q[1]))

Counted(tag, parts) == <<tag, Len(parts)>> \o FlattenSeq(parts)

TextTags ==
    [str |-> 83, bytes |-> 66, datetime |-> 90, date |-> 89, time |-> 72,
     Decimal |-> 67, PurePath |-> 80]

Exact ==
    [NoneType |-> "NoneType", bool |-> "bool", int |-> "int", float |-> "float",
     str |-> "str", bytes |-> "bytes", bytearray |-> "bytes",
     memoryview |-> "bytes", list |-> "Sequence", tuple |-> "Sequence",
     dict |-> "Mapping", MappingProxyType |-> "Mapping", set |-> "Set",
     frozenset |-> "Set", datetime |-> "datetime", date |-> "date",
     time |-> "time", timedelta |-> "timedelta", Decimal |-> "Decimal",
     UUID |-> "UUID"]

\* _BY_BASE, and what _encoder_for tries after it.
EnumsLast ==                                                        \* mutant
    <<"bool", "int", "float", "str", "bytes", "datetime", "date", "time",
      "timedelta", "Decimal", "UUID", "PurePath", "Enum", "dataclass",
      "Mapping", "Set", "Sequence">>
ByBase ==
    <<"Enum", "bool", "int", "float", "str", "bytes", "datetime", "date", "time",
      "timedelta", "Decimal", "UUID", "PurePath", "dataclass",
      "Mapping", "Set", "Sequence">>

EncoderFor(type) ==
    IF type \in DOMAIN Exact THEN Exact[type]
    ELSE LET bases == SelectSeq(ByBase, LAMBDA b : b \in Classes[type].bases)
         IN  IF bases = <<>> THEN "unsupported" ELSE Head(bases)

RECURSIVE Encode(_)
Encode(v) ==
    LET kind == EncoderFor(v.type)
        Entries(pairs) ==
            [i \in DOMAIN pairs |-> <<Encode(pairs[i][1]), Encode(pairs[i][2])>>]
        Fields(fields) ==
            [i \in DOMAIN fields |-> Text(83, fields[i][1]) \o Encode(fields[i][2])]
    IN  CASE kind = "NoneType" -> <<78>>
          [] kind = "bool" -> IF v.number = 1 THEN <<84>> ELSE <<70>>
          [] kind = "int" -> Signed(v.number)
          [] kind = "float" -> <<68>> \o v.packed
          [] kind = "UUID" -> <<85>> \o v.packed
          [] kind \in DOMAIN TextTags -> Text(TextTags[kind], v.text)
          [] kind = "timedelta" ->
               <<87>> \o Signed(v.days) \o Signed(v.seconds) \o Signed(v.microseconds)
          [] kind = "Sequence" ->
               Counted(76, [i \in DOMAIN v.items |-> Encode(v.items[i])])
          [] kind = "Set" ->
               Counted(69, SortSeq([i \in DOMAIN v.items |-> Encode(v.items[i])],
                                   Before))
          [] kind = "Mapping" ->
               LET sorted == SortedByKey(Entries(v.entries))
               IN  Counted(77, [i \in DOMAIN sorted |-> sorted[i][1] \o sorted[i][2]])
          [] kind = "Enum" -> Text(86, Classes[v.type].name) \o Encode(v.of)
          [] kind = "dataclass" -> Text(79, Classes[v.type].name)
                                     \o <<Len(v.fields)>> \o FlattenSeq(Fields(v.fields))

----------------------------------------------------------------------------
(* The strategies.  A fingerprint is an algorithm with a digest; a set that *)
(* is empty when the strategy raises FingerprintError.                      *)

Plain(text) == IF text = Absent THEN [type |-> "NoneType"]
               ELSE [type |-> "str", text |-> text]

Row(values) == [type |-> "tuple", items |-> values]

Token(algorithm, text) ==
    IF text \in {Absent, <<>>} THEN {} ELSE {<<algorithm, text>>}

Fingerprint(strategy, s) ==
    CASE strategy = "CompositeHash" ->
           {<<"sha256:composite",
              Encode(Row(<<s.content, s.metadata, Plain(s.version),
                               Plain(s.version_token), Plain(s.etag)>>))>>}
      [] strategy = "ContentHash" -> {<<"sha256:content", Encode(s.content)>>}
      [] strategy = "MetadataHash" -> {<<"sha256:metadata", Encode(s.metadata)>>}
      [] strategy = "VersionTokenFingerprint" -> Token("version-token", s.version_token)
      [] strategy = "ETagFingerprint" -> Token("etag", s.etag)

----------------------------------------------------------------------------
(* Applications nest values, the one under construction and others. *)

FingerprintsInit == nested = 0 /\ \E v \in Atoms : built = {v}

\* Keys of mappings and members of sets are texts and bytes here.
IsKey(v) == v.type \in {"str", "bytes"}

\* The values that can be built from v, and from w beside it.
Nests(v, w) ==
    LET rows == {<<v>>, <<v, w>>, <<w, v>>}
        entries == {<<<<v, w>>>>} \cup
            IF IsKey(w) /\ v # w
            THEN {<<<<v, w>>, <<w, v>>>>, <<<<w, v>>, <<v, w>>>>} ELSE {}
    IN  {[type |-> t, items |-> row] : t \in {"list", "tuple"}, row \in rows}
        \cup {[type |-> "set", items |-> row] :
                 row \in {r \in rows : \A i \in DOMAIN r : IsKey(r[i]) /\ IsInjective(r)}}
        \cup {[type |-> "dict", entries |-> es] : es \in IF IsKey(v) THEN entries ELSE {}}
        \cup {[type |-> "Colour", of |-> v]}
        \cup {[type |-> "StrColour", of |-> u, text |-> u.text] :
                 u \in {u \in {v} : u.type = "str"}}
        \cup {[type |-> "Point", fields |-> fs] :
                 fs \in {<<<<<<120>>, v>>>>, <<<<<<120>>, v>>, <<<<121>>, w>>>>}}

Nest ==
    /\ nested < MaxNested /\ nested' = nested + 1
    /\ \E v \in built, w \in Atoms : \E n \in Nests(v, w) : built' = {n}

FingerprintsNext == Nest

----------------------------------------------------------------------------
(* Properties *)

\* The canonical form of a value: what kind of value it is, with contents in
\* which the order of mappings and sets does not exist.
RECURSIVE Canonical(_)
Canonical(v) ==
    LET form == Classes[v.type].form
        Tag == <<form, Classes[v.type].name>>
    IN  CASE form = "None" -> <<form>>
          [] form \in {"bool", "int"} -> <<form, v.number>>
          [] form \in {"float", "uuid"} -> <<form, v.packed>>
          [] form = "timedelta" -> <<form, v.days, v.seconds, v.microseconds>>
          [] form = "sequence" -> <<form, [i \in DOMAIN v.items |-> Canonical(v.items[i])]>>
          [] form = "set" -> <<form, {Canonical(v.items[i]) : i \in DOMAIN v.items}>>
          [] form = "mapping" ->
               <<form, {<<Canonical(v.entries[i][1]), Canonical(v.entries[i][2])>> :
                           i \in DOMAIN v.entries}>>
          [] form = "enum" -> Tag \o Canonical(v.of)
          [] form = "dataclass" ->
               Tag \o <<[i \in DOMAIN v.fields |->
                              <<v.fields[i][1], Canonical(v.fields[i][2])>>]>>
          [] OTHER -> <<form, v.text>>

SnapshotOf(v, version) ==
    [content |-> v, metadata |-> [type |-> "dict", entries |-> <<>>],
     version |-> version, version_token |-> version, etag |-> Absent]

Read(v, version) ==
    LET snapshot == SnapshotOf(v, version)
    IN  [form |-> Canonical(v), content |-> Fingerprint("ContentHash", snapshot),
         composite |-> Fingerprint("CompositeHash", snapshot)]

\* Every value that is nested once at most.
Known ==
    {Read(v, <<>>) : v \in Atoms \cup UNION {Nests(v, w) : v, w \in Atoms}}

\* Two snapshots get one fingerprint exactly when their contents have the same
\* canonical form (and the same version, for a strategy that includes it): no
\* byte string can be read as the encoding of two values, whatever their texts
\* contain, and no order of insertion shows (canonical_digest).
FingerprintsTell ==
    \A v \in built :
        LET read == Read(v, <<>>)
            newer == Read(v, Absent)
        IN  \A known \in Known :
                LET same == known.form = read.form
                IN  /\ (known.content = read.content) = same
                    /\ (known.content = newer.content) = same
                    /\ (known.composite = read.composite) = same
                    /\ known.composite # newer.composite
=============================================================================
