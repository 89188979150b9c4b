------------------------------- MODULE Bytes -------------------------------
(***************************************************************************)
(* Texts, identifiers, canonical orders and the little-endian byte stream  *)
(* that state digests are taken over.  A text is the sequence of its UTF-8 *)
(* bytes; the length of a text is its length in bytes.                     *)
(***************************************************************************)
EXTENDS Integers, Sequences, FiniteSets, SequencesExt

CONSTANT None    \* an absent value: JSON null, Option::None

Byte == 0 .. 255

\* The numbers of each width, by their 16-bit words.
ShortNumbers == {n \in Nat : n < 65536}                                   \* u16
Numbers == {n \in Nat : n \div 65536 < 65536}                            \* u32
LongNumbers == {n \in Nat : ((n \div 65536) \div 65536) \div 65536 < 65536}   \* u64
SignedNumbers ==                                                        \* i32
    {n \in Int : 0 - 32768 <= n \div 65536 /\ n \div 65536 < 32768}
Lengths == {n \in Nat : ((n \div 65536) \div 65536) \div 65536 < 32768}  \* of a Vec

ListsOf(S) == {s \in Seq(S) : Len(s) \in Lengths}
SortedSets(S) == {T \in SUBSET S : IsFiniteSet(T) /\ Cardinality(T) \in Lengths}
Optional(S) == {None} \cup S

Texts == ListsOf(Byte)                            \* String

ASSUME AbsenceAssumption == None \notin Nat /\ None \notin Texts

MaxIdentifierBytes == 128
MaxContentIdBytes == 64
Space == 32

\* str::trim().is_empty(), of the white space that these documents use.
IsBlank(text) == \A i \in DOMAIN text : text[i] = Space

\* PlayerId, UnitId, CityId and ArtifactId accept the same texts.
IsIdentifier(text) == ~ IsBlank(text) /\ Len(text) <= MaxIdentifierBytes
Ids == {text \in Texts : IsIdentifier(text)}

IsAlphanumeric(byte) == byte \in 97 .. 122 \/ byte \in 48 .. 57
IsContentId(text) ==
    /\ Len(text) \in 1 .. MaxContentIdBytes
    /\ IsAlphanumeric(text[1]) /\ IsAlphanumeric(text[Len(text)])
    /\ \A i \in DOMAIN text : IsAlphanumeric(text[i]) \/ text[i] \in {95, 45}

-----------------------------------------------------------------------------
(* Ord: texts bytewise, coordinates by column and then row.                *)

Before(s, t) ==
    \/ IsStrictPrefix(s, t)
    \/ \E i \in DOMAIN s \cap DOMAIN t :
          s[i] < t[i] /\ \A j \in 1 .. i - 1 : s[j] = t[j]

PairBefore(a, b) == Before(a[1], b[1]) \/ (a[1] = b[1] /\ Before(a[2], b[2]))

\* The elements of S in the order that before puts them in.
Sorted(before(_, _), S) ==
    [i \in 1 .. Cardinality(S) |->
        CHOOSE x \in S : Cardinality({y \in S : before(y, x)}) = i - 1]

\* The sequence op(s[1]), op(s[2]), ...
Each(op(_), s) == [i \in DOMAIN s |-> op(s[i])]

\* No two elements of s agree on key.
Distinct(key(_), s) ==
    \A i, j \in DOMAIN s : key(s[i]) = key(s[j]) => i = j

-----------------------------------------------------------------------------
(* DigestWriter: every number little-endian in its width, every list     *)
(* after its length.                                                       *)

U8(value) == <<value % 256>>
U16(value) == <<value % 256, (value \div 256) % 256>>
U32(value) == U16(value) \o U16(value \div 65536)
U64(value) == U32(value) \o U32((value \div 65536) \div 65536)

Coordinate(c) == U32(c[1]) \o U32(c[2])

\* Fault: a text is written without its length.
Text_Unmeasured(text) == text

Text(text) == U64(Len(text)) \o text

Items(op(_), s) == U64(Len(s)) \o FlattenSeq(Each(op, s))

Maybe(op(_), x) == IF x = None THEN U8(0) ELSE U8(1) \o op(x)
=============================================================================
