------------------------------- MODULE Protobuf --------------------------------
(***************************************************************************)
(* demonware/protobuf.cpp: fields with a tag and a varint or a string, and *)
(* the response that serialize_objectstore_structed_buffer builds from     *)
(* them (demonware/objects.cpp), against the decoder that the format asks  *)
(* for.                                                                    *)
(*                                                                         *)
(* A word has Groups groups of Shift bits in place of ten groups of seven, *)
(* the topmost not full, and a byte marks with Base that another follows.  *)
(***************************************************************************)
EXTENDS Integers, Sequences, SequencesExt

CONSTANTS
    Shift,    \* bits of a group: 7 in the code
    Groups,   \* the limit of index in encodeVarInt: 10 in the code
    WordBits, \* bits of an uint64_t; Groups groups hold them
    Ints,     \* values of signed fields
    Strings,  \* contents of string fields: a set of sequences of bytes
    MaxFields \* bound

VARIABLES
    message, \* [buffer, length] of a bdProtobufHelper
    wrote    \* history: the fields in it

protoVars == <<message, wrote>>

Base == 2^Shift
Word == 2^WordBits

\* Mutant: the group that fills a byte is taken to be the last one.
Continues_Late(value) == value > Base

Continues(value) == value >= Base

\* The loop of encodeVarInt.
RECURSIVE Varint(_, _)
Varint(value, index) ==
    IF Continues(value) /\ index < Groups
      THEN <<Base + (value % Base)>> \o Varint(value \div Base, index + 1)
      ELSE <<value % (2 * Base)>>

\* The words of signed values: even for those from 0, odd for negative ones.
ZigZag(value) ==
    LET doubled == (2 * value) % Word
    IN IF value < 0 THEN Word - 1 - doubled ELSE doubled

\* this->buffer.append and this->length +=
Extend(m, bytes) == [buffer |-> m.buffer \o bytes, length |-> m.length + Len(bytes)]

encodeVarInt(m, value) == Extend(m, Varint(value, 0))
encodeTag(m, id, type) == encodeVarInt(m, 8 * id + type)
encodeString(m, s) == Extend(encodeVarInt(m, Len(s)), s)

WIRETYPE_VARINT == 0
WIRETYPE_STRING == 2

\* writeInt64, writeInt32
writeInt(m, id, value) == encodeVarInt(encodeTag(m, id, WIRETYPE_VARINT), ZigZag(value))

\* writeUInt64, writeUInt32
writeUInt(m, id, value) == encodeVarInt(encodeTag(m, id, WIRETYPE_VARINT), value)

\* writeBlob
writeBlob(m, id, s) == encodeString(encodeTag(m, id, WIRETYPE_STRING), s)

\* writeString: up to the first NUL.
UpToNull(s) == IF 0 \in Range(s) THEN SubSeq(s, 1, SelectInSeq(s, LAMBDA c : c = 0) - 1) ELSE s
writeString(m, id, s) == writeBlob(m, id, UpToNull(s))

Empty == [buffer |-> <<>>, length |-> 0]

\* serialize_objectstore_structed_buffer: each header is a message of its own
\* that becomes a string field.  Names and values are shortened.
Headers(payload) == <<<<<<67, 76>>, <<48 + Len(payload)>>>>, <<<<65>>, <<66, 52>>>>>>
Status == 200
Response(payload) ==
    LET Header(h) == writeString(writeString(Empty, 1, Headers(payload)[h][1]),
                                 2, Headers(payload)[h][2])
        two == writeString(writeString(Empty, 1, Header(1).buffer), 1, Header(2).buffer)
    IN writeString(writeUInt(two, 2, Status), 3, payload)

------------------------------------------------------------------------------
(* What the format says: how another program reads it.                      *)

RECURSIVE DecodeVarint(_)
DecodeVarint(bytes) ==
    IF bytes = <<>> THEN [value |-> 0, rest |-> <<>>]
    ELSE IF Head(bytes) < Base THEN [value |-> Head(bytes), rest |-> Tail(bytes)]
    ELSE LET more == DecodeVarint(Tail(bytes))
         IN [more EXCEPT !.value = Head(bytes) - Base + Base * @]

Signed(word) == IF word % 2 = 0 THEN word \div 2 ELSE -((word + 1) \div 2)

RECURSIVE Decode(_)
Decode(bytes) ==
    LET tag  == DecodeVarint(bytes)
        next == DecodeVarint(tag.rest)
        Is(type) == tag.value % 8 = type
        size == IF next.value > Len(next.rest) THEN Len(next.rest) ELSE next.value
    IN IF bytes = <<>> THEN <<>>
       ELSE <<[id |-> tag.value \div 8, varint |-> Is(WIRETYPE_VARINT),
               value |-> IF Is(WIRETYPE_VARINT) THEN <<next.value>>
                         ELSE SubSeq(next.rest, 1, size)]>>
            \o Decode(IF Is(WIRETYPE_VARINT) THEN next.rest
                      ELSE SubSeq(next.rest, size + 1, Len(next.rest)))

------------------------------------------------------------------------------
ProtoInit == message = Empty /\ wrote = <<>>

Writes(id, kind, value, m) ==
    /\ Len(wrote) < MaxFields
    /\ message' = m
    /\ wrote' = Append(wrote, [id |-> id, kind |-> kind, value |-> value])

\* bound: the numbers of the fields, with one whose tag needs two bytes.
FieldIds == {1, Base \div 8}

ProtoNext ==
    \E id \in FieldIds :
        \/ \E value \in Ints : Writes(id, "int", value, writeInt(message, id, value))
        \/ \E value \in Ints : Writes(id, "uint", value % Word, writeUInt(message, id, value % Word))
        \/ \E s \in Strings : Writes(id, "string", s, writeString(message, id, s))
        \/ \E s \in Strings : Writes(id, "blob", s, writeBlob(message, id, s))

ProtoSpec == ProtoInit /\ [][ProtoNext]_protoVars

------------------------------------------------------------------------------
(* Properties *)

\* Another program finds the fields in the message, with their numbers and
\* values, also the extreme ones of a word.
FieldsDecode ==
    LET found == Decode(message.buffer)
    IN /\ message.length = Len(message.buffer)
       /\ Len(found) = Len(wrote)
       /\ \A f \in DOMAIN wrote :
            /\ found[f].id = wrote[f].id
            /\ found[f].varint = (wrote[f].kind \in {"int", "uint"})
            /\ CASE wrote[f].kind = "int"    -> Signed(found[f].value[1]) = wrote[f].value
                 [] wrote[f].kind = "uint"   -> found[f].value = <<wrote[f].value>>
                 [] wrote[f].kind = "string" -> found[f].value = UpToNull(wrote[f].value)
                 [] OTHER                    -> found[f].value = wrote[f].value

\* The response of the object store has its two headers, messages in a message
\* although writeString stops at a NUL, its status and its payload.
ResponseDecodes ==
    \A payload \in Strings :
        LET found == Decode(Response(payload).buffer)
        IN /\ [f \in DOMAIN found |-> found[f].id] = <<1, 1, 2, 3>>
           /\ \A h \in {1, 2} :
                LET header == Decode(found[h].value)
                IN [f \in DOMAIN header |-> header[f].value] = Headers(payload)[h]
           /\ found[3].value = <<Status>> /\ found[4].value = UpToNull(payload)
===============================================================================
