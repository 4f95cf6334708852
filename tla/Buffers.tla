-------------------------------- MODULE Buffers --------------------------------
(***************************************************************************)
(* demonware/byte_buffer.cpp and .hpp, with the results of data_types.hpp: *)
(* one side fills a buffer, the other reads what get_buffer() gave it.     *)
(*                                                                         *)
(* A value of a fixed width is its bytes, as they lie in memory; only the  *)
(* lengths and counts in front of a value are numbers, little endian.  A   *)
(* reader tries any layout on the buffer.  Where the code reads memory     *)
(* that it has not set (a type or a length behind the end of the buffer)   *)
(* the model takes any of two values; where it reads outside of the buffer *)
(* ("outside") or divides by zero ("divides") the reader goes no further.  *)
(*                                                                         *)
(* demonware/bit_buffer.cpp: values that start at any bit.  The loops of   *)
(* read and write are here as they are, with the masks as arithmetic on    *)
(* bytes, and checked against the plain sequence of bits.  A value is the  *)
(* bytes the caller points to; a boolean is one bit of its byte, other     *)
(* values are whole bytes.  The two kinds of buffers share nothing.        *)
(***************************************************************************)
EXTENDS Integers, Sequences, SequencesExt, FiniteSetsExt

CONSTANTS
    MaxWrites, \* bound: results put into the buffer
    Octets,    \* the bytes of the values that are written bit by bit
    MaxValues  \* bound: values in a buffer of bits

VARIABLES
    writer, \* the buffer that is filled: [bytes, current, types]
    put,    \* history: what was put into it, [layout, values, ends]
    reader, \* the buffer of the other side
    expects, \* whether that one was made with data types
    taken   \* history: what was taken out of it, [layout, fields, ends]

vars == <<writer, put, reader, expects, taken>>

VARIABLES
    bits,    \* the buffer of bits that is filled: [bytes, current, types]
    held,    \* history: the values in it, [kind, value]
    cursor,  \* the buffer that is read
    got      \* history: what was read, [kind, ok, value]

bitVars == <<bits, held, cursor, got>>

Buffer(bytes, types) == [bytes |-> bytes, current |-> 0, types |-> types]

Tag ==
    [bool |-> 1, byte |-> 2, ubyte |-> 3, int16 |-> 5, uint16 |-> 6, int32 |-> 7, uint32 |-> 8,
     int64 |-> 9, uint64 |-> 10, float |-> 13, string |-> 16, blob |-> 19, struct |-> 23,
     array |-> 110, map |-> 110]
Width ==
    [bool |-> 1, byte |-> 1, ubyte |-> 1, int16 |-> 2, uint16 |-> 2, int32 |-> 4, uint32 |-> 4,
     int64 |-> 8, uint64 |-> 8, float |-> 4]

Number(bytes) == FoldRight(LAMBDA byte, n : 256 * n + byte, bytes, 0)
Uint32(n) == <<n % 256, (n \div 256) % 256, n \div 65536, 0>>

------------------------------------------------------------------------------
(* Writing *)

\* write(bytes, data)
Put(b, data) == [b EXCEPT !.bytes = @ \o data, !.current = @ + Len(data)]

write_data_type(b, tag) == IF b.types THEN Put(b, <<tag>>) ELSE b

set_use_data_types(b, types) == [b EXCEPT !.types = types]

\* write_bool to write_uint64, and write_float.
WriteFixed(b, kind, value) == Put(write_data_type(b, Tag[kind]), value)

\* A string ends at its first NUL, which is written as well.
UpToNul(s) == IF 0 \in Range(s) THEN SubSeq(s, 1, SelectInSeq(s, LAMBDA c : c = 0) - 1) ELSE s
write_string(b, s) == Put(write_data_type(b, Tag["string"]), UpToNul(s) \o <<0>>)

\* write_blob, write_struct
WriteCounted(b, kind, s) ==
    Put(WriteFixed(write_data_type(b, Tag[kind]), "uint32", Uint32(Len(s))), s)

\* Mutant: the count is written with its type, like the size.
write_array_header_Typed(b, tag, count, size) ==
    LET typed == set_use_data_types(b, TRUE)
        sized == WriteFixed(Put(typed, <<tag>>), "uint32", Uint32(count * size))
    IN set_use_data_types(WriteFixed(sized, "uint32", Uint32(count)), b.types)

\* The type and the count have no data type, the size in bytes has one.
write_array_header(b, tag, count, size) ==
    LET typed == set_use_data_types(b, FALSE)
        sized == set_use_data_types(WriteFixed(typed, "ubyte", <<tag>>), TRUE)
        whole == set_use_data_types(WriteFixed(sized, "uint32", Uint32(count * size)), FALSE)
    IN set_use_data_types(WriteFixed(whole, "uint32", Uint32(count)), b.types)

\* write_array of a vector; a map is the sequence of its keys and values.
write_array(b, items) ==
    Put(write_array_header(b, Tag["array"], Len(items), 8), FlattenSeq(items))

------------------------------------------------------------------------------
(* Reading: the possible outcomes of a call, [b, status, value].            *)

Ok(b, value) == [b |-> b, status |-> "ok", value |-> value]
Refused(b)   == [b |-> b, status |-> "refused", value |-> <<>>]
Stuck(b, why) == [b |-> b, status |-> why, value |-> <<>>]

\* read(bytes, output)
Get(b, n) ==
    IF n + b.current > Len(b.bytes) THEN Refused(b)
    ELSE Ok([b EXCEPT !.current = @ + n], SubSeq(b.bytes, b.current + 1, b.current + n))

\* Whether the data type is the expected one; one behind the end is not set.
read_data_type(b, tag) ==
    LET type == Get(b, 1)
    IN IF ~b.types THEN {Ok(b, <<>>)}
       ELSE CASE type.status = "refused" -> {Ok(b, <<>>), Refused(b)}
              [] type.value = <<tag>>    -> {Ok(type.b, <<>>)}
              [] OTHER                   -> {Refused(type.b)}

\* A call that goes on with Next only if the one before it returned true.
Then(outcomes, Next(_)) ==
    UNION {IF o.status = "ok" THEN Next(o) ELSE {o} : o \in outcomes}

\* read_bool to read_uint64, and read_float.
ReadFixed(b, kind) == Then(read_data_type(b, Tag[kind]), LAMBDA o : {Get(o.b, Width[kind])})

\* The string ends at a NUL, the one behind the buffer at the latest.
read_string(b) ==
    Then(read_data_type(b, Tag["string"]), LAMBDA o :
        IF o.b.current > Len(b.bytes) THEN {Stuck(o.b, "outside")}
        ELSE LET s == UpToNul(SubSeq(b.bytes, o.b.current + 1, Len(b.bytes)))
             IN {Ok([o.b EXCEPT !.current = @ + Len(s) + 1], s)})

\* read_blob, read_struct: whether the length could be read is not tested.
ReadCounted(b, kind) ==
    Then(read_data_type(b, Tag[kind]), LAMBDA o :
        UNION {LET sizes == IF n.status = "ok" THEN {Number(n.value)} ELSE {0, 3}
               IN {IF n.b.current + size > Len(b.bytes) THEN Stuck(n.b, "outside")
                   ELSE Get(n.b, size) : size \in sizes} : n \in ReadFixed(o.b, "uint32")})

\* read_array_header: a call that fails leaves the data types as it had set
\* them.  The value is the count and the size of an element.
read_array_header(b, tag) ==
    Then(read_data_type(set_use_data_types(b, TRUE), tag), LAMBDA o :
        Then(ReadFixed(o.b, "uint32"), LAMBDA size :
            Then(ReadFixed(set_use_data_types(size.b, FALSE), "uint32"), LAMBDA count :
                IF Number(count.value) = 0 THEN {Stuck(count.b, "divides")}
                ELSE {Ok(set_use_data_types(count.b, b.types),
                         <<Number(count.value), Number(size.value) \div Number(count.value)>>)})))

\* read_array of a vector or a map: a map takes its items in pairs.
read_array(b, kind) ==
    Then(read_array_header(set_use_data_types(b, FALSE), Tag[kind]), LAMBDA o :
        LET wanted == IF kind = "map" THEN 2 * (o.value[1] \div 2) ELSE o.value[1]
            there  == Min({wanted, (Len(b.bytes) - o.b.current) \div 8})
            items  == Get(o.b, 8 * there)
        IN IF o.value[2] # 8 THEN {Refused(o.b)}
           ELSE IF there < wanted THEN {Refused(items.b)}
           ELSE {Ok(set_use_data_types(items.b, b.types),
                    [k \in 1..there |-> SubSeq(items.value, 8 * k - 7, 8 * k)])})

\* has_more_data and get_remaining
has_more_data(b) == Len(b.bytes) > b.current

------------------------------------------------------------------------------
(* What the services send and the game reads: the kinds of its fields.      *)

bdStringResult == <<"string">>
bdUInt64Result == <<"uint64">>
bdBoolResult == <<"bool">>
bdTimeStamp == <<"uint32">>
bdDMLInfo == <<"string", "string", "string", "string", "float", "float", "uint32", "string">>
bdDMLHierarchicalInfo == bdDMLInfo \o <<"uint32", "uint32", "uint32", "uint32", "uint32">>
bdPublicProfileInfo == <<"uint64", "int32", "blob">>
bdFileMetaData ==
    <<"uint64", "uint32", "uint32", "uint32", "uint64", "string", "uint16", "string", "string",
      "uint16", "blob", "uint32", "map", "uint32", "uint64">>
bdURL == <<"string", "uint16", "string", "uint64">>
bdStructedDataBuffer == <<"struct">>

Results ==
    {bdStringResult, bdUInt64Result, bdBoolResult, bdTimeStamp, bdDMLInfo, bdDMLHierarchicalInfo,
     bdPublicProfileInfo, bdFileMetaData, bdURL, bdStructedDataBuffer}

\* The arguments of a task: the elements of their own.
Arguments == {<<"array">>, <<"map">>, <<"int16">>, <<"ubyte">>, <<"int64">>, <<"byte">>}

\* Contents for the field with the given number: strings with a NUL are cut
\* by write_string, blobs are not.
Contents(kind, field, empty) ==
    LET Word(n) == <<field, n, 0, 0, 0, 0, 0, 0>>
    IN CASE kind \in DOMAIN Width     -> SubSeq(Word(1), 1, Width[kind])
         [] kind \in {"array", "map"} -> IF empty THEN <<>> ELSE <<Word(1), Word(2)>>
         [] kind = "string"           -> IF empty THEN <<>> ELSE <<field, 7>>
         [] OTHER                     -> IF empty THEN <<>> ELSE <<0, field>>

WriteField(b, kind, value) ==
    CASE kind \in DOMAIN Width       -> WriteFixed(b, kind, value)
      [] kind = "string"             -> write_string(b, value)
      [] kind \in {"blob", "struct"} -> WriteCounted(b, kind, value)
      [] OTHER                       -> write_array(b, value)

ReadField(b, kind) ==
    CASE kind \in DOMAIN Width       -> ReadFixed(b, kind)
      [] kind = "string"             -> read_string(b)
      [] kind \in {"blob", "struct"} -> ReadCounted(b, kind)
      [] OTHER                       -> read_array(b, kind)

RECURSIVE Serialize(_, _, _, _)
Serialize(b, layout, values, f) ==
    IF f > Len(layout) THEN b
    ELSE Serialize(WriteField(b, layout[f], values[f]), layout, values, f + 1)

\* The outcomes of the fields, one after the other: deserialize does not test
\* whether a field could be read.
RECURSIVE Deserialize(_, _)
Deserialize(b, layout) ==
    IF layout = <<>> THEN {<<>>}
    ELSE UNION {{<<o>> \o rest : rest \in IF o.status \in {"ok", "refused"}
                                           THEN Deserialize(o.b, Tail(layout)) ELSE {<<>>}}
                : o \in ReadField(b, Head(layout))}

------------------------------------------------------------------------------
Init ==
    /\ \E types \in BOOLEAN : writer = Buffer(<<>>, types)
    /\ put = <<>> /\ taken = <<>>
    /\ reader = Buffer(<<>>, FALSE) /\ expects = FALSE

Write(layout, empty) ==
    LET values == [f \in DOMAIN layout |-> Contents(layout[f], f, empty)]
    IN /\ reader.bytes = <<>> /\ Len(put) < MaxWrites
       /\ writer' = Serialize(writer, layout, values, 1)
       /\ put' = Append(put, [layout |-> layout, values |-> values, ends |-> writer'.current])
       /\ UNCHANGED <<reader, expects, taken>>

\* The other side makes its buffer from the bytes, with or without types.
Receive(types) ==
    /\ put # <<>> /\ reader.bytes = <<>>
    /\ reader' = Buffer(writer.bytes, types) /\ expects' = types
    /\ UNCHANGED <<writer, put, taken>>

\* Bound: a reader stops when it was refused, when it has read something else
\* than was written, and one result behind the end.
CanRead ==
    /\ reader.bytes # <<>> /\ Len(taken) <= Len(put)
    /\ \A n \in DOMAIN taken : /\ taken[n].layout = put[n].layout
                                /\ Last(taken[n].fields).status = "ok"

Read(layout) ==
    /\ CanRead
    /\ \E fields \in Deserialize(reader, layout) :
         /\ taken' = Append(taken,
              [layout |-> layout, ends |-> Last(fields).b.current,
               fields |-> [f \in DOMAIN fields |->
                             [status |-> fields[f].status, value |-> fields[f].value]]])
         /\ reader' = Last(fields).b
    /\ UNCHANGED <<writer, put, expects>>

Next ==
    \/ \E layout \in Results \cup Arguments, empty \in BOOLEAN : Write(layout, empty)
    \/ \E types \in BOOLEAN : Receive(types)
    \/ \E layout \in Results \cup Arguments : Read(layout)

Spec == Init /\ [][Next]_vars

------------------------------------------------------------------------------
(* Properties *)

HasEmptyArray(k) == \E f \in DOMAIN put[k].layout : put[k].layout[f] \in {"array", "map"}
                                                    /\ put[k].values[f] = <<>>

\* The first n results were read as they were written.
InStep(n) ==
    /\ n <= Len(put)
    /\ writer.types = expects
    /\ \A k \in 1..n : taken[k].layout = put[k].layout

\* Whoever reads what was written, with the same types in the same order, gets
\* each value, whatever was written before and behind it, and stops where the
\* writer had; an array without elements ends the process instead.
ReadInStep ==
    \A n \in DOMAIN taken : InStep(n) /\ (\A k \in 1..n : ~HasEmptyArray(k)) =>
        /\ \A f \in DOMAIN put[n].layout :
              taken[n].fields[f].status = "ok" /\ taken[n].fields[f].value = put[n].values[f]
        /\ taken[n].ends = put[n].ends
        /\ n = Len(taken) => has_more_data(reader) = (n < Len(put))

\* With data types, the first field that is read as another type is refused.
OtherTypeRefused ==
    \A n \in DOMAIN taken \cap DOMAIN put : \A f \in DOMAIN taken[n].fields \cap DOMAIN put[n].layout :
        /\ expects /\ InStep(n - 1)
        /\ \A k \in 1..n : ~HasEmptyArray(k)
        /\ \A g \in 1..(f - 1) : Tag[taken[n].layout[g]] = Tag[put[n].layout[g]]
        /\ Tag[taken[n].layout[f]] # Tag[put[n].layout[f]]
        => taken[n].fields[f].status = "refused"

\* Whatever is read, what one side put into a buffer the other finds there
\* under the same description only.
WhatIsWrittenIsRead == ReadInStep /\ OtherTypeRefused

------------------------------------------------------------------------------
(* Buffers of bits                                                         *)

BitTag == [bool |-> 1, int32 |-> 7, uint32 |-> 8, bytes |-> 0]
Bits == [bool |-> 1, int32 |-> 32, uint32 |-> 32, bytes |-> 16]
ValuesOf(kind) ==
    CASE kind = "bool"  -> {<<0>>, <<1>>}
      [] kind = "bytes" -> {<<x, y>> : x, y \in Octets}
      [] OTHER          -> {<<x, 0, y, 255>> : x, y \in Octets}

Zeroes(n) == [k \in 1..n |-> 0]

\* The loop of write: the rest of the byte under the cursor is filled with the
\* next bits of the data, which may lie in two of its bytes.
RECURSIVE Filled(_, _, _, _, _)
Filled(bytes, current, data, n, left) ==
    LET pos  == current % 8
        this == Min({left, 8 - pos})
        at   == current \div 8 + 1
        kept == (bytes[at] % 2^pos) + (bytes[at] \div 2^(pos + this)) * 2^(pos + this)
        from == (n - left) \div 8 + 1
        off  == (n - left) % 8
        next == IF (n - 1) \div 8 >= from THEN data[from + 1] ELSE 0
        bite == (next * 2^(8 - off) + data[from] \div 2^off) % 256
    IN IF left = 0 THEN bytes
       ELSE Filled([bytes EXCEPT ![at] = kept + ((bite * 2^pos) % 2^(pos + this))],
                   current + this, data, n, left - this)

\* write: the buffer grows by a byte more than needed, and the fill starts at
\* the cursor.
WriteBits(b, n, data) ==
    [b EXCEPT !.bytes = Filled(@ \o Zeroes(n \div 8 + 1), b.current, data, n, n),
              !.current = @ + n]

\* write_data_type, with write_bool, write_int32, write_uint32; write_bytes
\* has no data type.
WriteValue(b, kind, value) ==
    WriteBits(IF b.types /\ kind # "bytes" THEN WriteBits(b, 5, <<BitTag[kind]>>) ELSE b,
              Bits[kind], value)

\* Mutant: a byte that does not end within this one is masked as if it did.
Taken_Short(bytes, current, n) ==
    (bytes[current \div 8 + 1] \div 2^(current % 8)) % 2^n

\* A byte of the output of read, or what is left of the value: its bits lie in
\* the byte under the cursor and perhaps in the next.
Taken(bytes, current, n) ==
    LET skip == current % 8
        this == bytes[current \div 8 + 1] \div 2^skip
    IN IF n + skip <= 8 THEN this % 2^n
       ELSE this + ((bytes[current \div 8 + 2] * 2^(8 - skip)) % 2^n)

\* read: [b, ok, value].
ReadBits(b, n) ==
    IF b.current + n > 8 * Len(b.bytes) THEN [b |-> b, ok |-> FALSE, value |-> <<>>]
    ELSE [b |-> [b EXCEPT !.current = @ + n], ok |-> TRUE,
          value |-> [k \in 1..((n + 7) \div 8) |->
                       Taken(b.bytes, b.current + 8 * (k - 1), Min({8, n - 8 * (k - 1)}))]]

\* read_data_type, with read_bool, read_uint32; read_bytes has no data type.
ReadValue(b, kind) ==
    LET type == ReadBits(b, 5)
    IN IF ~b.types \/ kind = "bytes" THEN ReadBits(b, Bits[kind])
       ELSE IF type.ok /\ type.value = <<BitTag[kind]>> THEN ReadBits(type.b, Bits[kind])
       ELSE [type EXCEPT !.ok = FALSE, !.value = <<>>]

\* get_buffer drops what was not filled.
get_buffer(b) == [b EXCEPT !.bytes = SubSeq(@, 1, (b.current + 7) \div 8)]

------------------------------------------------------------------------------
NoBits(types) == [bytes |-> <<>>, current |-> 0, types |-> types]

BitInit ==
    /\ \E types \in BOOLEAN : bits = NoBits(types)
    /\ held = <<>> /\ cursor = NoBits(FALSE) /\ got = <<>>

WriteNext(kind) ==
    /\ cursor.bytes = <<>> /\ Len(held) < MaxValues
    /\ \E value \in ValuesOf(kind) :
         /\ bits' = WriteValue(bits, kind, value)
         /\ held' = Append(held, [kind |-> kind, value |-> value])
    /\ UNCHANGED <<cursor, got>>

\* The buffer is sent, and may be filled further.
SendBits ==
    /\ held # <<>> /\ cursor.bytes = <<>>
    /\ bits' = get_buffer(bits)
    /\ \/ cursor' = [get_buffer(bits) EXCEPT !.current = 0]
       \/ UNCHANGED cursor
    /\ UNCHANGED <<held, got>>

\* Bound: a reader that was refused stops.
ReadNext(kind) ==
    /\ cursor.bytes # <<>> /\ Len(got) < Len(held)
    /\ got # <<>> => Last(got).ok
    /\ LET r == ReadValue(cursor, kind)
       IN /\ cursor' = r.b
          /\ got' = Append(got, [kind |-> kind, ok |-> r.ok, value |-> r.value])
    /\ UNCHANGED <<bits, held>>

BitNext ==
    \/ \E kind \in DOMAIN Bits : WriteNext(kind)
    \/ SendBits
    \/ \E kind \in {"bool", "uint32", "bytes"} : ReadNext(kind)

BitSpec == BitInit /\ [][BitNext]_bitVars

------------------------------------------------------------------------------
(* Properties *)

BitAt(bytes, i) == (bytes[i \div 8 + 1] \div 2^(i % 8)) % 2

\* The bits of the n lowest of some bytes.
BitsOf(bytes, n) == [k \in 1..n |-> BitAt(bytes, k - 1)]

\* Wherever the values start, the buffer is their bits one after the other.
BitsInOrder ==
    BitsOf(bits.bytes, bits.current) =
        FlattenSeq([k \in DOMAIN held |->
            (IF bits.types /\ held[k].kind # "bytes" THEN BitsOf(<<BitTag[held[k].kind]>>, 5)
             ELSE <<>>) \o BitsOf(held[k].value, Bits[held[k].kind])])

\* Read in the order of writing, every value comes back, and with data types
\* none is taken for one of another type.
BitsComeBack ==
    \A n \in DOMAIN got : (\A k \in 1..(n - 1) : got[k].kind = held[k].kind) =>
        IF got[n].kind = held[n].kind THEN got[n].ok /\ got[n].value = held[n].value
        ELSE bits.types /\ "bytes" \notin {got[n].kind, held[n].kind} => ~got[n].ok
===============================================================================
