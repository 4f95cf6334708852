-------------------------------- MODULE Hashes ---------------------------------
(***************************************************************************)
(* component/hashes.cpp with the two hashes of the program (fnv1a in       *)
(* definitions/variables.cpp, canon in component/gsc_funcs.cpp): the table *)
(* of names of hashes, the files that fill it, and the notations in which  *)
(* a hash without a name is written and read.                              *)
(*                                                                         *)
(* A text is a sequence of parts, each a letter, a word or a notation's    *)
(* prefix.  A hash is a sequence of parts too: its width, "64" for fnv1a   *)
(* and "32" for canon, and what was hashed, with the letters made small    *)
(* (and "\\" made "/" by fnv1a); "top" in front is the bit that fnv1a      *)
(* hashes never have.  Two different names never collide.                  *)
(*                                                                         *)
(* A line of a precomputed file is a hash, its digits with or without 0x   *)
(* (hex), and the rest of the line, of which the first parts, within of    *)
(* them, begin early enough to be searched for a separator.  A hash that   *)
(* is full takes all the 18 characters that are copied.                    *)
(***************************************************************************)
EXTENDS Integers, Sequences, SequencesExt

CONSTANTS
    Parts,    \* what texts consist of
    Names,    \* texts that some part of the program hashes
    HashFiles, \* what load_file finds: [format, lines], lines None if not readable
    Defaults, \* the two files that are loaded at the start
    Small,    \* the small letter of each letter
    MaxNamed, \* bound: texts that are hashed and files that are loaded
    None

VARIABLES
    started,  \* pre_start has run
    enabled,  \* the option gsc.hashes
    storage,  \* hash_storage(): a function from some hashes to texts
    brought,  \* history: the lines that were to be read, each <<format, line>>
    loaded,   \* what the last load_file has returned
    named     \* the bound's counter

hashVars == <<started, enabled, storage, brought, loaded, named>>

\* Texts and lines are sequences, and no word has a small letter.
HashesAssumption ==
    /\ {"64", "32", "/", ".lua"} \subseteq Parts /\ Names \subseteq Seq(Parts)
    /\ Small \in [DOMAIN Small -> Parts] /\ ".lua" \notin DOMAIN Small
    /\ \A file \in HashFiles \cup {Defaults[1], Defaults[2]} : file.lines # None =>
         file.lines \in Seq(IF file.format = "STRING" THEN Seq(Parts)
                           ELSE [hash : Seq(Parts), hex : BOOLEAN, full : BOOLEAN,
                                 rest : Seq(Parts), within : Nat \ {0}])

Lower(text) == [k \in DOMAIN text |-> IF text[k] \in DOMAIN Small THEN Small[text[k]] ELSE text[k]]
Slashes(text) == [k \in DOMAIN text |-> IF text[k] = "\\" THEN "/" ELSE text[k]]

Fnv1a == <<"64">> \* the start value of generate_hash

\* The value of fnv1a::generate_hash, and of canon_hash.
HashFrom(start, text) == start \o Lower(Slashes(text))
CanonOf(text) == <<"32">> \o Lower(text)

add_hash(table, hash, text) ==
    IF ~enabled THEN table
    ELSE [h \in DOMAIN table \cup {hash} |-> IF h = hash THEN text ELSE table[h]]

\* Mutant: the text is remembered whatever the hash had started from.
generate_hash_Always(table, text, start) == add_hash(table, HashFrom(start, text), text)

\* The table after generate_hash: a text that continues another hash is not
\* the name of the result.
generate_hash(table, text, start) ==
    IF start = Fnv1a THEN add_hash(table, HashFrom(start, text), text) ELSE table

canon_hash(table, text) == add_hash(table, CanonOf(text), text)

------------------------------------------------------------------------------
(* Notations *)

Begins(text, prefix) == text # <<>> /\ Head(text) = prefix

\* & 0x7FFFFFFFFFFFFFFF
Mask(number) == IF Begins(number, "top") THEN Tail(number) ELSE number

Lua(text) == text # <<>> /\ Last(text) = ".lua"

\* generate_hash_pattern: the hash that a text stands for.
PatternHash(text) ==
    CASE text # <<>> /\ Head(text) \in {"hash_", "file_", "script_"} -> Mask(Tail(text))
      [] Begins(text, "x64:") /\ Lua(text)  -> HashFrom(Mask(Front(Tail(text))), <<".lua">>)
      [] Begins(text, "x64:") /\ ~Lua(text) -> Mask(Tail(text))
      [] OTHER -> HashFrom(Fnv1a, text)

\* ... and the table after it.
generate_hash_pattern(table, text) ==
    CASE text # <<>> /\ Head(text) \in {"hash_", "file_", "script_"} -> table
      [] Begins(text, "x64:") ->
           IF Lua(text) THEN generate_hash(table, <<".lua">>, Mask(Front(Tail(text)))) ELSE table
      [] OTHER -> generate_hash(table, text, Fnv1a)

\* canon_hash_pattern
CanonPatternHash(text) ==
    IF text # <<>> /\ Head(text) \in {"hash_", "var_"} THEN Tail(text) ELSE CanonOf(text)
canon_hash_pattern(table, text) ==
    IF text # <<>> /\ Head(text) \in {"hash_", "var_"} THEN table ELSE canon_hash(table, text)

lookup(hash) == IF hash \in DOMAIN storage THEN storage[hash] ELSE None

\* lookup_tmp and lookup_hash: the name, or the notation of the type.
Shown(type, hash) == IF lookup(hash) # None THEN lookup(hash) ELSE <<type>> \o hash

------------------------------------------------------------------------------
(* Files *)

\* [A-Za-z0-9_]*
is_valid_h32(text) == Range(text) \cap {"\\", "/", "-", "blank", "comma", ".lua", "x64:"} = {}

\* A line of a file of strings.
StringLine(table, text) ==
    generate_hash(IF is_valid_h32(text) THEN canon_hash(table, text) ELSE table, text, Fnv1a)

\* A comma and a blank where they begin in the characters that are searched.
Separators(line) ==
    {n \in 1 .. line.within : n < Len(line.rest) /\ line.rest[n] = "comma" /\ line.rest[n + 1] = "blank"}

\* From some characters behind the last of them on.
Behind(line, chars) ==
    SubSeq(line.rest, Max(Separators(line)) + chars, Len(line.rest))

\* A full hash has no end of its own: where digits follow it in memory (spilt)
\* another number is read.  The text keeps the blank behind the comma.
CommonLine(table, line, spilt) ==
    IF Separators(line) = {} THEN table
    ELSE add_hash(table, IF line.full /\ line.hash \in spilt THEN <<"spilt">> \o line.hash
                                                             ELSE line.hash, Behind(line, 1))

\* Mutant: the text of the serious compiler is taken with its blank.
SeriousLine_KeepsBlank(table, line) ==
    IF ~line.hex \/ Separators(line) = {} THEN table
                                          ELSE add_hash(table, line.hash, Behind(line, 1))

\* A line of the serious compiler begins with 0x.
SeriousLine(table, line) ==
    IF ~line.hex \/ Separators(line) = {} THEN table
                                          ELSE add_hash(table, line.hash, Behind(line, 2))

Known(file) == file.format \in {"STRING", "COMMON", "SERIOUS_COMPILER"} /\ file.lines # None

ReadLine(format, table, line, spilt) ==
    CASE format = "STRING" -> StringLine(table, line)
      [] format = "COMMON" -> CommonLine(table, line, spilt)
      [] OTHER             -> SeriousLine(table, line)

\* The table after the lines of a file, one after the other.
ReadLines(table, file, spilt) ==
    LET after[n \in 0 .. Len(file.lines)] ==
          IF n = 0 THEN table ELSE ReadLine(file.format, after[n - 1], file.lines[n], spilt)
    IN after[Len(file.lines)]

\* load_file: the table after it, and what it returns; the common format
\* returns an error in any case.
load_file(table, file, spilt) ==
    CASE ~enabled -> [table |-> table, ok |-> TRUE]
      [] enabled /\ ~Known(file) -> [table |-> table, ok |-> FALSE]
      [] OTHER -> [table |-> ReadLines(table, file, spilt), ok |-> file.format # "COMMON"]

NoNames == [h \in {} |-> <<>>]

\* The lines of a file that load_file comes to, whatever it makes of them.
Comes(file) ==
    IF enabled /\ Known(file) THEN {<<file.format, file.lines[n]>> : n \in DOMAIN file.lines} ELSE {}

\* The full hashes of the files.
Full ==
    UNION {IF file.format = "COMMON" /\ file.lines # None
             THEN {file.lines[n].hash : n \in {m \in DOMAIN file.lines : file.lines[m].full}} ELSE {}
           : file \in HashFiles \cup {Defaults[1], Defaults[2]}}

------------------------------------------------------------------------------
HashInit ==
    /\ started = FALSE /\ enabled = TRUE /\ storage = NoNames
    /\ brought = {} /\ loaded = None /\ named = 0

Count == named < MaxNamed /\ named' = named + 1

\* component::pre_start: the option, and the default files that exist.
HashPreStart ==
    /\ ~started /\ started' = TRUE
    /\ \/ enabled' = FALSE /\ UNCHANGED <<storage, brought>>
       \/ \E there \in SUBSET {1, 2}, spilt \in SUBSET Full :
            LET Loaded(t, n) == IF n \in there THEN load_file(t, Defaults[n], spilt).table ELSE t
            IN /\ storage' = Loaded(Loaded(storage, 1), 2)
               /\ brought' = UNION {Comes(Defaults[n]) : n \in there}
               /\ UNCHANGED enabled
    /\ UNCHANGED <<loaded, named>>

\* load_file for a mod.
LoadFile ==
    /\ Count /\ started
    /\ \E file \in HashFiles, spilt \in SUBSET Full :
         LET result == load_file(storage, file, spilt)
         IN /\ storage' = result.table /\ loaded' = result.ok
            /\ brought' = brought \cup Comes(file)
    /\ UNCHANGED <<started, enabled>>

\* Some part of the program hashes a text, as it is or by a pattern; the
\* initializers of static tables do so before pre_start.
Hash ==
    /\ Count
    /\ \E text \in Names :
         storage' \in {generate_hash(storage, text, Fnv1a), canon_hash(storage, text),
                       generate_hash_pattern(storage, text), canon_hash_pattern(storage, text)}
    /\ UNCHANGED <<started, enabled, brought, loaded>>

HashNext == HashPreStart \/ LoadFile \/ Hash

HashSpec == HashInit /\ [][HashNext]_hashVars

------------------------------------------------------------------------------
(* Properties *)

\* The texts that a line may be said to give its hash: what the comment of its
\* format puts behind the hash, <hash>,<string> or 0x<hash>, <string>; only an
\* end of it where the text has a separator of its own in the characters that
\* are searched.
SaidBy(format, line) ==
    LET first == IF format = "COMMON" THEN 2 ELSE 3
        again == \E n \in 2 .. line.within :
                    n < Len(line.rest) /\ line.rest[n] = "comma" /\ line.rest[n + 1] = "blank"
    IN {SubSeq(line.rest, k, Len(line.rest)) :
          k \in IF again THEN first .. Len(line.rest) + 1 ELSE {first}}

\* A full hash of the common format may be read as any other.
Said(lines, hash, text) ==
    \E b \in lines :
        /\ b[1] # "STRING" /\ text \in SaidBy(b[1], b[2])
        /\ b[2].hash = hash \/ (b[1] = "COMMON" /\ b[2].full)

\* Whatever was hashed, loaded and overwritten, a text in the table hashes to
\* the hash it is the name of, or a line of a precomputed file says so.
NamesAreTrue ==
    \A h \in DOMAIN storage :
        \/ h = HashFrom(Fnv1a, storage[h]) \/ h = CanonOf(storage[h])
        \/ Said(brought, h, storage[h])

\* What a line must have left in a table: a string both its hashes, if it may
\* be a field, a precomputed line its hash, if a comma and a blank follow it
\* (the common format's comment has no blank, and a line without one is passed
\* over) and, in the serious compiler's format, 0x leads it.
IsRead(table, format, line) ==
    LET Spaced == Len(line.rest) > 1 /\ line.rest[1] = "comma" /\ line.rest[2] = "blank"
    IN CASE format = "STRING" ->
              /\ HashFrom(Fnv1a, line) \in DOMAIN table
              /\ is_valid_h32(line) => CanonOf(line) \in DOMAIN table
         [] format = "COMMON" -> Spaced /\ ~line.full => line.hash \in DOMAIN table
         [] OTHER -> Spaced /\ line.hex => line.hash \in DOMAIN table

\* Every line that load_file came to is in the table.
LinesAreRead == \A b \in brought : IsRead(storage, b[1], b[2])

IsNotation(text) == text # <<>> /\ Head(text) \in {"hash_", "file_", "script_", "x64:", "var_"}

\* A hash that is shown, by its name or by the notation of its type, is read
\* back as the same hash: a script name and an asset by the pattern of fnv1a, a
\* field by the one of canon.  A name that is itself a notation, and one from a
\* precomputed file, is not.
ReadsBack(hash) ==
    hash \in DOMAIN storage => ~IsNotation(storage[hash]) /\ ~Said(brought, hash, storage[hash])
ShownIsReadBack ==
    \A text \in Names :
        LET asset == HashFrom(Fnv1a, text)
            field == CanonOf(text)
        IN /\ ReadsBack(asset) => \A type \in {"hash_", "script_"} :
                                    PatternHash(Shown(type, asset)) = asset
           /\ ReadsBack(field) => CanonPatternHash(Shown("var_", field)) = field

HashesReadBack == NamesAreTrue /\ LinesAreRead /\ ShownIsReadBack
===============================================================================
