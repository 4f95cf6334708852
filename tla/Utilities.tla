------------------------------- MODULE Utilities -------------------------------
(***************************************************************************)
(* Two of the shared utilities, each a small machine of its own.           *)
(*                                                                         *)
(* utilities/signature.cpp: the search for a pattern of bytes in a range   *)
(* of memory, on one thread or on several that collect what they find      *)
(* under a mutex.  A character of a pattern is a digit, Wild ("?") or      *)
(* Blank (" ").                                                            *)
(*                                                                         *)
(* va_provider of utilities/string.hpp and va of string.cpp: the texts a   *)
(* thread formats go to a ring of buffers that grow as they need to.  Each *)
(* thread has a provider of its own, so one is enough here.                *)
(***************************************************************************)
EXTENDS Integers, Sequences, SequencesExt

CONSTANTS
    Base,           \* digits of a pattern: 16 in the code
    Lanes,          \* bytes the vector instruction compares at once: 16 in the code
    Memories,       \* ranges to search
    Patterns,       \* texts of patterns
    Cores,          \* threads of a search
    Short,          \* length of a range that one thread searches: 20 * Cores in the code
    HasSse,         \* what the processor says
    Joined,         \* the state of a worker that has reported
    Buffers,        \* 8 in the code
    MinBufferSize,  \* 256 in the code
    Formatted,      \* texts: sequences
    None

VARIABLES
    memory,   \* the range from start_ on, one byte per element
    pattern,  \* the text, and mask_ and pattern_ once it is loaded
    workers,  \* per core: its part of the range, and whether it has reported
    result,   \* the addresses found so far; sorted at the end
    current_buffer_,
    string_pool_,   \* entries: [size, buffer]
    returned        \* history: the pointers returned, oldest first: [entry, text]

signatureVars == <<memory, pattern, workers, result>>
vaVars == <<current_buffer_, string_pool_, returned>>

Wild == -1
Blank == -2

\* load_pattern: mask_ and pattern_ as one sequence of bytes and wildcards; a
\* digit waits for the second one of its byte even across wildcards.  A
\* sequence of None is "Invalid pattern".
LoadCharacter(read, val) ==
    CASE val = Blank -> read
      [] val = Wild -> [read EXCEPT !.bytes = Append(@, Wild)]
      [] val \notin {Blank, Wild} /\ read.nibble = None -> [read EXCEPT !.nibble = val]
      [] OTHER -> [bytes |-> Append(read.bytes, read.nibble * Base + val), nibble |-> None]

TrimWild(bytes) ==
    SubSeq(bytes, 1, SelectLastInSeq(bytes, LAMBDA b : b # Wild))

load_pattern(text) ==
    LET read == FoldLeft(LoadCharacter, [bytes |-> <<>>, nibble |-> None], text)
    IN IF read.nibble # None THEN None ELSE TrimWild(read.bytes)

has_sse_support(bytes) == Len(bytes) <= Lanes /\ HasSse

------------------------------------------------------------------------------
(* process_range: the addresses start .. start + length - 1 at which the   *)
(* pattern is.                                                             *)

MatchesAt(bytes, address) ==
    \A j \in DOMAIN bytes : bytes[j] = Wild \/ bytes[j] = memory[address + j]

process_range_linear(bytes, start, length) ==
    SelectSeq([i \in 1 .. length |-> start + i - 1], LAMBDA address : MatchesAt(bytes, address))

\* Mutant: the mask of wildcards is not applied.
LaneMask_Full(bytes, lane) == lane <= Len(bytes)

LaneMask(bytes, lane) == lane <= Len(bytes) /\ bytes[lane] # Wild

\* _mm_cmpestrm with EQUAL_EACH: lanes behind the pattern are unequal; wildcards
\* are 0 in pattern_.
LaneEqual(bytes, address, lane) ==
    lane <= Len(bytes) /\ memory[address + lane] = (IF bytes[lane] = Wild THEN 0 ELSE bytes[lane])

process_range_vectorized(bytes, start, length) ==
    SelectSeq([i \in 1 .. length |-> start + i - 1],
              LAMBDA address : \A lane \in 1 .. Lanes :
                LaneMask(bytes, lane) => LaneEqual(bytes, address, lane))

process_range(bytes, start, length) ==
    IF has_sse_support(bytes) THEN process_range_vectorized(bytes, start, length)
                              ELSE process_range_linear(bytes, start, length)

\* The bytes at the end at which no search begins.
Sub(bytes) == IF has_sse_support(bytes) THEN Lanes ELSE Len(bytes)

\* Each core searches a part of the range, the last one what is left of it.
Part(bytes, core) ==
    LET range == Len(memory) - Sub(bytes)
        grid  == range \div Cores
    IN [start |-> grid * core, length |-> IF core + 1 = Cores THEN range - grid * core ELSE grid]

------------------------------------------------------------------------------
SignatureInit ==
    /\ memory \in Memories
    /\ pattern = None /\ result = None
    /\ workers = [core \in 0 .. Cores - 1 |-> None]

\* The constructor; a range that is shorter than what is compared at once is
\* not searched by any caller.
Load ==
    /\ pattern = None
    /\ \E text \in Patterns :
         /\ load_pattern(text) # None /\ Sub(load_pattern(text)) <= Len(memory)
         /\ pattern' = load_pattern(text)
    /\ UNCHANGED <<memory, workers, result>>

\* process: short ranges are searched at once.
Process ==
    /\ pattern # None /\ result = None
    /\ IF Len(memory) - Len(pattern) <= Short
         THEN /\ result' = process_range(pattern, 0, Len(memory) - Sub(pattern))
              /\ workers' = [core \in DOMAIN workers |-> Joined]
         ELSE /\ result' = <<>>
              /\ workers' = [core \in DOMAIN workers |-> Part(pattern, core)]
    /\ UNCHANGED <<memory, pattern>>

\* A worker adds what it has found, in one piece under the mutex.
Report(core) ==
    /\ workers[core] \notin {None, Joined}
    /\ result' = result \o process_range(pattern, workers[core].start, workers[core].length)
    /\ workers' = [workers EXCEPT ![core] = Joined]
    /\ UNCHANGED <<memory, pattern>>

\* All are joined, the result is sorted; the next search begins.
Sorted == SortSeq(result, <)

Finished == result # None /\ \A core \in DOMAIN workers : workers[core] = Joined

NextSearch ==
    /\ Finished
    /\ memory' \in Memories /\ pattern' = None /\ result' = None
    /\ workers' = [core \in DOMAIN workers |-> None]

SignatureNext == Load \/ Process \/ (\E core \in DOMAIN workers : Report(core)) \/ NextSearch

------------------------------------------------------------------------------
(* Properties of a search *)

\* The occurrences of a pattern, by the definition of an occurrence: the bytes
\* of some text that differs from the pattern in its wildcards.
Occurs(bytes, address) ==
    SubSeq(memory, address + 1, address + Len(bytes))
      = [j \in DOMAIN bytes |-> IF bytes[j] = Wild THEN memory[address + j] ELSE bytes[j]]

\* However the search is split among threads and whichever instructions it
\* uses, it finds each occurrence that begins in the range once, in the order
\* of the addresses.
FindsEveryMatch ==
    Finished =>
      Sorted = SetToSortSeq({a \in 0 .. Len(memory) - Sub(pattern) - 1 : Occurs(pattern, a)}, <)

------------------------------------------------------------------------------
(* va *)

\* Mutant: the text has to leave no room for its terminator.
Fits_Unterminated(text, size) == Len(text) <= size

\* vsnprintf_s with _TRUNCATE is negative unless the text and its terminator fit.
Fits(text, size) == Len(text) < size

\* double_size until it does.
SizeFor(text, size) ==
    LET doubled == {n \in 0 .. Len(text) : Fits(text, size * 2 ^ n)}
    IN size * 2 ^ (CHOOSE n \in doubled : \A m \in doubled : n <= m)

\* Mutant: the first buffer is used again when it is still long enough.
NextBuffer_Reuse(text) == IF Fits(text, string_pool_[0].size) THEN 0
                          ELSE (current_buffer_ + 1) % Buffers

NextBuffer(text) == (current_buffer_ + 1) % Buffers

VaInit ==
    /\ current_buffer_ = 0
    /\ string_pool_ = [n \in 0 .. Buffers - 1 |-> [size |-> MinBufferSize, buffer |-> <<>>]]
    /\ returned = <<>>

\* get: an empty text is formatted with result 0, which is taken for an error.
Get(text) ==
    LET n == NextBuffer(text)
    IN /\ current_buffer_' = n
       /\ string_pool_' = [string_pool_ EXCEPT ![n] =
              [size |-> SizeFor(text, @.size), buffer |-> text]]
       /\ returned' = LET all == Append(returned, [entry |-> IF text = <<>> THEN None ELSE n,
                                                   text  |-> text])
                      IN IF Len(all) > Buffers THEN Tail(all) ELSE all

VaNext == \E text \in Formatted : Get(text)

------------------------------------------------------------------------------
(* Properties of va *)

\* The last texts of a thread, as many as there are buffers, are whole and as
\* they were formatted, however long the later ones are; a pointer is given for
\* each of them that is not empty.
LastTextsStay ==
    \A n \in DOMAIN returned :
        LET r == returned[n]
        IN /\ r.entry = None <=> r.text = <<>>
           /\ r.entry # None => string_pool_[r.entry].buffer = r.text
                                /\ Len(r.text) < string_pool_[r.entry].size
==============================================================================
