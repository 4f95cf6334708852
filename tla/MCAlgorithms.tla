---------------------------- MODULE MCAlgorithms ----------------------------
(* The parts of the client that compute or keep something for the others,   *)
(* each on its own: a behaviour explores the one that part names.           *)
(*   - bytes, bits, messages: two results in a buffer, any layout read back;*)
(*   - links, errors: two scripts on two machines, three errors;            *)
(*   - gsic: six files, cut at every byte;                                  *)
(*   - texts: a ring of three buffers;                                      *)
(*   - search: five memories, nine patterns, two cores;                     *)
(*   - json: two virtual machines and three saves, two containers deep.     *)
EXTENDS Integers, Sequences, TLC

CONSTANTS None, Joined

VARIABLE part

------------------------------------------------------------------------------
VARIABLES writer, put, reader, expects, taken

VARIABLES bits, held, cursor, got

Buffer == INSTANCE Buffers
    WITH MaxWrites <- 2, Octets <- {5, 170}, MaxValues <- 2

bytesVars == <<writer, put, reader, expects, taken>>
bitsVars == <<bits, held, cursor, got>>

------------------------------------------------------------------------------
VARIABLES message, wrote

Messages == INSTANCE Protobuf
    WITH Shift <- 7, Groups <- 3, WordBits <- 16, MaxFields <- 2,
         Ints <- {0, 1, -1, 63, 64, -65, 32767, -32768}, Strings <- {<<>>, <<1, 2>>, <<3>>, <<4, 0, 5>>}

messagesVars == <<message, wrote>>

------------------------------------------------------------------------------
Import(fn, call, builtin, dev, shield) ==
    [fn |-> fn, call |-> call, builtin |-> builtin, dev |-> dev, shield |-> shield]
Script(name, exports, includes, imports) ==
    [name |-> name, exports |-> exports, includes |-> includes, imports |-> imports]
Exported(fn, hidden) == [fn |-> fn, hidden |-> hidden]

ApiFunctions == [print |-> 0, drawdebug |-> 1, both |-> 1]
ApiMethods == [both |-> 0, setdev |-> 1]
ScriptObjs ==
    {Script("lib", {Exported("open", FALSE), Exported("secret", TRUE)}, {},
            {Import("drawdebug", "function", TRUE, TRUE, TRUE),
             Import("print", "reference", TRUE, FALSE, FALSE)}),
     Script("use", {}, {"lib"},
            {Import("secret", "function", FALSE, FALSE, FALSE),
             Import("setdev", "method", TRUE, TRUE, FALSE),
             Import("open", "function", FALSE, FALSE, FALSE),
             Import("drawdebug", "reference", TRUE, FALSE, FALSE)})}
ErrorRows == <<[typed |-> FALSE, code |-> "csv", text |-> "x"], [typed |-> TRUE, code |-> "csv", text |-> "y"]>>
At(fn, address) == [fn |-> fn, address |-> address]
Linked ==
    <<[magic |-> 10, cseg |-> 2, size |-> 10, exports |-> <<At("a", 6), At("b", 4), At("c", 6)>>],
      [magic |-> 30, cseg |-> 1, size |-> 4, exports |-> <<>>]>>

VARIABLES started, option, enable, resolving, results, overlapped, pushed, raising, buffers, shown

Api == INSTANCE ScriptApi
    WITH Functions <- ApiFunctions, Methods <- ApiMethods, Objs <- ScriptObjs,
         CsvErrors <- ErrorRows, MaxErrors <- 3, Segments <- Linked

linksVars == <<started, option, enable, resolving, results, overlapped, pushed>>

------------------------------------------------------------------------------
errorsVars == <<raising, buffers, shown>>

------------------------------------------------------------------------------
GsicImport(name, params, dev) == [name |-> name, params |-> params, dev |-> dev, shield |-> FALSE]
Compiled(debug) ==
    [magic |-> TRUE, debug |-> debug,
     imports |-> <<GsicImport("IsProfileBuild", 2, FALSE), GsicImport("IsProfileBuild", 0, TRUE),
                   GsicImport("print", 1, FALSE)>>]
DebugOf(version) ==
    [version |-> version, strings |-> <<"s">>, detours |-> <<"d3">>, devblocks |-> <<11, 4>>]
Field(type, detours) == [type |-> type, detours |-> detours]
GsicOf(gsic, header, script) == [gsic |-> gsic, fields |-> header, script |-> script]
GsicFiles ==
    {GsicOf(FALSE, <<>>, Compiled(None)), GsicOf(FALSE, <<>>, [Compiled(None) EXCEPT !.magic = FALSE]),
     GsicOf(TRUE, <<Field(0, <<"d1", "d2">>), Field(0, <<"d4">>)>>, Compiled(DebugOf(18))),
     GsicOf(TRUE, <<Field(0, <<"d1">>), Field(1, <<>>)>>, Compiled(None)),
     GsicOf(TRUE, <<>>, Compiled(DebugOf(17))), GsicOf(TRUE, <<>>, Compiled(DebugOf(15)))}

VARIABLES gsc_files, attempt

Gsic == INSTANCE GsicFile
    WITH Files <- GsicFiles, EntryNames <- {"a"}, DetourBytes <- 12, ObjBytes <- 10

gsicVars == <<gsc_files, attempt>>

------------------------------------------------------------------------------
VARIABLES current_buffer_, string_pool_, returned

textsVars == <<current_buffer_, string_pool_, returned>>

------------------------------------------------------------------------------
\* -1 is a wildcard, -2 a blank.
SearchedMemories ==
    {<<0, 1, 0, 1, 1, 0, 1, 0>>, <<1, 0, 2, 1, 0, 0, 1, 2>>, <<1, 0>>, <<3, 1, 3, 1, 3, 1, 3, 1, 3>>,
     <<0, 1, 2>>}
SearchPatterns ==
    {<<0, 1>>, <<0, 1, -2, 0, 0>>, <<0, 1, -1, 0, 1>>, <<-1, 0, 1, -1>>, <<-1>>,
     <<0, 1, 0, 0, 0, 1, 0, 1>>, <<1, -1, 1>>, <<0, 0, 0, 1>>, <<1>>}

VARIABLES memory, pattern, workers, result

Util == INSTANCE Utilities
    WITH Base <- 2, Lanes <- 3, Memories <- SearchedMemories, Patterns <- SearchPatterns, Cores <- 2,
         Short <- 2, HasSse <- TRUE, Buffers <- 3, MinBufferSize <- 2,
         Formatted <- {<<>>, <<1>>, <<2>>, <<1, 1>>, <<1, 2, 3, 4, 5, 6, 7, 8>>}

searchVars == <<memory, pattern, workers, result>>

------------------------------------------------------------------------------
Scalar(t, v)   == [t |-> t, v |-> v]
Of(t, items)   == [t |-> t, items |-> items]
Item(key, val) == [key |-> key, val |-> val]
SavedValues ==
    {[t |-> "undefined"], [t |-> "function"], Scalar("float", "1.5"), Scalar("hash", <<"h">>),
     Of("array", <<Item(<<"int", "0">>, Scalar("int", "1")),
                   Item(<<"name", "n">>, [t |-> "entity"]),
                   Item(<<"int", "1">>, [t |-> "function"])>>),
     Of("struct", <<Item(<<"name", "x">>, Scalar("vector", "xyz")),
                    Item(<<"name", "y">>,
                         Of("array", <<Item(<<"int", "2">>, Scalar("string", "s")),
                                       Item(<<"int", "3">>, Of("array", <<>>))>>))>>)}

VARIABLES saved, restored, kept, saves

Saved == INSTANCE SavedJson
    WITH Instances <- {"server", "client"}, Files <- {"a", "/a"}, BadFiles <- {"/a"},
         Values <- SavedValues, MaxDepth <- 2, MaxSaves <- 3, pushed <- restored

jsonVars == <<saved, restored, kept, saves>>

------------------------------------------------------------------------------
Parts ==
    {"bytes", "bits", "messages", "links", "errors", "gsic", "texts", "search", "json"}

MCInit ==
    /\ part \in Parts
    /\ Buffer!Init
    /\ Buffer!BitInit
    /\ Messages!ProtoInit
    /\ Api!LinkInit
    /\ Api!ErrorInit
    /\ Gsic!GsicInit
    /\ Util!VaInit
    /\ Util!SignatureInit
    /\ Saved!Init
    \* A part that is not explored rests in one state.
    /\ part # "bytes" => writer.types
    /\ part # "bits" => bits.types
    /\ part # "search" => memory = <<1, 0>>

OthersRest ==
    /\ IF part = "bytes" THEN TRUE ELSE UNCHANGED bytesVars
    /\ IF part = "bits" THEN TRUE ELSE UNCHANGED bitsVars
    /\ IF part = "messages" THEN TRUE ELSE UNCHANGED messagesVars
    /\ IF part = "links" THEN TRUE ELSE UNCHANGED linksVars
    /\ IF part = "errors" THEN TRUE ELSE UNCHANGED errorsVars
    /\ IF part = "gsic" THEN TRUE ELSE UNCHANGED gsicVars
    /\ IF part = "texts" THEN TRUE ELSE UNCHANGED textsVars
    /\ IF part = "search" THEN TRUE ELSE UNCHANGED searchVars
    /\ IF part = "json" THEN TRUE ELSE UNCHANGED jsonVars
    /\ part' = part

MCNext ==
    \/ part = "bytes" /\ Buffer!Next /\ OthersRest
    \/ part = "bits" /\ Buffer!BitNext /\ OthersRest
    \/ part = "messages" /\ Messages!ProtoNext /\ OthersRest
    \/ part = "links" /\ Api!LinkNext /\ OthersRest
    \/ part = "errors" /\ Api!ErrorNext /\ OthersRest
    \/ part = "gsic" /\ Gsic!GsicNext /\ OthersRest
    \/ part = "texts" /\ Util!VaNext /\ OthersRest
    \/ part = "search" /\ Util!SignatureNext /\ OthersRest
    \/ part = "json" /\ Saved!Next /\ OthersRest

MCSpec ==
    MCInit /\ [][MCNext]_<<part, bytesVars, bitsVars, messagesVars, linksVars, errorsVars, gsicVars,
        textsVars, searchVars, jsonVars>>

------------------------------------------------------------------------------
(* Buffers: what one side has written is what the other side reads, byte by *)
(* byte, bit by bit and as the fields of a message.                         *)
BuffersReadBack ==
    /\ part = "bytes" => Buffer!WhatIsWrittenIsRead
    /\ part = "bits" => Buffer!BitsInOrder /\ Buffer!BitsComeBack
    /\ part = "messages" => Messages!FieldsDecode /\ Messages!ResponseDecodes

(* Whoever uses a service that many share gets his own: scripts are read    *)
(* whole, call what the user allows, and what is reported of them is true;  *)
(* a caller of va has its texts, and a search all of its matches.           *)
CallersGetTheirOwn ==
    /\ part \in {"links", "errors"} => Api!ScriptsSeeTheirApi
    /\ part = "gsic" => Gsic!AcceptedWhole /\ Gsic!MarkedForDevelopers
    /\ part = "texts" => Util!LastTextsStay
    /\ part = "search" => Util!FindsEveryMatch

(* Saved values: a script gets back what its machine has saved last.        *)
SavedIsRestored == Saved!SavedIsRestored
===============================================================================
