------------------------------- MODULE ScriptApi -------------------------------
(***************************************************************************)
(* component/gsc_funcs.cpp with the linking side of gsc_custom.cpp: which  *)
(* functions scripts can call, when functions and blocks for developers    *)
(* are among them, what is reported of a script that cannot be linked, and *)
(* the messages of errors.  The server and the client machine may run at   *)
(* the same time; they share the switches enable_dev_func and              *)
(* enable_dev_blocks.                                                      *)
(*                                                                         *)
(* A name stands for its canon hash.  The game's own tables are constants, *)
(* and its linker looks each import up once, in any order; it calls        *)
(* find_linking_issues when an import is unknown (external).               *)
(***************************************************************************)
EXTENDS Integers, Sequences, SequencesExt, FiniteSets

CONSTANTS
    Functions, \* the game's functions: from names to 0, or 1 for developers
    Methods,   \* the same for its methods
    Objs,      \* scripts: [name, exports, includes, imports]
    CsvErrors, \* rows of custom_errors.csv: [typed, code, text]
    MaxErrors, \* bound on the errors raised
    None

\* An export is [fn, hidden]; an import [fn, call, builtin, dev, shield]: call
\* is "function", "method" or "reference", dev that it stands in a block for
\* developers, shield that the block was compiled for this client.

VARIABLES
    started,    \* pre_start has run
    option,     \* gsc.dev_funcs and gsc.dev_blocks
    enable,     \* enable_dev_func
    resolving,  \* per instance: [obj, todo, back] inside gsc_obj_resolve_stub
    results,    \* per instance: what each import of the last script became
    overlapped, \* history: two instances have been resolving at the same time
    pushed,     \* the function last pushed by a lazy link
    raising,    \* per instance: the error on its way, [code, text]
    buffers,    \* the two static buffers of an instance, gsc_error's and the stub's
    shown       \* history: the errors that have been shown, with their text

linkVars == <<started, option, enable, resolving, results, overlapped, pushed>>
errorVars == <<raising, buffers, shown>>

Machines == {"server", "client"}

custom_functions_csc == <<
    <<"ShieldLog", "shield_log">>, <<"ShieldClearHudElems", "shield_clear_hud_elems">>,
    <<"ShieldRegisterHudElem", "shield_register_hud_elem">>,
    <<"ShieldRemoveHudElem", "shield_remove_hud_elem">>,
    <<"ShieldHudElemSetText", "shield_hud_elem_set_text">>,
    <<"ShieldHudElemSetX", "shield_hud_elem_set_x">>,
    <<"ShieldHudElemSetY", "shield_hud_elem_set_y">>,
    <<"ShieldHudElemSetColor", "shield_hud_elem_set_color">>,
    <<"ShieldHudElemSetScale", "shield_hud_elem_set_scale">>,
    <<"SeriousCustom", "serious_custom_func">>, <<"ShieldFromJson", "shield_from_json">>,
    <<"ShieldRemoveJson", "shield_to_json">>, <<"ShieldToJson", "shield_to_json">>,
    <<"ShieldHashLookup", "hash_lookup">>>>

\* Only the server has PreCache, before the functions for JSON.
custom_functions_gsc ==
    InsertAt(custom_functions_csc, 11, <<"PreCache", "pre_cache_resource">>)

Table(i) == IF i = "server" THEN custom_functions_gsc ELSE custom_functions_csc

\* find_if over the table.
First(i, column, value) == SelectInSeq(Table(i), LAMBDA f : f[column] = value)

------------------------------------------------------------------------------
(* Lookups *)

Missing == [func |-> None, type |-> 0]

\* The type that a stub gives back.
Type(type) == IF enable THEN 0 ELSE type

\* scr_get_function_stub, cscr_get_function_stub
GetFunction(i, name) ==
    LET n == First(i, 1, name)
    IN CASE name \in DOMAIN Functions -> [func |-> name, type |-> Type(Functions[name])]
         [] name \notin DOMAIN Functions /\ n # 0 -> [func |-> Table(i)[n][2], type |-> 0]
         [] OTHER -> Missing

\* scr_get_method_stub, cscr_get_method_stub
GetMethod(name) ==
    IF name \in DOMAIN Methods THEN [func |-> name, type |-> Type(Methods[name])] ELSE Missing

\* scr_get_function_reverse_lookup_stub, cscr_get_function_reverse_lookup_stub
ReverseLookup(i, func) ==
    LET n == First(i, 2, func)
    IN CASE func \in DOMAIN Functions -> func
         [] func \notin DOMAIN Functions /\ n # 0 -> Table(i)[n][1]
         [] OTHER -> None

\* vm_op_custom_lazylink for a function of the game: the method of that name
\* if there is no function or it is for developers.
LazyApi(i, name) ==
    LET function == GetFunction(i, name)
        found == IF function.func = None \/ (function.type # 0 /\ ~enable)
                   THEN GetMethod(name) ELSE function
    IN IF found.func # None /\ (found.type = 0 \/ enable) THEN found.func ELSE None

------------------------------------------------------------------------------
(* Linking *)

ObjNamed(name) == CHOOSE o \in Objs : o.name = name

\* The exports that find_linking_issues takes into account.
Available(obj) ==
    {x.fn : x \in obj.exports}
    \cup UNION {{x.fn : x \in {y \in ObjNamed(u).exports : ~y.hidden}} : u \in obj.includes}

\* Mutant: a function for developers is called known.
Callable_Any(found) == found.func # None

Callable(found) == found.func # None /\ found.type = 0

KnownImport(i, obj, imp) ==
    \/ imp.fn \in Available(obj)
    \/ /\ imp.builtin
       /\ \/ imp.call \in {"function", "reference"} /\ Callable(GetFunction(i, imp.fn))
          \/ imp.call \in {"method", "reference"} /\ Callable(GetMethod(imp.fn))

\* find_linking_issues: the imports it writes to the log.
UnknownImports(i, obj) == {imp \in obj.imports : ~imp.dev /\ ~KnownImport(i, obj, imp)}

\* gsc_obj_resolve_stub, before the game's function: the imports of blocks
\* compiled for this client are no longer for developers.  It is hooked only
\* with dev_blocks.
Marked(imp) == IF imp.shield /\ option.blocks THEN [imp EXCEPT !.dev = FALSE] ELSE imp

------------------------------------------------------------------------------
LinkInit ==
    /\ started = FALSE /\ option = [funcs |-> FALSE, blocks |-> FALSE]
    /\ enable = FALSE
    /\ resolving = [i \in Machines |-> None]
    /\ results = [i \in Machines |-> None]
    /\ overlapped = FALSE /\ pushed = None

ErrorInit ==
    /\ raising = [i \in Machines |-> None]
    /\ buffers = [i \in Machines |-> [gsc |-> None, stub |-> None]]
    /\ shown = <<>>

\* component::pre_start
ApiPreStart ==
    /\ ~started /\ started' = TRUE
    /\ \E funcs, blocks \in BOOLEAN : option' = [funcs |-> funcs, blocks |-> blocks]
    /\ enable' = option'.funcs
    /\ UNCHANGED <<resolving, results, overlapped, pushed>>

ResolveBegin(i) ==
    /\ started /\ resolving[i] = None /\ results[i] = None
    /\ \E obj \in Objs :
         LET marked == [obj EXCEPT !.imports = {Marked(imp) : imp \in obj.imports}]
         IN /\ resolving' = [resolving EXCEPT ![i] =
                  [obj |-> marked, todo |-> marked.imports, back |-> enable]]
            /\ results' = [results EXCEPT ![i] = [obj |-> marked, known |-> {}, unknown |-> {}]]
    /\ enable' = (option.blocks \/ enable)
    /\ overlapped' = (overlapped \/ \E j \in Machines : resolving[j] # None)
    /\ UNCHANGED <<started, option, pushed>>

\* The game resolves an import, or passes over one for developers.
ResolveImport(i) ==
    /\ resolving[i] # None
    /\ \E imp \in resolving[i].todo :
         LET known == KnownImport(i, resolving[i].obj, imp)
         IN /\ resolving' = [resolving EXCEPT ![i].todo = @ \ {imp}]
            /\ results' = IF imp.dev THEN results
                          ELSE IF known THEN [results EXCEPT ![i].known = @ \cup {imp}]
                          ELSE [results EXCEPT ![i].unknown = @ \cup {imp}]
    /\ UNCHANGED <<started, option, enable, overlapped, pushed>>

\* Mutant: the switch is left as the resolving has set it.
Restored_Kept(back) == enable

Restored(back) == IF option.blocks THEN back ELSE enable

ResolveEnd(i) ==
    /\ resolving[i] # None /\ resolving[i].todo = {}
    /\ resolving' = [resolving EXCEPT ![i] = None]
    /\ enable' = Restored(resolving[i].back)
    /\ UNCHANGED <<started, option, results, overlapped, pushed>>

\* The issues of the script have been reported, the next one is linked.
Linked(i) ==
    /\ resolving[i] = None /\ results[i] # None
    /\ results' = [results EXCEPT ![i] = None]
    /\ UNCHANGED <<started, option, enable, resolving, overlapped, pushed>>

\* A script runs a lazy link of a name of the game.
LazyLinkApi(i) ==
    /\ started
    /\ \E name \in DOMAIN Functions \cup DOMAIN Methods :
         pushed' = [name |-> LazyApi(i, name),
                    free |-> \A j \in Machines : resolving[j] = None]
    /\ UNCHANGED <<started, option, enable, resolving, results, overlapped>>

LinkNext ==
    \/ ApiPreStart
    \/ \E i \in Machines :
         ResolveBegin(i) \/ ResolveImport(i) \/ ResolveEnd(i) \/ Linked(i) \/ LazyLinkApi(i)

------------------------------------------------------------------------------
(* Errors *)

KnownCodes == {"known"}     \* those of the table of variables.cpp
WithText == {"assert", "errormsg", "custom"}
Messages == {"m1", "m2"}
Errors == [code : WithText, text : Messages] \cup [code : {"known", "csv", "other"}, text : {None}]

\* get_error_message: the table, then the first well-typed row of the file.
get_error_message(code) ==
    LET row == SelectInSeq(CsvErrors, LAMBDA r : r.typed /\ r.code = code)
    IN CASE code \in KnownCodes -> <<code>>
         [] code \notin KnownCodes /\ row # 0 -> <<CsvErrors[row].text>>
         [] OTHER -> None

\* gsc_error formats its text into the buffer of its instance, which goes on
\* with the error as its argument; the game raises errors without a text.
Raise(i) ==
    /\ raising[i] = None
    /\ Len(shown) + Cardinality({j \in Machines : raising[j] # None}) < MaxErrors
    /\ \E error \in Errors :
         /\ raising' = [raising EXCEPT ![i] = error]
         /\ buffers' = IF error.code = "custom" THEN [buffers EXCEPT ![i].gsc = <<error.text>>]
                       ELSE buffers
    /\ shown' = shown

\* scrvm_error_stub: assertions are formatted into a buffer of the instance.
ScrVmError(i) ==
    /\ raising[i] # None
    /\ LET code == raising[i].code
           after == CASE code = "assert"   -> <<"assert fail", raising[i].text>>
                      [] code = "errormsg" -> <<"error", raising[i].text>>
                      [] OTHER             -> buffers[i].stub
       IN /\ buffers' = [buffers EXCEPT ![i].stub = after]
          /\ shown' = Append(shown,
               [of |-> raising[i],
                text |-> CASE code \in {"assert", "errormsg"} -> after
                           [] code = "custom" -> buffers[i].gsc
                           [] OTHER -> get_error_message(code)])
    /\ raising' = [raising EXCEPT ![i] = None]

ErrorNext == \E i \in Machines : Raise(i) \/ ScrVmError(i)

------------------------------------------------------------------------------
(* get_gsc_export_info *)

CONSTANT Segments \* linked scripts: [magic, cseg, size, exports: [fn, address]]

\* The export of a position in a script: the loop keeps the last best one.
BestExport(segment, rloc) ==
    FoldLeft(LAMBDA best, x :
               IF rloc < x.address \/ (best # None /\ best.address > x.address) THEN best ELSE x,
             None, segment.exports)

get_gsc_export_info(pos) ==
    LET n == SelectInSeq(Segments, LAMBDA s : pos \in s.magic + s.cseg .. s.magic + s.cseg + s.size - 1)
        export == BestExport(Segments[n], pos - Segments[n].magic)
    IN IF n = 0 THEN None
       ELSE [script |-> n, sloc |-> pos - Segments[n].magic,
             fn |-> IF export = None THEN None ELSE export.fn]

------------------------------------------------------------------------------
(* Properties *)

ForDevelopers(name) ==
    (name \in DOMAIN Functions /\ Functions[name] = 1) \/ (name \in DOMAIN Methods /\ Methods[name] = 1)

\* Functions for developers are called and linked only if the user has asked
\* for them or for the blocks of developers; with the blocks, every import of
\* a block compiled for this client that exists is linked; and the switch is back where
\* the user has set it after each script.  Two machines that resolve at the
\* same time take it from each other.
DevelopersOnly ==
    ~overlapped =>
      /\ (\A i \in Machines : resolving[i] = None) => enable = option.funcs
      /\ pushed # None /\ pushed.free /\ pushed.name # None /\ ForDevelopers(pushed.name)
           => option.funcs \/ (pushed.name \in DOMAIN Methods /\ Methods[pushed.name] = 0)
      /\ \A i \in Machines : results[i] # None =>
           /\ (\E imp \in results[i].known : ForDevelopers(imp.fn)) => option.funcs \/ option.blocks
           /\ \A imp \in results[i].unknown :
                imp.shield /\ option.blocks /\ imp.builtin /\ imp.call = "function"
                => imp.fn \notin DOMAIN Functions

\* The log names every import that could not be linked.
CausesAreLogged ==
    \A i \in Machines : results[i] # None /\ resolving[i] = None /\ ~overlapped =>
        results[i].unknown \subseteq UnknownImports(i, results[i].obj)

\* A function found under one name and named after the table again is the same
\* function, although two names have the same one.
NamesAreOfFunctions ==
    \A i \in Machines, n \in DOMAIN custom_functions_gsc :
        LET name == custom_functions_gsc[n][1]
            func == GetFunction(i, name).func
        IN func # None => GetFunction(i, ReverseLookup(i, func)).func = func

\* What is shown for an error is its own text, whatever the other machine and
\* earlier errors have left.
MessageIsOwn ==
    \A n \in DOMAIN shown :
        LET code == shown[n].of.code
        IN CASE code \in WithText -> Last(shown[n].text) = shown[n].of.text
             [] code \in KnownCodes -> shown[n].text = <<code>>
             [] OTHER -> shown[n].text = None \/ \E r \in ToSet(CsvErrors) :
                           r.typed /\ r.code = code /\ shown[n].text = <<r.text>>

\* The export that is named for a position is the nearest one before it in the
\* script that holds the position.
ExportIsNearest ==
    \A n \in DOMAIN Segments : \A pos \in Segments[n].magic .. Segments[n].magic + Segments[n].size :
        LET info == get_gsc_export_info(pos)
            before == {x \in ToSet(Segments[info.script].exports) : x.address <= info.sloc}
        IN info # None =>
             /\ Segments[info.script].magic + info.sloc = pos
             /\ (info.fn = None) <=> (before = {})
             /\ before # {} => \E x \in before :
                  x.fn = info.fn /\ \A y \in before : y.address <= x.address

ScriptsSeeTheirApi ==
    /\ DevelopersOnly
    /\ CausesAreLogged
    /\ NamesAreOfFunctions
    /\ MessageIsOwn
    /\ ExportIsNearest
===============================================================================
