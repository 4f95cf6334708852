------------------------------- MODULE Commands -------------------------------
(***************************************************************************)
(* component/command.cpp: the handlers of the client's commands and the    *)
(* arguments they read.  The game keeps a command under the hash of its    *)
(* name, in which case does not count, and the arguments of the commands   *)
(* under way in a stack; a handler may run another command or split a text *)
(* with the same stack before it goes on with its own arguments.  There    *)
(* are two such worlds, of the console and of the server ("sv").           *)
(*                                                                         *)
(* component/dvars.cpp: how the client finds a variable of the game by a   *)
(* name or a hash, with the pointers it fetches for its table of known     *)
(* variables, and what it tells of the domain of one.  A number is an      *)
(* integer between the least and the greatest of its type, also where the  *)
(* code has floats.                                                        *)
(***************************************************************************)
EXTENDS Integers, Sequences, SequencesExt

CONSTANTS
    Spellings,   \* ways to write names of commands
    Lower,       \* to_lower, a function from spellings to spellings
    Functions,   \* handlers
    Texts,       \* commands and texts: sequences that begin with a spelling
    MaxNesting,  \* bound on the stack, CMD_MAX_NESTING of the game
    MaxAdded,    \* bound on the registrations
    DvarSpellings, \* ways to write names of variables
    dvars_table, \* the names of the client's table, one spelling each
    NumberTypes, \* from types to the least and the greatest number
    Domains,     \* [type, min, max]
    None

VARIABLES
    command_map, \* per world, from lower-case names to handlers
    added,       \* commands_table: [world, name] in the order of registration
    latest,      \* history: per world and lower-case name, the last handler added
    args,        \* per world, the stack of arguments: sequences of words
    open,        \* the params that are alive, outermost first
    seen,        \* history: the last handler called or arguments read
    registered,  \* the variables of the game: lower-case names
    fetched,     \* fetch_dvar_pointers has run
    pointer      \* of each entry of dvars_table: a variable, or None

commandVars == <<command_map, added, latest, args, open, seen>>
dvarVars == <<registered, fetched, pointer>>

Worlds == {"console", "sv"}
CommandNames == {Lower[s] : s \in Spellings}

\* params remember their place in the stack, and of which words they are (a
\* history).
Params(world, text) == [world |-> world, nesting |-> Len(args[world]) + 1, of |-> text]

CommandInit ==
    /\ command_map = [w \in Worlds |-> [n \in CommandNames |-> None]]
    /\ added = <<>>
    /\ latest = [w \in Worlds |-> [n \in CommandNames |-> None]]
    /\ args = [w \in Worlds |-> <<>>] /\ open = <<>> /\ seen = None

\* Mutant: a command that is there already keeps its handler.
Registered_First(map, name, function) ==
    IF map[name] # None THEN map ELSE [map EXCEPT ![name] = function]

\* map[std::move(lower_command)] = std::move(function)
Registered(map, name, function) == [map EXCEPT ![name] = function]

\* add and add_sv: the game and the table get a command once.
Add(world) ==
    /\ open = <<>> /\ Len(added) < MaxAdded
    /\ \E command \in Spellings, function \in Functions :
         LET name == Lower[command]
         IN /\ command_map' = [command_map EXCEPT ![world] = Registered(@, name, function)]
            /\ added' = IF command_map[world][name] # None THEN added
                        ELSE Append(added, [world |-> world, name |-> command])
            /\ latest' = [latest EXCEPT ![world][name] = function]
    /\ UNCHANGED <<args, open, seen>>

\* The game tokenizes a command that has been registered and calls
\* execute_custom_command or execute_custom_sv_command, from a handler too.
Execute(world) ==
    /\ Len(args[world]) < MaxNesting
    /\ \E text \in Texts :
         LET name == Lower[text[1]]
         IN /\ \E n \in DOMAIN added : added[n].world = world /\ Lower[added[n].name] = name
            /\ args' = [args EXCEPT ![world] = Append(@, text)]
            /\ open' = Append(open, Params(world, text))
            /\ seen' = [kind |-> "called", function |-> command_map[world][name],
                        is |-> latest[world][name]]
    /\ UNCHANGED <<command_map, added, latest>>

\* params(text) and params_sv(text) inside a handler.
Tokenize(world) ==
    /\ open # <<>> /\ Len(args[world]) < MaxNesting
    /\ \E text \in Texts :
         /\ args' = [args EXCEPT ![world] = Append(@, text)]
         /\ open' = Append(open, Params(world, text))
    /\ UNCHANGED <<command_map, added, latest, seen>>

\* Mutant: the arguments on top of the stack are taken.
ArgumentsOf_Top(params) == Last(args[params.world])

ArgumentsOf(params) == args[params.world][params.nesting]

\* size, get and join, of any params of the handlers under way.
ReadArguments ==
    /\ \E n \in DOMAIN open :
         LET own == ArgumentsOf(open[n])
         IN \E index \in 1 .. MaxNesting :
              seen' = [kind |-> "read", of |-> open[n].of, index |-> index,
                       get  |-> IF index > Len(own) THEN <<>> ELSE <<own[index]>>,
                       join |-> SubSeq(own, index, Len(own))]
    /\ UNCHANGED <<command_map, added, latest, args, open>>

\* The innermost params are destroyed, and their arguments dropped: by the
\* destructor of those made from a text, by the game for those of a command.
End ==
    /\ open # <<>>
    /\ open' = Front(open)
    /\ args' = [args EXCEPT ![Last(open).world] = Front(@)]
    /\ UNCHANGED <<command_map, added, latest, seen>>

CommandNext ==
    \/ \E world \in Worlds : Add(world) \/ Execute(world) \/ Tokenize(world)
    \/ ReadArguments \/ End

CommandSpec == CommandInit /\ [][CommandNext]_commandVars

------------------------------------------------------------------------------
(* Variables *)

\* Dvar_FindVar and Dvar_FindVar_Hash
GameFinds(name) == IF Lower[name] \in registered THEN Lower[name] ELSE None

\* compare: Identical or CaseVariant
Entry(name) ==
    LET same == {n \in DOMAIN dvars_table : dvars_table[n] = name \/ Lower[dvars_table[n]] = Lower[name]}
    IN IF same # {} THEN Min(same) ELSE 0

\* Mutant: an entry of the table counts even if it has no pointer.
find_dvar_Cached(name) == IF Entry(name) # 0 THEN pointer[Entry(name)] ELSE GameFinds(name)

\* find_dvar, of a name and of a hash
find_dvar(name) ==
    IF Entry(name) # 0 /\ pointer[Entry(name)] # None THEN pointer[Entry(name)] ELSE GameFinds(name)

DvarInit ==
    /\ registered = {} /\ fetched = FALSE
    /\ pointer = [n \in DOMAIN dvars_table |-> None]

\* The game registers variables as its parts come up, and keeps them.
Register ==
    /\ \E name \in DvarSpellings : Lower[name] \notin registered /\ registered' = registered \cup {Lower[name]}
    /\ UNCHANGED <<fetched, pointer>>

\* fetch_dvar_pointers, scheduled once on the main pipeline.
Fetch ==
    /\ ~fetched /\ fetched' = TRUE
    /\ pointer' = [n \in DOMAIN dvars_table |-> GameFinds(dvars_table[n])]
    /\ registered' = registered

DvarNext == Register \/ Fetch

DvarSpec == DvarInit /\ [][DvarNext]_dvarVars

------------------------------------------------------------------------------
(* get_domain_string and get_vector_string: the numbers that are shown *)

Least(type)    == NumberTypes[type][1]
Greatest(type) == NumberTypes[type][2]

DomainOfSigned(d) ==
    CASE d.min = Least(d.type) /\ d.max = Greatest(d.type) -> <<"any">>
      [] d.min = Least(d.type) /\ d.max # Greatest(d.type) -> <<"or smaller", d.max>>
      [] d.min # Least(d.type) /\ d.max = Greatest(d.type) -> <<"or bigger", d.min>>
      [] OTHER -> <<"from to", d.min, d.max>>

\* UINT64 tests its bounds in another order.
DomainOfUnsigned(d) ==
    IF d.min # 0
      THEN IF d.max = Greatest(d.type) THEN <<"or bigger", d.min>> ELSE <<"from to", d.min, d.max>>
      ELSE IF d.max = Greatest(d.type) THEN <<"any">> ELSE <<"or smaller", d.max>>

get_domain_string(d) ==
    IF d.type = "uint64" THEN DomainOfUnsigned(d) ELSE DomainOfSigned(d)

------------------------------------------------------------------------------
(* Properties *)

\* A command runs the handler that was added last under its name, in any
\* spelling, and each name is handed to the game once per world.
LastHandlerRuns ==
    /\ seen # None /\ seen.kind = "called" => seen.function = seen.is /\ seen.function # None
    /\ \A m, n \in DOMAIN added :
         added[m].world = added[n].world /\ Lower[added[m].name] = Lower[added[n].name] => m = n

\* Whatever commands a handler runs and texts it splits meanwhile, it reads
\* the words of its own command, and an empty one past their end.
ArgumentsAreOwn ==
    seen # None /\ seen.kind = "read" =>
      /\ seen.get = IF seen.index \in DOMAIN seen.of THEN <<seen.of[seen.index]>> ELSE <<>>
      /\ seen.join = SubSeq(seen.of, seen.index, Len(seen.of))

\* However a variable is written, and whether it was registered before or after
\* the pointers were fetched, the client finds what the game finds.
FindsAsTheGame == \A name \in DvarSpellings : find_dvar(name) = GameFinds(name)

\* The text of a domain tells every bound that is one, and no other.
DomainsAreTold ==
    \A d \in Domains :
        LET text == get_domain_string(d)
            told == ToSet(Tail(text))
            real == {b \in {d.min, d.max} : b \notin {Least(d.type), Greatest(d.type)}}
        IN /\ real \subseteq told
           /\ text[1] = "or smaller" => d.min = Least(d.type)
           /\ text[1] = "or bigger" => d.max = Greatest(d.type)
           /\ text[1] = "any" => {d.min, d.max} = {Least(d.type), Greatest(d.type)}
===============================================================================
