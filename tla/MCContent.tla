------------------------------ MODULE MCContent -------------------------------
(* What mods and scripts bring into the game, each part on its own; a       *)
(* behaviour explores one of them.                                          *)
(*   - Mods: directories with whole, flawed and harmful mods, loaded twice; *)
(*   - GscCustom: the scripts that ModFiles reads from four directories,    *)
(*     next to five scripts of the game;                                    *)
(*   - Hashes: five lists and six texts, three steps;                       *)
(*   - Settings: three keys, two files of the user, two starts.             *)
EXTENDS Integers, Sequences, TLC

CONSTANTS
    Bad, HashesEnabled, Players, Disks, Asked, LuaFiles, Matches, MaxLoads, Absent

VARIABLES disk, storage, loader, loads, basis, level, report, served, lookup

Mod == INSTANCE Mods WITH Threads <- Players, None <- Absent

ASSUME ModsAreWellFormed == Mod!ModsAssumption

modVars == <<disk, storage, loader, loads, basis, level, report, served, lookup>>

Entry(kind, name) ==
    [kind |-> kind, name |-> name, flaws |-> {}, ignore |-> FALSE, cells |-> <<>>,
     pre |-> {}, post |-> {}, format |-> "STRING", hashes |-> {}]
Hook(form, values) == [form |-> form, values |-> values]
NoHook == Hook("absent", <<>>)
CacheEntry(name) ==
    [kind |-> "cache", name |-> name, flaws |-> {}, map |-> NoHook, mode |-> NoHook,
     gametype |-> NoHook]
Redirect(from, to) == [kind |-> "rawfile", origin |-> from, target |-> to, flaws |-> {}]
ModOf(data, cached, redirects) ==
    [metadata |-> "ok", data |-> data, cache |-> cached, redirect |-> redirects]

WholeMods == <<
    ModOf(<<Entry("rawfile", "a"), Entry("rawfile", "b"),
          [Entry("luafile", "f") EXCEPT !.pre = {"menu"}],
          [Entry("luafile", "g") EXCEPT !.pre = {"menu"}, !.post = {"menu"}]>>,
        <<[CacheEntry("c") EXCEPT !.map = Hook("array", <<"town", Bad>>)],
          [CacheEntry("d") EXCEPT !.gametype = Hook("one", <<"duel">>)]>>,
        <<Redirect("x", "a"), Redirect("x", "b")>>),
    [ModOf(<<>>, <<>>, <<>>) EXCEPT !.metadata = "none"]>>

Flawed == <<
    ModOf(<<[Entry("rawfile", "a") EXCEPT !.flaws = {"file"}, !.ignore = TRUE],
          Entry("scriptparsetree", "a"), Entry("localizeentry", "a"),
          [Entry("stringtable", "t") EXCEPT !.cells = <<"good", "invalid">>, !.ignore = TRUE],
          [Entry("hashes", "h") EXCEPT !.hashes = {"a"}, !.format = "COMMON", !.ignore = TRUE],
          Entry("rawfile", "x")>>,
        <<[CacheEntry("e") EXCEPT !.mode = Hook("one", <<"zm">>)]>>, <<>>)>>

Errors == <<
    [ModOf(<<>>, <<>>, <<>>) EXCEPT !.metadata = "bad"],
    ModOf(<<[Entry("scriptparsetree", "a") EXCEPT !.flaws = {"gsic"}],
          [Entry("localizeentry", "a") EXCEPT !.flaws = {"value"}],
          [Entry("luafile", "f") EXCEPT !.flaws = {"hooks"}],
          [Entry("hashes", "h") EXCEPT !.flaws = {"file"}], Entry("movie", "m"),
          [Entry("hashes", "h") EXCEPT !.flaws = {"format"}], Entry("stringtable", "x")>>,
        <<[CacheEntry("e") EXCEPT !.mode = Hook("one", <<Bad>>)]>>,
        <<Redirect("x", "b"), [Redirect("x", "a") EXCEPT !.flaws = {"type"}]>>)>>

BadCache == <<ModOf(<<Entry("rawfile", "x")>>,
                  <<[CacheEntry("e") EXCEPT !.mode = Hook("one", <<Bad>>)]>>, <<>>)>>

Thrown == <<ModOf(<<Entry("rawfile", "x"),
                  [Entry("stringtable", "t") EXCEPT !.cells = <<"range">>]>>, <<>>, <<>>)>>

MCDisks == {WholeMods, Flawed, Errors, BadCache, Thrown}
MCAsked == {<<"rawfile", "x">>, <<"rawfile", "a">>, <<"scriptparsetree", "a">>}
MCMatches == {<<"town", "zm", "war">>, <<"city", "mp", "duel">>}

------------------------------------------------------------------------------
Script(name, base, includes, imports, exports) ==
    [name |-> name, base |-> base, hooks |-> {}, detours |-> <<>>, includes |-> includes,
     imports |-> imports, exports |-> exports]
Calls(fn, sites) == [fn |-> fn, form |-> 2, sites |-> sites]
Detour(target, fn, offset, size) ==
    [target |-> target, fn |-> fn, offset |-> offset, size |-> size]

MCGame == {Script("util", 0, {}, <<>>, {"f"}),
           Script("main", 20, {"util"}, <<Calls("f", {22, 24})>>, {"g"}),
           Script("late", 40, {"util", "main"}, <<Calls("f", {42}), Calls("g", {44})>>, {}),
           Script("odd", 60, {"util"}, <<[fn |-> "f", form |-> 9, sites |-> {62}]>>, {}),
           Script("lost", 80, {"gone"}, <<>>, {})}

Hooking  == [Script("m1", 100, {"util"}, <<Calls("f", {104, 108})>>, {})
               EXCEPT !.hooks = {"main"}, !.detours = <<Detour("util", "f", 2, 4)>>]
Replaced == [Script("late", 200, {"main"}, <<Calls("g", {202, 210})>>, {})
               EXCEPT !.detours = <<Detour("main", "g", 8, 4)>>]
Again    == [Script("m2", 300, {"util"}, <<Calls("f", {302})>>, {})
               EXCEPT !.hooks = {"late"}, !.detours = <<Detour("util", "f", 2, 4)>>]
NoLink   == [Script("m3", 400, {}, <<>>, {}) EXCEPT !.hooks = {"util"}]

\* The scripts that a mod directory brings, in the order they are read.
Custom == {Hooking, Replaced, Again, NoLink}
ScriptEntries(names) ==
    <<ModOf([k \in DOMAIN names |-> Entry("scriptparsetree", names[k])], <<>>, <<>>)>>
ScriptsOf(mods) ==
    LET assets == Mod!LoadMods(Mod!EmptyStorage, mods).storage.assets
    IN [k \in DOMAIN assets |-> CHOOSE s \in Custom : s.name = assets[k].name]
MCLoads ==
    {ScriptsOf(ScriptEntries(names)) : names \in {<<"m1", "late">>, <<"m2", "m1">>, <<"m3">>, <<>>}}
MCGroups == {<<"main">>, <<"util", "late">>, <<"odd">>, <<"lost">>}

CONSTANTS Loads, Game, Groups, Unlinkable, MaxGen, GamesOwn, Undefined

VARIABLES scriptFiles, gen, scriptLevel, objs, links, lists, gone, raised, stale

Scripts == INSTANCE GscCustom
    WITH Broken <- Unlinkable, Own <- GamesOwn, None <- Absent, files <- scriptFiles,
         level <- scriptLevel, data <- lists

ASSUME ScriptsAreWellFormed == Scripts!ScriptsAssumption

scriptVars == <<scriptFiles, gen, scriptLevel, objs, links, lists, gone, raised, stale>>

------------------------------------------------------------------------------
Line(hash, hex, full, rest, within) ==
    [hash |-> hash, hex |-> hex, full |-> full, rest |-> rest, within |-> within]
HashList(format, rows) == [format |-> format, lines |-> rows]
Precomputed ==
    <<Line(<<"64", "q">>, TRUE, TRUE, <<"comma", "blank", "Q">>, 1),
      Line(<<"64", "r">>, FALSE, FALSE, <<"comma", "blank", "r", "comma", "blank", "s">>, 5),
      Line(<<"64", "b">>, TRUE, FALSE, <<"comma", "blank", "b", "comma", "blank", "s">>, 2),
      Line(<<"64", "z">>, TRUE, FALSE, <<"comma", "z">>, 2)>>

MCHashedTexts == {<<>>, <<"F", "o">>, <<"f", "o">>, <<"a", "\\", "b">>, <<"hash_", "64", "q">>,
           <<"x64:", "top", "64", "q", ".lua">>}
MCHashFiles ==
    {HashList("STRING", <<<<"F", "o">>, <<"a", "-">>, <<>>>>), HashList("COMMON", Precomputed),
     HashList("SERIOUS_COMPILER", Precomputed), HashList("bad", Precomputed), HashList("STRING", Absent)}
MCDefaults == <<HashList("STRING", <<<<"f", "\\">>>>), HashList("COMMON", Precomputed)>>

MCSmall == [F |-> "f", Q |-> "q"]
MCParts == {"64", "32", "/", ".lua", "\\", "-", "F", "f", "o", "a", "b", "Q", "q", "r", "s", "z", "comma", "blank",
            "hash_", "x64:", "top"}

CONSTANTS Parts, HashedTexts, HashFiles, Defaults, Small, MaxNamed

VARIABLES hashesStarted, enabled, hashTable, brought, loaded, named

Table == INSTANCE Hashes
    WITH Names <- HashedTexts, None <- Absent, started <- hashesStarted, storage <- hashTable

ASSUME HashesAreWellFormed == Table!HashesAssumption

hashesVars == <<hashesStarted, enabled, hashTable, brought, loaded, named>>

------------------------------------------------------------------------------
CONSTANTS Reads, Values, UserFiles, MaxRuns, Broken, NotAnObject

Value(text, types) == [text |-> text, is |-> types]
Text(text) == Value(text, {"string"})
Five  == Value("5", {"int", "uint"})
Minus == Value("-1", {"int"})
Setting(section, key, type, default) ==
    [section |-> section, key |-> key, type |-> type, default |-> default]
MCReads ==
    {Setting("identity", "xuid", "uint", Five), Setting("identity", "xuid", "int", Minus),
     Setting("identity", "name", "string", Text("abc")),
     Setting("gsc", "hashes", "bool", Value("true", {"bool"}))}
MCUserFiles ==
    {"identity" :> ("xuid" :> Minus @@ "name" :> Text("mine")),
     "identity" :> NotAnObject @@ "gsc" :> ("hashes" :> Value("false", {"bool"}))}

MCValues == {Five, Minus, Text("other")}

VARIABLES file_name, json_doc, writing, runs, lastTold, disturbed, lastRead

Json == INSTANCE Settings WITH None <- Absent, told <- lastTold, answer <- lastRead

ASSUME SettingsAreWellFormed == Json!SettingsAssumption

settingsVars == <<file_name, json_doc, writing, runs, lastTold, disturbed, lastRead>>

------------------------------------------------------------------------------
ContentInit == Mod!Init /\ Scripts!Init /\ Table!HashInit /\ Json!SettingsInit

\* The other parts are still in one of the states they start in, and stay there.
Rests(part) ==
    /\ part = "mods" \/ (disk = WholeMods /\ Mod!Init /\ UNCHANGED modVars)
    /\ part = "scripts" \/ (scriptFiles = <<>> /\ Scripts!Init /\ UNCHANGED scriptVars)
    /\ part = "hashes" \/ (Table!HashInit /\ UNCHANGED hashesVars)
    /\ part = "settings" \/ (file_name = Absent /\ Json!SettingsInit /\ UNCHANGED settingsVars)

ContentNext ==
    \/ Rests("mods") /\ Mod!Next
    \/ Rests("scripts") /\ Scripts!Next
    \/ Rests("hashes") /\ Table!HashNext
    \/ Rests("settings") /\ Json!SettingsNext

ContentSpec == ContentInit /\ [][ContentNext]_<<modVars, scriptVars, hashesVars, settingsVars>>

(* Mods: what they offer is served from whole loads.                        *)
ServesWholeLoads == Mod!ServesWholeLoads

(* Custom scripts: calls lead to the detours meant for them.                *)
DetoursLinked == Scripts!DetoursLinked

(* Custom scripts: a destroyed script is read only in the frontend.         *)
StaleOnlyInFrontend == Scripts!StaleOnlyInFrontend

(* Custom scripts: a lazy link inside a detour goes to the original.        *)
LazyLinkSkipsBody == Scripts!LazyLinkSkipsBody

(* Hashes and settings, the tables that are filled from files: a text that  *)
(* the client shows for a hash has that hash, and what was written to the   *)
(* settings or read from them once is read again.                           *)
TablesReadBack == Table!HashesReadBack /\ Json!SettingsReadBack
===============================================================================
