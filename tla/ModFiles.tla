------------------------------- MODULE ModFiles -------------------------------
(***************************************************************************)
(* component/mods.cpp, the reading of a mod: what each member of its       *)
(* metadata.json leaves in the storage, and which of its flaws the readers *)
(* notice.  There is no state here; Mods and GscCustom use what is read.   *)
(*                                                                         *)
(* A name stands for its hash.  A directory is a sequence of mods, a mod   *)
(* says whether its metadata can be read ("ok"), cannot ("bad") or is not  *)
(* there ("none") and has a sequence of entries for each member of it.  An *)
(* entry of "data" is a record with its kind, its name, what is wrong with *)
(* it (flaws), whether ignore_error is set, and what its file holds: cells *)
(* of a table in the order they are read, the hashes of a list.  A hook of *)
(* a cache entry is a list or one value; Bad is a value of the wrong type  *)
(* or an unknown mode.                                                     *)
(***************************************************************************)
EXTENDS Integers, SequencesExt

CONSTANTS Bad, HashesEnabled  \* HashesEnabled: "gsc/hashes" of the settings

EmptyStorage == [assets |-> <<>>, cache |-> <<>>, redirects |-> <<>>, hashes |-> {}]

\* Mutant: the redirects of the mods that were there before stay.
Clear_Redirects(storage) ==
    [EmptyStorage EXCEPT !.hashes = storage.hashes, !.redirects = storage.redirects]

\* mod_storage::clear; the table of hashes belongs to another component.
Clear(storage) == [EmptyStorage EXCEPT !.hashes = storage.hashes]

------------------------------------------------------------------------------
(* read_data_entry, one operator per kind *)

\* A file of the interface is known by the hash of its name with the extension.
AssetName(e) == IF e.kind = "luafile" THEN <<e.name, "lua">> ELSE e.name

Nothing(result) == [result |-> result, assets |-> <<>>, hashes |-> {}]
Adds(e)         == [result |-> "ok", hashes |-> {},
                    assets |-> <<[kind |-> e.kind, name |-> AssetName(e), entry |-> e]>>]
Has(e, flaws)   == e.flaws \cap flaws # {}

\* The file, the header of its detours and its magic are checked; a debug
\* section that is not there is no error.
ReadScript(e) ==
    IF Has(e, {"name", "path", "hooks", "file", "gsic", "magic"}) THEN Nothing("failed")
                                                                  ELSE Adds(e)

ReadRawFile(e) == IF Has(e, {"name", "path", "file"}) THEN Nothing("failed") ELSE Adds(e)

ReadLocalize(e) == IF Has(e, {"name", "value"}) THEN Nothing("failed") ELSE Adds(e)

ReadLua(e) ==
    IF Has(e, {"name", "path", "hooks", "hooks_post", "file"}) THEN Nothing("failed")
                                                              ELSE Adds(e)

\* The first cell that cannot be converted ends the reading: the handler
\* knows invalid_argument, while a number out of range or a row that is too
\* short is thrown through it.
ReadTable(e) ==
    LET wrong == SelectInSeq(e.cells, LAMBDA cell : cell # "good")
    IN CASE Has(e, {"name", "path", "file", "separator", "column"}) -> Nothing("failed")
         [] ~Has(e, {"name", "path", "file", "separator", "column"}) /\ wrong = 0 -> Adds(e)
         [] OTHER -> Nothing(IF e.cells[wrong] = "invalid" THEN "failed" ELSE "thrown")

\* load_file: the end of a list in the COMMON format is reported as a failure.
LoadHashes(e) ==
    CASE ~HashesEnabled -> Nothing("ok")
      [] HashesEnabled /\ Has(e, {"file"}) -> Nothing("failed")
      [] OTHER -> [Nothing(IF e.format = "COMMON" THEN "failed" ELSE "ok")
                     EXCEPT !.hashes = e.hashes]

ReadHashes(e) == IF Has(e, {"path", "format"}) THEN Nothing("failed") ELSE LoadHashes(e)

ReadDataEntry(e) ==
    CASE e.kind = "scriptparsetree" -> ReadScript(e)
      [] e.kind = "rawfile" -> ReadRawFile(e)
      [] e.kind = "localizeentry" -> ReadLocalize(e)
      [] e.kind = "luafile" -> ReadLua(e)
      [] e.kind = "stringtable" -> ReadTable(e)
      [] e.kind = "hashes" -> ReadHashes(e)
      [] OTHER -> Nothing("failed")

------------------------------------------------------------------------------
(* read_cache_entry and read_redirect_entry *)

\* In a list what is not a value is passed over; alone it fails the entry.
Refused(hook) == hook.form = "other" \/ (hook.form = "one" /\ Bad \in ToSet(hook.values))
Hooked(hook)  == ToSet(hook.values) \ {Bad}

ReadCacheEntry(e) ==
    IF Has(e, {"type", "name"}) \/ \E hook \in {e.map, e.mode, e.gametype} : Refused(hook)
      THEN <<>>
      ELSE <<[name |-> e.name, map |-> Hooked(e.map), mode |-> Hooked(e.mode),
              gametype |-> Hooked(e.gametype)]>>

\* assets_redirects[type][from] = to, or the map as it was.
ReadRedirectEntry(redirects, e) ==
    IF Has(e, {"type", "origin", "target"}) THEN redirects
    ELSE [key \in DOMAIN redirects \cup {<<e.kind, e.origin>>} |->
             IF key = <<e.kind, e.origin>> THEN e.target ELSE redirects[key]]

------------------------------------------------------------------------------
(* load_mods.  A reading is the storage so far, whether there were errors   *)
(* and whether an exception has ended it.                                   *)

Reading(storage) == [storage |-> storage, err |-> FALSE, thrown |-> FALSE]

DataMember(reading, e) ==
    LET read == ReadDataEntry(e)
    IN IF reading.thrown THEN reading
       ELSE [storage |-> [reading.storage EXCEPT !.assets = @ \o read.assets,
                                                 !.hashes = @ \cup read.hashes],
             err     |-> reading.err \/ (read.result = "failed" /\ ~e.ignore),
             thrown  |-> read.result = "thrown"]

CacheMember(reading, e) ==
    IF reading.thrown THEN reading
    ELSE [reading EXCEPT !.storage.cache = @ \o ReadCacheEntry(e),
                         !.err = @ \/ ReadCacheEntry(e) = <<>>]

RedirectMember(reading, e) ==
    IF reading.thrown THEN reading
    ELSE [reading EXCEPT !.storage.redirects = ReadRedirectEntry(@, e),
                         !.err = @ \/ Has(e, {"type", "origin", "target"})]

\* What load_mods comes to in a directory, in this order.  A mod without
\* metadata is none; metadata that cannot be read or parsed counts as an entry.
Part(member, list) == [k \in DOMAIN list |-> [member |-> member, e |-> list[k]]]

EntriesOf(mod) ==
    CASE mod.metadata = "none" -> <<>>
      [] mod.metadata = "bad" -> <<[member |-> "metadata", e |-> Bad]>>
      [] OTHER -> Part("data", mod.data) \o Part("cache", mod.cache)
                    \o Part("redirect", mod.redirect)

Entries(disk) == FlattenSeq([m \in DOMAIN disk |-> EntriesOf(disk[m])])

ReadEntry(reading, x) ==
    CASE x.member = "data"     -> DataMember(reading, x.e)
      [] x.member = "cache"    -> CacheMember(reading, x.e)
      [] x.member = "redirect" -> RedirectMember(reading, x.e)
      [] OTHER                 -> [reading EXCEPT !.err = TRUE]

LoadMods(storage, disk) == FoldLeft(ReadEntry, Reading(Clear(storage)), Entries(disk))

------------------------------------------------------------------------------
(* What is served *)

\* get_xasset: the first asset of the kind with the name.
GetXAsset(storage, kind, name) ==
    LET i == SelectInSeq(storage.assets, LAMBDA a : a.kind = kind /\ a.name = name)
    IN IF i = 0 THEN <<>> ELSE <<storage.assets[i]>>

\* The redirect of a name, looked up once.
Redirected(storage, kind, name) ==
    IF <<kind, name>> \in DOMAIN storage.redirects THEN storage.redirects[<<kind, name>>] ELSE name

\* A loop over a list that goes on with the elements at some of its places.
Kept(list, places) ==
    LET upTo[k \in 0 .. Len(list)] ==
          CASE k = 0 -> <<>>
            [] k \in places -> Append(upTo[k - 1], list[k])
            [] OTHER -> upTo[k - 1]
    IN upTo[Len(list)]

\* sync_cache_entries: the entries for the map, mode or gametype.
CustomCache(storage, map, mode, gametype) ==
    LET For(c) == mode \in c.mode \/ map \in c.map \/ gametype \in c.gametype
    IN Kept(storage.cache, {k \in DOMAIN storage.cache : For(storage.cache[k])})

\* hksl_loadfile_stub: the files around a file that is loaded.
LuaLoaded(storage, file) ==
    LET lua == {k \in DOMAIN storage.assets : storage.assets[k].kind = "luafile"}
        before == {k \in lua : file \in storage.assets[k].entry.pre}
        after  == {k \in lua : file \in storage.assets[k].entry.post}
        Names(places) == LET assets == Kept(storage.assets, places)
                         IN [i \in DOMAIN assets |-> assets[i].entry.name]
    IN Names(before) \o <<file>> \o Names(after)
==============================================================================
