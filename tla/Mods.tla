--------------------------------- MODULE Mods ---------------------------------
(***************************************************************************)
(* component/mods.cpp, the storage of the mods at work.  The main thread   *)
(* loads the mods at start and on reload_mods, holding load_mutex from the *)
(* clearing to the last entry.  Other threads of the game look assets up:  *)
(* the redirect is read without the lock, the asset with it, so a reload   *)
(* can begin between the two or be under way during the first.             *)
(***************************************************************************)
EXTENDS ModFiles

CONSTANTS
    Threads,  \* threads of the game that look assets up
    Disks,    \* contents the mod directory can have, sequences of mods
    Asked,    \* the <<kind, name>> that are looked up
    LuaFiles, \* files of the interface that are loaded
    Matches,  \* the <<map, mode, gametype>> that are played
    MaxLoads, \* bound: loads of the mods
    None

\* What can be wrong with an entry is what the reader of its kind looks at.
FlawsOf ==
    [scriptparsetree |-> {"name", "path", "hooks", "file", "gsic", "magic"},
     rawfile         |-> {"name", "path", "file"},
     localizeentry   |-> {"name", "value"},
     luafile         |-> {"name", "path", "hooks", "hooks_post", "file"},
     stringtable     |-> {"name", "path", "file", "separator", "column"},
     hashes          |-> {"path", "format", "file"}]

DataIsWellFormed(e) ==
    /\ e.ignore \in BOOLEAN
    /\ e.kind \in DOMAIN FlawsOf => e.flaws \subseteq FlawsOf[e.kind]
    /\ e.cells \in Seq({"good", "invalid", "range"})
    /\ e.kind # "stringtable" => e.cells = <<>>

CacheIsWellFormed(e) ==
    /\ e.flaws \subseteq {"type", "name"}
    /\ \A hook \in {e.map, e.mode, e.gametype} :
         /\ hook.form \in {"absent", "array", "one", "other"}
         /\ hook.values \in Seq(ToSet(hook.values))
         /\ hook.form = "one" => Len(hook.values) = 1

IsWellFormed(mod) ==
    mod.metadata \notin {"none", "bad"} =>
        /\ \A list \in {mod.data, mod.cache, mod.redirect} : list \in Seq(ToSet(list))
        /\ \A e \in ToSet(mod.data) : DataIsWellFormed(e)
        /\ \A e \in ToSet(mod.cache) : CacheIsWellFormed(e)
        /\ \A e \in ToSet(mod.redirect) : e.flaws \subseteq {"type", "origin", "target"}

\* The entries are well formed, a match is of values that can be hooked, and
\* None stands for no load.
ModsAssumption ==
    /\ \A d \in Disks : /\ d \in Seq(ToSet(d))
                        /\ \A mod \in ToSet(d) : IsWellFormed(mod)
                        /\ Entries(d) # None
    /\ \A m \in Matches : Bad \notin {m[1], m[2], m[3]}
    /\ HashesEnabled \in BOOLEAN

VARIABLES
    disk,     \* the mod directory now
    storage,
    loader,   \* [pc, all, at, err]: load_mods on the main thread, the entries
              \* of the directory, how many are read, whether there were errors
    loads,    \* how many loads have begun
    basis,    \* history: what the last complete load has read, or None
    level,    \* "ui" or "game": Com_IsRunningUILevel
    report,   \* what the last load reported
    served,   \* what the main thread was served last: custom_cache with the
              \* match it was made for, or the files loaded for a lua file
    lookup    \* [pc, asked, name, torn, answer, of] per thread

vars == <<disk, storage, loader, loads, basis, level, report, served, lookup>>

Idle == [pc |-> "idle", asked |-> None, name |-> None, torn |-> FALSE, answer |-> <<>>,
         of |-> None]

Init ==
    /\ disk \in Disks
    /\ storage = EmptyStorage
    /\ loader = [pc |-> "start", all |-> <<>>, at |-> 0, err |-> FALSE]
    /\ loads = 0 /\ basis = None /\ level = "ui" /\ report = None /\ served = None
    /\ lookup = [t \in Threads |-> Idle]

\* The user edits the directory; not while it is being read.
Edit ==
    /\ loader.pc # "loading"
    /\ disk' \in Disks \ {disk}
    /\ UNCHANGED <<storage, loader, loads, basis, level, report, served, lookup>>

ChangeLevel ==
    /\ loader.pc = "idle"
    /\ level' = IF level = "ui" THEN "game" ELSE "ui"
    /\ UNCHANGED <<disk, storage, loader, loads, basis, report, served, lookup>>

\* post_unpack, or the command while the frontend runs.
LoadBegin ==
    /\ loader.pc = "start" \/ (loader.pc = "idle" /\ level = "ui")
    /\ loads < MaxLoads
    /\ loads' = loads + 1
    /\ storage' = Clear(storage)
    /\ loader' = [pc |-> "loading", all |-> Entries(disk), at |-> 0, err |-> FALSE]
    /\ basis' = None
    /\ lookup' = [t \in Threads |->
                    [lookup[t] EXCEPT !.torn = @ \/ lookup[t].pc = "redirected"]]
    /\ UNCHANGED <<disk, level, report, served>>

\* The next entry, of whichever mod it is; an exception leaves load_mods.
LoadOne ==
    LET read == ReadEntry([Reading(storage) EXCEPT !.err = loader.err], loader.all[loader.at + 1])
    IN /\ loader.pc = "loading" /\ loader.at < Len(loader.all)
       /\ storage' = read.storage
       /\ loader' = IF read.thrown THEN [loader EXCEPT !.pc = "thrown"]
                    ELSE [loader EXCEPT !.at = @ + 1, !.err = read.err]
       /\ UNCHANGED <<disk, loads, basis, level, report, served, lookup>>

\* The lock is released; after the first load the hooks are set.
LoadEnd ==
    /\ loader.pc = "loading" /\ loader.at = Len(loader.all)
    /\ loader' = [loader EXCEPT !.pc = "idle"]
    /\ basis' = loader.all
    /\ report' = IF loader.err THEN "errors" ELSE "reloaded"
    /\ UNCHANGED <<disk, storage, loads, level, served, lookup>>

\* bg_cache_sync_stub, under the lock, on the main thread.  Without the two
\* dvars nothing is added.
BgCacheSync ==
    /\ loader.pc = "idle"
    /\ \E m \in Matches, dvars \in BOOLEAN :
         served' = [what |-> IF dvars THEN "cache" ELSE "nothing", key |-> m, of |-> basis,
                    list |-> IF dvars THEN CustomCache(storage, m[1], m[2], m[3]) ELSE <<>>]
    /\ UNCHANGED <<disk, storage, loader, loads, basis, level, report, lookup>>

\* hksl_loadfile_stub
LoadLua ==
    /\ loader.pc = "idle"
    /\ \E file \in LuaFiles :
         served' = [what |-> "lua", key |-> file, of |-> basis, list |-> LuaLoaded(storage, file)]
    /\ UNCHANGED <<disk, storage, loader, loads, basis, level, report, lookup>>

\* db_find_xasset_header_stub and db_does_xasset_exist_stub: the redirect ...
LookupRedirect(t) ==
    /\ loads > 1 \/ loader.pc = "idle"
    /\ lookup[t].pc = "idle"
    /\ \E a \in Asked :
         lookup' = [lookup EXCEPT ![t] =
            [Idle EXCEPT !.pc = "redirected", !.asked = a,
                         !.name = Redirected(storage, a[1], a[2]),
                         !.torn = loader.pc # "idle"]]
    /\ UNCHANGED <<disk, storage, loader, loads, basis, level, report, served>>

LockIsFree == loader.pc # "loading"

\* ... and the asset under that name, or else the game's own.
LookupAsset(t) ==
    /\ lookup[t].pc = "redirected" /\ LockIsFree
    /\ lookup' = [lookup EXCEPT ![t].pc = "done", ![t].of = basis,
                    ![t].answer = GetXAsset(storage, lookup[t].asked[1], lookup[t].name)]
    /\ UNCHANGED <<disk, storage, loader, loads, basis, level, report, served>>

Return(t) ==
    /\ lookup[t].pc = "done"
    /\ lookup' = [lookup EXCEPT ![t] = Idle]
    /\ UNCHANGED <<disk, storage, loader, loads, basis, level, report, served>>

Next ==
    \/ Edit \/ ChangeLevel \/ LoadBegin \/ LoadOne \/ LoadEnd \/ BgCacheSync \/ LoadLua
    \/ \E t \in Threads : LookupRedirect(t) \/ LookupAsset(t) \/ Return(t)

Spec == Init /\ [][Next]_vars

------------------------------------------------------------------------------
(* Properties *)

\* The entries of a member that a directory has, by their places in the order
\* they are read.
Places(all, member) == {i \in DOMAIN all : all[i].member = member}

AssetKinds == {"scriptparsetree", "rawfile", "localizeentry", "luafile", "stringtable"}

Good(e) == e.flaws = {} /\ \A c \in DOMAIN e.cells : e.cells[c] = "good"

\* An entry of the cache is taken as a whole or not at all.
GoodCache(e) ==
    e.flaws = {} /\ \A hook \in {e.map, e.mode, e.gametype} :
        hook.form # "other" /\ (hook.form = "one" => hook.values # <<Bad>>)

Assets(all) == {i \in Places(all, "data") : all[i].e.kind \in AssetKinds /\ Good(all[i].e)}

\* What a directory offers under a name: the first entry without a flaw.
Offered(all, kind, name) ==
    LET found == {i \in Assets(all) : all[i].e.kind = kind /\ AssetName(all[i].e) = name}
    IN IF found = {} THEN {} ELSE {all[Min(found)].e}

\* The name that stands for a name: the last redirect of it decides.
Meant(all, kind, name) ==
    LET redirects == {i \in Places(all, "redirect") :
                        all[i].e.flaws = {} /\ all[i].e.kind = kind /\ all[i].e.origin = name}
    IN IF redirects = {} THEN name ELSE all[Max(redirects)].e.target

Taken(e) ==
    \/ e.kind \in AssetKinds /\ Good(e)
    \/ e.kind = "hashes" /\ HashesEnabled /\ e.flaws = {} /\ e.format # "COMMON"
    \/ e.kind = "hashes" /\ ~HashesEnabled /\ e.flaws \subseteq {"file"}

\* A load reports errors exactly when a mod could not be read or an entry was
\* not taken, unless that entry said to ignore it; a list of hashes in the
\* COMMON format always counts as not taken.
ReportIsTrue ==
    (loader.pc = "idle" /\ report # None) =>
        (report = "errors" <=>
            \/ Places(basis, "metadata") # {}
            \/ \E i \in Places(basis, "data") : ~basis[i].e.ignore /\ ~Taken(basis[i].e)
            \/ \E i \in Places(basis, "cache") : ~GoodCache(basis[i].e)
            \/ \E i \in Places(basis, "redirect") : basis[i].e.flaws # {})

\* A list has the names of the entries at some places, in their order.
Lists(list, all, places) ==
    \E at \in [DOMAIN list -> places] :
        /\ \A k \in DOMAIN list : list[k] = all[at[k]].e.name
        /\ \A k, l \in DOMAIN list : k < l => at[k] < at[l]
        /\ \A i \in places : \E k \in DOMAIN list : at[k] = i

\* Whatever reloads and edits of the directory fall between the two steps of a
\* lookup, it is answered from one whole load: with what that load offers under
\* the name that was read, and that name is the one the same load means unless
\* a load began or was under way in between.
AnsweredFrom(a) ==
    /\ {a.answer[i].entry : i \in DOMAIN a.answer} = Offered(a.of, a.asked[1], a.name)
    /\ ~a.torn => a.name = Meant(a.of, a.asked[1], a.asked[2])

LookupsAreWhole ==
    \A t \in Threads : lookup[t].pc = "done" =>
        IF lookup[t].of = None THEN loader.pc = "thrown" ELSE AnsweredFrom(lookup[t])

\* The cache of a match has the entries of one load for that match.
CacheIsWhole ==
    (served # None /\ served.what = "cache") =>
        LET For(e) == /\ GoodCache(e)
                      /\ \/ served.key[1] \in ToSet(e.map.values)
                         \/ served.key[2] \in ToSet(e.mode.values)
                         \/ served.key[3] \in ToSet(e.gametype.values)
            cached == Places(served.of, "cache")
        IN Lists([k \in DOMAIN served.list |-> served.list[k].name], served.of,
                 {i \in cached : For(served.of[i].e)})

\* A lua file is loaded between the files hooked before and after it.
LuaIsWhole ==
    (served # None /\ served.what = "lua") =>
        LET lua == {i \in Assets(served.of) : served.of[i].e.kind = "luafile"}
            list == served.list
        IN \E k \in DOMAIN list :
             /\ list[k] = served.key
             /\ Lists(SubSeq(list, 1, k - 1), served.of,
                      {i \in lua : served.key \in served.of[i].e.pre})
             /\ Lists(SubSeq(list, k + 1, Len(list)), served.of,
                      {i \in lua : served.key \in served.of[i].e.post})

\* What the mods offer is served from whole loads: to lookups on any thread, to
\* the cache of a match and around a lua file; and the report of a load is true
\* of it.
ServesWholeLoads == ReportIsTrue /\ LookupsAreWhole /\ CacheIsWhole /\ LuaIsWhole
==============================================================================
