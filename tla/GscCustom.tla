------------------------------- MODULE GscCustom -------------------------------
(***************************************************************************)
(* component/gsc_custom.cpp with the script side of mods.cpp: custom       *)
(* scripts are linked next to or in place of the game's, and their detours *)
(* take over the calls of a function in every script that can see it.      *)
(* Each instance of the script machine, server and client, has its own     *)
(* list of linked scripts and of detours; the scripts of the mods are      *)
(* shared.                                                                 *)
(*                                                                         *)
(* A list of detours refers to a script of the mods by reference: after a  *)
(* reload it refers to nothing.  The game, which is not in the repository, *)
(* links the scripts of a group one after the other, once each, and        *)
(* forgets all of them when it goes from one level to the next.            *)
(*                                                                         *)
(* An import is a function with the places that call it (sites).  A place  *)
(* is an address: the start of the script in memory and an offset.         *)
(***************************************************************************)
EXTENDS Integers, SequencesExt, FiniteSetsExt

CONSTANTS
    Loads,     \* what a load can leave in gsc_files, sequences of scripts
    Game,      \* the game's own scripts
    Groups,    \* sequences of names that are loaded together
    Broken,    \* names of scripts that cannot be linked
    MaxGen,    \* bound: loads of the mods
    Own,       \* the function that a call names
    Undefined, \* no function
    None

\* A script is a record: name, base (where it is in memory), hooks, detours,
\* includes, imports, exports.  A detour: target, fn, offset, size.  An import:
\* fn, form (1 for &fn, 2..7 for calls, anything else is damaged), sites.

\* Scripts lie at addresses, and the game has the scripts of every group.
WellFormed(script) ==
    /\ script.base \in Nat /\ \A m \in ToSet(script.imports) : m.sites \subseteq Nat
    /\ Len(script.detours) \in Nat /\ DOMAIN script.detours = 1 .. Len(script.detours)
    /\ \A d \in ToSet(script.detours) : d.offset \in Nat /\ d.size \in Nat

ScriptsAssumption ==
    /\ \A load \in Loads : Len(load) \in Nat /\ DOMAIN load = 1 .. Len(load)
    /\ \A script \in Game \cup UNION {ToSet(load) : load \in Loads} : WellFormed(script)
    /\ \A group \in Groups : /\ Len(group) \in Nat /\ DOMAIN group = 1 .. Len(group)
                             /\ \A n \in DOMAIN group : \E s \in Game : s.name = group[n]

VARIABLES
    files,    \* storage.gsc_files
    gen,      \* how many loads there were
    level,    \* "ui" or "game": Com_IsRunningUILevel
    objs,     \* gObjFileInfo: the linked scripts per instance
    links,    \* per instance and linked script: where each site leads to
    data,     \* gsic_data: [file, latest] per instance
    gone,     \* the instances with lists of scripts that a reload has destroyed
    raised,   \* the terminal errors raised in each instance
    stale     \* history: the level in which a detour was read that was no
              \* longer there, or None

vars == <<files, gen, level, objs, links, data, gone, raised, stale>>

Instances == {"server", "client"}

Init ==
    /\ files \in Loads /\ gen = 1 /\ level = "ui"
    /\ objs = [i \in Instances |-> <<>>]
    /\ links = [i \in Instances |-> <<>>]
    /\ data = [i \in Instances |-> <<>>] /\ gone = {}
    /\ raised = [i \in Instances |-> {}]
    /\ stale = None

Detours(entry) == files[entry.file].detours
Start(entry, d) == files[entry.file].base + d.offset
Key(d) == <<d.target, d.fn>>

------------------------------------------------------------------------------
(* The linking of one script.  A linking is what it has done so far.        *)

\* Mutant: a list begins with the scripts that are linked after it.
NewEntry_Late(linking, file) == [file |-> file, latest |-> Len(linking.objs)]

\* A new list has seen no script, also none of those linked before it.
NewEntry(linking, file) == [file |-> file, latest |-> 0]

\* sync_gsic: a second detour of a function is an error and is not added.
SyncGsic(linking, file) ==
    LET keys == {Key(d) : d \in ToSet(files[file].detours)}
        taken == UNION {{Key(d) : d \in ToSet(Detours(e))} : e \in ToSet(linking.data)}
    IN CASE \E e \in ToSet(linking.data) : e.file = file -> linking
         [] (\A e \in ToSet(linking.data) : e.file # file) /\ keys \cap taken # {} ->
              [linking EXCEPT !.raised = @ \cup {"twice"}]
         [] OTHER -> [linking EXCEPT !.data = Append(@, NewEntry(linking, file))]

\* The game's own linker (external): a script is linked once, its sites lead
\* to the functions they name.
LinkObj(linking, script) ==
    CASE script.name \in Broken -> [linking EXCEPT !.failed = TRUE]
      [] script.name \notin Broken /\ script \in ToSet(linking.objs) -> linking
      [] OTHER -> [linking EXCEPT
            !.objs = Append(@, script),
            !.links = Append(@, [p \in UNION {m.sites : m \in ToSet(script.imports)} |-> Own])]

\* scr_gsc_obj_link_stub: the scripts hooked on it, in the order of the files,
\* and then the script, which may itself come from a mod.
LinkCustom(linking, file) ==
    IF linking.failed THEN linking ELSE LinkObj(SyncGsic(linking, file), files[file])

LinkHooked(linking, name) ==
    LET after[k \in 0 .. Len(files)] ==
          CASE k = 0 -> linking
            [] k # 0 /\ name \in files[k].hooks -> LinkCustom(after[k - 1], k)
            [] OTHER -> after[k - 1]
    IN after[Len(files)]

ScrGscObjLink(linking, name) ==
    LET hooked == LinkHooked(linking, name)
        custom == {k \in DOMAIN files : files[k].name = name}
    IN CASE hooked.failed -> hooked
         [] ~hooked.failed /\ custom # {} -> LinkCustom(hooked, Min(custom))
         [] OTHER -> LinkObj(hooked, CHOOSE s \in Game : s.name = name)

\* The game links the scripts of a group one after the other.
LinkGroup(linking, group) ==
    LET after[n \in 0 .. Len(group)] ==
          IF n = 0 THEN linking ELSE ScrGscObjLink(after[n - 1], group[n])
    IN after[Len(group)]

------------------------------------------------------------------------------
(* link_detours: for each list the scripts that were linked since it was    *)
(* last here.                                                               *)

Sees(script, d) == d.target \in script.includes \/ d.target = script.name

\* A site inside the body of the detour goes on to the original.
InBody(entry, d, place) == Start(entry, d) <= place /\ place < Start(entry, d) + d.size

Takes(entry, script, d, place) ==
    /\ Sees(script, d) /\ ~InBody(entry, d, place)
    /\ \E m \in ToSet(script.imports) : m.fn = d.fn /\ place \in m.sites

\* Each detour in turn is written to the sites it takes; the last one stays.
Relink(entry, script, linked) ==
    [p \in DOMAIN linked |->
        LET taken == {n \in DOMAIN Detours(entry) : Takes(entry, script, Detours(entry)[n], p)}
        IN IF taken = {} THEN linked[p]
           ELSE [file |-> entry.file, detour |-> Detours(entry)[Max(taken)]]]

\* An import with a form that does not exist ends it all; asserts are not
\* compiled into the released build.
Damaged(entry, script) ==
    \E d \in ToSet(Detours(entry)) : Sees(script, d) /\
       \E m \in ToSet(script.imports) : m.fn = d.fn /\ m.form \notin 1..7

DetoursOf(linking, k) ==
    LET entry   == linking.data[k]
        new     == entry.latest + 1 .. Len(linking.objs)
        damaged == {o \in new : Damaged(entry, linking.objs[o])}
        last    == IF damaged = {} THEN Len(linking.objs) ELSE Min(damaged) - 1
    IN IF linking.stop THEN linking
       ELSE [linking EXCEPT
               !.links = [o \in DOMAIN @ |->
                            IF o \in new /\ o <= last THEN Relink(entry, linking.objs[o], @[o])
                                                     ELSE @[o]],
               !.data[k].latest = last,
               !.stop = damaged # {}]

LinkDetours(linking) ==
    LET after[k \in 0 .. Len(linking.data)] ==
          IF k = 0 THEN [linking EXCEPT !.stop = FALSE] ELSE DetoursOf(after[k - 1], k)
    IN after[Len(linking.data)]

------------------------------------------------------------------------------
(* find_linking_issues, called when a script of a group cannot be linked:   *)
(* the missing #usings of the first instance that has some are raised      *)
(* there, and then in any case the error of the server.  The unknown       *)
(* imports are only written to the log.                                    *)

Missing(scripts) ==
    UNION {s.includes : s \in ToSet(scripts)} \ {s.name : s \in Game \cup ToSet(files)}

FindLinkingIssues(all) ==
    LET bad == SelectSeq(<<"server", "client">>, LAMBDA i : Missing(all[i]) # {})
    IN [i \in Instances |->
          (IF bad # <<>> /\ Head(bad) = i THEN {"usings"} ELSE {})
          \cup (IF i = "server" THEN {"linking"} ELSE {})]

------------------------------------------------------------------------------
(* Actions *)

\* Mutant: the lists of the level before are kept.
ClearGsic_Never(i) == data[i]

\* clear_gsic, before the first script of an instance
ClearGsic(i) == IF objs[i] = <<>> THEN <<>> ELSE data[i]

Dangling(i, entries) == i \in gone /\ entries # <<>>

\* scr_get_gsc_obj_stub, for a group with a script that is not linked yet:
\* every list that is still there is read.
ScrGetGscObj(i) ==
    /\ stale = None
    /\ \E group \in Groups :
         LET begin == [objs |-> objs[i], links |-> links[i], data |-> ClearGsic(i),
                       raised |-> {}, failed |-> FALSE, stop |-> FALSE]
             linked == LinkGroup(begin, group)
             done == LinkDetours(linked)
             issues == FindLinkingIssues([objs EXCEPT ![i] = linked.objs])
         IN /\ ToSet(group) \ {s.name : s \in ToSet(objs[i])} # {}
            /\ IF Dangling(i, begin.data)
              THEN stale' = level /\ UNCHANGED <<objs, links, data, gone, raised>>
              ELSE /\ objs' = [objs EXCEPT ![i] = done.objs]
                   /\ links' = [links EXCEPT ![i] = done.links]
                   /\ data' = [data EXCEPT ![i] = done.data]
                   /\ gone' = gone \ {i}
                   /\ raised' = [j \in Instances |->
                        (IF j = i THEN done.raised ELSE {})
                        \cup (IF done.failed THEN issues[j] ELSE {})]
                   /\ UNCHANGED stale
    /\ UNCHANGED <<files, gen, level>>

\* find_detour: "inside the detour" is decided by the offset of the detour.
Inside(entry, d, origin) ==
    Start(entry, d) <= origin /\ origin < Start(entry, d) + d.offset

\* The detours of an instance: the list and the place in it, in their order.
Active(i) ==
    UNION {{<<k, n>> : n \in DOMAIN Detours(data[i][k])} : k \in DOMAIN data[i]}
Before(a, b) == a[1] < b[1] \/ (a[1] = b[1] /\ a[2] < b[2])
DetourAt(i, a) == [file |-> data[i][a[1]].file, detour |-> Detours(data[i][a[1]])[a[2]]]

FindDetour(i, origin, target, fn) ==
    LET found == {a \in Active(i) :
                    LET d == DetourAt(i, a).detour
                    IN Key(d) = <<target, fn>> /\ ~Inside(data[i][a[1]], d, origin)}
    IN IF found = {} THEN None
       ELSE DetourAt(i, CHOOSE a \in found : \A b \in found : ~Before(b, a))

\* find_export: the function of the target script, if that is linked.
FindExport(i, target, fn) ==
    IF \E s \in ToSet(objs[i]) : s.name = target
       /\ fn \in (CHOOSE s2 \in ToSet(objs[i]) : s2.name = target).exports
      THEN Own ELSE Undefined

\* vm_op_custom_lazylink: what is pushed on the stack of the machine.
LazyLinked(i, origin, target, fn) ==
    IF FindDetour(i, origin, target, fn) # None THEN FindDetour(i, origin, target, fn)
                                                ELSE FindExport(i, target, fn)

\* The places at which linked scripts may hold a lazy link.
Places(i) == UNION {UNION {m.sites : m \in ToSet(s.imports)} : s \in ToSet(objs[i])}

\* A script that runs a lazy link reads every list; nothing else changes here.
LazyLink(i) ==
    /\ stale = None
    /\ Places(i) # {}
    /\ stale' = IF Dangling(i, data[i]) THEN level ELSE None
    /\ UNCHANGED <<files, gen, level, objs, links, data, gone, raised>>

\* mods_reload_f: refused while a match runs.
Reload ==
    /\ stale = None /\ gen < MaxGen
    /\ level = "ui"
    /\ files' \in Loads /\ gen' = gen + 1
    /\ gone' = gone \cup {i \in Instances : data[i] # <<>>}
    /\ UNCHANGED <<level, objs, links, data, raised, stale>>

\* The game goes to another level and forgets its scripts (external).
ChangeLevel ==
    /\ stale = None
    /\ level' = IF level = "ui" THEN "game" ELSE "ui"
    /\ objs' = [i \in Instances |-> <<>>]
    /\ links' = [i \in Instances |-> <<>>]
    /\ raised' = [i \in Instances |-> {}]
    /\ UNCHANGED <<files, gen, data, gone, stale>>

Next ==
    \/ Reload \/ ChangeLevel
    \/ \E i \in Instances : ScrGetGscObj(i) \/ LazyLink(i)

Spec == Init /\ [][Next]_vars

------------------------------------------------------------------------------
(* Properties *)

\* Where a site of a script must lead: the last detour of a function it calls
\* whose target the script is or includes, unless the site lies in the body.
Wanted(i, script, place) ==
    LET mine == {a \in Active(i) :
                   LET d == DetourAt(i, a).detour
                       begin == files[DetourAt(i, a).file].base + d.offset
                   IN /\ Sees(script, d)
                      /\ \E m \in ToSet(script.imports) : m.fn = d.fn /\ place \in m.sites
                      /\ place \notin begin .. begin + d.size - 1}
    IN IF mine = {} THEN Own
       ELSE DetourAt(i, CHOOSE a \in mine : \A b \in mine : ~Before(a, b))

\* After each group every call that a detour is meant for leads to it and no
\* other call does, whatever the order in which hooked, replaced and later
\* scripts were linked and however often groups were added (unless a damaged
\* import has ended the linking); and two scripts of the mods never detour
\* the same function.
DetoursLinked ==
    \A i \in Instances : (~Dangling(i, data[i]) /\ stale = None) =>
      /\ (\A s \in ToSet(objs[i]) : \A m \in ToSet(s.imports) : m.form \in 1..7) =>
           \A o \in DOMAIN objs[i] : \A p \in DOMAIN links[i][o] :
              links[i][o][p] = Wanted(i, objs[i][o], p)
      /\ \A a, b \in Active(i) : DetourAt(i, a).file # DetourAt(i, b).file =>
           Key(DetourAt(i, a).detour) # Key(DetourAt(i, b).detour)

\* A detour of a script that a reload has destroyed is read only in the
\* frontend, where a reload is allowed while scripts are linked ("if a script
\* is loaded in the frontend, it will still crash", mods.cpp:1194), never in a match.
StaleOnlyInFrontend == stale \in {None, "ui"}

\* A lazy link inside the body of a detour goes to the original, one outside
\* of it to the detour (gsc_custom.cpp:69, "inside the detour").
LazyLinkSkipsBody ==
    \A i \in Instances : ~Dangling(i, data[i]) =>
      \A n \in Active(i), place \in Places(i) :
        LET a == DetourAt(i, n)
            begin == files[a.file].base + a.detour.offset
        IN LazyLinked(i, place, a.detour.target, a.detour.fn) = a
             <=> place \notin begin .. begin + a.detour.size - 1
==============================================================================
