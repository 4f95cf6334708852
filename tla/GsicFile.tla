------------------------------- MODULE GsicFile -------------------------------
(***************************************************************************)
(* component/mods.cpp, the files of scripts: the GSIC header with detours  *)
(* in front of a script, the debug section that a compiler leaves in it,   *)
(* and the corrections a script needs before the game may link it.         *)
(*                                                                         *)
(* A file is what a compiler writes, possibly cut at any byte: a record    *)
(* with the fields of its header (none without one) and its script.  Once  *)
(* its magic has been found a script is taken as well formed, as the code  *)
(* does.  Names stand for their hashes.                                    *)
(***************************************************************************)
EXTENDS Integers, Sequences, SequencesExt

CONSTANTS
    Files,        \* [gsic, fields, script], a field is [type, detours]
    EntryNames,   \* the names that metadata.json gives to scripts
    DetourBytes,  \* of one detour in the header, 256 in the code
    ObjBytes,     \* sizeof(GSC_OBJ)
    None

\* A script is [magic, imports, debug], debug None or [version, strings,
\* detours, devblocks], an import [name, params, dev, shield].

VARIABLES
    gsc_files,  \* the scripts of the storage
    attempt     \* history: the last file, how much of it there was, and the result

gsicVars == <<gsc_files, attempt>>

MagicBytes == 8             \* of the debug section
GSIC_FIELD_DETOUR == 0
ADF_STRING == 16
ADF_DETOUR == 17
ADF_DEVBLOCK_BEGIN == 18

------------------------------------------------------------------------------
(* load_gsic *)

can_read_gsic(length, header, bytes) == length >= header + bytes

\* Mutant: a header that cannot be read is taken as none.
Refused_Taken == [ok |-> TRUE, header |-> 0, detours |-> <<>>]

Refused == [ok |-> FALSE, header |-> 0, detours |-> <<>>]

\* One field, read from where the one before ended.
ReadField(length, read, field) ==
    LET counted == read.header + 8
        bytes   == Len(field.detours) * DetourBytes
    IN IF /\ read.ok
          /\ can_read_gsic(length, read.header, 4)
          /\ field.type = GSIC_FIELD_DETOUR
          /\ can_read_gsic(length, read.header + 4, 4)
          /\ can_read_gsic(length, counted, bytes)
         THEN [ok |-> TRUE, header |-> counted + bytes, detours |-> read.detours \o field.detours]
         ELSE Refused

load_gsic(file, length) ==
    CASE ~file.gsic \/ ~can_read_gsic(length, 0, 4) -> [Refused EXCEPT !.ok = TRUE]
      [] file.gsic /\ can_read_gsic(length, 0, 4) /\ ~can_read_gsic(length, 4, 4) -> Refused
      [] OTHER -> FoldLeft(LAMBDA read, field : ReadField(length, read, field),
                           [ok |-> TRUE, header |-> 8, detours |-> <<>>], file.fields)

------------------------------------------------------------------------------
(* load_acts_debug *)

HasFeature(debug, feature) == debug # None /\ debug.version >= feature

\* The section stands behind the header of the script.
Debug(script, left) == IF left < ObjBytes + MagicBytes THEN None ELSE script.debug

DebugStrings(debug) == IF HasFeature(debug, ADF_STRING) THEN ToSet(debug.strings) ELSE {}
DebugDetours(debug) == IF HasFeature(debug, ADF_DETOUR) THEN debug.detours ELSE <<>>

\* Opcodes are aligned to two bytes.
align_ptr(position) == position + (position % 2)

DevBlocks(debug, enabled) ==
    IF enabled /\ HasFeature(debug, ADF_DEVBLOCK_BEGIN) THEN debug.devblocks ELSE <<>>

Opcodes(debug, enabled) == {align_ptr(p) : p \in ToSet(DevBlocks(debug, enabled))}

\* Mutant: every import is marked for the linker of this client.
MarkDev_All(imports, debug, enabled) ==
    IF DevBlocks(debug, enabled) = <<>> THEN imports
    ELSE [n \in DOMAIN imports |-> [imports[n] EXCEPT !.shield = TRUE]]

MarkDev(imports, debug, enabled) ==
    IF DevBlocks(debug, enabled) = <<>> THEN imports
    ELSE [n \in DOMAIN imports |-> [imports[n] EXCEPT !.shield = @ \/ imports[n].dev]]

------------------------------------------------------------------------------
(* read_data_entry, the branch of scripts *)

\* Calls of the compiler's own namespace look like IsProfileBuild with
\* parameters; they go to the function of this client.
CustomCalls(imports) ==
    [n \in DOMAIN imports |->
        IF imports[n].name = "IsProfileBuild" /\ imports[n].params # 0
          THEN [imports[n] EXCEPT !.name = "SeriousCustom"] ELSE imports[n]]

Loaded(file, length, name, enabled) ==
    LET read  == load_gsic(file, length)
        left  == length - read.header
        debug == Debug(file.script, left)
    IN IF ~read.ok \/ left < ObjBytes \/ ~file.script.magic
         THEN None
         ELSE [name    |-> name,
               detours |-> read.detours \o DebugDetours(debug),
               imports |-> CustomCalls(MarkDev(file.script.imports, debug, enabled)),
               opcodes |-> Opcodes(debug, enabled),
               strings |-> DebugStrings(debug)]

HeaderBytes(file) ==
    IF ~file.gsic THEN 0
    ELSE FoldLeft(LAMBDA n, field : n + 8 + Len(field.detours) * DetourBytes, 8, file.fields)

GsicInit == gsc_files = <<>> /\ attempt = None

\* mods are read while the storage is locked, a file as it is on the disk.
LoadScript ==
    \E file \in Files, name \in EntryNames, enabled \in BOOLEAN :
      \E length \in 0 .. HeaderBytes(file) + ObjBytes + MagicBytes :
        LET script == Loaded(file, length, name, enabled)
        IN /\ gsc_files' = IF script = None THEN gsc_files ELSE Append(gsc_files, script)
           /\ attempt' = [file |-> file, length |-> length, name |-> name, enabled |-> enabled]

\* mod_storage::clear
ClearScripts == gsc_files # <<>> /\ gsc_files' = <<>> /\ attempt' = None

GsicNext == (gsc_files = <<>> /\ LoadScript) \/ ClearScripts

------------------------------------------------------------------------------
(* Properties *)

Known(file) == \A n \in DOMAIN file.fields : file.fields[n].type = GSIC_FIELD_DETOUR

DeclaredDetours(file) == FlattenSeq([n \in DOMAIN file.fields |-> file.fields[n].detours])

\* A file is accepted exactly if its header is whole, of fields that are known,
\* and a script stands behind it; what is accepted has all the detours of both
\* sections in their order.  A file that was cut leaves nothing behind.
AcceptedWhole ==
    attempt # None =>
      LET file  == attempt.file
          left  == attempt.length - HeaderBytes(file)
          debug == IF left >= ObjBytes + MagicBytes THEN file.script.debug ELSE None
      IN /\ gsc_files # <<>> <=> (left >= ObjBytes /\ Known(file) /\ file.script.magic)
         /\ gsc_files # <<>> =>
              Last(gsc_files).detours = DeclaredDetours(file) \o DebugDetours(debug)

\* The imports of an accepted script are those of the file, in their order; only
\* those for developers are given to the linker of this client, and only if the
\* user wants blocks of developers and the script has one, at an aligned opcode.
MarkedForDevelopers ==
    gsc_files # <<>> =>
      LET script == Last(gsc_files)
          before == attempt.file.script.imports
          wanted == attempt.enabled /\ script.opcodes # {}
      IN /\ DOMAIN script.imports = DOMAIN before
         /\ \A n \in DOMAIN before :
              /\ script.imports[n].shield <=> (before[n].shield \/ (wanted /\ before[n].dev))
              /\ script.imports[n].name = before[n].name
                 \/ (before[n].name = "IsProfileBuild" /\ before[n].params > 0)
         /\ \A opcode \in script.opcodes :
              opcode % 2 = 0 /\ {opcode - 1, opcode} \cap ToSet(attempt.file.script.debug.devblocks) # {}
===============================================================================
