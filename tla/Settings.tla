------------------------------- MODULE Settings -------------------------------
(***************************************************************************)
(* utilities/json_config.cpp: the settings of the user in project-bo4.json.*)
(* The file is read once, at the first use; a setting that is missing or   *)
(* has the wrong type gets its default, and then the whole document is     *)
(* written again.  The client may end between the two steps of a write.    *)
(*                                                                         *)
(* A value is [text, is]: is is the set of types that accept it, as 5 is   *)
(* an int and an unsigned one while -1 is no unsigned one.                 *)
(***************************************************************************)
EXTENDS Integers, Sequences

CONSTANTS
    Reads,      \* the reads of the client: [section, key, type, default]
    Values,     \* values that are written
    UserFiles,  \* what the user writes to the file
    MaxRuns,    \* bound on the number of starts
    Broken,     \* a file that cannot be parsed
    NotAnObject, None

\* A document is a function from sections to functions from keys to values,
\* or to NotAnObject.

VARIABLES
    file_name, \* the file: None, Broken or a document
    json_doc,  \* None before get_json_document has been called
    writing,   \* the file has been emptied and not yet written
    runs,      \* starts of the client so far
    told,      \* history: what the client and the user have last seen of a setting
    disturbed, \* history: the file may differ from what they have seen
    answer     \* history: the last read, its value and what was told before

settingsVars == <<file_name, json_doc, writing, runs, told, disturbed, answer>>

Keys == {<<r.section, r.key>> : r \in Reads}

Get(doc, key) ==
    CASE key[1] \notin DOMAIN doc -> None
      [] key[1] \in DOMAIN doc /\ doc[key[1]] = NotAnObject -> None
      [] OTHER -> IF key[2] \in DOMAIN doc[key[1]] THEN doc[key[1]][key[2]] ELSE None

\* HasMember and IsX
Fits(value, type) == value # None /\ type \in value.is

\* A default has the type of its setting; None and Broken are no documents.
SettingsAssumption ==
    /\ \A r \in Reads : Fits(r.default, r.type)
    /\ None \notin UserFiles /\ Broken \notin UserFiles

\* Static initialization of the document: an empty one if the file is not there
\* or has a parse error.
get_json_document ==
    CASE json_doc # None -> json_doc
      [] json_doc = None /\ file_name \in {None, Broken} -> <<>>
      [] OTHER -> file_name

\* AddMember, or SetX of a member that is there.
With(object, name, value) ==
    [n \in DOMAIN object \cup {name} |-> IF n = name THEN value ELSE object[n]]

\* Mutant: a section is set up again although it is an object.
get_json_section_Reset(doc, section) == With(doc, section, <<>>)

get_json_section(doc, section) ==
    IF section \in DOMAIN doc /\ doc[section] # NotAnObject THEN doc
                                                            ELSE With(doc, section, <<>>)

SetMember(doc, key, value) ==
    [get_json_section(doc, key[1]) EXCEPT ![key[1]] = With(@, key[2], value)]

\* write_json_config opens the file, which empties it; a file that cannot be
\* opened stays as it was, and no caller looks at the result.
write_json_config(opens) ==
    IF opens THEN writing' = TRUE /\ file_name' = Broken /\ disturbed' = disturbed
             ELSE writing' = FALSE /\ file_name' = file_name /\ disturbed' = TRUE

\* The settings that the file has.
InFile ==
    [key \in Keys |-> IF file_name \in {None, Broken} THEN None ELSE Get(file_name, key)]

------------------------------------------------------------------------------
SettingsInit ==
    /\ file_name \in {None, Broken} \cup UserFiles
    /\ json_doc = None /\ writing = FALSE /\ runs = 1 /\ disturbed = FALSE /\ answer = None
    /\ told = InFile

Answered(r, value) ==
    /\ answer' = [type |-> r.type, value |-> value, was |-> told[<<r.section, r.key>>]]
    /\ told' = [told EXCEPT ![<<r.section, r.key>>] = value]

\* ReadBoolean, ReadString, ReadInteger and the other three.
Read ==
    /\ ~writing
    /\ \E r \in Reads :
         LET key   == <<r.section, r.key>>
             doc   == get_json_section(get_json_document, r.section)
             value == Get(doc, key)
         IN \/ /\ Fits(value, r.type)
               /\ json_doc' = doc
               /\ Answered(r, value)
               /\ UNCHANGED <<file_name, writing, runs, disturbed>>
            \/ /\ ~Fits(value, r.type)
               /\ json_doc' = SetMember(doc, key, r.default)
               /\ Answered(r, r.default)
               /\ \E opens \in BOOLEAN : write_json_config(opens)
               /\ runs' = runs

\* WriteBoolean, WriteString, WriteInteger and the other three.
Write ==
    /\ ~writing
    /\ \E r \in Reads, value \in Values :
         /\ r.type \in value.is
         /\ json_doc' = SetMember(get_json_document, <<r.section, r.key>>, value)
         /\ told' = [told EXCEPT ![<<r.section, r.key>>] = value]
         /\ \E opens \in BOOLEAN : write_json_config(opens)
    /\ UNCHANGED <<runs, answer>>

\* stream.write and close; what is printed is what a parser reads.
WriteEnd ==
    /\ writing /\ writing' = FALSE
    /\ file_name' = json_doc
    /\ disturbed' = FALSE
    /\ UNCHANGED <<json_doc, runs, told, answer>>

\* The user edits the file while the client is running or after it has ended.
Edit ==
    /\ ~writing
    /\ file_name' \in UserFiles \cup {Broken}
    /\ IF json_doc = None
         THEN told' = InFile' /\ disturbed' = FALSE
         ELSE told' = told /\ disturbed' = TRUE
    /\ UNCHANGED <<json_doc, writing, runs, answer>>

\* The client ends, perhaps in the middle of a write, and is started again;
\* where the file differs from what was told, it is the file that counts.
Restart ==
    /\ json_doc # None /\ runs < MaxRuns
    /\ json_doc' = None /\ writing' = FALSE /\ disturbed' = FALSE /\ runs' = runs + 1
    /\ told' = IF disturbed \/ writing THEN InFile ELSE told
    /\ UNCHANGED <<file_name, answer>>

SettingsNext == Read \/ Write \/ WriteEnd \/ Edit \/ Restart

SettingsSpec == SettingsInit /\ [][SettingsNext]_settingsVars

------------------------------------------------------------------------------
(* Properties *)

\* A setting that the user has written, or the client has read or written, is
\* what the next read of a type that accepts it gives, after a restart too.
\* Where the file was edited under a running client or could not be written,
\* the restarted client reads what the file has; after an end in the middle of
\* a write that is nothing.  What is read has the type that was asked for.
SettingsReadBack ==
    answer # None =>
      /\ Fits(answer.value, answer.type)
      /\ Fits(answer.was, answer.type) => answer.value = answer.was
===============================================================================
