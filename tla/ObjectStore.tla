---------------------------- MODULE ObjectStore ----------------------------
(***************************************************************************)
(* The game's own objects: bdObjectStore.cpp keeps each of them in a file  *)
(* of the user data directory and answers with what objects.cpp reads back *)
(* from there; bdProfiles.cpp keeps a profile in a file of the same        *)
(* directory.  Each action is one task, handled from beginning to end by   *)
(* the server thread.                                                      *)
(*                                                                         *)
(* Checksum and length together stand for the content.  A write makes the  *)
(* directory if there is none, which may throw and end the task without an *)
(* answer, and then opens the file, which may fail and is only logged.     *)
(***************************************************************************)
EXTENDS Naturals, Sequences, FiniteSets

CONSTANTS
    Objects,   \* names of objects
    Profile,   \* the name of the profile's file, profileInfo_<user id>
    Contents,  \* contents of files
    Empty,     \* the content of length 0, one of Contents
    MaxBatch,  \* bound: objects in one vectorized task
    None       \* no file, no response; none of Contents

VARIABLES
    directory,  \* whether the user data directory exists
    files,      \* the content of each file in it
    response,   \* the last response
    known,      \* history: what the responses so far say of each file
    unsure      \* history: the files no response has said anything of

vars == <<directory, files, response, known, unsure>>

Names == Objects \cup {Profile}

\* Sequences of up to MaxBatch elements.
Batches(S) == UNION {[1 .. n -> S] : n \in 1 .. MaxBatch}

Init ==
    /\ directory \in BOOLEAN
    /\ files \in [Names -> IF directory THEN Contents \cup {None} ELSE {None}]
    /\ response = None
    /\ known = [n \in Names |-> None]
    /\ unsure = Names

\* A response tells the game what is in these files.
Tells(told) ==
    /\ known' = [n \in Names |-> IF n \in DOMAIN told THEN told[n] ELSE known[n]]
    /\ unsure' = unsure \ DOMAIN told

\* The file contents that entries with name and content tell.
ToldBy(entries) ==
    [n \in {entries[i].name : i \in DOMAIN entries} |->
        LET i == CHOOSE k \in DOMAIN entries : entries[k].name = n IN entries[i].content]

\* The directory cannot be made: the handler throws and nothing is answered.
Throws ==
    /\ ~directory
    /\ response' = None
    /\ UNCHANGED <<directory, files, known, unsure>>

\* create_directory in write_file
DirectoryAfterWrite == TRUE

\* The metadata of one file in a response, read back from the disk.
Metadata(fs, n) == [name |-> n, content |-> fs[n]]

\* Mutant: the metadata of an uploaded file is made from what was uploaded.
UploadMetadata_Sent(fs, n, data) == [name |-> n, content |-> data]

\* construct_file_upload_result_json
UploadMetadata(fs, n, data) == Metadata(fs, n)

\* uploadUserObject
uploadUserObject(n, data) ==
    \/ Throws
    \/ /\ directory' = DirectoryAfterWrite
       /\ \/ files' = [files EXCEPT ![n] = data]
          \/ UNCHANGED files
       /\ response' = [task |-> "upload", objects |-> <<UploadMetadata(files', n, data)>>]
       /\ Tells(ToldBy(response'.objects))

\* The last of several writes to one file stays.
Latest(writes) == CHOOSE i \in writes : \A j \in writes : j <= i

\* The files after a batch of which those in opened could open their file.
After(batch, opened) ==
    [n \in Names |->
        LET writes == {i \in opened : batch[i].name = n}
        IN IF writes = {} THEN files[n] ELSE batch[Latest(writes)].data]

\* uploadUserObjectsVectorized: writes one after the other, then reads back.
uploadUserObjectsVectorized(batch) ==
    \/ Throws
    \/ /\ directory' = DirectoryAfterWrite
       /\ \E opened \in SUBSET (DOMAIN batch) : files' = After(batch, opened)
       /\ response' = [task |-> "uploads",
                       objects |-> [i \in DOMAIN batch |-> Metadata(files', batch[i].name)]]
       /\ Tells(ToldBy(response'.objects))

\* contentLength == 0 || contentURL.empty()
Missing(n) == files[n] \in {None, Empty}

Answer(names, i) == [index |-> i, name |-> names[i], content |-> files[names[i]]]

\* deliver_user_objects_vectorized_json: the objects and the errors, each with
\* the index of its request.
Delivered(names) ==
    [i \in {j \in DOMAIN names : ~Missing(names[j])} |-> Answer(names, i)]

Errors(names) ==
    [i \in {j \in DOMAIN names : Missing(names[j])} |-> [index |-> i, name |-> names[i]]]

\* getUserObjectsVectorized
getUserObjectsVectorized(names) ==
    /\ response' = [task |-> "deliver", asked |-> names,
                    objects |-> Delivered(names), errors |-> Errors(names)]
    /\ Tells(ToldBy(response'.objects))
    /\ UNCHANGED <<directory, files>>

\* list_files: every file of the directory, the profile among them.
Listed == {n \in Names : files[n] # None}

\* listUserObjects
listUserObjects ==
    /\ response' = [task |-> "list", objects |-> {Metadata(files, n) : n \in Listed}]
    /\ Tells([n \in Names |-> files[n]])
    /\ UNCHANGED <<directory, files>>

\* getUserObjectCounts
getUserObjectCounts ==
    /\ response' = [task |-> "count", total |-> Cardinality(Listed)]
    /\ UNCHANGED <<directory, files, known, unsure>>

\* bdProfiles::setPublicInfo: the answer is the same when nothing was written.
setPublicInfo(ddl) ==
    \/ Throws
    \/ /\ directory' = DirectoryAfterWrite
       /\ files' \in {files, [files EXCEPT ![Profile] = ddl]}
       /\ response' = [task |-> "profile set"]
       /\ unsure' = unsure \cup {Profile}
       /\ UNCHANGED known

\* bdProfiles::getPublicInfos, of the user's own profile
getPublicInfos ==
    /\ response' = [task |-> "profile", content |-> files[Profile]]
    /\ Tells([n \in {Profile} |-> files[n]])
    /\ UNCHANGED <<directory, files>>

Next ==
    \/ \E n \in Objects, data \in Contents : uploadUserObject(n, data)
    \/ \E batch \in Batches([name : Objects, data : Contents]) :
          uploadUserObjectsVectorized(batch)
    \/ \E names \in Batches(Names) : getUserObjectsVectorized(names)
    \/ listUserObjects
    \/ getUserObjectCounts
    \/ \E ddl \in Contents : setPublicInfo(ddl)
    \/ getPublicInfos

Spec == Init /\ [][Next]_vars

-----------------------------------------------------------------------------
(* Properties *)

\* Every variable keeps its type.
TypeOK ==
    /\ directory \in BOOLEAN
    /\ files \in [Names -> Contents \cup {None}]
    /\ ~directory => \A n \in Names : files[n] = None
    /\ response = None \/ response.task \in {"upload", "uploads", "deliver", "list", "count",
                                             "profile", "profile set"}
    /\ known \in [Names -> Contents \cup {None}]
    /\ unsure \subseteq Names

\* What the responses have said of a file is what is stored, although a file
\* may not have been written, a name may occur twice in a batch, and a task may
\* end without an answer: a response reads back what it reports.  Only the
\* answer to the writing of a profile says nothing.
KnownIsStored == \A n \in Names \ unsure : known[n] = files[n]

\* A vectorized request gets one answer for each index it asked for: the
\* object under that name if it has a content, else an error.
AnswersByIndex ==
    (response # None /\ response.task = "deliver") =>
        \A i \in DOMAIN response.asked :
          LET n  == response.asked[i]
              as == {r \in {response.objects[j] : j \in DOMAIN response.objects} : r.index = i}
              es == {r \in {response.errors[j] : j \in DOMAIN response.errors} : r.index = i}
          IN IF files[n] \in {None, Empty}
             THEN as = {} /\ es = {[index |-> i, name |-> n]}
             ELSE as = {[index |-> i, name |-> n, content |-> files[n]]} /\ es = {}

\* Both: what the game is told of its files is true, file by file and answer by
\* answer.
ResponsesAreTrue == KnownIsStored /\ AnswersByIndex
=============================================================================
