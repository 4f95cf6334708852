----------------------------- MODULE StorageProofs -----------------------------
(***************************************************************************)
(* The parts of MCStorage and of MCContent, for every value of their       *)
(* constants.                                                              *)
(***************************************************************************)
EXTENDS MCStorage, MCContent, SequenceFacts, FiniteSetTheorems, TLAPS

------------------------------------------------------------------------------
(***************************************************************************)
(* ObjectStore: what the game is told of its files is true.                *)
(*                                                                         *)
(* The argument: a response is made from what was read back, after every   *)
(* write of its task, so it is true of the files it names; and a task      *)
(* writes no file that its response does not name, but for the profile.    *)
(***************************************************************************)

ObjectInv ==
    /\ Objects!KnownIsStored
    /\ Objects!AnswersByIndex
    /\ objectFiles = [n \in Objects!Names |-> objectFiles[n]]

LEMMA ObjectInvInit == Objects!Init => ObjectInv
  BY DEF Objects!Init, ObjectInv, Objects!KnownIsStored, Objects!AnswersByIndex

(* A list of entries that were read from the files tells what is in them,  *)
(* also when a name is in it twice.                                        *)
LEMMA ToldFacts ==
    ASSUME NEW entries, NEW fs,
           \A i \in DOMAIN entries : entries[i].content = fs[entries[i].name]
    PROVE  /\ DOMAIN Objects!ToldBy(entries) = {entries[i].name : i \in DOMAIN entries}
           /\ \A n \in DOMAIN Objects!ToldBy(entries) : Objects!ToldBy(entries)[n] = fs[n]
<1>1. DOMAIN Objects!ToldBy(entries) = {entries[i].name : i \in DOMAIN entries}
  BY DEF Objects!ToldBy
<1>2. ASSUME NEW n \in {entries[i].name : i \in DOMAIN entries}
      PROVE  Objects!ToldBy(entries)[n] = fs[n]
  <2> DEFINE i == CHOOSE k \in DOMAIN entries : entries[k].name = n
  <2>1. i \in DOMAIN entries /\ entries[i].name = n
    <3>1. \E k \in DOMAIN entries : entries[k].name = n
      BY <1>2
    <3> QED BY <3>1, Zenon
  <2>2. Objects!ToldBy(entries)[n] = entries[i].content
    BY <1>2, Zenon DEF Objects!ToldBy
  <2> QED BY <2>1, <2>2, Zenon
<1> QED BY <1>1, <1>2, Zenon

(* A task whose response tells of every file that it wrote. *)
LEMMA TellsTrue ==
    ASSUME ObjectInv, NEW told, Objects!Tells(told),
           \A n \in DOMAIN told : told[n] = objectFiles'[n],
           \A n \in Objects!Names \ DOMAIN told : objectFiles'[n] = objectFiles[n]
    PROVE  Objects!KnownIsStored'
<1>1. /\ known' = [n \in Objects!Names |-> IF n \in DOMAIN told THEN told[n] ELSE known[n]]
      /\ unsure' = unsure \ DOMAIN told
  BY DEF Objects!Tells
<1>2. \A n \in Objects!Names \ unsure' : known'[n] = objectFiles'[n]
  BY <1>1 DEF ObjectInv, Objects!KnownIsStored
<1> QED BY <1>2 DEF Objects!KnownIsStored, Objects!Names

(* uploadUserObject and uploadUserObjectsVectorized: the response has an   *)
(* entry for each file that was written, in the order of the request.      *)
LEMMA UploadTells ==
    ASSUME ObjectInv, NEW entries,
           \A i \in DOMAIN entries : entries[i].content = objectFiles'[entries[i].name],
           Objects!Tells(Objects!ToldBy(entries)),
           objectFiles' = [n \in Objects!Names |-> objectFiles'[n]],
           \A n \in Objects!Names : (\A i \in DOMAIN entries : entries[i].name # n)
                                      => objectFiles'[n] = objectFiles[n],
           response'.task # "deliver"
    PROVE  ObjectInv'
<1> DEFINE told == Objects!ToldBy(entries)
<1>1. /\ DOMAIN told = {entries[i].name : i \in DOMAIN entries}
      /\ \A n \in DOMAIN told : told[n] = objectFiles'[n]
  <2>1. \A fs : (\A i \in DOMAIN entries : entries[i].content = fs[entries[i].name])
               => /\ DOMAIN told = {entries[i].name : i \in DOMAIN entries}
                  /\ \A n \in DOMAIN told : told[n] = fs[n]
    BY ToldFacts, Zenon
  <2> HIDE DEF told
  <2> QED BY <2>1
<1> HIDE DEF told
<1>2. \A n \in Objects!Names \ DOMAIN told : objectFiles'[n] = objectFiles[n]
  BY <1>1
<1>3. Objects!KnownIsStored'
  BY <1>1, <1>2, TellsTrue, Zenon DEF told
<1>4. Objects!AnswersByIndex'
  BY DEF Objects!AnswersByIndex
<1> QED BY <1>3, <1>4, Zenon DEF ObjectInv, Objects!Names

(* getUserObjectsVectorized: an index has an object or an error. *)
LEMMA DeliveredByIndex ==
    ASSUME NEW names, UNCHANGED objectFiles,
           response' = [task |-> "deliver", asked |-> names,
                        objects |-> Objects!Delivered(names), errors |-> Objects!Errors(names)]
    PROVE  Objects!AnswersByIndex'
<1> SUFFICES ASSUME NEW i \in DOMAIN names
             PROVE  LET n  == names[i]
                        os == Objects!Delivered(names)
                        fs == Objects!Errors(names)
                        as == {r \in {os[j] : j \in DOMAIN os} : r.index = i}
                        es == {r \in {fs[j] : j \in DOMAIN fs} : r.index = i}
                    IN IF objectFiles[n] \in {None, Empty}
                       THEN as = {} /\ es = {[index |-> i, name |-> n]}
                       ELSE as = {[index |-> i, name |-> n, content |-> objectFiles[n]]} /\ es = {}
  BY DEF Objects!AnswersByIndex
<1> DEFINE present == {j \in DOMAIN names : ~Objects!Missing(names[j])}
           missing == {j \in DOMAIN names : Objects!Missing(names[j])}
           os == Objects!Delivered(names)
           fs == Objects!Errors(names)
<1>1. /\ DOMAIN os = present
      /\ \A j \in present : os[j] = [index |-> j, name |-> names[j], content |-> objectFiles[names[j]]]
  BY DEF Objects!Delivered, Objects!Answer
<1>2. /\ DOMAIN fs = missing
      /\ \A j \in missing : fs[j] = [index |-> j, name |-> names[j]]
  BY DEF Objects!Errors
<1>3. i \in missing <=> objectFiles[names[i]] \in {None, Empty}
  BY DEF Objects!Missing
<1>4. i \in present <=> i \notin missing
  OBVIOUS
<1> HIDE DEF os, fs, present, missing
<1>5. {r \in {os[j] : j \in DOMAIN os} : r.index = i} = IF i \in present THEN {os[i]} ELSE {}
  BY <1>1
<1>6. {r \in {fs[j] : j \in DOMAIN fs} : r.index = i} = IF i \in missing THEN {fs[i]} ELSE {}
  BY <1>2
<1> QED BY <1>1, <1>2, <1>3, <1>4, <1>5, <1>6 DEF os, fs

LEMMA ObjectStep == ObjectInv /\ [Objects!Next]_(Objects!vars) => ObjectInv'
<1> SUFFICES ASSUME ObjectInv, [Objects!Next]_(Objects!vars) PROVE ObjectInv'
  OBVIOUS
<1>0. objectFiles = [n \in Objects!Names |-> objectFiles[n]]
  BY Zenon DEF ObjectInv
<1>1. CASE Objects!Throws
  <2>1. UNCHANGED <<objectFiles, known, unsure>> /\ response' = None
    BY <1>1 DEF Objects!Throws
  <2> QED BY <2>1 DEF ObjectInv, Objects!KnownIsStored, Objects!AnswersByIndex, Objects!Names
<1>2. ASSUME NEW n \in ObjectNames, NEW data \in Contents, Objects!uploadUserObject(n, data)
      PROVE  ObjectInv'
  <2> SUFFICES ASSUME ~Objects!Throws PROVE ObjectInv'
    BY <1>1
  <2> DEFINE entries == <<Objects!Metadata(objectFiles', n)>>
  <2>1. /\ objectFiles' = [objectFiles EXCEPT ![n] = data] \/ UNCHANGED objectFiles
        /\ response' = [task |-> "upload", objects |-> entries]
        /\ Objects!Tells(Objects!ToldBy(response'.objects))
    BY <1>2, Zenon DEF Objects!uploadUserObject, Objects!UploadMetadata
  <2>2. entries = response'.objects /\ response'.task # "deliver"
    BY <2>1
  <2>3. /\ DOMAIN entries = {1} /\ entries[1] = [name |-> n, content |-> objectFiles'[n]]
    BY DEF Objects!Metadata
  <2> HIDE DEF entries
  <2>4. /\ objectFiles' = [m \in Objects!Names |-> objectFiles'[m]]
        /\ \A m \in Objects!Names : m # n => objectFiles'[m] = objectFiles[m]
    BY <1>0, <2>1
  <2>5. \A i \in DOMAIN entries : entries[i].content = objectFiles'[entries[i].name]
    BY <2>3
  <2>6. \A m \in Objects!Names : (\A i \in DOMAIN entries : entries[i].name # m)
                                   => objectFiles'[m] = objectFiles[m]
    BY <2>3, <2>4
  <2>7. Objects!Tells(Objects!ToldBy(entries))
    BY <2>1, <2>2, Zenon
  <2> QED BY ONLY ObjectInv, <2>2, <2>4, <2>5, <2>6, <2>7, UploadTells
<1>3. ASSUME NEW batch \in Objects!Batches([name : ObjectNames, data : Contents]),
             Objects!uploadUserObjectsVectorized(batch)
      PROVE  ObjectInv'
  <2> SUFFICES ASSUME ~Objects!Throws PROVE ObjectInv'
    BY <1>1
  <2> DEFINE entries == [i \in DOMAIN batch |-> Objects!Metadata(objectFiles', batch[i].name)]
  <2>1. /\ \E opened \in SUBSET (DOMAIN batch) : objectFiles' = Objects!After(batch, opened)
        /\ response' = [task |-> "uploads", objects |-> entries]
        /\ Objects!Tells(Objects!ToldBy(response'.objects))
    BY <1>3, Zenon DEF Objects!uploadUserObjectsVectorized
  <2>2. entries = response'.objects /\ response'.task # "deliver"
    BY <2>1
  <2>3. /\ DOMAIN entries = DOMAIN batch
        /\ \A i \in DOMAIN batch :
              /\ entries[i].name = batch[i].name
              /\ entries[i].content = objectFiles'[batch[i].name]
    BY DEF Objects!Metadata
  <2> HIDE DEF entries
  <2>4. /\ objectFiles' = [m \in Objects!Names |-> objectFiles'[m]]
        /\ \A m \in Objects!Names : (\A i \in DOMAIN batch : batch[i].name # m)
                                      => objectFiles'[m] = objectFiles[m]
    <3> PICK opened \in SUBSET (DOMAIN batch) : objectFiles' = Objects!After(batch, opened)
      BY <2>1
    <3> QED BY DEF Objects!After
  <2>5. \A i \in DOMAIN entries : entries[i].content = objectFiles'[entries[i].name]
    BY <2>3
  <2>6. \A m \in Objects!Names : (\A i \in DOMAIN entries : entries[i].name # m)
                                   => objectFiles'[m] = objectFiles[m]
    BY <2>3, <2>4
  <2>7. Objects!Tells(Objects!ToldBy(entries))
    BY <2>1, <2>2, Zenon
  <2> QED BY ONLY ObjectInv, <2>2, <2>4, <2>5, <2>6, <2>7, UploadTells
<1>4. ASSUME NEW names, Objects!getUserObjectsVectorized(names)
      PROVE  ObjectInv'
  <2> DEFINE entries == Objects!Delivered(names)
  <2>1. /\ response' = [task |-> "deliver", asked |-> names,
                        objects |-> entries, errors |-> Objects!Errors(names)]
        /\ Objects!Tells(Objects!ToldBy(response'.objects)) /\ UNCHANGED objectFiles
    BY <1>4, Zenon DEF Objects!getUserObjectsVectorized
  <2>2. Objects!AnswersByIndex'
    BY <2>1, DeliveredByIndex
  <2>3. \A i \in DOMAIN entries : entries[i].content = objectFiles[entries[i].name]
    BY DEF Objects!Delivered, Objects!Answer
  <2> HIDE DEF entries
  <2>4. Objects!Tells(Objects!ToldBy(entries))
    BY <2>1
  <2>5. Objects!KnownIsStored'
    <3> DEFINE told == Objects!ToldBy(entries)
    <3>1. \A n \in DOMAIN told : told[n] = objectFiles[n]
      BY <2>3, ToldFacts, Zenon
    <3> HIDE DEF told
    <3>2. \A n \in DOMAIN told : told[n] = objectFiles'[n]
      BY <2>1, <3>1
    <3>3. \A n \in Objects!Names \ DOMAIN told : objectFiles'[n] = objectFiles[n]
      BY <2>1
    <3> QED BY <2>4, <3>2, <3>3, TellsTrue, Zenon DEF told
  <2> QED BY <1>0, <2>1, <2>2, <2>5 DEF ObjectInv, Objects!Names
<1>5. ASSUME NEW told, Objects!Tells(told), UNCHANGED objectFiles,
             \A n \in DOMAIN told : told[n] = objectFiles[n], response'.task # "deliver"
      PROVE  ObjectInv'
  <2>1. Objects!KnownIsStored'
    <3>1. \A n \in DOMAIN told : told[n] = objectFiles'[n]
      BY <1>5
    <3>2. \A n \in Objects!Names \ DOMAIN told : objectFiles'[n] = objectFiles[n]
      BY <1>5
    <3> QED BY <1>5, <3>1, <3>2, TellsTrue, Zenon
  <2>2. Objects!AnswersByIndex'
    BY <1>5 DEF Objects!AnswersByIndex
  <2> QED BY <1>0, <1>5, <2>1, <2>2 DEF ObjectInv, Objects!Names
<1>6. CASE Objects!listUserObjects
  <2> DEFINE told == [n \in Objects!Names |-> objectFiles[n]]
  <2>1. Objects!Tells(told) /\ UNCHANGED objectFiles /\ response'.task # "deliver"
    BY <1>6 DEF Objects!listUserObjects
  <2>2. \A n \in DOMAIN told : told[n] = objectFiles[n]
    OBVIOUS
  <2> HIDE DEF told
  <2> QED BY <1>5, <2>1, <2>2, Zenon
<1>7. CASE Objects!getPublicInfos
  <2> DEFINE told == [n \in {Profile} |-> objectFiles[n]]
  <2>1. Objects!Tells(told) /\ UNCHANGED objectFiles /\ response'.task # "deliver"
    BY <1>7 DEF Objects!getPublicInfos
  <2>2. \A n \in DOMAIN told : told[n] = objectFiles[n]
    OBVIOUS
  <2> HIDE DEF told
  <2> QED BY <1>5, <2>1, <2>2, Zenon
<1>8. CASE Objects!getUserObjectCounts
  <2>1. UNCHANGED <<objectFiles, known, unsure>> /\ response'.task # "deliver"
    BY <1>8 DEF Objects!getUserObjectCounts
  <2> QED BY <2>1 DEF ObjectInv, Objects!KnownIsStored, Objects!AnswersByIndex, Objects!Names
<1>9. ASSUME NEW ddl \in Contents, Objects!setPublicInfo(ddl) PROVE ObjectInv'
  <2> SUFFICES ASSUME ~Objects!Throws PROVE ObjectInv'
    BY <1>1
  <2>1. /\ objectFiles' \in {objectFiles, [objectFiles EXCEPT ![Profile] = ddl]}
        /\ response'.task # "deliver" /\ unsure' = unsure \cup {Profile} /\ UNCHANGED known
    <3>1. /\ objectFiles' \in {objectFiles, [objectFiles EXCEPT ![Profile] = ddl]}
          /\ response' = [task |-> "profile set"]
          /\ unsure' = unsure \cup {Profile} /\ UNCHANGED known
      BY <1>9, Zenon DEF Objects!setPublicInfo
    <3> QED BY <3>1
  <2>2. /\ objectFiles' = [m \in Objects!Names |-> objectFiles'[m]]
        /\ \A m \in Objects!Names : m # Profile => objectFiles'[m] = objectFiles[m]
    BY <1>0, <2>1
  <2>3. Objects!KnownIsStored'
    BY <2>1, <2>2 DEF ObjectInv, Objects!KnownIsStored, Objects!Names
  <2>4. Objects!AnswersByIndex'
    BY <2>1 DEF Objects!AnswersByIndex
  <2> QED BY <2>2, <2>3, <2>4, Zenon DEF ObjectInv, Objects!Names
<1>10. CASE UNCHANGED Objects!vars
  <2>1. UNCHANGED <<objectFiles, response, known, unsure>>
    BY <1>10 DEF Objects!vars
  <2>2. Objects!AnswersByIndex'
    BY <2>1 DEF ObjectInv, Objects!AnswersByIndex
  <2> QED BY <2>1, <2>2 DEF ObjectInv, Objects!KnownIsStored, Objects!Names
<1> QED BY <1>2, <1>3, <1>4, <1>6, <1>7, <1>8, <1>9, <1>10, Zenon DEF Objects!Next

(* What the responses have told the game of its files is what is stored,   *)
(* and each index of a vectorized request has its one answer, for any      *)
(* files, contents and lengths of a request (uploadUserObject and the      *)
(* other tasks of bdObjectStore and bdProfiles).                           *)
THEOREM ResponsesStayTrue == Objects!Spec => []ResponsesAreTrue
<1>1. ObjectInv => ResponsesAreTrue
  BY DEF ObjectInv, ResponsesAreTrue, Objects!ResponsesAreTrue
<1> QED BY <1>1, ObjectInvInit, ObjectStep, PTL DEF Objects!Spec

------------------------------------------------------------------------------
(***************************************************************************)
(* PooledStorage: a download is the upload whose description was shown,    *)
(* and an upload that went well is offered.                                *)
(*                                                                         *)
(* The argument: an upload without a flaw has its id, and so its metadata  *)
(* and its file, for itself.  While its packets arrive it is the only one  *)
(* of which packets arrive, so the buffer holds its chunks and no other;   *)
(* and what is written under its name is written by its own last chunk.    *)
(* The viewer reads metadata and data at different times, but the metadata *)
(* of such an upload can be offered only when neither changes any more.    *)
(***************************************************************************)

Id(u)    == upload[u].id
Named(u) == FileName(Id(u), Category[u])

(* Uploads that have an id and to which nothing went wrong *)
Clean == {u \in Uploads : Id(u) # None /\ flaws[u] = {}}

(* An upload begins with nothing, and gets its id once. *)
BeginningInv ==
    \A u \in Uploads :
       /\ upload[u].step = "new" <=> Id(u) = None
       /\ Id(u) = None => ~upload[u].posted /\ upload[u].described = "no"
       /\ upload[u].step \in {"new", "url"} => upload[u].sent = 0

(* The id of an upload without a flaw is its own. *)
AloneInv == \A u \in Clean : \A v \in Uploads : Id(v) = Id(u) => v = u

Meta(u, state, size, ddl) ==
    [state |-> state, name |-> Named(u), size |-> size, ddl |-> ddl]

(* Its metadata follow its own tasks, in their order; an empty file stays  *)
(* as it was posted, since it cannot be read.                              *)
MetaOf(u) ==
    IF ~upload[u].posted THEN Meta(u, "UPLOADING", 0, None)
    ELSE IF upload[u].parts = 0 \/ upload[u].described = "no"
    THEN Meta(u, "UPLOADED", upload[u].parts, None)
    ELSE Meta(u, "DESCRIBED", upload[u].parts,
              IF upload[u].described = "text" THEN u ELSE None)

MetaInv == \A u \in Clean : /\ meta[Id(u)] = MetaOf(u)
                            /\ ~upload[u].posted => upload[u].described = "no"

(* Its file is written by its last chunk, before anything is posted. *)
DataInv ==
    \A u \in Clean : upload[u].step = "created" \/ upload[u].posted
                       => files[Named(u)] = Content(u)

(* The server's one upload: its name is that of an upload, and when that   *)
(* is one without a flaw no packets of another arrive.                     *)
ServerInv ==
    /\ uploadName # None => \E u \in Uploads : Id(u) # None /\ uploadName = Named(u)
    /\ \A u \in Clean :
         /\ uploadName = Named(u) => Sending \subseteq {u} /\ upload[u].step # "url"
         /\ upload[u].step = "sending" =>
              /\ inProgress /\ uploadName = Named(u)
              /\ upload[u].sent \in 0..upload[u].parts
              /\ buffer = [k \in 1..upload[u].sent |-> <<u, k>>]

(* Metadata belong to an upload, and a description to the one it is of. *)
IndexInv ==
    \A id \in Ids : meta[id] # None =>
       /\ Holders(id) # {}
       /\ meta[id].ddl # None => meta[id].ddl \in Holders(id)

(* What the viewer was shown can be downloaded, or it was flawed, and what *)
(* it was offered stays as it is.                                          *)
ViewerInv ==
    /\ viewer.step = "shown" =>
         \A id \in viewer.ids : Offered(id) \/ \E u \in Holders(id) : flaws[u] # {}
    /\ viewer.step = "refused" => viewer.id \in Ids /\ \E u \in Holders(viewer.id) : flaws[u] # {}
    /\ viewer.step # "404"
    /\ viewer.step \in {"offered", "200"} =>
         LET m == viewer.offer
         IN /\ m \in Metadata /\ m.ddl \in Uploads /\ Id(m.ddl) # None
            /\ files[m.name] # None
            /\ m.ddl \in Clean =>
                 /\ upload[m.ddl].posted
                 /\ m.name = Named(m.ddl) /\ m.size = upload[m.ddl].parts
    /\ viewer.step = "200" /\ viewer.offer.ddl \in Clean
         => viewer.content = Content(viewer.offer.ddl)

PoolInv ==
    /\ TypeOK /\ BeginningInv /\ AloneInv /\ MetaInv /\ DataInv /\ ServerInv
    /\ IndexInv /\ ViewerInv

(* Files and metadata are told apart by the ids in their names. *)
LEMMA NamedFacts ==
    /\ \A id \in Ids, c \in {"demo", "jpg", ""} : FileName(id, c) \in Names
    /\ \A u \in Uploads : Id(u) \in Ids => Named(u) \in Names
    /\ \A u, v \in Uploads : Named(u) = Named(v) => Id(u) = Id(v)
<1>1. \A u \in Uploads : Category[u] \in {"demo", "jpg", ""}
  BY StorageAssumption DEF StorageAssumption
<1>2. \A id \in Ids, c \in {"demo", "jpg", ""} : FileName(id, c) \in Names
  BY DEF Names, FileName
<1>3. \A i, j, c, d : FileName(i, c) = FileName(j, d) => i = j
  BY DEF FileName
<1> QED BY <1>1, <1>2, <1>3, Zenon DEF Named

UploadRecords ==
    [step : {"new", "url", "sending", "created", "failed"}, id : Ids \cup {None},
     parts : Nat, sent : Nat, posted : BOOLEAN, described : {"no", "text", "empty"}]

(* What TypeOK says of one upload. *)
LEMMA UploadTypes ==
    ASSUME TypeOK, NEW u \in Uploads
    PROVE  /\ upload[u] \in UploadRecords
           /\ Id(u) \in Ids \cup {None} /\ upload[u].parts \in Nat /\ upload[u].sent \in Nat
           /\ upload[u].posted \in BOOLEAN /\ upload[u].described \in {"no", "text", "empty"}
           /\ upload[u].step \in {"new", "url", "sending", "created", "failed"}
<1>1. upload[u] \in UploadRecords
  BY DEF TypeOK, UploadRecords
<1> QED BY <1>1 DEF Id, UploadRecords

SameBut(u) == \A v \in Uploads \ {u} : upload'[v] = upload[v]

(* A step changes the record of one upload. *)
LEMMA UploadChanged ==
    ASSUME TypeOK, NEW u \in Uploads, NEW r \in UploadRecords, upload' = [upload EXCEPT ![u] = r]
    PROVE  upload'[u] = r /\ SameBut(u) /\ upload' \in [Uploads -> UploadRecords]
<1>1. upload \in [Uploads -> UploadRecords]
  BY Zenon DEF TypeOK, UploadRecords
<1> QED BY <1>1 DEF SameBut

(* The chunks of an upload are as many as its parts. *)
LEMMA ContentFacts ==
    ASSUME NEW u \in Uploads, NEW n \in Nat
    PROVE  LET chunks == [k \in 1..n |-> <<u, k>>]
           IN chunks \in Seq(Chunks) /\ Len(chunks) = n /\ chunks # None
<1> DEFINE chunks == [k \in 1..n |-> <<u, k>>]
<1>1. chunks \in Seq(Chunks) /\ Len(chunks) = n
  <2>1. \A k \in 1..n : <<u, k>> \in Chunks
    BY DEF Chunks
  <2> QED BY <2>1
<1> HIDE DEF chunks
<1>2. chunks # None
  BY <1>1, NoneAssumption DEF NoneAssumption
<1> QED BY <1>1, <1>2 DEF chunks

(* SerializeMetaJSON keeps the name and the state. *)
LEMMA SerializedFacts ==
    ASSUME NEW m \in Metadata
    PROVE  /\ Serialized(m) \in Metadata /\ Serialized(m) # None
           /\ Serialized(m).state = m.state /\ Serialized(m).name = m.name
           /\ Serialized(m).size = IF m.state = "UPLOADING" THEN 0 ELSE m.size
           /\ Serialized(m).ddl = IF m.state = "DESCRIBED" THEN m.ddl ELSE None
<1>1. /\ Serialized(m) \in Metadata
      /\ Serialized(m).state = m.state /\ Serialized(m).name = m.name
      /\ Serialized(m).size = IF m.state = "UPLOADING" THEN 0 ELSE m.size
      /\ Serialized(m).ddl = IF m.state = "DESCRIBED" THEN m.ddl ELSE None
  BY DEF Serialized, Metadata
<1>2. Serialized(m) # None
  BY <1>1, NoneAssumption DEF NoneAssumption
<1> QED BY <1>1, <1>2

Flaws == {"shared", "overlap", "write", "order"}

(* WriteMetaDataJson writes one id or fails, which is a flaw of the upload. *)
LEMMA WriteMetaFacts ==
    ASSUME TypeOK, NEW u \in Uploads, NEW id \in Ids, NEW m \in Metadata,
           NEW blame \in [Uploads -> SUBSET Flaws], WriteMeta(u, id, m, blame)
    PROVE  /\ directory' = TRUE
           /\ meta' \in [Ids -> Metadata \cup {None}]
           /\ meta'[id] \in {meta[id], Serialized(m)}
           /\ \A i \in Ids \ {id} : meta'[i] = meta[i]
           /\ flaws' \in [Uploads -> SUBSET Flaws]
           /\ \A v \in Uploads : flaws[v] \subseteq flaws'[v] /\ blame[v] \subseteq flaws'[v]
           /\ flaws'[u] = {} => meta'[id] = Serialized(m)
<1> USE DEF Flaws
<1>0. /\ meta \in [Ids -> Metadata \cup {None}] /\ flaws \in [Uploads -> SUBSET Flaws]
      /\ Serialized(m) \in Metadata
  BY SerializedFacts DEF TypeOK
<1>1. CASE /\ meta' = [meta EXCEPT ![id] = Serialized(m)]
           /\ flaws' = [v \in Uploads |-> flaws[v] \cup blame[v]]
  BY <1>0, <1>1 DEF WriteMeta
<1>2. CASE /\ UNCHANGED meta
           /\ flaws' = [v \in Uploads |->
                          flaws[v] \cup blame[v] \cup IF v = u THEN {"write"} ELSE {}]
  BY <1>0, <1>2 DEF WriteMeta
<1> QED BY <1>1, <1>2, Zenon DEF WriteMeta

FlawsGrow == \A v \in Uploads : flaws[v] \subseteq flaws'[v]

NewMeta(u) == [state |-> "UPLOADING", name |-> FileName(clock, Category[u]),
               size |-> 0, ddl |-> None]

(* _preUpload: an id that is shared is a flaw of all that share it. *)
LEMMA PreUploadFacts ==
    ASSUME TypeOK, NEW u \in Uploads, _preUpload(u)
    PROVE  /\ upload[u].step = "new" /\ SameBut(u)
           /\ \E n \in 0..MaxParts :
                upload'[u] = [upload[u] EXCEPT !.step = "url", !.id = clock, !.parts = n]
           /\ upload' \in [Uploads -> UploadRecords]
           /\ directory' = TRUE /\ UNCHANGED <<clock, files, server, viewer>>
           /\ meta' \in [Ids -> Metadata \cup {None}] /\ flaws' \in [Uploads -> SUBSET Flaws]
           /\ FlawsGrow
           /\ \A i \in Ids \ {clock} : meta'[i] = meta[i]
           /\ meta'[clock] \in {meta[clock], NewMeta(u)}
           /\ flaws'[u] = {} => meta'[clock] = NewMeta(u)
           /\ \A v \in Holders(clock) \cup {u} : flaws'[v] = {} => Holders(clock) = {}
<1> DEFINE blame == [v \in Uploads |-> IF Holders(clock) # {} /\ v \in Holders(clock) \cup {u}
                                       THEN {"shared"} ELSE {}]
<1>1. /\ upload[u].step = "new"
      /\ \E n \in 0 .. MaxParts :
           upload' = [upload EXCEPT ![u].step = "url", ![u].id = clock, ![u].parts = n]
      /\ WriteMeta(u, clock, NewMeta(u), blame)
      /\ UNCHANGED <<clock, files, server, viewer>>
  BY Zenon DEF _preUpload, NewMeta
<1>2. clock \in Ids /\ MaxParts \in Nat
  BY StorageAssumption, Zenon DEF StorageAssumption, TypeOK
<1>3. NewMeta(u) \in Metadata /\ Serialized(NewMeta(u)) = NewMeta(u)
  <2>1. FileName(clock, Category[u]) \in Names
    BY <1>2, NamedFacts, StorageAssumption DEF StorageAssumption
  <2>2. NewMeta(u) \in Metadata
    BY <2>1 DEF NewMeta, Metadata
  <2>3. Serialized(NewMeta(u)) = NewMeta(u)
    <3> DEFINE m == NewMeta(u)
               s == Serialized(m)
    <3>1. m.state = "UPLOADING" /\ m.size = 0 /\ m.ddl = None
      BY DEF NewMeta
    <3>2. m \in Metadata
      BY <2>2
    <3> HIDE DEF m
    <3>3. s \in Metadata /\ s.state = m.state /\ s.name = m.name /\ s.size = 0 /\ s.ddl = None
      BY <3>1, <3>2, SerializedFacts
    <3> HIDE DEF s
    <3>4. s = m
      BY <3>1, <3>2, <3>3 DEF Metadata
    <3> QED BY <3>4 DEF s, m
  <2> QED BY <2>2, <2>3
<1>4. blame \in [Uploads -> SUBSET Flaws]
  BY DEF Flaws
<1>5. \A v \in Holders(clock) \cup {u} : Holders(clock) # {} => blame[v] # {}
  BY DEF Holders
<1> HIDE DEF blame
<1>6. /\ directory' = TRUE
      /\ meta' \in [Ids -> Metadata \cup {None}]
      /\ meta'[clock] \in {meta[clock], NewMeta(u)}
      /\ \A i \in Ids \ {clock} : meta'[i] = meta[i]
      /\ flaws' \in [Uploads -> SUBSET Flaws]
      /\ \A v \in Uploads : flaws[v] \subseteq flaws'[v] /\ blame[v] \subseteq flaws'[v]
      /\ flaws'[u] = {} => meta'[clock] = NewMeta(u)
  <2> DEFINE m == NewMeta(u)
  <2>1. m \in Metadata /\ Serialized(m) = m /\ WriteMeta(u, clock, m, blame)
    BY <1>1, <1>3
  <2> HIDE DEF m
  <2>2. /\ directory' = TRUE
        /\ meta' \in [Ids -> Metadata \cup {None}]
        /\ meta'[clock] \in {meta[clock], Serialized(m)}
        /\ \A i \in Ids \ {clock} : meta'[i] = meta[i]
        /\ flaws' \in [Uploads -> SUBSET Flaws]
        /\ \A v \in Uploads : flaws[v] \subseteq flaws'[v] /\ blame[v] \subseteq flaws'[v]
        /\ flaws'[u] = {} => meta'[clock] = Serialized(m)
    BY <1>2, <1>4, <2>1, WriteMetaFacts, ZenonT(40)
  <2> QED BY <2>1, <2>2, Zenon DEF m
<1>7. /\ SameBut(u)
      /\ \E n \in 0..MaxParts :
           upload'[u] = [upload[u] EXCEPT !.step = "url", !.id = clock, !.parts = n]
      /\ upload' \in [Uploads -> UploadRecords]
  <2> PICK n \in 0..MaxParts :
        upload' = [upload EXCEPT ![u].step = "url", ![u].id = clock, ![u].parts = n]
    BY <1>1
  <2> DEFINE r == [upload[u] EXCEPT !.step = "url", !.id = clock, !.parts = n]
  <2>1. r \in UploadRecords
    <3> DEFINE r1 == [upload[u] EXCEPT !.step = "url"]
               r2 == [r1 EXCEPT !.id = clock]
    <3>0. n \in Nat
      BY <1>2
    <3>1. r1 \in UploadRecords
      BY UploadTypes DEF UploadRecords
    <3> HIDE DEF r1
    <3>2. r2 \in UploadRecords
      BY <1>2, <3>1 DEF UploadRecords
    <3> HIDE DEF r2
    <3>3. [r2 EXCEPT !.parts = n] \in UploadRecords
      BY <3>0, <3>2 DEF UploadRecords
    <3> QED BY <3>3 DEF r1, r2
  <2>2. upload' = [upload EXCEPT ![u] = r]
    BY DEF TypeOK
  <2> HIDE DEF r
  <2>3. upload'[u] = r /\ SameBut(u) /\ upload' \in [Uploads -> UploadRecords]
    BY <2>1, <2>2, UploadChanged, Zenon
  <2> QED BY <2>3, Zenon DEF r
<1>8. \A v \in Holders(clock) \cup {u} : flaws'[v] = {} => Holders(clock) = {}
  BY <1>5, <1>6 DEF Holders
<1> QED BY <1>1, <1>6, <1>7, <1>8, Zenon DEF FlawsGrow

(* _postUploadFile: the size is that of the file that is there. *)
PostedMeta(id) ==
    [meta[id] EXCEPT !.state = "UPLOADED", !.size = SizeOf(files[meta[id].name]), !.ddl = None]

LEMMA PostUploadFacts ==
    ASSUME TypeOK, NEW u \in Uploads, _postUploadFile(u), Id(u) \in Ids
    PROVE  /\ upload[u].step = "created" /\ ~upload[u].posted /\ SameBut(u)
           /\ upload'[u] = [upload[u] EXCEPT !.posted = TRUE]
           /\ upload' \in [Uploads -> UploadRecords]
           /\ UNCHANGED <<clock, files, server, viewer>> /\ directory' \in BOOLEAN
           /\ directory => directory'
           /\ meta' \in [Ids -> Metadata \cup {None}] /\ flaws' \in [Uploads -> SUBSET Flaws]
           /\ FlawsGrow
           /\ \A i \in Ids \ {Id(u)} : meta'[i] = meta[i]
           /\ ~Readable(Id(u)) => meta'[Id(u)] = meta[Id(u)]
           /\ meta'[Id(u)] \in {meta[Id(u)], PostedMeta(Id(u))}
           /\ Readable(Id(u)) /\ flaws'[u] = {} => meta'[Id(u)] = PostedMeta(Id(u))
<1> DEFINE id == Id(u)
           m == [meta[id] EXCEPT !.state = "UPLOADED", !.size = SizeOf(files[meta[id].name])]
<1>1. /\ upload[u].step = "created" /\ ~upload[u].posted
      /\ upload' = [upload EXCEPT ![u].posted = TRUE]
      /\ IF Readable(id) THEN WriteMeta(u, id, m, NoBlame)
                         ELSE UNCHANGED <<directory, meta, flaws>>
      /\ UNCHANGED <<clock, files, server, viewer>>
  BY Zenon DEF _postUploadFile, Id
<1>2. /\ SameBut(u)
      /\ upload'[u] = [upload[u] EXCEPT !.posted = TRUE]
      /\ upload' \in [Uploads -> UploadRecords]
  <2> DEFINE r == [upload[u] EXCEPT !.posted = TRUE]
  <2>1. r \in UploadRecords
    BY UploadTypes DEF UploadRecords
  <2>2. upload' = [upload EXCEPT ![u] = r]
    BY <1>1
  <2> HIDE DEF r
  <2>3. upload'[u] = r /\ SameBut(u) /\ upload' \in [Uploads -> UploadRecords]
    BY <2>1, <2>2, UploadChanged, Zenon
  <2> QED BY <2>3, Zenon DEF r
<1>3. CASE Readable(id)
  <2>1. meta[id] \in Metadata
    BY <1>3 DEF TypeOK, Readable
  <2>2. SizeOf(files[meta[id].name]) \in Nat
    <3>1. files[meta[id].name] \in Seq(Chunks) \cup {None}
      BY <2>1 DEF TypeOK, Metadata
    <3> QED BY <3>1 DEF SizeOf
  <2>3. m \in Metadata /\ Serialized(m) = PostedMeta(id)
    BY <2>1, <2>2 DEF Metadata, Serialized, PostedMeta
  <2>4. NoBlame \in [Uploads -> SUBSET Flaws]
    BY DEF NoBlame
  <2> HIDE DEF m
  <2>5. /\ directory' = TRUE
        /\ meta' \in [Ids -> Metadata \cup {None}]
        /\ meta'[id] \in {meta[id], Serialized(m)}
        /\ \A i \in Ids \ {id} : meta'[i] = meta[i]
        /\ flaws' \in [Uploads -> SUBSET Flaws]
        /\ \A v \in Uploads : flaws[v] \subseteq flaws'[v] /\ NoBlame[v] \subseteq flaws'[v]
        /\ flaws'[u] = {} => meta'[id] = Serialized(m)
    <3>1. WriteMeta(u, id, m, NoBlame)
      BY <1>1, <1>3, Zenon
    <3> QED BY <2>3, <2>4, <3>1, WriteMetaFacts, ZenonT(40)
  <2> QED BY <1>1, <1>2, <1>3, <2>3, <2>5, Zenon DEF FlawsGrow
<1>4. CASE ~Readable(id)
  <2>1. UNCHANGED <<directory, meta, flaws>>
    BY <1>1, <1>4, Zenon
  <2> QED BY <1>1, <1>2, <1>4, <2>1 DEF FlawsGrow, TypeOK, Flaws
<1> QED BY <1>3, <1>4

(* _preUploadSummary: what is described before it was posted is flawed. *)
LEMMA SummaryFacts ==
    ASSUME TypeOK, NEW u \in Uploads, _preUploadSummary(u), Id(u) \in Ids
    PROVE  \E ddl \in {u, None} :
           /\ upload[u].described = "no" /\ upload[u].step # "new" /\ SameBut(u)
           /\ upload'[u] = [upload[u] EXCEPT !.described = IF ddl = u THEN "text" ELSE "empty"]
           /\ upload' \in [Uploads -> UploadRecords]
           /\ UNCHANGED <<clock, files, server, viewer>> /\ directory' \in BOOLEAN
           /\ directory => directory'
           /\ meta' \in [Ids -> Metadata \cup {None}] /\ flaws' \in [Uploads -> SUBSET Flaws]
           /\ FlawsGrow
           /\ \A i \in Ids \ {Id(u)} : meta'[i] = meta[i]
           /\ ~Readable(Id(u)) => meta'[Id(u)] = meta[Id(u)]
           /\ meta'[Id(u)] \in {meta[Id(u)],
                                [meta[Id(u)] EXCEPT !.state = "DESCRIBED", !.ddl = ddl]}
           /\ Readable(Id(u)) /\ flaws'[u] = {}
                => upload[u].posted
                   /\ meta'[Id(u)] = [meta[Id(u)] EXCEPT !.state = "DESCRIBED", !.ddl = ddl]
<1> DEFINE id == Id(u)
           m(ddl) == [meta[id] EXCEPT !.state = "DESCRIBED", !.ddl = ddl]
           blame == IF upload[u].posted THEN NoBlame ELSE [NoBlame EXCEPT ![u] = {"order"}]
<1> PICK ddl \in {u, None} :
      /\ upload' = [upload EXCEPT ![u].described = IF ddl = u THEN "text" ELSE "empty"]
      /\ IF Readable(id) THEN WriteMeta(u, id, m(ddl), blame)
                         ELSE UNCHANGED <<directory, meta, flaws>>
  BY Zenon DEF _preUploadSummary, Id
<1> WITNESS ddl \in {u, None}
<1>1. /\ upload[u].described = "no" /\ upload[u].step # "new"
      /\ UNCHANGED <<clock, files, server, viewer>>
  BY DEF _preUploadSummary
<1>2. /\ SameBut(u)
      /\ upload'[u] = [upload[u] EXCEPT !.described = IF ddl = u THEN "text" ELSE "empty"]
      /\ upload' \in [Uploads -> UploadRecords]
  <2> DEFINE r == [upload[u] EXCEPT !.described = IF ddl = u THEN "text" ELSE "empty"]
  <2>1. r \in UploadRecords
    BY UploadTypes DEF UploadRecords
  <2>2. upload' = [upload EXCEPT ![u] = r]
    OBVIOUS
  <2> HIDE DEF r
  <2>3. upload'[u] = r /\ SameBut(u) /\ upload' \in [Uploads -> UploadRecords]
    BY <2>1, <2>2, UploadChanged, Zenon
  <2> QED BY <2>3, Zenon DEF r
<1>3. CASE Readable(id)
  <2>1. meta[id] \in Metadata
    BY <1>3 DEF TypeOK, Readable
  <2>2. m(ddl) \in Metadata /\ Serialized(m(ddl)) = m(ddl)
    BY <2>1 DEF Metadata, Serialized
  <2>3. blame \in [Uploads -> SUBSET Flaws] /\ (~upload[u].posted => blame[u] # {})
    BY DEF NoBlame, Flaws
  <2>4. WriteMeta(u, id, m(ddl), blame)
    BY <1>3, Zenon
  <2> DEFINE mm == m(ddl)
  <2>5. mm \in Metadata /\ Serialized(mm) = mm /\ WriteMeta(u, id, mm, blame)
    BY <2>2, <2>4
  <2> HIDE DEF mm, blame, m
  <2>6. /\ directory' = TRUE
        /\ meta' \in [Ids -> Metadata \cup {None}]
        /\ meta'[id] \in {meta[id], Serialized(mm)}
        /\ \A i \in Ids \ {id} : meta'[i] = meta[i]
        /\ flaws' \in [Uploads -> SUBSET Flaws]
        /\ \A v \in Uploads : flaws[v] \subseteq flaws'[v] /\ blame[v] \subseteq flaws'[v]
        /\ flaws'[u] = {} => meta'[id] = Serialized(mm)
    BY <2>3, <2>5, WriteMetaFacts, Zenon
  <2>7. flaws'[u] = {} => upload[u].posted
    BY <2>3, <2>6
  <2>8. mm = [meta[id] EXCEPT !.state = "DESCRIBED", !.ddl = ddl]
    BY DEF mm, m
  <2> QED BY <1>1, <1>2, <1>3, <2>5, <2>6, <2>7, <2>8, Zenon DEF FlawsGrow
<1>4. CASE ~Readable(id)
  <2>1. UNCHANGED <<directory, meta, flaws>>
    BY <1>4, Zenon
  <2> QED BY <1>1, <1>2, <1>4, <2>1 DEF FlawsGrow, TypeOK, Flaws
<1> QED BY <1>3, <1>4

------------------------------------------------------------------------------
(* What the steps have in common *)

TypesKept ==
    /\ upload' \in [Uploads -> UploadRecords] /\ flaws' \in [Uploads -> SUBSET Flaws]
    /\ meta' \in [Ids -> Metadata \cup {None}] /\ files' \in [Names -> Seq(Chunks) \cup {None}]
    /\ clock' \in Ids /\ directory' \in BOOLEAN
    /\ uploadName' \in Names \cup {None} /\ buffer' \in Seq(Chunks) /\ inProgress' \in BOOLEAN

(* An upload keeps its id, and what it has reported. *)
UploadKept(v) ==
    /\ upload'[v].id = upload[v].id /\ upload'[v].parts = upload[v].parts
    /\ upload[v].posted => upload'[v].posted

FilesKept == \A n \in Names : files[n] # None => files'[n] # None

HttpStep(u) == Put(u) \/ NotInProgress(u) \/ Chunk(u) \/ LastChunk(u) \/ GiveUp(u)

(* The packets and the end of the game's interest leave ids and metadata. *)
LEMMA HttpFacts ==
    ASSUME PoolInv, NEW u \in Uploads, HttpStep(u)
    PROVE  /\ Id(u) \in Ids /\ SameBut(u) /\ FlawsGrow /\ FilesKept /\ TypesKept
           /\ upload'[u].id = upload[u].id /\ upload'[u].parts = upload[u].parts
           /\ upload'[u].posted = upload[u].posted /\ upload'[u].described = upload[u].described
           /\ upload'[u].step \notin {"new", "url"}
           /\ UNCHANGED <<clock, meta, viewer>>
<1>0. TypeOK /\ BeginningInv
  BY DEF PoolInv
<1>1. upload[u].step \in {"url", "sending", "created"} /\ UNCHANGED <<clock, meta, viewer>>
  BY DEF HttpStep, Put, NotInProgress, Chunk, LastChunk, GiveUp, store
<1>2. Id(u) \in Ids
  BY <1>0, <1>1, UploadTypes DEF BeginningInv
<1> DEFINE Moved ==
      /\ SameBut(u) /\ upload' \in [Uploads -> UploadRecords]
      /\ upload'[u].id = upload[u].id /\ upload'[u].parts = upload[u].parts
      /\ upload'[u].posted = upload[u].posted /\ upload'[u].described = upload[u].described
      /\ upload'[u].step \notin {"new", "url"}
<1>3. Moved
  <2>1. ASSUME NEW s \in {"sending", "created", "failed"}, upload' = [upload EXCEPT ![u].step = s]
        PROVE  Moved
    <3> DEFINE r == [upload[u] EXCEPT !.step = s]
    <3>1. r \in UploadRecords
      BY <1>0, UploadTypes DEF UploadRecords
    <3>2. /\ r.id = upload[u].id /\ r.parts = upload[u].parts /\ r.posted = upload[u].posted
          /\ r.described = upload[u].described /\ r.step = s
      BY <1>0, UploadTypes DEF UploadRecords
    <3>3. upload' = [upload EXCEPT ![u] = r]
      BY <2>1
    <3> HIDE DEF r
    <3> QED BY <1>0, <3>1, <3>2, <3>3, UploadChanged
  <2>2. ASSUME upload' = [upload EXCEPT ![u].sent = @ + 1], upload[u].step = "sending"
        PROVE  Moved
    <3> DEFINE r == [upload[u] EXCEPT !.sent = upload[u].sent + 1]
    <3>1. r \in UploadRecords
      BY <1>0, UploadTypes DEF UploadRecords
    <3>2. /\ r.id = upload[u].id /\ r.parts = upload[u].parts /\ r.posted = upload[u].posted
          /\ r.described = upload[u].described /\ r.step = "sending"
      BY <1>0, <2>2, UploadTypes DEF UploadRecords
    <3>3. upload' = [upload EXCEPT ![u] = r]
      BY <2>2
    <3> HIDE DEF r
    <3> QED BY <1>0, <3>1, <3>2, <3>3, UploadChanged
  <2>3. \/ \E s \in {"sending", "created", "failed"} : upload' = [upload EXCEPT ![u].step = s]
        \/ upload' = [upload EXCEPT ![u].sent = @ + 1] /\ upload[u].step = "sending"
    BY DEF HttpStep, Put, NotInProgress, Chunk, LastChunk, GiveUp
  <2> QED BY <2>1, <2>2, <2>3, Zenon
<1>4. FlawsGrow /\ flaws' \in [Uploads -> SUBSET Flaws]
  <2>0. flaws \in [Uploads -> SUBSET Flaws]
    BY <1>0 DEF TypeOK, Flaws
  <2>1. CASE UNCHANGED flaws
    BY <2>0, <2>1 DEF FlawsGrow
  <2>2. CASE flaws' = [flaws EXCEPT ![u] = @ \cup {"write"}]
    BY <2>0, <2>2 DEF FlawsGrow, Flaws
  <2>3. CASE flaws' = [v \in Uploads |-> IF v \in Sending \/ (v = u /\ Sending # {})
                                         THEN flaws[v] \cup {"overlap"} ELSE flaws[v]]
    <3> DEFINE hit(v) == v \in Sending \/ (v = u /\ Sending # {})
    <3>1. flaws' = [v \in Uploads |-> IF hit(v) THEN flaws[v] \cup {"overlap"} ELSE flaws[v]]
      BY <2>3
    <3> HIDE DEF hit
    <3> QED BY <2>0, <3>1 DEF FlawsGrow, Flaws
  <2> QED BY <2>1, <2>2, <2>3, Zenon DEF HttpStep, Put, NotInProgress, Chunk, LastChunk, GiveUp
<1>5. FilesKept /\ files' \in [Names -> Seq(Chunks) \cup {None}]
  <2>0. files \in [Names -> Seq(Chunks) \cup {None}] /\ buffer \in Seq(Chunks) /\ buffer # None
    BY <1>0, NoneAssumption DEF TypeOK, NoneAssumption
  <2>1. CASE UNCHANGED files
    BY <2>0, <2>1 DEF FilesKept
  <2>2. CASE files' = [files EXCEPT ![uploadName] = buffer]
    BY <2>0, <2>2 DEF FilesKept
  <2> QED BY <2>1, <2>2, Zenon DEF HttpStep, Put, NotInProgress, Chunk, LastChunk, GiveUp, store
<1>6. /\ directory' \in BOOLEAN /\ inProgress' \in BOOLEAN
      /\ uploadName' \in Names \cup {None} /\ buffer' \in Seq(Chunks)
  <2>0. /\ directory \in BOOLEAN /\ inProgress \in BOOLEAN
        /\ uploadName \in Names \cup {None} /\ buffer \in Seq(Chunks)
    BY <1>0 DEF TypeOK
  <2>1. CASE Put(u)
    <3>1. Named(u) \in Names
      BY <1>2, NamedFacts
    <3> QED BY <2>0, <2>1, <3>1 DEF Put, store, BufferAfterPut, Named, Id
  <2>2. CASE Chunk(u)
    <3>1. <<u, upload[u].sent + 1>> \in Chunks
      BY <1>0, UploadTypes DEF Chunks
    <3> QED BY <2>0, <2>2, <3>1, AppendProperties DEF Chunk, store
  <2>3. CASE NotInProgress(u) \/ GiveUp(u)
    BY <2>0, <2>3 DEF NotInProgress, GiveUp, store, server
  <2>4. CASE LastChunk(u)
    BY <2>0, <2>4 DEF LastChunk
  <2> QED BY <2>1, <2>2, <2>3, <2>4 DEF HttpStep
<1>7. clock' \in Ids /\ meta' \in [Ids -> Metadata \cup {None}]
  BY <1>0, <1>1 DEF TypeOK
<1> QED BY <1>1, <1>2, <1>3, <1>4, <1>5, <1>6, <1>7, Zenon DEF TypesKept

(* What the viewer was shown and offered stays good when others go on. *)
LEMMA ViewerKept ==
    ASSUME PoolInv, UNCHANGED viewer, FlawsGrow, FilesKept,
           \A v \in Uploads : Id(v) # None => UploadKept(v),
           \A id \in Ids : Offered(id) =>
              Offered(id)' \/ \E u \in Uploads : upload'[u].id = id /\ flaws'[u] # {}
    PROVE  ViewerInv'
<1> USE DEF ViewerInv
<1>0. TypeOK /\ ViewerInv
  BY DEF PoolInv
<1>1. /\ viewer.ids \subseteq Ids /\ viewer.step # "404"
  BY <1>0 DEF TypeOK
<1>2. ASSUME NEW id \in Ids, \E u \in Holders(id) : flaws[u] # {}
      PROVE  \E u \in Holders(id)' : flaws'[u] # {}
  <2> PICK u \in Uploads : Id(u) = id /\ flaws[u] # {}
    BY <1>2 DEF Holders, Id
  <2>1. Id(u) # None
    BY NoneAssumption DEF NoneAssumption
  <2>2. upload'[u].id = id /\ flaws'[u] # {}
    BY <2>1 DEF UploadKept, FlawsGrow, Id
  <2> QED BY <2>2 DEF Holders
<1>3. viewer'.step = "shown" =>
        \A id \in viewer'.ids : Offered(id)' \/ \E u \in Holders(id)' : flaws'[u] # {}
  <2> SUFFICES ASSUME viewer.step = "shown", NEW id \in viewer.ids
               PROVE  Offered(id)' \/ \E u \in Holders(id)' : flaws'[u] # {}
    OBVIOUS
  <2>1. id \in Ids
    BY <1>1
  <2>2. CASE Offered(id)
    BY <2>1, <2>2, Zenon DEF Holders
  <2>3. CASE ~Offered(id)
    BY <1>0, <1>2, <2>1, <2>3
  <2> QED BY <2>2, <2>3
<1>4. viewer'.step = "refused" =>
        viewer'.id \in Ids /\ \E u \in Holders(viewer.id)' : flaws'[u] # {}
  BY <1>0, <1>2
<1>5. ASSUME viewer.step \in {"offered", "200"}, NEW m, m = viewer.offer
      PROVE  /\ m \in Metadata /\ m.ddl \in Uploads /\ Id(m.ddl)' # None
             /\ files'[m.name] # None
             /\ m.ddl \in Clean' =>
                  /\ m.ddl \in Clean
                  /\ upload'[m.ddl].posted
                  /\ m.name = Named(m.ddl)' /\ m.size = upload'[m.ddl].parts
                  /\ Content(m.ddl)' = Content(m.ddl)
  <2>1. /\ m \in Metadata /\ m.ddl \in Uploads /\ Id(m.ddl) # None /\ files[m.name] # None
        /\ m.ddl \in Clean => /\ upload[m.ddl].posted
                              /\ m.name = Named(m.ddl) /\ m.size = upload[m.ddl].parts
    BY <1>0, <1>5
  <2>2. m.name \in Names
    BY <2>1 DEF Metadata
  <2>3. files'[m.name] # None
    BY <2>1, <2>2 DEF FilesKept
  <2> PICK u \in Uploads : u = m.ddl
    BY <2>1
  <2>5. UploadKept(u) /\ flaws[u] \subseteq flaws'[u]
    BY <2>1 DEF FlawsGrow
  <2>6. Id(u)' = Id(u) /\ Named(u)' = Named(u) /\ Content(u)' = Content(u)
    BY <2>5 DEF UploadKept, Id, Named, Content
  <2>7. u \in Clean' => u \in Clean
    BY <2>5, <2>6 DEF Clean
  <2> QED BY <2>1, <2>3, <2>5, <2>6, <2>7 DEF UploadKept
<1>6. ViewerInv'
  <2> PICK m : m = viewer.offer /\ viewer'.offer = m
    OBVIOUS
  <2> QED BY <1>0, <1>1, <1>3, <1>4, <1>5
<1> QED BY <1>6

(* What is derived from an upload's record stays with it. *)
LEMMA RecordKept ==
    ASSUME NEW v \in Uploads,
           upload'[v].id = upload[v].id, upload'[v].parts = upload[v].parts
    PROVE  /\ Id(v)' = Id(v) /\ Named(v)' = Named(v) /\ Content(v)' = Content(v)
           /\ upload'[v].posted = upload[v].posted /\ upload'[v].described = upload[v].described
                => MetaOf(v)' = MetaOf(v)
<1>1. Id(v)' = Id(v) /\ Content(v)' = Content(v)
  BY DEF Id, Content
<1>2. Named(v)' = Named(v)
  BY <1>1 DEF Named
<1> QED BY <1>1, <1>2 DEF MetaOf, Meta

(* The metadata of an upload without a flaw are metadata. *)
LEMMA MetaOfFacts ==
    ASSUME TypeOK, NEW u \in Uploads, Id(u) \in Ids
    PROVE  MetaOf(u) \in Metadata /\ MetaOf(u) # None
<1>1. Named(u) \in Names /\ upload[u].parts \in Nat
  BY NamedFacts, UploadTypes
<1>2. MetaOf(u) \in Metadata
  BY <1>1 DEF MetaOf, Meta, Metadata
<1> QED BY <1>2, NoneAssumption DEF NoneAssumption

LEMMA CleanFacts ==
    ASSUME PoolInv, NEW u \in Clean
    PROVE  /\ u \in Uploads /\ Id(u) \in Ids /\ flaws[u] = {}
           /\ meta[Id(u)] = MetaOf(u) /\ MetaOf(u) \in Metadata /\ meta[Id(u)] # None
           /\ \A v \in Uploads : Named(v) = Named(u) => v = u
           /\ \A v \in Uploads : Id(v) = Id(u) => v = u
           /\ ~upload[u].posted => upload[u].described = "no"
           /\ upload[u].step = "created" \/ upload[u].posted => files[Named(u)] = Content(u)
<1>0. TypeOK /\ AloneInv /\ MetaInv /\ DataInv
  BY DEF PoolInv
<1>1. u \in Uploads /\ Id(u) \in Ids /\ flaws[u] = {}
  BY <1>0, UploadTypes DEF Clean
<1>2. MetaOf(u) \in Metadata /\ MetaOf(u) # None
  BY <1>0, <1>1, MetaOfFacts
<1>3. \A v \in Uploads : Id(v) = Id(u) => v = u
  BY <1>0 DEF AloneInv
<1>4. \A v \in Uploads : Named(v) = Named(u) => v = u
  BY <1>1, <1>3, NamedFacts
<1> QED BY <1>0, <1>1, <1>2, <1>3, <1>4 DEF MetaInv, DataInv

(* The types, when the viewer does nothing. *)
LEMMA TypeKept ==
    ASSUME TypeOK, TypesKept, UNCHANGED viewer
    PROVE  TypeOK'
BY Zenon DEF TypeOK, TypesKept, UploadRecords, Flaws

(* _preUpload: the new upload has its id for itself, or it is flawed. *)
LEMMA PreUploadStep ==
    ASSUME PoolInv, NEW u \in Uploads, _preUpload(u)
    PROVE  PoolInv'
<1>0. TypeOK /\ BeginningInv /\ AloneInv /\ MetaInv /\ DataInv /\ ServerInv /\ IndexInv
  BY DEF PoolInv
<1>1. clock \in Ids /\ clock # None
  BY <1>0, NoneAssumption DEF TypeOK, NoneAssumption
<1>2. /\ upload[u].step = "new" /\ SameBut(u)
      /\ \E n \in 0..MaxParts :
           upload'[u] = [upload[u] EXCEPT !.step = "url", !.id = clock, !.parts = n]
      /\ upload' \in [Uploads -> UploadRecords]
      /\ directory' = TRUE /\ UNCHANGED <<clock, files, server, viewer>>
      /\ meta' \in [Ids -> Metadata \cup {None}] /\ flaws' \in [Uploads -> SUBSET Flaws]
      /\ FlawsGrow
      /\ \A i \in Ids \ {clock} : meta'[i] = meta[i]
      /\ meta'[clock] \in {meta[clock], NewMeta(u)}
      /\ flaws'[u] = {} => meta'[clock] = NewMeta(u)
      /\ \A v \in Holders(clock) \cup {u} : flaws'[v] = {} => Holders(clock) = {}
  BY <1>0, PreUploadFacts, Zenon
<1>3. /\ upload'[u].id = clock /\ upload'[u].step = "url" /\ upload'[u].sent = 0
      /\ ~upload'[u].posted /\ upload'[u].described = "no" /\ Id(u) = None
  <2>1. /\ Id(u) = None /\ ~upload[u].posted /\ upload[u].described = "no"
        /\ upload[u].sent = 0 /\ upload[u] \in UploadRecords
    BY <1>0, <1>2, UploadTypes DEF BeginningInv
  <2> PICK n \in 0..MaxParts :
        upload'[u] = [upload[u] EXCEPT !.step = "url", !.id = clock, !.parts = n]
    BY <1>2
  <2> QED BY <2>1 DEF UploadRecords
<1>4. Id(u)' = clock /\ Named(u)' = FileName(clock, Category[u])
  BY <1>2, <1>3 DEF Id, Named
<1>5. \A v \in Uploads \ {u} :
        /\ upload'[v] = upload[v] /\ Id(v)' = Id(v) /\ Named(v)' = Named(v)
        /\ Content(v)' = Content(v) /\ MetaOf(v)' = MetaOf(v)
  BY <1>2, RecordKept, Zenon DEF SameBut
<1>6. \A v \in Clean' : v # u => v \in Clean /\ Id(v) # clock
  <2> SUFFICES ASSUME NEW v \in Uploads, v # u, Id(v)' # None, flaws'[v] = {}
               PROVE  v \in Clean /\ Id(v) # clock
    BY DEF Clean
  <2>1. Id(v) # None /\ flaws[v] = {}
    BY <1>2, <1>5 DEF FlawsGrow
  <2>2. Id(v) # clock
    BY <1>2 DEF Holders, Id
  <2> QED BY <2>1, <2>2 DEF Clean
<1>7. flaws'[u] = {} => \A v \in Uploads : Id(v) # clock
  BY <1>2 DEF Holders, Id
<1>8. u \in Clean' => flaws'[u] = {}
  BY DEF Clean
<1>9. Sending' = Sending
  <2>1. \A v \in Uploads : upload'[v].step = "sending" <=> upload[v].step = "sending"
    <3>1. upload'[u].step # "sending" /\ upload[u].step # "sending"
      BY <1>2, <1>3
    <3> QED BY <1>5, <3>1
  <2> QED BY <2>1, Zenon DEF Sending
<1>10. TypeOK'
  <2>1. TypesKept
    BY <1>0, <1>2 DEF TypesKept, TypeOK, server
  <2> QED BY <1>0, <1>2, <2>1, TypeKept, Zenon
<1>11. BeginningInv'
  <2> SUFFICES ASSUME NEW v \in Uploads
               PROVE  /\ upload'[v].step = "new" <=> Id(v)' = None
                      /\ Id(v)' = None => ~upload'[v].posted /\ upload'[v].described = "no"
                      /\ upload'[v].step \in {"new", "url"} => upload'[v].sent = 0
    BY DEF BeginningInv
  <2>1. CASE v = u
    BY <1>1, <1>3, <1>4, <2>1
  <2>2. CASE v # u
    BY <1>0, <1>5, <2>2 DEF BeginningInv
  <2> QED BY <2>1, <2>2
<1>12. AloneInv'
  <2> SUFFICES ASSUME NEW v \in Clean', NEW w \in Uploads, Id(w)' = Id(v)'
               PROVE  w = v
    BY DEF AloneInv
  <2>0. v \in Uploads
    BY DEF Clean
  <2>1. CASE v = u
    BY <1>4, <1>5, <1>7, <1>8, <2>1
  <2>2. CASE v # u
    BY <1>0, <1>4, <1>5, <1>6, <2>0, <2>2 DEF AloneInv
  <2> QED BY <2>1, <2>2
<1>13. MetaInv'
  <2> SUFFICES ASSUME NEW v \in Clean'
               PROVE  /\ meta'[Id(v)'] = MetaOf(v)'
                      /\ ~upload'[v].posted => upload'[v].described = "no"
    BY DEF MetaInv
  <2>0. v \in Uploads
    BY DEF Clean
  <2>1. CASE v = u
    BY <1>2, <1>3, <1>4, <1>8, <2>1 DEF MetaOf, Meta, NewMeta
  <2>2. CASE v # u
    <3>1. v \in Clean /\ Id(v) # clock
      BY <1>6, <2>2
    <3>2. /\ Id(v) \in Ids /\ meta[Id(v)] = MetaOf(v)
          /\ ~upload[v].posted => upload[v].described = "no"
      BY <3>1, CleanFacts
    <3> QED BY <1>2, <1>5, <2>0, <2>2, <3>1, <3>2
  <2> QED BY <2>1, <2>2
<1>14. DataInv'
  <2> SUFFICES ASSUME NEW v \in Clean', upload'[v].step = "created" \/ upload'[v].posted
               PROVE  files'[Named(v)'] = Content(v)'
    BY DEF DataInv
  <2>1. v \in Uploads /\ v # u
    BY <1>3 DEF Clean
  <2> QED BY <1>0, <1>2, <1>5, <1>6, <2>1 DEF DataInv
<1>15. ServerInv'
  <2>0. UNCHANGED <<uploadName, buffer, inProgress>>
    BY <1>2 DEF server
  <2>1. uploadName # None => \E x \in Uploads : Id(x) # None /\ uploadName = Named(x)
    BY <1>0 DEF ServerInv
  <2>2. uploadName' # None => \E x \in Uploads : Id(x)' # None /\ uploadName' = Named(x)'
    BY <1>3, <1>5, <2>0, <2>1
  <2>3. ASSUME NEW v \in Clean'
        PROVE  /\ uploadName' = Named(v)' => Sending' \subseteq {v} /\ upload'[v].step # "url"
               /\ upload'[v].step = "sending" =>
                    /\ inProgress' /\ uploadName' = Named(v)'
                    /\ upload'[v].sent \in 0..upload'[v].parts
                    /\ buffer' = [k \in 1..upload'[v].sent |-> <<v, k>>]
    <3>1. CASE v = u
      <4>1. uploadName' # Named(u)'
        <5>1. ASSUME uploadName = Named(u)' PROVE FALSE
          <6>1. Named(u)' # None
            BY <1>1, <1>4, NamedFacts, StorageAssumption, NoneAssumption
               DEF StorageAssumption, NoneAssumption
          <6> PICK x \in Uploads : uploadName = Named(x)
            BY <2>1, <5>1, <6>1
          <6>2. Id(x) = clock
            BY <1>4, <5>1 DEF Named, FileName
          <6> QED BY <1>7, <1>8, <3>1, <6>2
        <5> QED BY <2>0, <5>1
      <4> QED BY <1>3, <3>1, <4>1
    <3>2. CASE v # u
      <4>1. v \in Clean /\ v \in Uploads
        BY <1>6, <3>2 DEF Clean
      <4>2. /\ uploadName = Named(v) => Sending \subseteq {v} /\ upload[v].step # "url"
            /\ upload[v].step = "sending" =>
                  /\ inProgress /\ uploadName = Named(v)
                  /\ upload[v].sent \in 0..upload[v].parts
                  /\ buffer = [k \in 1..upload[v].sent |-> <<v, k>>]
        BY <1>0, <4>1, Zenon DEF ServerInv
      <4>3. upload'[v] = upload[v] /\ Named(v)' = Named(v)
        BY <1>5, <3>2, <4>1
      <4> QED BY <1>9, <2>0, <4>2, <4>3
    <3> QED BY <3>1, <3>2
  <2> QED BY <2>2, <2>3 DEF ServerInv
<1>16. IndexInv'
  <2> SUFFICES ASSUME NEW id \in Ids, meta'[id] # None
               PROVE  /\ Holders(id)' # {}
                      /\ meta'[id].ddl # None => meta'[id].ddl \in Holders(id)'
    BY DEF IndexInv
  <2>0. id # None
    BY NoneAssumption DEF NoneAssumption
  <2>1. Holders(id) \subseteq Holders(id)'
    BY <1>3, <1>5, <2>0 DEF Holders, Id
  <2>2. id = clock => u \in Holders(id)'
    BY <1>3 DEF Holders
  <2>3. CASE meta'[id] = meta[id]
    BY <1>0, <2>1, <2>3 DEF IndexInv
  <2>4. CASE id = clock /\ meta'[id] = NewMeta(u)
    BY <2>2, <2>4 DEF NewMeta
  <2> QED BY <1>2, <2>3, <2>4
<1>17. ViewerInv'
  <2>1. ASSUME NEW id \in Ids, Offered(id)
        PROVE  Offered(id)' \/ \E v \in Uploads : upload'[v].id = id /\ flaws'[v] # {}
    <3>1. CASE id # clock
      <4>1. meta'[id] = meta[id] /\ files' = files
        BY <1>2, <3>1
      <4> QED BY <2>1, <4>1 DEF Offered, ReadableAs, Readable, Valid
    <3>2. CASE id = clock
      <4>1. Holders(clock) # {}
        BY <1>0, <2>1, <3>2 DEF Offered, ReadableAs, Readable, IndexInv
      <4> QED BY <1>2, <1>3, <3>2, <4>1
    <3> QED BY <3>1, <3>2
  <2>2. \A v \in Uploads : Id(v) # None => UploadKept(v)
    BY <1>3, <1>5 DEF UploadKept
  <2>3. FilesKept
    BY <1>2 DEF FilesKept
  <2> QED BY <1>2, <2>1, <2>2, <2>3, ViewerKept, Zenon
<1> QED BY <1>10, <1>11, <1>12, <1>13, <1>14, <1>15, <1>16, <1>17 DEF PoolInv

(* Metadata, field by field *)
LEMMA MetaFields ==
    ASSUME NEW n, NEW s, NEW z, NEW d
    PROVE  LET m == [state |-> s, name |-> n, size |-> z, ddl |-> d]
           IN /\ \A x : [m EXCEPT !.state = x] = [state |-> x, name |-> n, size |-> z, ddl |-> d]
              /\ \A x : [m EXCEPT !.size = x] = [state |-> s, name |-> n, size |-> x, ddl |-> d]
              /\ \A x : [m EXCEPT !.ddl = x] = [state |-> s, name |-> n, size |-> z, ddl |-> x]
OBVIOUS

(* The server's one upload stays when no step and no packet count changes. *)
LEMMA ServerKept ==
    ASSUME ServerInv, UNCHANGED server, Clean' \subseteq Clean, Sending' = Sending,
           \A v \in Uploads : /\ Id(v)' = Id(v) /\ Named(v)' = Named(v)
                              /\ upload'[v].step = upload[v].step
                              /\ upload'[v].sent = upload[v].sent
                              /\ upload'[v].parts = upload[v].parts
    PROVE  ServerInv'
<1>0. UNCHANGED <<uploadName, buffer, inProgress>>
  BY DEF server
<1>1. uploadName' # None => \E x \in Uploads : Id(x)' # None /\ uploadName' = Named(x)'
  BY <1>0 DEF ServerInv
<1>2. ASSUME NEW v \in Clean'
      PROVE  /\ uploadName' = Named(v)' => Sending' \subseteq {v} /\ upload'[v].step # "url"
             /\ upload'[v].step = "sending" =>
                  /\ inProgress' /\ uploadName' = Named(v)'
                  /\ upload'[v].sent \in 0..upload'[v].parts
                  /\ buffer' = [k \in 1..upload'[v].sent |-> <<v, k>>]
  <2>1. v \in Clean /\ v \in Uploads
    BY DEF Clean
  <2>2. /\ uploadName = Named(v) => Sending \subseteq {v} /\ upload[v].step # "url"
        /\ upload[v].step = "sending" =>
             /\ inProgress /\ uploadName = Named(v)
             /\ upload[v].sent \in 0..upload[v].parts
             /\ buffer = [k \in 1..upload[v].sent |-> <<v, k>>]
    BY <2>1, Zenon DEF ServerInv
  <2> QED BY <1>0, <2>1, <2>2
<1> QED BY <1>1, <1>2 DEF ServerInv

(* _postUploadFile: the file is there, so its size is that of the upload. *)
LEMMA PostUploadStep ==
    ASSUME PoolInv, NEW u \in Uploads, _postUploadFile(u)
    PROVE  PoolInv'
<1>0. TypeOK /\ BeginningInv /\ AloneInv /\ MetaInv /\ DataInv /\ ServerInv /\ IndexInv
  BY DEF PoolInv
<1>1. Id(u) \in Ids
  BY <1>0, UploadTypes DEF BeginningInv, _postUploadFile
<1>2. /\ upload[u].step = "created" /\ ~upload[u].posted /\ SameBut(u)
      /\ upload'[u] = [upload[u] EXCEPT !.posted = TRUE]
      /\ upload' \in [Uploads -> UploadRecords]
      /\ UNCHANGED <<clock, files, server, viewer>> /\ directory' \in BOOLEAN
      /\ meta' \in [Ids -> Metadata \cup {None}] /\ flaws' \in [Uploads -> SUBSET Flaws]
      /\ FlawsGrow
      /\ \A i \in Ids \ {Id(u)} : meta'[i] = meta[i]
      /\ ~Readable(Id(u)) => meta'[Id(u)] = meta[Id(u)]
      /\ meta'[Id(u)] \in {meta[Id(u)], PostedMeta(Id(u))}
      /\ Readable(Id(u)) /\ flaws'[u] = {} => meta'[Id(u)] = PostedMeta(Id(u))
  BY <1>0, <1>1, PostUploadFacts, Zenon
<1>3. /\ upload'[u].id = upload[u].id /\ upload'[u].parts = upload[u].parts
      /\ upload'[u].sent = upload[u].sent /\ upload'[u].step = "created"
      /\ upload'[u].posted /\ upload'[u].described = upload[u].described
  <2>1. upload[u] \in UploadRecords
    BY <1>0, UploadTypes
  <2> QED BY <1>2, <2>1 DEF UploadRecords
<1>4. \A v \in Uploads \ {u} : upload'[v] = upload[v] /\ MetaOf(v)' = MetaOf(v)
  BY <1>2, RecordKept, Zenon DEF SameBut
<1>5. \A v \in Uploads : /\ Id(v)' = Id(v) /\ Named(v)' = Named(v) /\ Content(v)' = Content(v)
                         /\ upload'[v].step = upload[v].step
                         /\ upload'[v].sent = upload[v].sent
                         /\ upload'[v].parts = upload[v].parts /\ UploadKept(v)
  <2>1. \A v \in Uploads : upload'[v].id = upload[v].id /\ upload'[v].parts = upload[v].parts
    BY <1>3, <1>4
  <2>2. \A v \in Uploads : Id(v)' = Id(v) /\ Named(v)' = Named(v) /\ Content(v)' = Content(v)
    BY <2>1, RecordKept, Zenon
  <2> QED BY <1>2, <1>3, <1>4, <2>1, <2>2 DEF UploadKept
<1>6. Clean' \subseteq Clean
  BY <1>2, <1>5 DEF Clean, FlawsGrow
<1>7. Sending' = Sending /\ \A id : Holders(id)' = Holders(id)
  BY <1>5 DEF Sending, Holders, Id
<1>8. u \in Clean => /\ meta[Id(u)] = Meta(u, "UPLOADING", 0, None)
                     /\ Readable(Id(u)) /\ upload[u].described = "no"
                     /\ files[Named(u)] = Content(u)
  <2> SUFFICES ASSUME u \in Clean PROVE <1>8!2
    OBVIOUS
  <2>1. /\ meta[Id(u)] = Meta(u, "UPLOADING", 0, None) /\ meta[Id(u)] # None
        /\ upload[u].described = "no" /\ files[Named(u)] = Content(u)
    BY <1>2, CleanFacts DEF MetaOf
  <2>2. meta[Id(u)].state = "UPLOADING"
    BY <2>1 DEF Meta
  <2> QED BY <2>1, <2>2 DEF Readable, Valid
<1>9. TypeOK'
  <2>1. TypesKept
    BY <1>0, <1>2 DEF TypesKept, TypeOK, server
  <2> QED BY <1>0, <1>2, <2>1, TypeKept, Zenon
<1>10. BeginningInv'
  <2> SUFFICES ASSUME NEW v \in Uploads
               PROVE  /\ upload'[v].step = "new" <=> Id(v)' = None
                      /\ Id(v)' = None => ~upload'[v].posted /\ upload'[v].described = "no"
                      /\ upload'[v].step \in {"new", "url"} => upload'[v].sent = 0
    BY DEF BeginningInv
  <2>1. CASE v = u
    BY <1>1, <1>3, <1>5, <2>1, NoneAssumption DEF NoneAssumption
  <2>2. CASE v # u
    BY <1>0, <1>4, <1>5, <2>2 DEF BeginningInv
  <2> QED BY <2>1, <2>2
<1>11. AloneInv'
  <2> SUFFICES ASSUME NEW v \in Clean', NEW w \in Uploads, Id(w)' = Id(v)'
               PROVE  w = v
    BY DEF AloneInv
  <2>1. v \in Clean /\ v \in Uploads
    BY <1>6 DEF Clean
  <2> QED BY <1>0, <1>5, <2>1 DEF AloneInv
<1>12. MetaInv'
  <2> SUFFICES ASSUME NEW v \in Clean'
               PROVE  /\ meta'[Id(v)'] = MetaOf(v)'
                      /\ ~upload'[v].posted => upload'[v].described = "no"
    BY DEF MetaInv
  <2>0. v \in Clean /\ v \in Uploads /\ flaws'[v] = {}
    BY <1>6 DEF Clean
  <2>1. CASE v = u
    <3>1. meta'[Id(u)] = PostedMeta(Id(u))
      BY <1>2, <1>8, <2>0, <2>1
    <3>2. SizeOf(files[Named(u)]) = upload[u].parts
      BY <1>0, <1>8, <2>0, <2>1, UploadTypes, ContentFacts DEF SizeOf, Content
    <3>3. PostedMeta(Id(u)) = Meta(u, "UPLOADED", upload[u].parts, None)
      <4>1. meta[Id(u)] = Meta(u, "UPLOADING", 0, None)
        BY <1>8, <2>0, <2>1
      <4>2. meta[Id(u)].name = Named(u)
        BY <4>1 DEF Meta
      <4>3. PostedMeta(Id(u)) = [Meta(u, "UPLOADING", 0, None)
                                   EXCEPT !.state = "UPLOADED", !.size = upload[u].parts, !.ddl = None]
        BY <3>2, <4>1, <4>2, Zenon DEF PostedMeta
      <4> QED BY <4>3, MetaFields, Zenon DEF Meta
    <3>4. MetaOf(u)' = Meta(u, "UPLOADED", upload[u].parts, None)
      BY <1>3, <1>5, <1>8, <2>0, <2>1 DEF MetaOf, Meta
    <3> QED BY <1>3, <1>5, <2>1, <3>1, <3>3, <3>4
  <2>2. CASE v # u
    <3>1. Id(v) \in Ids /\ Id(v) # Id(u) /\ meta[Id(v)] = MetaOf(v)
      BY <2>0, <2>2, CleanFacts
    <3> QED BY <1>0, <1>2, <1>4, <1>5, <2>0, <2>2, <3>1 DEF MetaInv
  <2> QED BY <2>1, <2>2
<1>13. DataInv'
  <2> SUFFICES ASSUME NEW v \in Clean', upload'[v].step = "created" \/ upload'[v].posted
               PROVE  files'[Named(v)'] = Content(v)'
    BY DEF DataInv
  <2>1. v \in Clean /\ v \in Uploads
    BY <1>6 DEF Clean
  <2>2. upload[v].step = "created" \/ upload[v].posted
    BY <1>2, <1>4, <2>1
  <2> QED BY <1>0, <1>2, <1>5, <2>1, <2>2 DEF DataInv
<1>14. ServerInv'
  BY <1>0, <1>2, <1>5, <1>6, <1>7, ServerKept, Zenon
<1>15. IndexInv'
  <2> SUFFICES ASSUME NEW id \in Ids, meta'[id] # None
               PROVE  /\ Holders(id)' # {}
                      /\ meta'[id].ddl # None => meta'[id].ddl \in Holders(id)'
    BY DEF IndexInv
  <2>1. CASE meta'[id] = meta[id]
    BY <1>0, <1>7, <2>1 DEF IndexInv
  <2>2. CASE id = Id(u) /\ meta'[id] # meta[id]
    <3>1. u \in Holders(id)
      BY <2>2 DEF Holders, Id
    <3>2. meta'[id] = PostedMeta(id) /\ meta[id] \in Metadata
      BY <1>0, <1>2, <2>2 DEF TypeOK, Readable
    <3>3. meta'[id].ddl = None
      BY <3>2 DEF PostedMeta, Metadata
    <3> QED BY <1>7, <3>1, <3>3
  <2> QED BY <1>2, <2>1, <2>2
<1>16. ViewerInv'
  <2>1. ASSUME NEW id \in Ids, Offered(id)
        PROVE  Offered(id)' \/ \E v \in Uploads : upload'[v].id = id /\ flaws'[v] # {}
    <3>1. CASE id # Id(u)
      <4>1. meta'[id] = meta[id] /\ files' = files
        BY <1>2, <3>1
      <4> QED BY <2>1, <4>1 DEF Offered, ReadableAs, Readable, Valid
    <3>2. CASE id = Id(u) /\ u \in Clean
      BY <1>8, <2>1, <3>2 DEF Offered, ReadableAs, Meta
    <3>3. CASE id = Id(u) /\ u \notin Clean
      <4>1. flaws'[u] # {}
        BY <1>1, <1>2, <3>3, NoneAssumption DEF Clean, FlawsGrow, NoneAssumption
      <4> QED BY <1>3, <3>3, <4>1 DEF Id
    <3> QED BY <3>1, <3>2, <3>3
  <2>2. FilesKept
    BY <1>2 DEF FilesKept
  <2> QED BY <1>2, <1>5, <2>1, <2>2, ViewerKept, Zenon
<1> QED BY <1>9, <1>10, <1>11, <1>12, <1>13, <1>14, <1>15, <1>16 DEF PoolInv

(* _preUploadSummary: only what was posted is described without a flaw. *)
LEMMA SummaryStep ==
    ASSUME PoolInv, NEW u \in Uploads, _preUploadSummary(u)
    PROVE  PoolInv'
<1>0. TypeOK /\ BeginningInv /\ AloneInv /\ MetaInv /\ DataInv /\ ServerInv /\ IndexInv
  BY DEF PoolInv
<1>1. Id(u) \in Ids
  BY <1>0, UploadTypes DEF BeginningInv, _preUploadSummary
<1>2. PICK ddl \in {u, None} :
      /\ upload[u].described = "no" /\ upload[u].step # "new" /\ SameBut(u)
      /\ upload'[u] = [upload[u] EXCEPT !.described = IF ddl = u THEN "text" ELSE "empty"]
      /\ upload' \in [Uploads -> UploadRecords]
      /\ UNCHANGED <<clock, files, server, viewer>> /\ directory' \in BOOLEAN
      /\ meta' \in [Ids -> Metadata \cup {None}] /\ flaws' \in [Uploads -> SUBSET Flaws]
      /\ FlawsGrow
      /\ \A i \in Ids \ {Id(u)} : meta'[i] = meta[i]
      /\ ~Readable(Id(u)) => meta'[Id(u)] = meta[Id(u)]
      /\ meta'[Id(u)] \in {meta[Id(u)],
                           [meta[Id(u)] EXCEPT !.state = "DESCRIBED", !.ddl = ddl]}
      /\ Readable(Id(u)) /\ flaws'[u] = {}
           => upload[u].posted
              /\ meta'[Id(u)] = [meta[Id(u)] EXCEPT !.state = "DESCRIBED", !.ddl = ddl]
  BY <1>0, <1>1, SummaryFacts, Zenon
<1>3. /\ upload'[u].id = upload[u].id /\ upload'[u].parts = upload[u].parts
      /\ upload'[u].sent = upload[u].sent /\ upload'[u].step = upload[u].step
      /\ upload'[u].posted = upload[u].posted
      /\ upload'[u].described = IF ddl = u THEN "text" ELSE "empty"
  <2>1. upload[u] \in UploadRecords
    BY <1>0, UploadTypes
  <2> QED BY <1>2, <2>1 DEF UploadRecords
<1>4. \A v \in Uploads \ {u} : upload'[v] = upload[v] /\ MetaOf(v)' = MetaOf(v)
  BY <1>2, RecordKept, Zenon DEF SameBut
<1>5. \A v \in Uploads : /\ Id(v)' = Id(v) /\ Named(v)' = Named(v) /\ Content(v)' = Content(v)
                         /\ upload'[v].step = upload[v].step
                         /\ upload'[v].sent = upload[v].sent
                         /\ upload'[v].parts = upload[v].parts
                         /\ upload'[v].posted = upload[v].posted /\ UploadKept(v)
  <2>1. \A v \in Uploads : upload'[v].id = upload[v].id /\ upload'[v].parts = upload[v].parts
    BY <1>3, <1>4
  <2>2. \A v \in Uploads : Id(v)' = Id(v) /\ Named(v)' = Named(v) /\ Content(v)' = Content(v)
    BY <2>1, RecordKept, Zenon
  <2> QED BY <1>3, <1>4, <2>1, <2>2 DEF UploadKept
<1>6. Clean' \subseteq Clean
  BY <1>2, <1>5 DEF Clean, FlawsGrow
<1>7. Sending' = Sending /\ \A id : Holders(id)' = Holders(id)
  BY <1>5 DEF Sending, Holders, Id
<1>8. u \in Clean => /\ meta[Id(u)] = IF upload[u].posted
                                      THEN Meta(u, "UPLOADED", upload[u].parts, None)
                                      ELSE Meta(u, "UPLOADING", 0, None)
                     /\ meta[Id(u)] # None
  BY <1>2, CleanFacts DEF MetaOf
<1>9. TypeOK'
  <2>1. TypesKept
    BY <1>0, <1>2 DEF TypesKept, TypeOK, server
  <2> QED BY <1>0, <1>2, <2>1, TypeKept, Zenon
<1>10. BeginningInv'
  <2> SUFFICES ASSUME NEW v \in Uploads
               PROVE  /\ upload'[v].step = "new" <=> Id(v)' = None
                      /\ Id(v)' = None => ~upload'[v].posted /\ upload'[v].described = "no"
                      /\ upload'[v].step \in {"new", "url"} => upload'[v].sent = 0
    BY DEF BeginningInv
  <2>1. CASE v = u
    BY <1>0, <1>1, <1>2, <1>3, <1>5, <2>1, NoneAssumption DEF BeginningInv, NoneAssumption
  <2>2. CASE v # u
    BY <1>0, <1>4, <1>5, <2>2 DEF BeginningInv
  <2> QED BY <2>1, <2>2
<1>11. AloneInv'
  <2> SUFFICES ASSUME NEW v \in Clean', NEW w \in Uploads, Id(w)' = Id(v)'
               PROVE  w = v
    BY DEF AloneInv
  <2>1. v \in Clean /\ v \in Uploads
    BY <1>6 DEF Clean
  <2> QED BY <1>0, <1>5, <2>1 DEF AloneInv
<1>12. MetaInv'
  <2> SUFFICES ASSUME NEW v \in Clean'
               PROVE  /\ meta'[Id(v)'] = MetaOf(v)'
                      /\ ~upload'[v].posted => upload'[v].described = "no"
    BY DEF MetaInv
  <2>0. v \in Clean /\ v \in Uploads /\ flaws'[v] = {}
    BY <1>6 DEF Clean
  <2>1. CASE v = u
    <3>1. upload[u].posted
      <4>1. SUFFICES ASSUME ~upload[u].posted PROVE FALSE
        OBVIOUS
      <4>2. Readable(Id(u))
        BY <1>8, <2>0, <2>1, <4>1 DEF Readable, Valid, Meta
      <4> QED BY <1>2, <2>0, <2>1, <4>1, <4>2
    <3>2. meta[Id(u)] = Meta(u, "UPLOADED", upload[u].parts, None)
      BY <1>8, <2>0, <2>1, <3>1
    <3>3. CASE upload[u].parts = 0
      <4>1. ~Readable(Id(u))
        BY <3>2, <3>3 DEF Readable, Valid, Meta
      <4>2. meta'[Id(u)] = Meta(u, "UPLOADED", upload[u].parts, None)
        BY <1>2, <3>2, <4>1
      <4>3. MetaOf(u)' = Meta(u, "UPLOADED", upload[u].parts, None)
        BY <1>3, <1>5, <3>1, <3>3 DEF MetaOf, Meta
      <4> QED BY <1>3, <1>5, <2>1, <3>1, <4>2, <4>3
    <3>4. CASE upload[u].parts # 0
      <4>1. Readable(Id(u))
        BY <1>8, <2>0, <2>1, <3>2, <3>4 DEF Readable, Valid, Meta
      <4>2. meta'[Id(u)] = Meta(u, "DESCRIBED", upload[u].parts, ddl)
        <5>1. meta'[Id(u)] = [Meta(u, "UPLOADED", upload[u].parts, None)
                                EXCEPT !.state = "DESCRIBED", !.ddl = ddl]
          BY <1>2, <2>0, <2>1, <3>2, <4>1, Zenon
        <5> QED BY <5>1, MetaFields, Zenon DEF Meta
      <4>3. MetaOf(u)' = Meta(u, "DESCRIBED", upload[u].parts, ddl)
        <5>1. u # None
          BY StorageAssumption DEF StorageAssumption
        <5>2. MetaOf(u)' = Meta(u, "DESCRIBED", upload[u].parts,
                                IF upload'[u].described = "text" THEN u ELSE None)
          BY <1>3, <1>5, <3>1, <3>4 DEF MetaOf, Meta
        <5> QED BY <1>2, <1>3, <5>1, <5>2
      <4> QED BY <1>3, <1>5, <2>1, <3>1, <4>2, <4>3
    <3> QED BY <3>3, <3>4
  <2>2. CASE v # u
    <3>1. Id(v) \in Ids /\ Id(v) # Id(u) /\ meta[Id(v)] = MetaOf(v)
      BY <2>0, <2>2, CleanFacts
    <3> QED BY <1>0, <1>2, <1>4, <1>5, <2>0, <2>2, <3>1 DEF MetaInv
  <2> QED BY <2>1, <2>2
<1>13. DataInv'
  <2> SUFFICES ASSUME NEW v \in Clean', upload'[v].step = "created" \/ upload'[v].posted
               PROVE  files'[Named(v)'] = Content(v)'
    BY DEF DataInv
  <2>1. v \in Clean /\ v \in Uploads
    BY <1>6 DEF Clean
  <2> QED BY <1>0, <1>2, <1>5, <2>1 DEF DataInv
<1>14. ServerInv'
  BY <1>0, <1>2, <1>5, <1>6, <1>7, ServerKept, Zenon
<1>15. IndexInv'
  <2> SUFFICES ASSUME NEW id \in Ids, meta'[id] # None
               PROVE  /\ Holders(id)' # {}
                      /\ meta'[id].ddl # None => meta'[id].ddl \in Holders(id)'
    BY DEF IndexInv
  <2>1. CASE meta'[id] = meta[id]
    BY <1>0, <1>7, <2>1 DEF IndexInv
  <2>2. CASE id = Id(u) /\ meta'[id] # meta[id]
    <3>1. u \in Holders(id)
      BY <2>2 DEF Holders, Id
    <3>2. /\ meta'[id] = [meta[id] EXCEPT !.state = "DESCRIBED", !.ddl = ddl]
          /\ meta[id] \in Metadata
      BY <1>0, <1>2, <2>2 DEF TypeOK, Readable
    <3>3. meta'[id].ddl = ddl
      BY <3>2 DEF Metadata
    <3> QED BY <1>2, <1>7, <3>1, <3>3
  <2> QED BY <1>2, <2>1, <2>2
<1>16. ViewerInv'
  <2>1. ASSUME NEW id \in Ids, Offered(id)
        PROVE  Offered(id)' \/ \E v \in Uploads : upload'[v].id = id /\ flaws'[v] # {}
    <3>1. CASE id # Id(u)
      <4>1. meta'[id] = meta[id] /\ files' = files
        BY <1>2, <3>1
      <4> QED BY <2>1, <4>1 DEF Offered, ReadableAs, Readable, Valid
    <3>2. CASE id = Id(u) /\ u \in Clean
      BY <1>8, <2>1, <3>2 DEF Offered, ReadableAs, Meta
    <3>3. CASE id = Id(u) /\ u \notin Clean
      <4>1. flaws'[u] # {}
        BY <1>1, <1>2, <3>3, NoneAssumption DEF Clean, FlawsGrow, NoneAssumption
      <4> QED BY <1>3, <3>3, <4>1 DEF Id
    <3> QED BY <3>1, <3>2, <3>3
  <2>2. FilesKept
    BY <1>2 DEF FilesKept
  <2> QED BY <1>2, <1>5, <2>1, <2>2, ViewerKept, Zenon
<1> QED BY <1>9, <1>10, <1>11, <1>12, <1>13, <1>14, <1>15, <1>16 DEF PoolInv

(* Packets, and the end of the game's interest: the file of an upload      *)
(* without a flaw is written by its own last chunk.                        *)
LEMMA HttpStepKeeps ==
    ASSUME PoolInv, NEW u \in Uploads, HttpStep(u)
    PROVE  PoolInv'
<1>0. TypeOK /\ BeginningInv /\ AloneInv /\ MetaInv /\ DataInv /\ ServerInv /\ IndexInv
  BY DEF PoolInv
<1>1. /\ Id(u) \in Ids /\ SameBut(u) /\ FlawsGrow /\ FilesKept /\ TypesKept
      /\ upload'[u].id = upload[u].id /\ upload'[u].parts = upload[u].parts
      /\ upload'[u].posted = upload[u].posted /\ upload'[u].described = upload[u].described
      /\ upload'[u].step \notin {"new", "url"}
      /\ UNCHANGED <<clock, meta, viewer>>
  BY HttpFacts, Zenon
<1>2. \A v \in Uploads \ {u} : upload'[v] = upload[v]
  BY <1>1 DEF SameBut
<1>3. \A v \in Uploads : /\ upload'[v].id = upload[v].id /\ upload'[v].parts = upload[v].parts
                         /\ upload'[v].posted = upload[v].posted
                         /\ upload'[v].described = upload[v].described /\ UploadKept(v)
  BY <1>1, <1>2 DEF UploadKept
<1>4. \A v \in Uploads : /\ Id(v)' = Id(v) /\ Named(v)' = Named(v)
                         /\ Content(v)' = Content(v) /\ MetaOf(v)' = MetaOf(v)
  BY <1>3, RecordKept, Zenon
<1>5. Clean' \subseteq Clean /\ \A id : Holders(id)' = Holders(id)
  BY <1>1, <1>4 DEF Clean, FlawsGrow, Holders, Id
<1>6. upload[u].step \in {"url", "sending", "created"}
  BY DEF HttpStep, Put, NotInProgress, Chunk, LastChunk, GiveUp
<1>7. ASSUME NEW v \in Clean
      PROVE  /\ v \in Uploads
             /\ uploadName = Named(v) => Sending \subseteq {v} /\ upload[v].step # "url"
             /\ upload[v].step = "sending" =>
                  /\ inProgress /\ uploadName = Named(v)
                  /\ upload[v].sent \in 0..upload[v].parts
                  /\ buffer = [k \in 1..upload[v].sent |-> <<v, k>>]
  BY <1>0, Zenon DEF ServerInv, Clean
<1>8. upload[u].step = "sending" =>
        \A v \in Clean : v # u => uploadName # Named(v) /\ upload[v].step # "sending"
  BY <1>7 DEF Sending
<1>9. TypeOK'
  BY <1>0, <1>1, TypeKept, Zenon
<1>10. BeginningInv'
  <2> SUFFICES ASSUME NEW v \in Uploads
               PROVE  /\ upload'[v].step = "new" <=> Id(v)' = None
                      /\ Id(v)' = None => ~upload'[v].posted /\ upload'[v].described = "no"
                      /\ upload'[v].step \in {"new", "url"} => upload'[v].sent = 0
    BY DEF BeginningInv
  <2>1. CASE v = u
    BY <1>1, <1>4, <2>1, NoneAssumption DEF NoneAssumption
  <2>2. CASE v # u
    BY <1>0, <1>2, <1>4, <2>2 DEF BeginningInv
  <2> QED BY <2>1, <2>2
<1>11. AloneInv'
  <2> SUFFICES ASSUME NEW v \in Clean', NEW w \in Uploads, Id(w)' = Id(v)'
               PROVE  w = v
    BY DEF AloneInv
  <2>1. v \in Clean /\ v \in Uploads
    BY <1>5 DEF Clean
  <2> QED BY <1>0, <1>4, <2>1 DEF AloneInv
<1>12. MetaInv'
  <2> SUFFICES ASSUME NEW v \in Clean'
               PROVE  /\ meta'[Id(v)'] = MetaOf(v)'
                      /\ ~upload'[v].posted => upload'[v].described = "no"
    BY DEF MetaInv
  <2>1. v \in Clean /\ v \in Uploads
    BY <1>5 DEF Clean
  <2> QED BY <1>0, <1>1, <1>3, <1>4, <2>1 DEF MetaInv
<1>13. IndexInv'
  BY <1>0, <1>1, <1>5 DEF IndexInv
<1>14. ViewerInv'
  <2>1. ASSUME NEW id \in Ids, Offered(id)
        PROVE  Offered(id)'
    <3>1. meta'[id] = meta[id]
      BY <1>1
    <3>2. meta[id].name \in Names
      BY <1>0, <2>1 DEF Offered, ReadableAs, Readable, TypeOK, Metadata
    <3>3. files'[meta[id].name] # None
      BY <1>1, <2>1, <3>2 DEF FilesKept, Offered
    <3> QED BY <2>1, <3>1, <3>3 DEF Offered, ReadableAs, Readable, Valid
  <2> QED BY <1>1, <1>3, <2>1, ViewerKept, Zenon
<1>15. DataInv'
  <2> SUFFICES ASSUME NEW v \in Clean', upload'[v].step = "created" \/ upload'[v].posted
               PROVE  files'[Named(v)] = Content(v)
    BY <1>4, <1>5 DEF DataInv, Clean
  <2>0. v \in Clean /\ v \in Uploads /\ flaws'[v] = {}
    BY <1>5 DEF Clean
  <2>1. upload[v].step = "created" \/ upload[v].posted => files[Named(v)] = Content(v)
    BY <1>0, <2>0 DEF DataInv
  <2>2. CASE LastChunk(u) /\ v = u
    <3>1. /\ files' = [files EXCEPT ![uploadName] = buffer]
          /\ upload[u].step = "sending" /\ upload[u].sent = upload[u].parts
      <4>1. /\ \/ files' = [files EXCEPT ![uploadName] = buffer] /\ UNCHANGED flaws
               \/ UNCHANGED files /\ flaws' = [flaws EXCEPT ![u] = @ \cup {"write"}]
            /\ upload[u].step = "sending" /\ upload[u].sent = upload[u].parts
        BY <2>2, Zenon DEF LastChunk
      <4>2. flaws' # [flaws EXCEPT ![u] = @ \cup {"write"}]
        <5>1. flaws \in [Uploads -> SUBSET Flaws]
          BY <1>0 DEF TypeOK, Flaws
        <5> QED BY <2>0, <2>2, <5>1
      <4> QED BY <4>1, <4>2
    <3>2. uploadName = Named(u) /\ buffer = Content(u)
      BY <1>7, <2>0, <2>2, <3>1 DEF Content
    <3>3. Named(u) \in Names
      BY <1>1, NamedFacts
    <3> QED BY <1>0, <2>2, <3>1, <3>2, <3>3 DEF TypeOK
  <2>3. CASE LastChunk(u) /\ v # u
    <3>1. /\ files' = [files EXCEPT ![uploadName] = buffer] \/ files' = files
          /\ upload[u].step = "sending"
      BY <2>3 DEF LastChunk
    <3>2. uploadName # Named(v) /\ files[Named(v)] = Content(v)
      BY <1>2, <1>8, <2>0, <2>1, <2>3, <3>1
    <3>3. Named(v) \in Names
      BY <1>0, <2>0, NamedFacts, UploadTypes DEF Clean
    <3> QED BY <1>0, <3>1, <3>2, <3>3 DEF TypeOK
  <2>4. CASE ~LastChunk(u)
    <3>1. files' = files /\ upload'[u].step # "created"
      <4>1. Put(u) \/ NotInProgress(u) \/ Chunk(u) \/ GiveUp(u)
        BY <2>4 DEF HttpStep
      <4>2. upload \in [Uploads -> UploadRecords]
        BY <1>0, Zenon DEF TypeOK, UploadRecords
      <4>3. files' = files
        BY <4>1 DEF Put, NotInProgress, Chunk, GiveUp, store
      <4>4. CASE Chunk(u)
        <5>1. upload[u] \in UploadRecords /\ upload[u].step = "sending"
          BY <1>0, <4>4, UploadTypes DEF Chunk
        <5>2. upload'[u] = [upload[u] EXCEPT !.sent = @ + 1]
          BY <4>2, <4>4 DEF Chunk
        <5> QED BY <4>3, <5>1, <5>2 DEF UploadRecords
      <4>5. CASE ~Chunk(u)
        <5>1. \E s \in {"sending", "failed"} : upload'[u] = [upload[u] EXCEPT !.step = s]
          BY <4>1, <4>2, <4>5 DEF Put, NotInProgress, GiveUp
        <5>2. upload[u] \in UploadRecords
          BY <1>0, UploadTypes
        <5> QED BY <4>3, <5>1, <5>2 DEF UploadRecords
      <4> QED BY <4>4, <4>5
    <3> QED BY <1>2, <1>3, <2>0, <2>1, <3>1
  <2> QED BY <2>2, <2>3, <2>4
<1>16. ServerInv'
  <2>0. upload[u] \in UploadRecords /\ upload \in [Uploads -> UploadRecords]
    BY <1>0, UploadTypes, Zenon DEF TypeOK, UploadRecords
  <2>1. uploadName' # None => \E x \in Uploads : Id(x)' # None /\ uploadName' = Named(x)'
    <3>1. CASE Put(u)
      <4>1. uploadName' = Named(u)
        BY <3>1 DEF Put, Named, Id
      <4> QED BY <1>1, <1>4, <4>1, NoneAssumption DEF NoneAssumption
    <3>2. CASE ~Put(u)
      <4>1. uploadName' = uploadName
        BY <3>2 DEF HttpStep, NotInProgress, Chunk, LastChunk, GiveUp, server
      <4>2. uploadName # None => \E x \in Uploads : Id(x) # None /\ uploadName = Named(x)
        BY <1>0 DEF ServerInv
      <4> QED BY <1>4, <4>1, <4>2
    <3> QED BY <3>1, <3>2
  <2>2. ASSUME NEW v \in Clean'
        PROVE  /\ uploadName' = Named(v) => Sending' \subseteq {v} /\ upload'[v].step # "url"
               /\ upload'[v].step = "sending" =>
                    /\ inProgress' /\ uploadName' = Named(v)
                    /\ upload'[v].sent \in 0..upload[v].parts
                    /\ buffer' = [k \in 1..upload'[v].sent |-> <<v, k>>]
    <3>0. v \in Clean /\ v \in Uploads /\ flaws'[v] = {}
      BY <1>5 DEF Clean
    <3>00. /\ uploadName = Named(v) => Sending \subseteq {v} /\ upload[v].step # "url"
           /\ upload[v].step = "sending" =>
                /\ inProgress /\ uploadName = Named(v)
                /\ upload[v].sent \in 0..upload[v].parts
                /\ buffer = [k \in 1..upload[v].sent |-> <<v, k>>]
      BY <1>7, <3>0, Zenon
    <3>01. v # u => upload'[v] = upload[v]
      BY <1>2, <3>0
    <3>1. CASE Put(u)
      <4>1. /\ upload[u].step = "url" /\ upload'[u] = [upload[u] EXCEPT !.step = "sending"]
            /\ uploadName' = Named(u) /\ buffer' = <<>> /\ inProgress'
            /\ flaws' = [x \in Uploads |-> IF x \in Sending \/ (x = u /\ Sending # {})
                                           THEN flaws[x] \cup {"overlap"} ELSE flaws[x]]
        BY <2>0, <3>1 DEF Put, Named, Id, BufferAfterPut
      <4>2. v \notin Sending /\ (v = u => Sending = {})
        BY <3>0, <4>1
      <4>3. upload'[u].step = "sending" /\ upload'[u].sent = 0
        BY <1>0, <2>0, <4>1 DEF UploadRecords, BeginningInv
      <4>4. CASE v = u
        <5>1. Sending' \subseteq {u}
          BY <1>2, <4>2, <4>4 DEF Sending
        <5>2. buffer' = [k \in 1..0 |-> <<v, k>>]
          BY <4>1
        <5>3. upload[v].parts \in Nat
          BY <1>0, <3>0, UploadTypes
        <5>4. upload'[v].sent \in 0..upload[v].parts
          BY <4>3, <4>4, <5>3
        <5>5. buffer' = [k \in 1..upload'[v].sent |-> <<v, k>>]
          BY <4>3, <4>4, <5>2, Zenon
        <5> QED BY <4>1, <4>3, <4>4, <5>1, <5>4, <5>5, Zenon
      <4>5. CASE v # u
        <5>1. Named(u) # Named(v)
          BY <3>0, <4>5, CleanFacts
        <5> QED BY <3>0, <3>01, <4>1, <4>2, <4>5, <5>1 DEF Sending
      <4> QED BY <4>4, <4>5
    <3>2. CASE NotInProgress(u)
      <4>1. /\ v # u /\ uploadName # Named(v) /\ upload[v].step # "sending"
            /\ uploadName' = uploadName
        BY <1>8, <3>0, <3>00, <3>2 DEF NotInProgress, server
      <4> QED BY <3>01, <4>1
    <3>3. CASE Chunk(u)
      <4>1. /\ upload[u].step = "sending" /\ upload[u].sent < upload[u].parts
            /\ upload'[u] = [upload[u] EXCEPT !.sent = upload[u].sent + 1]
            /\ buffer' = Append(buffer, <<u, upload[u].sent + 1>>)
            /\ uploadName' = uploadName /\ inProgress' = inProgress
        BY <2>0, <3>3 DEF Chunk
      <4>2. upload'[u].step = "sending" /\ upload'[u].sent = upload[u].sent + 1
        BY <2>0, <4>1 DEF UploadRecords
      <4>3. CASE v = u
        <5>1. Sending' \subseteq {u}
          BY <1>2, <3>00, <4>1, <4>3 DEF Sending
        <5>2. upload[u].sent \in Nat /\ upload[u].parts \in Nat
          BY <1>0, UploadTypes
        <5>3. buffer' = [k \in 1..(upload[u].sent + 1) |-> <<u, k>>]
          <6> DEFINE n == upload[u].sent
          <6>1. n \in Nat /\ buffer = [k \in 1..n |-> <<u, k>>] /\ buffer' = Append(buffer, <<u, n + 1>>)
            BY <3>00, <4>1, <4>3, <5>2
          <6> HIDE DEF n
          <6>2. \A k \in 1..n : <<u, k>> \in Uploads \X Nat
            OBVIOUS
          <6>3. buffer \in Seq(Uploads \X Nat) /\ Len(buffer) = n
            BY <6>1, <6>2
          <6>4. <<u, n + 1>> \in Uploads \X Nat
            BY <6>1
          <6>5. /\ buffer' \in Seq(Uploads \X Nat) /\ Len(buffer') = n + 1
                /\ \A k \in 1..n : buffer'[k] = buffer[k]
                /\ buffer'[n + 1] = <<u, n + 1>>
            BY <6>1, <6>3, <6>4, AppendProperties
          <6>6. DOMAIN buffer' = 1..(n + 1) /\ buffer' = [k \in DOMAIN buffer' |-> buffer'[k]]
            BY <6>1, <6>5
          <6>7. ASSUME NEW k \in 1..(n + 1) PROVE buffer'[k] = <<u, k>>
            <7>1. CASE k = n + 1
              BY <6>5, <7>1
            <7>2. CASE k # n + 1
              <8>1. k \in 1..n
                BY <6>1, <7>2
              <8> QED BY <6>1, <6>5, <8>1
            <7> QED BY <7>1, <7>2
          <6>8. buffer' = [k \in 1..(n + 1) |-> <<u, k>>]
            BY <6>6, <6>7
          <6> QED BY <6>8 DEF n
        <5>4. upload'[v].sent \in 0..upload[v].parts
          <6>1. \A i, n \in Nat : i < n => i + 1 \in 0..n
            OBVIOUS
          <6> QED BY <4>1, <4>2, <4>3, <5>2, <6>1, Zenon
        <5>5. buffer' = [k \in 1..upload'[v].sent |-> <<v, k>>]
          BY <4>2, <4>3, <5>3, Zenon
        <5>6. uploadName' = Named(v) /\ inProgress'
          BY <3>00, <4>1, <4>3
        <5>7. upload'[v].step = "sending"
          BY <4>2, <4>3
        <5> QED BY <4>3, <5>1, <5>4, <5>5, <5>6, <5>7
      <4>4. CASE v # u
        <5>1. uploadName # Named(v) /\ upload[v].step # "sending"
          BY <1>8, <3>0, <4>1, <4>4
        <5> QED BY <3>01, <4>1, <4>4, <5>1
      <4> QED BY <4>3, <4>4
    <3>4. CASE LastChunk(u)
      <4>1. /\ upload[u].step = "sending" /\ uploadName' = uploadName
            /\ upload'[u] = [upload[u] EXCEPT !.step = "created"]
        BY <2>0, <3>4 DEF LastChunk
      <4>2. upload'[u].step = "created"
        BY <2>0, <4>1 DEF UploadRecords
      <4>3. CASE v = u
        BY <1>2, <3>00, <4>1, <4>2, <4>3 DEF Sending
      <4>4. CASE v # u
        <5>1. uploadName # Named(v) /\ upload[v].step # "sending"
          BY <1>8, <3>0, <4>1, <4>4
        <5> QED BY <3>01, <4>1, <4>4, <5>1
      <4> QED BY <4>3, <4>4
    <3>5. CASE GiveUp(u)
      <4>1. /\ UNCHANGED <<uploadName, buffer, inProgress>>
            /\ upload'[u] = [upload[u] EXCEPT !.step = "failed"]
        BY <2>0, <3>5 DEF GiveUp, server
      <4>2. upload'[u].step = "failed"
        BY <2>0, <4>1 DEF UploadRecords
      <4>3. Sending' \subseteq Sending
        BY <1>2, <4>2 DEF Sending
      <4>4. CASE v = u
        BY <3>00, <4>1, <4>2, <4>3, <4>4
      <4>5. CASE v # u
        BY <3>00, <3>01, <4>1, <4>3, <4>5
      <4> QED BY <4>4, <4>5
    <3> QED BY <3>1, <3>2, <3>3, <3>4, <3>5 DEF HttpStep
  <2>3. \A v \in Clean' : Named(v)' = Named(v) /\ upload'[v].parts = upload[v].parts
    BY <1>3, <1>4 DEF Clean
  <2> QED BY <2>1, <2>2, <2>3 DEF ServerInv
<1> QED BY <1>9, <1>10, <1>11, <1>12, <1>13, <1>14, <1>15, <1>16 DEF PoolInv

(* The viewer is offered only what stays as it is. *)
LEMMA ViewerStepKeeps ==
    ASSUME PoolInv, ViewerStep
    PROVE  PoolInv'
<1>0. /\ TypeOK /\ BeginningInv /\ AloneInv /\ MetaInv /\ DataInv /\ ServerInv /\ IndexInv
      /\ ViewerInv
  BY DEF PoolInv
<1>1. UNCHANGED <<clock, directory, meta, files, uploadName, buffer, inProgress, upload, flaws>>
  BY DEF ViewerStep, searchByTagsBase, getPooledMetaDataByID, _preDownload, Get, LookAgain,
         store, server
<1>2. /\ BeginningInv' = BeginningInv /\ AloneInv' = AloneInv /\ MetaInv' = MetaInv
      /\ DataInv' = DataInv /\ ServerInv' = ServerInv /\ IndexInv' = IndexInv
  BY <1>1 DEF BeginningInv, AloneInv, MetaInv, DataInv, ServerInv, IndexInv, Clean, Id, Named,
              MetaOf, Meta, Content, Sending, Holders
<1>3. /\ Clean' = Clean /\ \A id : Offered(id)' = Offered(id) /\ Holders(id)' = Holders(id)
      /\ \A u : Id(u)' = Id(u) /\ Named(u)' = Named(u) /\ Content(u)' = Content(u)
  BY <1>1 DEF Clean, Offered, ReadableAs, Readable, Valid, Holders, Id, Named, Content
<1> DEFINE Viewers == [step : {"idle", "unanswered", "listed", "shown", "offered", "refused",
                               "200", "404"},
                       ids : SUBSET Ids, id : Ids \cup {None}, offer : Metadata \cup {None},
                       content : Seq(Chunks) \cup {None}]
<1>4. viewer \in Viewers
  BY <1>0, Zenon DEF TypeOK
<1>5. viewer' \in Viewers /\ ViewerInv'
  <2>1. CASE searchByTagsBase
    <3>1. \E ids \in SUBSET Ids :
            viewer' \in {[viewer EXCEPT !.step = "listed", !.ids = ids],
                         [viewer EXCEPT !.step = "unanswered"]}
      BY <2>1 DEF searchByTagsBase
    <3>2. viewer' \in Viewers /\ viewer'.step \in {"listed", "unanswered"}
      BY <1>4, <3>1
    <3> QED BY <3>2 DEF ViewerInv
  <2>2. CASE getPooledMetaDataByID
    <3>1. viewer' = [viewer EXCEPT !.step = "shown", !.ids = {id \in viewer.ids : Offered(id)}]
      BY <2>2 DEF getPooledMetaDataByID
    <3> DEFINE ids == {id \in viewer.ids : Offered(id)}
    <3>2. ids \in SUBSET Ids /\ \A id \in ids : Offered(id)
      BY <1>4
    <3> HIDE DEF ids
    <3>3. viewer' \in Viewers /\ viewer'.step = "shown" /\ viewer'.ids = ids
      BY <1>4, <3>1, <3>2 DEF ids
    <3> QED BY <1>3, <3>2, <3>3 DEF ViewerInv
  <2>3. ASSUME NEW id \in Ids, _preDownload(id)
        PROVE  viewer' \in Viewers /\ ViewerInv'
    <3>1. CASE Offered(id)
      <4>1. /\ meta[id] \in Metadata /\ meta[id].state = "DESCRIBED" /\ meta[id].ddl # None
            /\ files[meta[id].name] # None
        BY <1>0, <3>1 DEF Offered, ReadableAs, Readable, Valid, TypeOK
      <4> DEFINE m == meta[id]
                 u == m.ddl
      <4>2. m \in Metadata /\ u \in Uploads /\ Id(u) = id
        BY <1>0, <4>1, NoneAssumption DEF IndexInv, Holders, NoneAssumption, Id
      <4>3. u \in Clean => upload[u].posted /\ m.name = Named(u) /\ m.size = upload[u].parts
        <5> SUFFICES ASSUME u \in Clean PROVE <4>3!2
          OBVIOUS
        <5>1. meta[id] = MetaOf(u)
          BY <4>2, CleanFacts
        <5> QED BY <4>1, <5>1 DEF MetaOf, Meta
      <4>4. viewer' = [viewer EXCEPT !.step = "offered", !.id = id, !.offer = m]
        BY <2>3, <3>1 DEF _preDownload
      <4>5. Id(u) # None
        BY <4>2, NoneAssumption DEF NoneAssumption
      <4>6. m \in Metadata /\ u = m.ddl /\ u \in Uploads /\ files[m.name] # None
        BY <4>1, <4>2
      <4> HIDE DEF m, u
      <4>7. viewer' \in Viewers /\ viewer'.step = "offered" /\ viewer'.offer = m
        BY <1>4, <4>4, <4>6
      <4> QED BY <1>1, <1>3, <4>3, <4>5, <4>6, <4>7 DEF ViewerInv
    <3>2. CASE ~Offered(id)
      <4>1. viewer' = [viewer EXCEPT !.step = "refused", !.id = id]
        BY <2>3, <3>2 DEF _preDownload
      <4>2. viewer' \in Viewers /\ viewer'.step = "refused" /\ viewer'.id = id
        BY <1>4, <4>1
      <4>3. \E u \in Holders(id) : flaws[u] # {}
        BY <1>0, <2>3, <3>2 DEF _preDownload, ViewerInv
      <4> QED BY <1>1, <1>3, <4>2, <4>3 DEF ViewerInv
    <3> QED BY <3>1, <3>2
  <2>4. CASE Get
    <3> PICK m : m = viewer.offer
      OBVIOUS
    <3>1. /\ viewer.step = "offered" /\ m \in Metadata /\ m.ddl \in Uploads /\ Id(m.ddl) # None
          /\ files[m.name] # None
          /\ m.ddl \in Clean => /\ upload[m.ddl].posted
                                /\ m.name = Named(m.ddl) /\ m.size = upload[m.ddl].parts
      BY <1>0, <2>4 DEF Get, ViewerInv
    <3>2. files[m.name] \in Seq(Chunks)
      BY <1>0, <3>1 DEF TypeOK, Metadata
    <3>3. viewer' = [viewer EXCEPT !.step = "200", !.content = files[m.name]]
      BY <2>4, <3>1 DEF Get
    <3>4. /\ viewer' \in Viewers /\ viewer'.step = "200" /\ viewer'.offer = m
          /\ viewer'.content = files[m.name]
      BY <1>4, <3>2, <3>3
    <3>5. m.ddl \in Clean => files[m.name] = Content(m.ddl)
      BY <3>1, CleanFacts
    <3> QED BY <1>1, <1>3, <3>1, <3>4, <3>5 DEF ViewerInv
  <2>5. CASE LookAgain
    <3>1. viewer' = NoViewer
      BY <2>5 DEF LookAgain
    <3> QED BY <3>1 DEF NoViewer, ViewerInv
  <2> QED BY <2>1, <2>2, <2>3, <2>4, <2>5, Zenon DEF ViewerStep
<1>6. TypeOK'
  BY <1>0, <1>1, <1>5, Zenon DEF TypeOK
<1> QED BY <1>0, <1>2, <1>5, <1>6 DEF PoolInv

(* In the beginning there is nothing. *)
LEMMA PoolInit == Init => PoolInv
<1> SUFFICES ASSUME Init PROVE PoolInv
  OBVIOUS
<1>1. NewUpload \in UploadRecords
  BY DEF NewUpload, UploadRecords
<1>2. \A u \in Uploads : upload[u] = NewUpload /\ Id(u) = None
  BY DEF Init, NewUpload, Id
<1>3. TypeOK
  <2>1. upload \in [Uploads -> UploadRecords]
    BY <1>1 DEF Init
  <2>2. clock \in Ids
    <3>1. clock = 1
      BY DEF Init
    <3>2. MaxClock \in Nat \ {0}
      BY StorageAssumption, Zenon DEF StorageAssumption
    <3> QED BY <3>1, <3>2 DEF Ids
  <2>3. viewer \in [step : {"idle", "unanswered", "listed", "shown", "offered", "refused",
                           "200", "404"},
                   ids : SUBSET Ids, id : Ids \cup {None}, offer : Metadata \cup {None},
                   content : Seq(Chunks) \cup {None}]
    BY DEF Init, NoViewer
  <2>4. /\ directory \in BOOLEAN
        /\ meta \in [Ids -> Metadata \cup {None}]
        /\ files \in [Names -> Seq(Chunks) \cup {None}]
        /\ uploadName \in Names \cup {None}
        /\ buffer \in Seq(Chunks)
        /\ inProgress \in BOOLEAN
        /\ flaws \in [Uploads -> SUBSET {"shared", "overlap", "write", "order"}]
    <3>1. /\ directory = FALSE /\ inProgress = FALSE /\ uploadName = None /\ buffer = <<>>
          /\ meta = [id \in Ids |-> None] /\ files = [n \in Names |-> None]
          /\ flaws = [u \in Uploads |-> {}]
      BY DEF Init
    <3>2. buffer \in Seq(Chunks)
      BY <3>1
    <3>3. meta \in [Ids -> Metadata \cup {None}] /\ files \in [Names -> Seq(Chunks) \cup {None}]
      BY <3>1
    <3>4. flaws \in [Uploads -> SUBSET {"shared", "overlap", "write", "order"}]
      BY <3>1
    <3> QED BY <3>1, <3>2, <3>3, <3>4
  <2> QED BY <2>1, <2>2, <2>3, <2>4, Zenon DEF TypeOK, UploadRecords
<1>4. Clean = {}
  BY <1>2 DEF Clean
<1>5. BeginningInv
  BY <1>2 DEF BeginningInv, NewUpload
<1>6. AloneInv /\ MetaInv /\ DataInv /\ ServerInv /\ IndexInv
  BY <1>4 DEF AloneInv, MetaInv, DataInv, ServerInv, IndexInv, Init
<1>7. ViewerInv
  BY DEF Init, NoViewer, ViewerInv
<1> QED BY <1>3, <1>5, <1>6, <1>7 DEF PoolInv

(* Whatever the uploads and the viewer do, in any order: the argument      *)
(* above, as one inductive invariant.                                      *)
THEOREM PoolInvariance == Spec => []PoolInv
<1>1. Init => PoolInv
  BY PoolInit
<1>2. PoolInv /\ [Next]_vars => PoolInv'
  <2> SUFFICES ASSUME PoolInv, [Next]_vars PROVE PoolInv'
    OBVIOUS
  <2>1. ASSUME NEW u \in Uploads, UploadStep(u) PROVE PoolInv'
    <3>1. _preUpload(u) \/ _postUploadFile(u) \/ _preUploadSummary(u) \/ HttpStep(u)
      BY <2>1, Zenon DEF UploadStep, HttpStep
    <3> QED BY <3>1, PreUploadStep, PostUploadStep, SummaryStep, HttpStepKeeps, Zenon
  <2>2. CASE ViewerStep
    BY <2>2, ViewerStepKeeps, Zenon
  <2>3. CASE Tick \/ UNCHANGED vars
    <3>0. /\ TypeOK /\ BeginningInv /\ AloneInv /\ MetaInv /\ DataInv /\ ServerInv /\ IndexInv
          /\ ViewerInv
      BY DEF PoolInv
    <3>1. UNCHANGED <<directory, meta, files, uploadName, buffer, inProgress, upload, viewer, flaws>>
      BY <2>3 DEF Tick, vars, store, server
    <3>2. clock' \in Ids
      <4>1. clock \in Ids
        BY <3>0 DEF TypeOK
      <4>2. clock' = clock \/ (clock < MaxClock /\ clock' = clock + 1)
        BY <2>3 DEF Tick, vars
      <4>3. MaxClock \in Nat \ {0}
        BY StorageAssumption, Zenon DEF StorageAssumption
      <4> QED BY <4>1, <4>2, <4>3 DEF Ids
    <3>3. TypeOK'
      BY <3>0, <3>1, <3>2, Zenon DEF TypeOK
    <3>4. /\ BeginningInv' = BeginningInv /\ AloneInv' = AloneInv /\ MetaInv' = MetaInv
          /\ DataInv' = DataInv /\ ServerInv' = ServerInv /\ IndexInv' = IndexInv
          /\ ViewerInv' = ViewerInv
      BY <3>1 DEF BeginningInv, AloneInv, MetaInv, DataInv, ServerInv, IndexInv, Clean, Id, Named,
                  MetaOf, Meta, Content, Sending, Holders, ViewerInv, Offered, ReadableAs, Readable,
                  Valid
    <3> QED BY <3>0, <3>3, <3>4 DEF PoolInv
  <2> QED BY <2>1, <2>2, <2>3, Zenon DEF Next
<1> QED BY <1>1, <1>2, PTL DEF Spec

(* Every variable keeps its type (PooledStorage). *)
THEOREM PoolTypes == Spec => []TypeOK
<1>1. PoolInv => TypeOK
  BY DEF PoolInv
<1> QED BY <1>1, PoolInvariance, PTL

(* A download gives the chunks of the upload whose description was shown,  *)
(* however many uploads there are and however their packets, tasks and the *)
(* viewer's reads are interleaved (fileshare_server::handle, _preDownload).*)
THEOREM DownloadsAreUploads == Spec => []DownloadIsUpload
<1>1. PoolInv => DownloadIsUpload
  BY DEF PoolInv, ViewerInv, DownloadIsUpload, Clean
<1> QED BY <1>1, PoolInvariance, PTL

(* What was uploaded without a flaw is offered as it was uploaded          *)
(* (_postUploadFile, _preUploadSummary, ReadMetaDataJson).                 *)
THEOREM UploadsAreOffered == Spec => []UploadIsOffered
<1>1. PoolInv => UploadIsOffered
  <2> SUFFICES ASSUME PoolInv, NEW u \in Uploads,
                      upload[u].posted, upload[u].described # "no", flaws[u] = {}
               PROVE  LET id == Id(u)
                      IN IF upload[u].parts > 0 /\ upload[u].described = "text"
                         THEN /\ Offered(id)
                              /\ meta[id].ddl = u
                              /\ meta[id].size = upload[u].parts
                         ELSE ~Offered(id)
    BY DEF UploadIsOffered, Id
  <2>0. TypeOK /\ BeginningInv
    BY DEF PoolInv
  <2>1. u \in Clean
    BY <2>0 DEF BeginningInv, Clean
  <2>2. meta[Id(u)] = MetaOf(u) /\ meta[Id(u)] # None /\ files[Named(u)] = Content(u)
    BY <2>1, CleanFacts
  <2>3. Content(u) # None /\ upload[u].parts \in Nat
    BY <2>0, UploadTypes, ContentFacts DEF Content
  <2>4. CASE upload[u].parts = 0
    <3>1. meta[Id(u)] = Meta(u, "UPLOADED", upload[u].parts, None)
      BY <2>2, <2>4 DEF MetaOf
    <3> QED BY <2>4, <3>1 DEF Offered, ReadableAs, Meta
  <2>5. CASE upload[u].parts > 0
    <3>1. meta[Id(u)] = Meta(u, "DESCRIBED", upload[u].parts,
                             IF upload[u].described = "text" THEN u ELSE None)
      BY <2>2, <2>5 DEF MetaOf
    <3>2. u # None
      BY StorageAssumption DEF StorageAssumption
    <3>3. CASE upload[u].described = "text"
      <4>1. /\ meta[Id(u)].state = "DESCRIBED" /\ meta[Id(u)].name = Named(u)
            /\ meta[Id(u)].ddl = u /\ meta[Id(u)].size = upload[u].parts
        BY <3>1, <3>3 DEF Meta
      <4> QED BY <2>2, <2>3, <2>5, <3>2, <3>3, <4>1 DEF Offered, ReadableAs, Readable, Valid
    <3>4. CASE upload[u].described # "text"
      <4>1. meta[Id(u)].state = "DESCRIBED" /\ meta[Id(u)].ddl = None
        BY <3>1, <3>4 DEF Meta
      <4> QED BY <3>4, <4>1 DEF Offered, ReadableAs, Readable, Valid
    <3> QED BY <3>3, <3>4
  <2> QED BY <2>3, <2>4, <2>5
<1> QED BY <1>1, PoolInvariance, PTL

------------------------------------------------------------------------------
(***************************************************************************)
(* NameResolution: each block of memory goes back to whom it came from.    *)
(*                                                                         *)
(* The argument: no block is in two answers, or in an answer and in the    *)
(* hands of a thread that is making or freeing one, so that the first      *)
(* block tells whose an answer is, also while other threads are between    *)
(* their calls; and what a thread has found it frees where it found it.    *)
(***************************************************************************)

Addresses == {Hash[n] : n \in HostNames}

AnswerOf ==
    [ai : Blocks \cup {None}, addr : Blocks \cup {None}, address : Addresses, name : HostNames,
     own : BOOLEAN]

\* The answers that the game holds are whole; those of the stubs have two blocks.
WholeAnswer(a) == a.ai # None /\ a.addr # None /\ (a.own <=> a.ai # a.addr)

\* What a thread has in hand in each step of its calls.
InStep(c) ==
    \/ c.step = "address" /\ c.answer.own /\ c.answer.ai = None /\ c.answer.addr # None
    \/ c.step = "found" /\ c.answer.own /\ WholeAnswer(c.answer)
    \/ c.step = "missing" /\ ~c.answer.own /\ WholeAnswer(c.answer)
    \/ c.step = "rest" /\ c.answer.own /\ c.answer.ai # None /\ c.answer.addr = None

CallsInv ==
    /\ answers \subseteq AnswerOf /\ \A a \in answers : WholeAnswer(a)
    /\ call = [t \in Threads |-> call[t]]
    /\ \A t \in Threads : call[t] = Hosts!Idle \/ (call[t].answer \in AnswerOf /\ InStep(call[t]))

BlockOf(b, x) == b # None /\ (b = x.ai \/ b = x.addr)
BlockIn(b, t) == call[t] # Hosts!Idle /\ BlockOf(b, call[t].answer)

\* Block by block: where it is, and that it is nowhere else.
OfAnswers(b, own) == \E a \in answers : a.own = own /\ BlockOf(b, a)
OfCalls(b, own) == \E t \in Threads : call[t] # Hosts!Idle /\ call[t].answer.own = own /\ BlockIn(b, t)

PlacesInv ==
    /\ \A b : b \in pool_ <=> OfAnswers(b, TRUE) \/ OfCalls(b, TRUE)
    /\ \A b : b \in system <=> OfAnswers(b, FALSE) \/ OfCalls(b, FALSE)
    /\ \A b : \A a1, a2 \in answers : BlockOf(b, a1) /\ BlockOf(b, a2) => a1 = a2
    /\ \A b : \A a \in answers : \A t \in Threads : ~(BlockOf(b, a) /\ BlockIn(b, t))
    /\ \A b : \A t, u \in Threads : BlockIn(b, t) /\ BlockIn(b, u) => t = u

BlocksInv == CallsInv /\ PlacesInv

LEMMA BlocksInit == Hosts!NameInit => BlocksInv
<1> SUFFICES ASSUME Hosts!NameInit PROVE BlocksInv
  OBVIOUS
<1>1. /\ pool_ = {} /\ system = {} /\ answers = {} /\ call = [t \in Threads |-> Hosts!Idle]
  BY DEF Hosts!NameInit
<1> QED BY <1>1 DEF BlocksInv, CallsInv, PlacesInv, OfAnswers, OfCalls, BlockIn

(* The blocks of the property, one by one. *)
LEMMA BlocksMean == ASSUME BlocksInv PROVE Hosts!BlocksReturn
<1> DEFINE Kept(own) == UNION ({Hosts!Of(a) : a \in {b \in answers : b.own = own}}
                               \cup {Hosts!In(t) : t \in {u \in Threads : call[u] # Hosts!Idle
                                                                     /\ call[u].answer.own = own}})
<1>1. \A b, x : b \in Hosts!Of(x) <=> BlockOf(b, x)
  BY DEF Hosts!Of, BlockOf
<1>2. \A b : \A t \in Threads : b \in Hosts!In(t) <=> BlockIn(b, t)
  BY <1>1 DEF Hosts!In, BlockIn
<1>3. ASSUME NEW b, NEW own PROVE b \in Kept(own) <=> OfAnswers(b, own) \/ OfCalls(b, own)
  BY <1>1, <1>2 DEF OfAnswers, OfCalls
<1> HIDE DEF Kept
<1>4. pool_ = Kept(TRUE)
  <2>1. \A b : b \in pool_ <=> b \in Kept(TRUE)
    BY <1>3 DEF BlocksInv, PlacesInv
  <2> QED BY <2>1
<1>5. system = Kept(FALSE)
  <2>1. \A b : b \in system <=> b \in Kept(FALSE)
    BY <1>3 DEF BlocksInv, PlacesInv
  <2> QED BY <2>1
<1>6. /\ \A a \in answers : a.own <=> a.ai # a.addr
      /\ \A a, b \in answers : a # b => Hosts!Of(a) \cap Hosts!Of(b) = {}
      /\ \A a \in answers, t \in Threads : Hosts!Of(a) \cap Hosts!In(t) = {}
      /\ \A t, u \in Threads : t # u => Hosts!In(t) \cap Hosts!In(u) = {}
  BY <1>1, <1>2 DEF BlocksInv, PlacesInv, CallsInv, WholeAnswer
<1> QED BY <1>4, <1>5, <1>6 DEF Hosts!BlocksReturn, Kept

(* What is free is in no answer and in nobody's hands. *)
LEMMA FreeIsNowhere ==
    ASSUME BlocksInv, None \notin Blocks, NEW b \in Hosts!Free
    PROVE  /\ b \in Blocks /\ b # None
           /\ \A a \in answers : ~BlockOf(b, a)
           /\ \A t \in Threads : ~BlockIn(b, t)
<1>1. b \in Blocks /\ b \notin pool_ /\ b \notin system
  BY DEF Hosts!Free
<1>2. ASSUME NEW a \in answers PROVE ~BlockOf(b, a)
  BY <1>1 DEF BlocksInv, PlacesInv, CallsInv, OfAnswers, AnswerOf
<1>3. ASSUME NEW t \in Threads PROVE ~BlockIn(b, t)
  BY <1>1 DEF BlocksInv, PlacesInv, CallsInv, OfCalls, BlockIn, AnswerOf
<1> QED BY <1>1, <1>2, <1>3

(* The first block tells whose an answer is. *)
LEMMA FindsOwn ==
    ASSUME BlocksInv, NEW a \in answers
    PROVE  Hosts!IsOwn(a.ai) <=> a.own
<1>1. BlockOf(a.ai, a)
  BY DEF BlocksInv, CallsInv, WholeAnswer, BlockOf
<1>2. CASE a.own
  <2>1. OfAnswers(a.ai, TRUE)
    BY <1>1, <1>2 DEF OfAnswers, BlocksInv, CallsInv, AnswerOf
  <2> QED BY <1>2, <2>1 DEF BlocksInv, PlacesInv, Hosts!IsOwn
<1>3. CASE ~a.own
  <2>1. ~OfAnswers(a.ai, TRUE)
    BY <1>1, <1>3 DEF OfAnswers, BlocksInv, PlacesInv
  <2>2. ~OfCalls(a.ai, TRUE)
    BY <1>1 DEF OfCalls, BlocksInv, PlacesInv
  <2> QED BY <1>3, <2>1, <2>2 DEF BlocksInv, PlacesInv, Hosts!IsOwn
<1> QED BY <1>2, <1>3

\* A step of one thread, after which it has an answer in hand, or is idle.
Hand(t, c) == call' = [call EXCEPT ![t] = c]
InHand(c) == c = Hosts!Idle \/ (c.answer \in AnswerOf /\ InStep(c))
HandOf(b, c) == c # Hosts!Idle /\ BlockOf(b, c.answer)
HandOwn(b, c, own) == HandOf(b, c) /\ c.answer.own = own

\* The blocks that the other threads have in hand.
Others(b, t, own) ==
    \E u \in Threads \ {t} : call[u] # Hosts!Idle /\ call[u].answer.own = own /\ BlockIn(b, u)

(* What is in hand before and after a step of a thread. *)
LEMMA HandFacts ==
    ASSUME BlocksInv, NEW t \in Threads, NEW c, InHand(c), Hand(t, c)
    PROVE  /\ call' = [u \in Threads |-> call'[u]]
           /\ \A u \in Threads : call'[u] = Hosts!Idle \/ (call'[u].answer \in AnswerOf /\ InStep(call'[u]))
           /\ \A b : \A u \in Threads : BlockIn(b, u)' <=> IF u = t THEN HandOf(b, c) ELSE BlockIn(b, u)
           /\ \A b, own : OfCalls(b, own)' <=> HandOwn(b, c, own) \/ Others(b, t, own)
           /\ \A b, own : OfCalls(b, own) <=> HandOwn(b, call[t], own) \/ Others(b, t, own)
           /\ \A b : BlockIn(b, t) <=> HandOf(b, call[t])
<1>1. call' = [u \in Threads |-> call'[u]] /\ call'[t] = c /\ \A u \in Threads \ {t} : call'[u] = call[u]
  BY DEF Hand, BlocksInv, CallsInv
<1>2. \A u \in Threads : call'[u] = Hosts!Idle \/ (call'[u].answer \in AnswerOf /\ InStep(call'[u]))
  BY <1>1 DEF InHand, BlocksInv, CallsInv
<1>3. \A b : \A u \in Threads : BlockIn(b, u)' <=> IF u = t THEN HandOf(b, c) ELSE BlockIn(b, u)
  BY <1>1 DEF BlockIn, HandOf, Hosts!Idle
<1>4. \A b, own : OfCalls(b, own)' <=> HandOwn(b, c, own) \/ Others(b, t, own)
  BY <1>1, <1>3 DEF OfCalls, HandOwn, HandOf, Others, Hosts!Idle
<1>5. \A b, own : OfCalls(b, own) <=> HandOwn(b, call[t], own) \/ Others(b, t, own)
  BY DEF OfCalls, HandOwn, HandOf, Others, BlockIn
<1>6. \A b : BlockIn(b, t) <=> HandOf(b, call[t])
  BY DEF HandOf, BlockIn
<1> QED BY <1>1, <1>2, <1>3, <1>4, <1>5, <1>6

\* A step of t, after which it has c in hand: block by block, where each is.
Moved(t, c) ==
    /\ InHand(c) /\ Hand(t, c)
    /\ answers' \subseteq AnswerOf /\ \A a \in answers' : WholeAnswer(a)
    /\ \A b : b \in pool_' <=> OfAnswers(b, TRUE)' \/ HandOwn(b, c, TRUE) \/ Others(b, t, TRUE)
    /\ \A b : b \in system' <=> OfAnswers(b, FALSE)' \/ HandOwn(b, c, FALSE) \/ Others(b, t, FALSE)
    /\ \A b : \A a1, a2 \in answers' : BlockOf(b, a1) /\ BlockOf(b, a2) => a1 = a2
    /\ \A b : \A a \in answers' : ~(BlockOf(b, a) /\ HandOf(b, c))
    /\ \A b : \A a \in answers' : \A u \in Threads \ {t} : ~(BlockOf(b, a) /\ BlockIn(b, u))
    /\ \A b : \A u \in Threads \ {t} : ~(HandOf(b, c) /\ BlockIn(b, u))

(* The argument of every step: a thread's hand and the answers have the same *)
(* blocks as before, but for one that was free and one that is given back.   *)
LEMMA BlocksMove ==
    ASSUME BlocksInv, NEW t \in Threads, NEW c, Moved(t, c)
    PROVE  BlocksInv'
<1>1. /\ call' = [u \in Threads |-> call'[u]]
      /\ \A u \in Threads : call'[u] = Hosts!Idle \/ (call'[u].answer \in AnswerOf /\ InStep(call'[u]))
  BY HandFacts DEF Moved
<1>2. CallsInv'
  BY <1>1 DEF Moved, CallsInv, AnswerOf, Addresses, InStep, WholeAnswer, Hosts!Idle
<1>3. /\ \A b : \A u \in Threads : BlockIn(b, u)' <=> IF u = t THEN HandOf(b, c) ELSE BlockIn(b, u)
      /\ \A b, own : OfCalls(b, own)' <=> HandOwn(b, c, own) \/ Others(b, t, own)
  BY HandFacts DEF Moved
<1>4. /\ \A b : b \in pool_' <=> OfAnswers(b, TRUE)' \/ OfCalls(b, TRUE)'
      /\ \A b : b \in system' <=> OfAnswers(b, FALSE)' \/ OfCalls(b, FALSE)'
  BY <1>3 DEF Moved
<1>5. \A b : \A a \in answers' : \A u \in Threads : ~(BlockOf(b, a) /\ BlockIn(b, u)')
  BY <1>3 DEF Moved
<1>6. \A b : \A u, v \in Threads : BlockIn(b, u)' /\ BlockIn(b, v)' => u = v
  BY <1>3 DEF Moved, BlocksInv, PlacesInv
<1>7. PlacesInv'
  BY <1>4, <1>5, <1>6 DEF Moved, PlacesInv, BlockOf
<1> QED BY <1>2, <1>7 DEF BlocksInv

(* What the invariant says of the blocks that a thread has in hand. *)
LEMMA InHandFacts ==
    ASSUME BlocksInv, NEW t \in Threads
    PROVE  /\ InHand(call[t])
           /\ \A b : b \in pool_ <=> OfAnswers(b, TRUE) \/ HandOwn(b, call[t], TRUE) \/ Others(b, t, TRUE)
           /\ \A b : b \in system <=> OfAnswers(b, FALSE) \/ HandOwn(b, call[t], FALSE) \/ Others(b, t, FALSE)
           /\ \A b : \A a1, a2 \in answers : BlockOf(b, a1) /\ BlockOf(b, a2) => a1 = a2
           /\ \A b : \A a \in answers : ~(BlockOf(b, a) /\ HandOf(b, call[t]))
           /\ \A b : \A a \in answers : \A u \in Threads \ {t} : ~(BlockOf(b, a) /\ BlockIn(b, u))
           /\ \A b : \A u \in Threads \ {t} : ~(HandOf(b, call[t]) /\ BlockIn(b, u))
<1>1. /\ \A b, own : OfCalls(b, own) <=> HandOwn(b, call[t], own) \/ Others(b, t, own)
      /\ \A b : BlockIn(b, t) <=> HandOf(b, call[t])
  BY DEF OfCalls, HandOwn, HandOf, Others, BlockIn
<1> QED BY <1>1 DEF BlocksInv, PlacesInv, CallsInv, InHand

LEMMA HandsApart ==
    ASSUME BlocksInv, NEW t \in Threads
    PROVE  /\ \A b : \A u, v \in answers : BlockOf(b, u) /\ BlockOf(b, v) => u = v
           /\ \A b : \A a \in answers : ~(BlockOf(b, a) /\ HandOf(b, call[t]))
           /\ \A b : \A a \in answers : \A u \in Threads \ {t} : ~(BlockOf(b, a) /\ BlockIn(b, u))
           /\ \A b : \A u \in Threads \ {t} : ~(HandOf(b, call[t]) /\ BlockIn(b, u))
BY InHandFacts

(* Whose a block is, when it is known to be in one place. *)
LEMMA OwnerFacts ==
    ASSUME BlocksInv, NEW t \in Threads, NEW b
    PROVE  /\ HandOf(b, call[t]) => /\ \A own : ~OfAnswers(b, own) /\ ~Others(b, t, own)
           /\ \A a \in answers : BlockOf(b, a) =>
                /\ \A own : ~Others(b, t, own)
                /\ \A own : OfAnswers(b, own) <=> a.own = own
BY InHandFacts DEF OfAnswers, Others

(* getaddrinfo_stub takes a block of the allocator. *)
LEMMA AddressTaken ==
    ASSUME BlocksInv, None \notin Blocks, NEW t \in Threads, call[t] = Hosts!Idle, NEW b \in Hosts!Free,
           NEW c, c # Hosts!Idle, InHand(c), c.answer.own = TRUE,
           c.answer.ai = None, c.answer.addr = b,
           Hand(t, c), pool_' = pool_ \cup {b}, UNCHANGED <<system, answers>>
    PROVE  BlocksInv'
<1>1. /\ b \in Blocks /\ b # None
      /\ \A a \in answers : ~BlockOf(b, a)
      /\ \A u \in Threads : ~BlockIn(b, u)
  BY FreeIsNowhere
<1>2. \A x : HandOf(x, c) <=> x = b
  BY <1>1 DEF HandOf, BlockOf
<1>3. \A x : (HandOwn(x, c, TRUE) <=> x = b) /\ ~HandOwn(x, c, FALSE)
  BY <1>2 DEF HandOwn
<1>4. \A x, own : ~HandOwn(x, call[t], own) /\ ~HandOf(x, call[t])
  BY DEF HandOwn, HandOf
<1>5. \A x, own : OfAnswers(x, own)' <=> OfAnswers(x, own)
  BY DEF OfAnswers, BlockOf
<1>6. answers \subseteq AnswerOf /\ \A a \in answers : WholeAnswer(a)
  BY DEF BlocksInv, CallsInv
<1>7. \A x : x \in pool_' <=> OfAnswers(x, TRUE)' \/ HandOwn(x, c, TRUE) \/ Others(x, t, TRUE)
  BY <1>3, <1>4, <1>5, InHandFacts
<1>8. \A x : x \in system' <=> OfAnswers(x, FALSE)' \/ HandOwn(x, c, FALSE) \/ Others(x, t, FALSE)
  BY <1>3, <1>4, <1>5, InHandFacts
<1>9. /\ \A x : \A a1, a2 \in answers' : BlockOf(x, a1) /\ BlockOf(x, a2) => a1 = a2
      /\ \A x : \A a \in answers' : ~(BlockOf(x, a) /\ HandOf(x, c))
      /\ \A x : \A a \in answers' : \A u \in Threads \ {t} : ~(BlockOf(x, a) /\ BlockIn(x, u))
      /\ \A x : \A u \in Threads \ {t} : ~(HandOf(x, c) /\ BlockIn(x, u))
  <2>1. /\ \A x : \A u, v \in answers : BlockOf(x, u) /\ BlockOf(x, v) => u = v
        /\ \A x : \A a \in answers : \A u \in Threads \ {t} : ~(BlockOf(x, a) /\ BlockIn(x, u))
    BY HandsApart
  <2> QED BY <1>1, <1>2, <2>1
<1>20. Moved(t, c)
  BY <1>6, <1>7, <1>8, <1>9 DEF Moved
<1> QED BY <1>20, BlocksMove

(* What an answer that is added, or given back, changes of the answers. *)
LEMMA AnswersFacts ==
    ASSUME NEW a, a \in answers' \/ a \in answers,
           answers' = answers \cup {a} \/ (answers' = answers \ {a} /\ BlocksInv)
    PROVE  /\ answers' = answers \cup {a} =>
                \A b, own : OfAnswers(b, own)' <=> OfAnswers(b, own) \/ (a.own = own /\ BlockOf(b, a))
           /\ answers' = answers \ {a} /\ a \in answers =>
                \A b, own : OfAnswers(b, own)' <=> OfAnswers(b, own) /\ ~BlockOf(b, a)
<1>1. ASSUME answers' = answers \cup {a}
      PROVE  \A b, own : OfAnswers(b, own)' <=> OfAnswers(b, own) \/ (a.own = own /\ BlockOf(b, a))
  BY <1>1 DEF OfAnswers, BlockOf
<1>2. ASSUME answers' = answers \ {a}, a \in answers, BlocksInv
      PROVE  \A b, own : OfAnswers(b, own)' <=> OfAnswers(b, own) /\ ~BlockOf(b, a)
  <2>1. \A b : \A a1, a2 \in answers : BlockOf(b, a1) /\ BlockOf(b, a2) => a1 = a2
    BY <1>2 DEF BlocksInv, PlacesInv
  <2> QED BY <1>2, <2>1 DEF OfAnswers, BlockOf
<1>3. a \in answers => answers \cup {a} # answers \ {a}
  OBVIOUS
<1> QED BY <1>1, <1>2, <1>3

(* ... and a second one, with which the answer is whole. *)
LEMMA AnswerMade ==
    ASSUME BlocksInv, None \notin Blocks, NEW t \in Threads, call[t].step = "address",
           NEW ai \in Hosts!Free, NEW a, a = [call[t].answer EXCEPT !.ai = ai],
           Hand(t, Hosts!Idle), pool_' = pool_ \cup {ai}, answers' = answers \cup {a}, UNCHANGED system
    PROVE  BlocksInv'
<1> DEFINE was == call[t].answer
<1>1. /\ ai \in Blocks /\ ai # None
      /\ \A x \in answers : ~BlockOf(ai, x)
      /\ \A u \in Threads : ~BlockIn(ai, u)
  BY FreeIsNowhere
<1>2. call[t] # Hosts!Idle /\ was \in AnswerOf /\ was.own = TRUE /\ was.ai = None /\ was.addr # None
  BY DEF BlocksInv, CallsInv, InStep, Hosts!Idle, AnswerOf
<1> HIDE DEF was
<1>3. a \in AnswerOf /\ a.own = TRUE /\ a.ai = ai /\ a.addr = was.addr
  BY <1>1, <1>2 DEF AnswerOf, was
<1>4. \A x : HandOf(x, call[t]) <=> x = was.addr
  BY <1>2 DEF HandOf, BlockOf, was
<1>5. ai # was.addr
  BY <1>1, <1>4 DEF HandOf, BlockIn
<1>6. WholeAnswer(a)
  BY <1>1, <1>2, <1>3, <1>5 DEF WholeAnswer
<1>7. \A x : BlockOf(x, a) <=> HandOf(x, call[t]) \/ x = ai
  BY <1>1, <1>2, <1>3, <1>4 DEF BlockOf
<1>8. \A x : (HandOwn(x, call[t], TRUE) <=> HandOf(x, call[t])) /\ ~HandOwn(x, call[t], FALSE)
  BY <1>2 DEF HandOwn, was
<1>9. \A x, own : OfAnswers(x, own)' <=> OfAnswers(x, own) \/ (a.own = own /\ BlockOf(x, a))
  BY AnswersFacts
<1>10. \A x, own : ~HandOf(x, Hosts!Idle) /\ ~HandOwn(x, Hosts!Idle, own)
  BY DEF HandOf, HandOwn
<1>11. answers' \subseteq AnswerOf /\ \A x \in answers' : WholeAnswer(x)
  BY <1>3, <1>6 DEF BlocksInv, CallsInv
<1>12. \A x : x \in pool_' <=> OfAnswers(x, TRUE)' \/ HandOwn(x, Hosts!Idle, TRUE) \/ Others(x, t, TRUE)
  BY <1>3, <1>7, <1>8, <1>9, <1>10, InHandFacts
<1>13. \A x : x \in system' <=> OfAnswers(x, FALSE)' \/ HandOwn(x, Hosts!Idle, FALSE) \/ Others(x, t, FALSE)
  BY <1>3, <1>8, <1>9, <1>10, InHandFacts
<1>14. \A x : \A y \in answers : ~(BlockOf(x, y) /\ BlockOf(x, a))
  BY <1>1, <1>7, InHandFacts
<1>15. /\ \A x : \A a1, a2 \in answers' : BlockOf(x, a1) /\ BlockOf(x, a2) => a1 = a2
       /\ \A x : \A y \in answers' : \A u \in Threads \ {t} : ~(BlockOf(x, y) /\ BlockIn(x, u))
  <2>1. /\ \A x : \A u, v \in answers : BlockOf(x, u) /\ BlockOf(x, v) => u = v
        /\ \A x : \A y \in answers : \A u \in Threads \ {t} : ~(BlockOf(x, y) /\ BlockIn(x, u))
        /\ \A x : \A u \in Threads \ {t} : ~(HandOf(x, call[t]) /\ BlockIn(x, u))
    BY HandsApart
  <2> QED BY <1>1, <1>7, <1>14, <2>1
<1>16. InHand(Hosts!Idle)
  BY DEF InHand
<1>20. Moved(t, Hosts!Idle)
  BY <1>10, <1>11, <1>12, <1>13, <1>15, <1>16 DEF Moved
<1> QED BY <1>20, BlocksMove

(* The operating system's own answer. *)
LEMMA SystemAdded ==
    ASSUME BlocksInv, None \notin Blocks, NEW t \in Threads, call[t] = Hosts!Idle, NEW a \in AnswerOf,
           a.own = FALSE, a.ai \in Hosts!Free, a.addr = a.ai,
           system' = system \cup {a.ai}, answers' = answers \cup {a}, UNCHANGED <<pool_, call>>
    PROVE  BlocksInv'
<1> DEFINE ai == a.ai
<1>1. /\ ai \in Blocks /\ ai # None
      /\ \A x \in answers : ~BlockOf(ai, x)
      /\ \A u \in Threads : ~BlockIn(ai, u)
  BY FreeIsNowhere
<1>2. Hand(t, Hosts!Idle) /\ InHand(Hosts!Idle)
  BY DEF Hand, InHand, BlocksInv, CallsInv
<1>3. WholeAnswer(a) /\ \A x : BlockOf(x, a) <=> x = ai
  BY <1>1 DEF WholeAnswer, BlockOf
<1> HIDE DEF ai
<1>4. \A x, own : OfAnswers(x, own)' <=> OfAnswers(x, own) \/ (a.own = own /\ BlockOf(x, a))
  BY AnswersFacts
<1>5. \A x, own : ~HandOf(x, Hosts!Idle) /\ ~HandOwn(x, Hosts!Idle, own)
  BY DEF HandOf, HandOwn
<1>6. answers' \subseteq AnswerOf /\ \A x \in answers' : WholeAnswer(x)
  BY <1>3 DEF BlocksInv, CallsInv
<1>7. \A x : x \in pool_' <=> OfAnswers(x, TRUE)' \/ HandOwn(x, Hosts!Idle, TRUE) \/ Others(x, t, TRUE)
  BY <1>4, <1>5, InHandFacts
<1>8. \A x : x \in system' <=> OfAnswers(x, FALSE)' \/ HandOwn(x, Hosts!Idle, FALSE) \/ Others(x, t, FALSE)
  BY <1>3, <1>4, <1>5, InHandFacts DEF ai
<1>9. /\ \A x : \A a1, a2 \in answers' : BlockOf(x, a1) /\ BlockOf(x, a2) => a1 = a2
      /\ \A x : \A y \in answers' : \A u \in Threads \ {t} : ~(BlockOf(x, y) /\ BlockIn(x, u))
  <2>1. /\ \A x : \A u, v \in answers : BlockOf(x, u) /\ BlockOf(x, v) => u = v
        /\ \A x : \A y \in answers : \A u \in Threads \ {t} : ~(BlockOf(x, y) /\ BlockIn(x, u))
    BY HandsApart
  <2> QED BY <1>1, <1>3, <2>1
<1>20. Moved(t, Hosts!Idle)
  BY <1>2, <1>5, <1>6, <1>7, <1>8, <1>9 DEF Moved
<1> QED BY <1>20, BlocksMove

(* An answer is given back: a thread has it in hand. *)
LEMMA AnswerFound ==
    ASSUME BlocksInv, NEW t \in Threads, call[t] = Hosts!Idle, NEW a \in answers,
           NEW c, c # Hosts!Idle, InHand(c), c.answer = a,
           Hand(t, c), answers' = answers \ {a}, UNCHANGED <<pool_, system>>
    PROVE  BlocksInv'
<1>1. \A x, own : ~HandOf(x, call[t]) /\ ~HandOwn(x, call[t], own)
  BY DEF HandOf, HandOwn
<1>2. \A x : HandOf(x, c) <=> BlockOf(x, a)
  BY DEF HandOf
<1>3. \A x, own : HandOwn(x, c, own) <=> BlockOf(x, a) /\ a.own = own
  BY <1>2 DEF HandOwn
<1>4. \A x, own : OfAnswers(x, own)' <=> OfAnswers(x, own) /\ ~BlockOf(x, a)
  BY AnswersFacts
<1>5. \A x, own : BlockOf(x, a) => (OfAnswers(x, own) <=> a.own = own)
  BY OwnerFacts
<1>6. answers' \subseteq AnswerOf /\ \A x \in answers' : WholeAnswer(x)
  BY DEF BlocksInv, CallsInv
<1>7. \A x : x \in pool_' <=> OfAnswers(x, TRUE)' \/ HandOwn(x, c, TRUE) \/ Others(x, t, TRUE)
  BY <1>1, <1>3, <1>4, <1>5, InHandFacts
<1>8. \A x : x \in system' <=> OfAnswers(x, FALSE)' \/ HandOwn(x, c, FALSE) \/ Others(x, t, FALSE)
  BY <1>1, <1>3, <1>4, <1>5, InHandFacts
<1>9. /\ \A x : \A a1, a2 \in answers' : BlockOf(x, a1) /\ BlockOf(x, a2) => a1 = a2
      /\ \A x : \A y \in answers' : ~(BlockOf(x, y) /\ HandOf(x, c))
      /\ \A x : \A y \in answers' : \A u \in Threads \ {t} : ~(BlockOf(x, y) /\ BlockIn(x, u))
      /\ \A x : \A u \in Threads \ {t} : ~(HandOf(x, c) /\ BlockIn(x, u))
  BY <1>2, InHandFacts
<1>20. Moved(t, c)
  BY <1>6, <1>7, <1>8, <1>9 DEF Moved
<1> QED BY <1>20, BlocksMove

(* A block goes back to whom it came from, and the rest stays in hand. *)
LEMMA BlockFreed ==
    ASSUME BlocksInv, NEW t \in Threads, call[t] # Hosts!Idle, NEW b, HandOf(b, call[t]),
           NEW c, InHand(c), Hand(t, c), UNCHANGED answers,
           \A x : HandOf(x, c) <=> HandOf(x, call[t]) /\ x # b,
           c # Hosts!Idle => c.answer.own = call[t].answer.own,
           \/ /\ call[t].answer.own = TRUE
              /\ pool_' = pool_ \ {b} /\ UNCHANGED system
           \/ /\ call[t].answer.own = FALSE
              /\ system' = system \ {b} /\ UNCHANGED pool_
    PROVE  BlocksInv'
<1>1. \A x, own : HandOwn(x, c, own) <=> HandOwn(x, call[t], own) /\ x # b
  BY DEF HandOwn, HandOf
<1>2. \A x, own : OfAnswers(x, own)' <=> OfAnswers(x, own)
  BY DEF OfAnswers, BlockOf
<1>3. \A own : ~OfAnswers(b, own) /\ ~Others(b, t, own)
  BY OwnerFacts
<1>4. \A own : HandOwn(b, call[t], own) <=> call[t].answer.own = own
  BY DEF HandOwn
<1>5. answers' \subseteq AnswerOf /\ \A x \in answers' : WholeAnswer(x)
  BY DEF BlocksInv, CallsInv
<1>6. \A x : x \in pool_' <=> OfAnswers(x, TRUE)' \/ HandOwn(x, c, TRUE) \/ Others(x, t, TRUE)
  BY <1>1, <1>2, <1>3, <1>4, InHandFacts
<1>7. \A x : x \in system' <=> OfAnswers(x, FALSE)' \/ HandOwn(x, c, FALSE) \/ Others(x, t, FALSE)
  BY <1>1, <1>2, <1>3, <1>4, InHandFacts
<1>8. /\ \A x : \A a1, a2 \in answers' : BlockOf(x, a1) /\ BlockOf(x, a2) => a1 = a2
      /\ \A x : \A y \in answers' : ~(BlockOf(x, y) /\ HandOf(x, c))
      /\ \A x : \A y \in answers' : \A u \in Threads \ {t} : ~(BlockOf(x, y) /\ BlockIn(x, u))
      /\ \A x : \A u \in Threads \ {t} : ~(HandOf(x, c) /\ BlockIn(x, u))
  BY InHandFacts
<1>20. Moved(t, c)
  BY <1>5, <1>6, <1>7, <1>8 DEF Moved
<1> QED BY <1>20, BlocksMove

(* Whatever a thread does, a block that is taken, or given back one by one, *)
(* stays in one place.                                                     *)
LEMMA BlocksStep ==
    ASSUME None \notin Blocks
    PROVE  BlocksInv /\ [Hosts!NameNext]_<<pool_, system, answers, call, host, socket_map, asked>>
             => BlocksInv'
<1> SUFFICES ASSUME BlocksInv,
                    [Hosts!NameNext]_<<pool_, system, answers, call, host, socket_map, asked>>
             PROVE  BlocksInv'
  OBVIOUS
<1>1. ASSUME NEW t \in Threads, Hosts!GetAddrInfo(t) PROVE BlocksInv'
  <2>1. call[t] = Hosts!Idle /\ Hosts!Free \subseteq Blocks
    BY <1>1 DEF Hosts!GetAddrInfo, Hosts!Free
  <2>2. PICK name \in HostNames, b \in Hosts!Free :
          \/ /\ Hosts!FindServer(name) # None
             /\ pool_' = pool_ \cup {b}
             /\ call' = Hosts!During(t, "address",
                          Hosts!Answer(None, b, Hosts!FindServer(name), name, TRUE))
             /\ UNCHANGED <<system, answers>>
          \/ /\ Hosts!FindServer(name) = None
             /\ system' = system \cup {b}
             /\ answers' = answers \cup {Hosts!Answer(b, b, Hash[name], name, FALSE)}
             /\ UNCHANGED <<pool_, call>>
    BY <1>1, Zenon DEF Hosts!GetAddrInfo
  <2>3. ASSUME Hosts!FindServer(name) # None, pool_' = pool_ \cup {b},
               call' = Hosts!During(t, "address",
                         Hosts!Answer(None, b, Hosts!FindServer(name), name, TRUE)),
               UNCHANGED <<system, answers>>
        PROVE  BlocksInv'
    <3> DEFINE a == Hosts!Answer(None, b, Hosts!FindServer(name), name, TRUE)
               c == [step |-> "address", answer |-> a]
    <3>1. Hosts!FindServer(name) \in Addresses
      BY <2>3 DEF Hosts!FindServer, Addresses
    <3>2. b # None /\ b \in Blocks
      BY <2>1
    <3>3. a \in AnswerOf /\ a.own = TRUE /\ a.ai = None /\ a.addr = b
      BY <3>1, <3>2 DEF AnswerOf, Hosts!Answer
    <3> HIDE DEF a
    <3>4. InHand(c) /\ c # Hosts!Idle /\ c.answer = a
      BY <3>2, <3>3 DEF InHand, InStep, Hosts!Idle
    <3>5. Hand(t, c)
      BY <2>3 DEF Hand, Hosts!During, a
    <3> HIDE DEF c
    <3> QED BY <2>1, <2>3, <3>3, <3>4, <3>5, AddressTaken
  <2>4. ASSUME system' = system \cup {b},
               answers' = answers \cup {Hosts!Answer(b, b, Hash[name], name, FALSE)},
               UNCHANGED <<pool_, call>>
        PROVE  BlocksInv'
    <3> DEFINE a == Hosts!Answer(b, b, Hash[name], name, FALSE)
    <3>1. a \in AnswerOf /\ a.own = FALSE /\ a.ai = b /\ a.addr = b
      BY <2>1 DEF AnswerOf, Addresses, Hosts!Answer
    <3>2. answers' = answers \cup {a}
      BY <2>4
    <3> HIDE DEF a
    <3> QED BY <2>1, <2>4, <3>1, <3>2, SystemAdded
  <2> QED BY <2>2, <2>3, <2>4, Zenon
<1>2. ASSUME NEW t \in Threads, Hosts!GetAddrInfoEnd(t) PROVE BlocksInv'
  <2>1. PICK ai \in Hosts!Free :
          pool_' = pool_ \cup {ai} /\ answers' = answers \cup {[call[t].answer EXCEPT !.ai = ai]}
    BY <1>2 DEF Hosts!GetAddrInfoEnd
  <2>2. call[t].step = "address" /\ Hand(t, Hosts!Idle) /\ UNCHANGED system
    BY <1>2 DEF Hosts!GetAddrInfoEnd, Hand
  <2> DEFINE a == [call[t].answer EXCEPT !.ai = ai]
  <2>3. answers' = answers \cup {a} /\ a = [call[t].answer EXCEPT !.ai = ai]
    BY <2>1
  <2> HIDE DEF a
  <2> QED BY <2>1, <2>2, <2>3, AnswerMade
<1>3. ASSUME NEW t \in Threads, Hosts!FreeAddrInfo(t) PROVE BlocksInv'
  <2>1. PICK a \in answers :
          /\ answers' = answers \ {a}
          /\ call' = Hosts!During(t, IF Hosts!IsOwn(a.ai) THEN "found" ELSE "missing", a)
    BY <1>3 DEF Hosts!FreeAddrInfo
  <2>2. call[t] = Hosts!Idle /\ UNCHANGED <<pool_, system>>
    BY <1>3 DEF Hosts!FreeAddrInfo
  <2> DEFINE c == [step |-> IF Hosts!IsOwn(a.ai) THEN "found" ELSE "missing", answer |-> a]
  <2>3. a \in AnswerOf /\ WholeAnswer(a) /\ (Hosts!IsOwn(a.ai) <=> a.own)
    BY FindsOwn DEF BlocksInv, CallsInv
  <2>4. InHand(c) /\ c # Hosts!Idle /\ c.answer = a
    BY <2>3 DEF InHand, InStep, Hosts!Idle
  <2>5. Hand(t, c)
    BY <2>1 DEF Hand, Hosts!During
  <2> HIDE DEF c
  <2> QED BY <2>1, <2>2, <2>4, <2>5, AnswerFound
<1>4. ASSUME NEW t \in Threads, Hosts!FreeAddress(t) PROVE BlocksInv'
  <2> DEFINE was == call[t].answer
  <2>1. UNCHANGED answers
    BY <1>4 DEF Hosts!FreeAddress
  <2>2. ASSUME call[t].step = "missing", system' = system \ {was.ai},
               call' = [call EXCEPT ![t] = Hosts!Idle], UNCHANGED pool_
        PROVE  BlocksInv'
    <3>1. /\ call[t] # Hosts!Idle /\ was \in AnswerOf /\ was.own = FALSE
          /\ was.ai # None /\ was.ai = was.addr
      BY <2>2 DEF BlocksInv, CallsInv, InStep, WholeAnswer, AnswerOf, Hosts!Idle
    <3>2. InHand(Hosts!Idle) /\ Hand(t, Hosts!Idle)
      BY <2>2 DEF InHand, Hand
    <3> DEFINE b == was.ai
    <3>3. HandOf(b, call[t]) /\ \A x : HandOf(x, Hosts!Idle) <=> HandOf(x, call[t]) /\ x # b
      BY <3>1 DEF HandOf, BlockOf
    <3>4. system' = system \ {b} /\ call[t].answer.own = FALSE
      BY <2>2, <3>1
    <3> HIDE DEF b, was
    <3> QED BY <2>1, <2>2, <3>1, <3>2, <3>3, <3>4, BlockFreed
  <2>3. ASSUME call[t].step = "found", pool_' = pool_ \ {was.addr},
               call' = Hosts!During(t, "rest", [was EXCEPT !.addr = None]), UNCHANGED system
        PROVE  BlocksInv'
    <3>1. /\ call[t] # Hosts!Idle /\ was \in AnswerOf /\ was.own = TRUE
          /\ was.ai # None /\ was.addr # None /\ was.ai # was.addr
      BY <2>3 DEF BlocksInv, CallsInv, InStep, WholeAnswer, AnswerOf, Hosts!Idle
    <3> DEFINE b == was.addr
               left == [was EXCEPT !.addr = None]
               c == [step |-> "rest", answer |-> left]
    <3>2. left \in AnswerOf /\ left.own = TRUE /\ left.ai = was.ai /\ left.addr = None
      BY <3>1 DEF AnswerOf
    <3>3. Hand(t, c)
      BY <2>3 DEF Hand, Hosts!During
    <3> HIDE DEF left
    <3>4. InHand(c) /\ c # Hosts!Idle /\ c.answer = left
      BY <3>1, <3>2 DEF InHand, InStep, Hosts!Idle
    <3> HIDE DEF c
    <3>5. HandOf(b, call[t]) /\ \A x : HandOf(x, c) <=> HandOf(x, call[t]) /\ x # b
      BY <3>1, <3>2, <3>4 DEF HandOf, BlockOf
    <3>6. pool_' = pool_ \ {b} /\ call[t].answer.own = TRUE /\ c.answer.own = call[t].answer.own
      BY <2>3, <3>1, <3>2, <3>4
    <3> HIDE DEF b, was
    <3> QED BY <2>1, <2>3, <3>1, <3>3, <3>4, <3>5, <3>6, BlockFreed
  <2> QED BY <1>4, <2>2, <2>3 DEF Hosts!FreeAddress
<1>5. ASSUME NEW t \in Threads, Hosts!FreeRest(t) PROVE BlocksInv'
  <2> DEFINE was == call[t].answer
             b == was.ai
  <2>1. /\ call[t].step = "rest" /\ pool_' = pool_ \ {b} /\ Hand(t, Hosts!Idle)
        /\ UNCHANGED <<system, answers>>
    BY <1>5 DEF Hosts!FreeRest, Hand
  <2>2. call[t] # Hosts!Idle /\ was.own = TRUE /\ was.ai # None /\ was.addr = None
    BY <2>1 DEF BlocksInv, CallsInv, InStep, AnswerOf, Hosts!Idle
  <2>3. HandOf(b, call[t]) /\ \A x : HandOf(x, Hosts!Idle) <=> HandOf(x, call[t]) /\ x # b
    BY <2>2 DEF HandOf, BlockOf
  <2>4. InHand(Hosts!Idle) /\ call[t].answer.own = TRUE
    BY <2>2 DEF InHand
  <2> HIDE DEF b, was
  <2> QED BY <2>1, <2>2, <2>3, <2>4, BlockFreed
<1>6. ASSUME UNCHANGED <<pool_, system, answers, call>> PROVE BlocksInv'
  <2>1. CallsInv'
    BY <1>6 DEF BlocksInv, CallsInv
  <2>2. PlacesInv'
    BY <1>6 DEF BlocksInv, PlacesInv, OfAnswers, OfCalls, BlockIn
  <2> QED BY <2>1, <2>2 DEF BlocksInv
<1>7. ASSUME NEW t \in Threads, Hosts!GetBlocked(t) \/ Hosts!GetHostByName(t)
      PROVE  UNCHANGED <<pool_, system, answers, call>>
  BY <1>7 DEF Hosts!GetBlocked, Hosts!GetHostByName
<1>8. ASSUME NEW t \in Threads, NEW s \in Sockets, Hosts!Connect(t, s)
      PROVE  UNCHANGED <<pool_, system, answers, call>>
  BY <1>8 DEF Hosts!Connect
<1>9. ASSUME NEW s \in Sockets, Hosts!Close(s) \/ Hosts!GetPeerName(s)
      PROVE  UNCHANGED <<pool_, system, answers, call>>
  BY <1>9 DEF Hosts!Close, Hosts!GetPeerName
<1> QED BY <1>1, <1>2, <1>3, <1>4, <1>5, <1>6, <1>7, <1>8, <1>9, Zenon DEF Hosts!NameNext

(* BlocksReturn, of the allocator of the stubs and the operating system. *)
LEMMA BlocksAlwaysReturn ==
    ASSUME None \notin Blocks PROVE Hosts!NameSpec => []Hosts!BlocksReturn
<1> QED BY BlocksMean, BlocksInit, BlocksStep, PTL DEF Hosts!NameSpec

------------------------------------------------------------------------------
(* What threads and sockets are told.                                       *)

Servants == {Hash[n] : n \in TcpNames}

HostEntry == {e \in [address : Addresses, name : HostNames, thread : Threads] : e.address = Hash[e.name]}

(* A socket is linked to an address of the registry, and a thread's entry   *)
(* is its own.                                                             *)
HostsInv ==
    /\ host \in [Threads -> HostEntry \cup {None}]
    /\ \A t \in Threads : host[t] # None => host[t].thread = t
    /\ socket_map \in [Sockets -> Servants \cup {None}]
    /\ asked # None /\ asked.kind = "peer" => asked.address \in Servants

LEMMA HostsInit == Hosts!NameInit => HostsInv
  BY DEF Hosts!NameInit, HostsInv

LEMMA HostsStep ==
    HostsInv /\ [Hosts!NameNext]_<<pool_, system, answers, call, host, socket_map, asked>>
      => HostsInv'
<1> SUFFICES ASSUME HostsInv,
                    [Hosts!NameNext]_<<pool_, system, answers, call, host, socket_map, asked>>
             PROVE  HostsInv'
  OBVIOUS
<1> USE DEF HostsInv
<1>1. ASSUME NEW t \in Threads,
             \/ Hosts!GetAddrInfo(t) \/ Hosts!GetAddrInfoEnd(t)
             \/ Hosts!FreeAddrInfo(t) \/ Hosts!FreeAddress(t) \/ Hosts!FreeRest(t)
      PROVE  HostsInv'
  BY <1>1 DEF Hosts!GetAddrInfo, Hosts!GetAddrInfoEnd, Hosts!FreeAddrInfo, Hosts!FreeAddress,
              Hosts!FreeRest
<1>2. ASSUME NEW t \in Threads, Hosts!GetBlocked(t) PROVE HostsInv'
  BY <1>2 DEF Hosts!GetBlocked
<1>3. ASSUME NEW t \in Threads, Hosts!GetHostByName(t) PROVE HostsInv'
  <2>1. PICK name \in HostNames :
          host' = [host EXCEPT ![t] = [address |-> Hash[name], name |-> name, thread |-> t]]
    BY <1>3 DEF Hosts!GetHostByName, Hosts!HostAfter
  <2> DEFINE e == [address |-> Hash[name], name |-> name, thread |-> t]
  <2>2. e \in HostEntry /\ e.thread = t
    BY DEF HostEntry, Addresses
  <2>3. host' = [host EXCEPT ![t] = e]
    BY <2>1
  <2> HIDE DEF e
  <2>4. /\ host' \in [Threads -> HostEntry \cup {None}]
        /\ \A u \in Threads : host'[u] # None => host'[u].thread = u
    BY <2>2, <2>3
  <2> QED BY <1>3, <2>4 DEF Hosts!GetHostByName
<1>4. ASSUME NEW t \in Threads, NEW s \in Sockets, Hosts!Connect(t, s) PROVE HostsInv'
  <2>1. PICK address : socket_map' = [socket_map EXCEPT ![s] =
                         IF address \in Servants THEN address ELSE @]
    BY <1>4 DEF Hosts!Connect, Hosts!Registered, Servants
  <2> QED BY <1>4, <2>1 DEF Hosts!Connect
<1>5. ASSUME NEW s \in Sockets, Hosts!Close(s) PROVE HostsInv'
  BY <1>5 DEF Hosts!Close
<1>6. ASSUME NEW s \in Sockets, Hosts!GetPeerName(s) PROVE HostsInv'
  BY <1>6 DEF Hosts!GetPeerName
<1>7. CASE UNCHANGED <<pool_, system, answers, call, host, socket_map, asked>>
  BY <1>7
<1> QED BY <1>1, <1>2, <1>3, <1>4, <1>5, <1>6, <1>7, Zenon DEF Hosts!NameNext

(* What a thread has been told of a host is of the name it asked for, and a  *)
(* socket that is linked has a TCP server of its address, for any names and  *)
(* any hash, colliding ones included.                                        *)
THEOREM HostsStayOwn == Hosts!NameSpec => []Hosts!HostsAreOwn
<1>1. HostsInv => Hosts!HostsAreOwn
  BY DEF HostsInv, HostEntry, Hosts!HostsAreOwn, Hosts!Registered, Servants
<1> QED BY <1>1, HostsInit, HostsStep, PTL DEF Hosts!NameSpec

(* ResolverIsTrue: whatever other threads ask and free between the calls of *)
(* the allocator that a stub makes one by one, the allocator and the system *)
(* have the blocks of the answers and of the threads' calls that are        *)
(* theirs, no block is in two places, and what a thread or a socket is told *)
(* of a host is its own.  None is the pointer that is not set: no block.    *)
THEOREM ResolverStaysTrue ==
    ASSUME None \notin Blocks PROVE Hosts!NameSpec => []ResolverIsTrue
<1>1. Hosts!BlocksReturn /\ Hosts!HostsAreOwn => ResolverIsTrue
  BY DEF ResolverIsTrue
<1> QED BY <1>1, BlocksAlwaysReturn, HostsStayOwn, PTL

------------------------------------------------------------------------------
(***************************************************************************)
(* Mods: what the mods offer is served from whole loads.                   *)
(*                                                                         *)
(* The argument: after n entries of a directory the storage has what these *)
(* entries offer, in their order, and the last of their redirects; so at   *)
(* the end of a load it has what the whole directory offers.  Only then is *)
(* the loader idle, and a lookup that takes the lock answers from that     *)
(* load.  A redirect that was read before is of the same load unless the   *)
(* lookup is torn.                                                         *)
(***************************************************************************)

(* What a loop keeps of a list are the elements at the places, in order. *)
LEMMA KeptInOrder ==
    ASSUME NEW list, Len(list) \in Nat, NEW places, places \subseteq 1..Len(list)
    PROVE  SelectedFrom(Mod!Kept(list, places), list, places)
<1> DEFINE N == Len(list)
           K == Mod!Kept(list, places)
<1>0. N \in Nat /\ 0 \notin places /\ places \subseteq 1..N /\ places \subseteq Nat
  OBVIOUS
<1>1. PICK f : Goes(f, list, places, N) /\ K = f[N]
  <2> DEFINE u == CHOOSE f : Goes(f, list, places, N)
  <2>1. Goes(u, list, places, N)
    BY <1>0, GoesThrough
  <2>2. K = u[N]
    BY DEF Mod!Kept, Goes
  <2> QED BY <2>1, <2>2
<1> HIDE DEF N, K
<1> DEFINE failing == {n \in 0..N : ~SelectedFrom(f[n], list, Upto(places, n))}
<1>2. 0 \notin failing
  <2>1. f[0] = <<>>
    BY <1>0, <1>1 DEF Goes
  <2>2. Upto(places, 0) = {}
    BY <1>0, UptoEnds
  <2>3. SelectedFrom(f[0], list, Upto(places, 0))
    BY <2>1, <2>2, NothingSelected
  <2> QED BY <2>3
<1>3. \A n \in 0..N - 1 : n + 1 \in failing => n \in failing
  <2> SUFFICES ASSUME NEW n \in 0..N - 1, SelectedFrom(f[n], list, Upto(places, n))
               PROVE  SelectedFrom(f[n + 1], list, Upto(places, n + 1))
    BY <1>0
  <2>0. n \in Nat /\ n + 1 \in Nat /\ n + 1 \in 0..N /\ n + 1 # 0 /\ (n + 1) - 1 = n
    BY <1>0
  <2>1. f[n + 1] = CASE n + 1 = 0 -> <<>>
                     [] n + 1 \in places -> Append(f[(n + 1) - 1], list[n + 1])
                     [] OTHER -> f[(n + 1) - 1]
    BY <1>1, <2>0 DEF Goes
  <2>2. CASE n + 1 \in places
    <3>1. /\ Upto(places, n + 1) = Upto(places, n) \cup {n + 1}
          /\ Upto(places, n) \subseteq Nat
          /\ \A j \in Upto(places, n) : j < n + 1
      BY <1>0, <2>0, <2>2, UptoNext
    <3>2. f[n + 1] = Append(f[n], list[n + 1])
      BY <2>0, <2>1, <2>2
    <3>3. SelectedFrom(Append(f[n], list[n + 1]), list, Upto(places, n) \cup {n + 1})
      BY <2>0, <3>1, OneMoreSelected, Zenon
    <3> QED BY <3>1, <3>2, <3>3, Zenon
  <2>3. CASE n + 1 \notin places
    <3>1. Upto(places, n + 1) = Upto(places, n)
      BY <1>0, <2>0, <2>3, UptoNext
    <3>2. f[n + 1] = f[n]
      BY <2>0, <2>1, <2>3
    <3> QED BY <3>1, <3>2
  <2> QED BY <2>2, <2>3
<1>4. failing = {}
  <2> HIDE DEF failing
  <2>1. failing \subseteq 0..N
    BY DEF failing
  <2> QED BY <1>0, <1>2, <1>3, <2>1, NothingFails
<1>5. SelectedFrom(f[N], list, Upto(places, N)) /\ Upto(places, N) = places
  <2>1. N \in 0..N
    BY <1>0
  <2>2. SelectedFrom(f[N], list, Upto(places, N))
    BY <1>4, <2>1
  <2> QED BY <1>0, <2>2, UptoEnds, Zenon
<1> QED BY <1>1, <1>5 DEF K

(* The concatenation of sequences over a set is one. *)
LEMMA FlattenedSeq ==
    ASSUME NEW T, NEW s \in Seq(Seq(T)) PROVE Mod!FlattenSeq(s) \in Seq(T)
<1> DEFINE N == Len(s)
<1>1. N \in Nat /\ \A i \in 1..N : s[i] \in Seq(T)
  BY LenProperties, ElementOfSeq
<1>2. CASE N = 0
  <2>1. s = <<>>
    BY <1>2, EmptySeq
  <2> QED BY <1>2, <2>1 DEF Mod!FlattenSeq
<1>3. CASE N # 0
  <2>1. PICK f : Joins(f, s, N) /\ Mod!FlattenSeq(s) = f[N]
    <3> DEFINE u == CHOOSE f : Joins(f, s, N)
    <3>1. Joins(u, s, N)
      BY <1>1, JoinsThrough
    <3>2. Mod!FlattenSeq(s) = u[N]
      BY <1>3 DEF Mod!FlattenSeq, Joins
    <3> QED BY <3>1, <3>2
  <2> HIDE DEF N
  <2> DEFINE failing == {n \in 0..N : n # 0 /\ f[n] \notin Seq(T)}
  <2>2. \A n \in 0..N - 1 : n + 1 \in failing => n \in failing
    <3> SUFFICES ASSUME NEW n \in 0..N - 1, n = 0 \/ f[n] \in Seq(T)
                 PROVE  f[n + 1] \in Seq(T)
      BY <1>1
    <3>1. n + 1 \in 1..N /\ (n + 1) - 1 = n /\ (n + 1 = 1 <=> n = 0)
      BY <1>1
    <3>2. f[n + 1] = IF n + 1 = 1 THEN s[n + 1] ELSE f[(n + 1) - 1] \o s[n + 1]
      BY <2>1, <3>1 DEF Joins
    <3> QED BY <1>1, <3>1, <3>2
  <2>3. failing = {}
    <3> HIDE DEF failing
    <3>1. failing \subseteq 0..N /\ 0 \notin failing
      BY DEF failing
    <3> QED BY <1>1, <2>2, <3>1, NothingFails
  <2>4. N \in 0..N
    BY <1>1
  <2> QED BY <1>3, <2>1, <2>3, <2>4
<1> QED BY <1>2, <1>3

(* What is in the entries of a directory, in the order they are read. *)
EntryIsWellFormed(x) ==
    /\ x.member \in {"data", "cache", "redirect", "metadata"}
    /\ x.member = "data" => Mod!DataIsWellFormed(x.e)
    /\ x.member = "cache" => Mod!CacheIsWellFormed(x.e)
    /\ x.member = "redirect" => x.e.flaws \subseteq {"type", "origin", "target"}

(* A directory is a sequence of such entries. *)
Directory(all) ==
    /\ all # Absent /\ Len(all) \in Nat /\ DOMAIN all = 1..Len(all)
    /\ \A i \in 1..Len(all) : EntryIsWellFormed(all[i])

EntriesIn(mod) ==
    CASE mod.metadata = "none" -> {}
      [] mod.metadata = "bad" -> {[member |-> "metadata", e |-> Bad]}
      [] OTHER -> {[member |-> "data", e |-> e] : e \in Mod!ToSet(mod.data)}
                  \cup {[member |-> "cache", e |-> e] : e \in Mod!ToSet(mod.cache)}
                  \cup {[member |-> "redirect", e |-> e] : e \in Mod!ToSet(mod.redirect)}

LEMMA PartOfList ==
    ASSUME NEW list, list \in Seq(Mod!ToSet(list)), NEW member, NEW T,
           {[member |-> member, e |-> e] : e \in Mod!ToSet(list)} \subseteq T
    PROVE  Mod!Part(member, list) \in Seq(T)
<1>1. DOMAIN list = 1..Len(list) /\ Len(list) \in Nat
  BY LenProperties
<1>2. \A k \in 1..Len(list) : [member |-> member, e |-> list[k]] \in T
  BY <1>1 DEF Mod!ToSet
<1> QED BY <1>1, <1>2 DEF Mod!Part

LEMMA EntriesOfMod ==
    ASSUME NEW mod, Mod!IsWellFormed(mod)
    PROVE  /\ Mod!EntriesOf(mod) \in Seq(EntriesIn(mod))
           /\ \A x \in EntriesIn(mod) : EntryIsWellFormed(x)
<1>1. CASE mod.metadata = "none"
  BY <1>1 DEF Mod!EntriesOf, EntriesIn
<1>2. CASE mod.metadata = "bad"
  BY <1>2 DEF Mod!EntriesOf, EntriesIn, EntryIsWellFormed
<1>3. CASE mod.metadata \notin {"none", "bad"}
  <2> DEFINE data == {[member |-> "data", e |-> e] : e \in Mod!ToSet(mod.data)}
             cached == {[member |-> "cache", e |-> e] : e \in Mod!ToSet(mod.cache)}
             redirects == {[member |-> "redirect", e |-> e] : e \in Mod!ToSet(mod.redirect)}
             T == EntriesIn(mod)
  <2>1. T = data \cup cached \cup redirects
    BY <1>3 DEF EntriesIn
  <2>2. /\ \A list \in {mod.data, mod.cache, mod.redirect} : list \in Seq(Mod!ToSet(list))
        /\ \A e \in Mod!ToSet(mod.data) : Mod!DataIsWellFormed(e)
        /\ \A e \in Mod!ToSet(mod.cache) : Mod!CacheIsWellFormed(e)
        /\ \A e \in Mod!ToSet(mod.redirect) : e.flaws \subseteq {"type", "origin", "target"}
    BY <1>3 DEF Mod!IsWellFormed
  <2>3. data \subseteq T /\ cached \subseteq T /\ redirects \subseteq T
    BY <2>1
  <2>4. /\ \A x \in data : EntryIsWellFormed(x)
        /\ \A x \in cached : EntryIsWellFormed(x)
        /\ \A x \in redirects : EntryIsWellFormed(x)
    BY <2>2 DEF EntryIsWellFormed
  <2> HIDE DEF T
  <2>5. Mod!Part("data", mod.data) \in Seq(T)
    BY <2>2, <2>3, PartOfList
  <2>6. Mod!Part("cache", mod.cache) \in Seq(T)
    BY <2>2, <2>3, PartOfList
  <2>7. Mod!Part("redirect", mod.redirect) \in Seq(T)
    BY <2>2, <2>3, PartOfList
  <2>8. Mod!EntriesOf(mod) = Mod!Part("data", mod.data) \o Mod!Part("cache", mod.cache)
                               \o Mod!Part("redirect", mod.redirect)
    BY <1>3 DEF Mod!EntriesOf
  <2>9. Mod!EntriesOf(mod) \in Seq(T)
    BY <2>5, <2>6, <2>7, <2>8
  <2> HIDE DEF data, cached, redirects
  <2> QED BY <2>1, <2>4, <2>9 DEF T
<1> QED BY <1>1, <1>2, <1>3

LEMMA EntriesAreWellFormed ==
    ASSUME Mod!ModsAssumption, NEW d \in Disks PROVE Directory(Mod!Entries(d))
<1>1. /\ d \in Seq(Mod!ToSet(d))
      /\ \A mod \in Mod!ToSet(d) : Mod!IsWellFormed(mod)
      /\ Mod!Entries(d) # Absent
  BY DEF Mod!ModsAssumption
<1> DEFINE T == UNION {EntriesIn(mod) : mod \in Mod!ToSet(d)}
           parts == [m \in DOMAIN d |-> Mod!EntriesOf(d[m])]
<1>2. DOMAIN d = 1..Len(d) /\ Len(d) \in Nat
  BY <1>1, LenProperties
<1>3. ASSUME NEW m \in DOMAIN d PROVE Mod!EntriesOf(d[m]) \in Seq(T)
  <2>1. d[m] \in Mod!ToSet(d)
    BY DEF Mod!ToSet
  <2>2. Mod!EntriesOf(d[m]) \in Seq(EntriesIn(d[m])) /\ EntriesIn(d[m]) \subseteq T
    BY <1>1, <2>1, EntriesOfMod
  <2> HIDE DEF T
  <2> QED BY <2>2
<1>4. \A x \in T : EntryIsWellFormed(x)
  <2> SUFFICES ASSUME NEW mod \in Mod!ToSet(d), NEW x \in EntriesIn(mod)
               PROVE  EntryIsWellFormed(x)
    OBVIOUS
  <2> QED BY <1>1, EntriesOfMod
<1> HIDE DEF T
<1>5. parts \in Seq(Seq(T))
  BY <1>2, <1>3
<1>6. Mod!Entries(d) = Mod!FlattenSeq(parts)
  BY DEF Mod!Entries
<1> HIDE DEF parts
<1>7. Mod!Entries(d) \in Seq(T)
  BY <1>5, <1>6, FlattenedSeq
<1>8. /\ Len(Mod!Entries(d)) \in Nat /\ DOMAIN Mod!Entries(d) = 1..Len(Mod!Entries(d))
      /\ \A i \in 1..Len(Mod!Entries(d)) : Mod!Entries(d)[i] \in T
  BY <1>7, LenProperties, ElementOfSeq
<1> QED BY <1>1, <1>4, <1>8 DEF Directory

(* What an entry of data leaves in the storage. *)
AssetOf(e) == [kind |-> e.kind, name |-> Mod!AssetName(e), entry |-> e]

(* An entry of data is offered or fails, unless the exception of a cell    *)
(* ends it all.                                                            *)
LEMMA DataRead ==
    ASSUME Mod!ModsAssumption, NEW e, Mod!DataIsWellFormed(e)
    PROVE  /\ Mod!ReadDataEntry(e).assets
                = IF e.kind \in Mod!AssetKinds /\ Mod!Good(e) THEN <<AssetOf(e)>> ELSE <<>>
           /\ Mod!ReadDataEntry(e).result = "thrown" =>
                Mod!ReadDataEntry(e) = Mod!Nothing("thrown")
           /\ Mod!ReadDataEntry(e).result # "thrown" =>
                (Mod!ReadDataEntry(e).result = "failed" <=> ~Mod!Taken(e))
<1> DEFINE failed == Mod!Nothing("failed")
           adds == [result |-> "ok", hashes |-> {}, assets |-> <<AssetOf(e)>>]
           read == Mod!ReadDataEntry(e)
           good == e.kind \in Mod!AssetKinds /\ Mod!Good(e)
<1>0. /\ e.ignore \in BOOLEAN
      /\ e.kind \in DOMAIN Mod!FlawsOf => e.flaws \subseteq Mod!FlawsOf[e.kind]
      /\ e.cells \in Seq({"good", "invalid", "range"})
      /\ e.kind # "stringtable" => e.cells = <<>>
      /\ HashesEnabled \in BOOLEAN
  BY DEF Mod!DataIsWellFormed, Mod!ModsAssumption
<1>a. /\ failed.assets = <<>> /\ failed.result = "failed"
      /\ Mod!Adds(e) = adds /\ adds.assets = <<AssetOf(e)>> /\ adds.result = "ok"
      /\ Mod!Nothing("ok").assets = <<>> /\ Mod!Nothing("ok").result = "ok"
      /\ Mod!Nothing("thrown").assets = <<>> /\ Mod!Nothing("thrown").result = "thrown"
  BY DEF Mod!Nothing, Mod!Adds, AssetOf
<1>b. e.cells = <<>> => (Mod!Good(e) <=> e.flaws = {})
  BY DEF Mod!Good
<1>c. e.kind # "hashes" => (Mod!Taken(e) <=> good)
  BY DEF Mod!Taken
<1>d. ASSUME read = IF e.flaws = {} THEN adds ELSE failed, e.cells = <<>>,
             e.kind \in Mod!AssetKinds, e.kind # "hashes"
      PROVE  /\ read.assets = IF good THEN <<AssetOf(e)>> ELSE <<>>
             /\ read.result # "thrown"
             /\ read.result = "failed" <=> ~Mod!Taken(e)
  BY <1>a, <1>b, <1>c, <1>d
<1>1. CASE e.kind = "scriptparsetree"
  <2>1. e.flaws \subseteq {"name", "path", "hooks", "file", "gsic", "magic"}
    BY <1>0, <1>1 DEF Mod!FlawsOf
  <2>2. read = IF e.flaws = {} THEN adds ELSE failed
    BY <1>1, <1>a, <2>1 DEF Mod!ReadDataEntry, Mod!ReadScript, Mod!Has
  <2>3. e.cells = <<>> /\ e.kind \in Mod!AssetKinds
    BY <1>0, <1>1 DEF Mod!AssetKinds
  <2> HIDE DEF read, good, adds, failed
  <2> QED BY <1>1, <1>d, <2>2, <2>3 DEF read, good
<1>2. CASE e.kind = "rawfile"
  <2>1. e.flaws \subseteq {"name", "path", "file"}
    BY <1>0, <1>2 DEF Mod!FlawsOf
  <2>2. read = IF e.flaws = {} THEN adds ELSE failed
    BY <1>2, <1>a, <2>1 DEF Mod!ReadDataEntry, Mod!ReadRawFile, Mod!Has
  <2>3. e.cells = <<>> /\ e.kind \in Mod!AssetKinds
    BY <1>0, <1>2 DEF Mod!AssetKinds
  <2> HIDE DEF read, good, adds, failed
  <2> QED BY <1>2, <1>d, <2>2, <2>3 DEF read, good
<1>3. CASE e.kind = "localizeentry"
  <2>1. e.flaws \subseteq {"name", "value"}
    BY <1>0, <1>3 DEF Mod!FlawsOf
  <2>2. read = IF e.flaws = {} THEN adds ELSE failed
    BY <1>3, <1>a, <2>1 DEF Mod!ReadDataEntry, Mod!ReadLocalize, Mod!Has
  <2>3. e.cells = <<>> /\ e.kind \in Mod!AssetKinds
    BY <1>0, <1>3 DEF Mod!AssetKinds
  <2> HIDE DEF read, good, adds, failed
  <2> QED BY <1>3, <1>d, <2>2, <2>3 DEF read, good
<1>4. CASE e.kind = "luafile"
  <2>1. e.flaws \subseteq {"name", "path", "hooks", "hooks_post", "file"}
    BY <1>0, <1>4 DEF Mod!FlawsOf
  <2>2. read = IF e.flaws = {} THEN adds ELSE failed
    BY <1>4, <1>a, <2>1 DEF Mod!ReadDataEntry, Mod!ReadLua, Mod!Has
  <2>3. e.cells = <<>> /\ e.kind \in Mod!AssetKinds
    BY <1>0, <1>4 DEF Mod!AssetKinds
  <2> HIDE DEF read, good, adds, failed
  <2> QED BY <1>4, <1>d, <2>2, <2>3 DEF read, good
<1>5. CASE e.kind = "stringtable"
  <2> DEFINE I == {i \in 1..Len(e.cells) : e.cells[i] # "good"}
             wrong == IF I # {} THEN Mod!Min(I) ELSE 0
  <2>1. e.flaws \subseteq {"name", "path", "file", "separator", "column"}
    BY <1>0, <1>5 DEF Mod!FlawsOf
  <2>2. read = CASE e.flaws # {} -> failed
                 [] e.flaws = {} /\ wrong = 0 -> adds
                 [] OTHER -> Mod!Nothing(IF e.cells[wrong] = "invalid" THEN "failed" ELSE "thrown")
    BY <1>5, <1>a, <2>1 DEF Mod!ReadDataEntry, Mod!ReadTable, Mod!Has, Mod!SelectInSeq
  <2>3. e.kind \in Mod!AssetKinds
    BY <1>5 DEF Mod!AssetKinds
  <2>4. DOMAIN e.cells = 1..Len(e.cells)
    BY <1>0, LenProperties
  <2>5. Mod!Good(e) <=> e.flaws = {} /\ I = {}
    BY <2>4 DEF Mod!Good
  <2>6. wrong = 0 <=> I = {}
    <3>1. I \subseteq Nat
      OBVIOUS
    <3>2. I # {} => Mod!Min(I) \in I
      BY <3>1, SmallestOfSet DEF Mod!Min
    <3>3. 0 \notin I
      OBVIOUS
    <3> HIDE DEF I
    <3> QED BY <3>2, <3>3
  <2> HIDE DEF I, wrong, read, failed, adds, good
  <2>7. CASE e.flaws # {}
    <3>1. read = failed /\ ~good
      BY <2>2, <2>5, <2>7 DEF good
    <3> QED BY <1>5, <1>a, <1>c, <3>1 DEF read, good
  <2>8. CASE e.flaws = {} /\ wrong = 0
    <3>1. read = adds /\ good
      BY <2>2, <2>3, <2>5, <2>6, <2>8 DEF good
    <3> QED BY <1>5, <1>a, <1>c, <3>1 DEF read, good
  <2>9. CASE e.flaws = {} /\ wrong # 0
    <3>1. read = Mod!Nothing(IF e.cells[wrong] = "invalid" THEN "failed" ELSE "thrown") /\ ~good
      BY <2>2, <2>5, <2>6, <2>9 DEF good
    <3>2. read = failed \/ read = Mod!Nothing("thrown")
      BY <3>1 DEF failed
    <3> QED BY <1>5, <1>a, <1>c, <3>1, <3>2 DEF read, good
  <2> QED BY <2>7, <2>8, <2>9
<1>6. CASE e.kind = "hashes"
  <2>1. e.flaws \subseteq {"path", "format", "file"}
    BY <1>0, <1>6 DEF Mod!FlawsOf
  <2>2. e.cells = <<>> /\ e.kind \notin Mod!AssetKinds
    BY <1>0, <1>6 DEF Mod!AssetKinds
  <2>3. Mod!Taken(e) <=> \/ HashesEnabled /\ e.flaws = {} /\ e.format # "COMMON"
                         \/ ~HashesEnabled /\ e.flaws \subseteq {"file"}
    BY <1>6, <2>2 DEF Mod!Taken
  <2>4. read = Mod!ReadHashes(e)
    BY <1>6 DEF Mod!ReadDataEntry
  <2>5. CASE e.flaws \cap {"path", "format"} # {}
    <3>1. read = failed
      BY <2>4, <2>5 DEF Mod!ReadHashes, Mod!Has
    <3>2. ~Mod!Taken(e)
      BY <2>3, <2>5
    <3> QED BY <1>a, <2>2, <3>1, <3>2
  <2>6. CASE e.flaws \cap {"path", "format"} = {}
    <3>1. read = Mod!LoadHashes(e) /\ e.flaws \subseteq {"file"}
      BY <2>1, <2>4, <2>6 DEF Mod!ReadHashes, Mod!Has
    <3>2. CASE ~HashesEnabled
      <4>1. read = Mod!Nothing("ok")
        BY <3>1, <3>2 DEF Mod!LoadHashes
      <4> QED BY <1>a, <2>2, <2>3, <3>1, <3>2, <4>1
    <3>3. CASE HashesEnabled /\ "file" \in e.flaws
      <4>1. read = failed
        BY <3>1, <3>3 DEF Mod!LoadHashes, Mod!Has
      <4> QED BY <1>a, <2>2, <2>3, <3>3, <4>1
    <3>4. CASE HashesEnabled /\ "file" \notin e.flaws
      <4>1. read = [Mod!Nothing(IF e.format = "COMMON" THEN "failed" ELSE "ok")
                      EXCEPT !.hashes = e.hashes]
        BY <3>1, <3>4 DEF Mod!LoadHashes, Mod!Has
      <4>2. /\ read.assets = <<>>
            /\ read.result = IF e.format = "COMMON" THEN "failed" ELSE "ok"
        BY <4>1 DEF Mod!Nothing
      <4>3. e.flaws = {}
        BY <3>1, <3>4
      <4> QED BY <2>2, <2>3, <3>4, <4>2, <4>3
    <3> QED BY <1>0, <3>2, <3>3, <3>4
  <2> QED BY <2>5, <2>6
<1>7. CASE e.kind \notin Mod!AssetKinds \cup {"hashes"}
  <2>1. read = failed
    BY <1>7 DEF Mod!ReadDataEntry, Mod!AssetKinds
  <2> QED BY <1>7, <1>a, <1>c, <2>1
<1>8. e.kind \in Mod!AssetKinds => \/ e.kind = "scriptparsetree" \/ e.kind = "rawfile"
                                   \/ e.kind = "localizeentry" \/ e.kind = "luafile"
                                   \/ e.kind = "stringtable"
  BY DEF Mod!AssetKinds
<1> QED BY <1>1, <1>2, <1>3, <1>4, <1>5, <1>6, <1>7, <1>8

(* What an entry of the cache leaves. *)
CacheOf(e) ==
    [name |-> e.name, map |-> Mod!Hooked(e.map), mode |-> Mod!Hooked(e.mode),
     gametype |-> Mod!Hooked(e.gametype)]

(* It is taken as a whole or not at all. *)
LEMMA CacheRead ==
    ASSUME NEW e, Mod!CacheIsWellFormed(e)
    PROVE  Mod!ReadCacheEntry(e) = IF Mod!GoodCache(e) THEN <<CacheOf(e)>> ELSE <<>>
<1>1. ASSUME NEW hook \in {e.map, e.mode, e.gametype}
      PROVE  Mod!Refused(hook)
               <=> ~(hook.form # "other" /\ (hook.form = "one" => hook.values # <<Bad>>))
  <2>1. /\ hook.form \in {"absent", "array", "one", "other"}
        /\ hook.values \in Seq(Mod!ToSet(hook.values))
        /\ hook.form = "one" => Len(hook.values) = 1
    BY DEF Mod!CacheIsWellFormed
  <2>2. CASE hook.form = "one"
    <3>1. Len(hook.values) = 1 /\ DOMAIN hook.values = {1}
      BY <2>1, <2>2, LenProperties
    <3>2. hook.values = <<hook.values[1]>>
      BY <2>1, <3>1
    <3>3. Bad \in Mod!ToSet(hook.values) <=> hook.values[1] = Bad
      BY <3>1 DEF Mod!ToSet
    <3>4. hook.values = <<Bad>> <=> hook.values[1] = Bad
      BY <3>2
    <3> QED BY <2>2, <3>3, <3>4 DEF Mod!Refused
  <2>3. CASE hook.form # "one"
    BY <2>3 DEF Mod!Refused
  <2> QED BY <2>2, <2>3
<1>2. Mod!Has(e, {"type", "name"}) <=> e.flaws # {}
  BY DEF Mod!CacheIsWellFormed, Mod!Has
<1>3. Mod!GoodCache(e) <=> ~Mod!Has(e, {"type", "name"})
                           /\ \A hook \in {e.map, e.mode, e.gametype} : ~Mod!Refused(hook)
  BY <1>1, <1>2, Zenon DEF Mod!GoodCache
<1> QED BY <1>3 DEF Mod!ReadCacheEntry, CacheOf

------------------------------------------------------------------------------
(* What is in the storage after the first n entries of a directory.        *)

(* What the entries of a directory would leave, by their places. *)
AssetList(all) == [i \in DOMAIN all |-> AssetOf(all[i].e)]

CacheList(all) == [i \in DOMAIN all |-> CacheOf(all[i].e)]

Cached(all) == {i \in Mod!Places(all, "cache") : Mod!GoodCache(all[i].e)}

RedirectsOf(all, a) ==
    {i \in Mod!Places(all, "redirect") :
        all[i].e.flaws = {} /\ all[i].e.kind = a[1] /\ all[i].e.origin = a[2]}

(* The last of the redirects that were read is the one that is kept. *)
LastOnes(redirects, all, a, places) ==
    IF places = {} THEN <<a[1], a[2]>> \notin DOMAIN redirects
    ELSE /\ <<a[1], a[2]>> \in DOMAIN redirects
         /\ \E i \in places : /\ \A j \in places : j <= i
                              /\ redirects[<<a[1], a[2]>>] = all[i].e.target

(* The entries that make a load report errors. *)
Fails(x) ==
    \/ x.member = "metadata"
    \/ x.member = "data" /\ ~x.e.ignore /\ ~Mod!Taken(x.e)
    \/ x.member = "cache" /\ ~Mod!GoodCache(x.e)
    \/ x.member = "redirect" /\ x.e.flaws # {}

(* What is in the storage after the first n entries of a directory. *)
Holds(s, all, n) ==
    /\ DOMAIN s = {"assets", "cache", "redirects", "hashes"}
    /\ SelectedFrom(s.assets, AssetList(all), Upto(Mod!Assets(all), n))
    /\ SelectedFrom(s.cache, CacheList(all), Upto(Cached(all), n))
    /\ \A a \in Asked : LastOnes(s.redirects, all, a, Upto(RedirectsOf(all, a), n))

Loaded(s, all, n, err) ==
    /\ Holds(s, all, n)
    /\ err \in BOOLEAN
    /\ err <=> \E i \in 1..n : Fails(all[i])

LEMMA PlacesAreNumbers ==
    ASSUME NEW all, Directory(all)
    PROVE  /\ Mod!Assets(all) \subseteq 1..Len(all) /\ Mod!Assets(all) \subseteq Nat
           /\ Cached(all) \subseteq 1..Len(all) /\ Cached(all) \subseteq Nat
           /\ \A a : RedirectsOf(all, a) \subseteq 1..Len(all) /\ RedirectsOf(all, a) \subseteq Nat
<1>1. DOMAIN all = 1..Len(all) /\ Len(all) \in Nat /\ 1..Len(all) \subseteq Nat
  BY DEF Directory
<1>2. \A m : Mod!Places(all, m) \subseteq DOMAIN all
  BY DEF Mod!Places
<1>3. Mod!Assets(all) \subseteq DOMAIN all /\ Cached(all) \subseteq DOMAIN all
  BY <1>2 DEF Mod!Assets, Cached
<1>4. \A a : RedirectsOf(all, a) \subseteq DOMAIN all
  BY <1>2 DEF RedirectsOf
<1> QED BY <1>1, <1>3, <1>4, Zenon

(* The report counts the entries one by one. *)
LEMMA FailsNext ==
    ASSUME NEW all, NEW n \in Nat, NEW err, err \in BOOLEAN, err <=> \E i \in 1..n : Fails(all[i])
    PROVE  (err \/ Fails(all[n + 1])) <=> \E i \in 1..n + 1 : Fails(all[i])
<1>1. 1..n + 1 = 1..n \cup {n + 1}
  OBVIOUS
<1> QED BY <1>1

(* An entry is an asset, an entry of the cache or a redirect of its own    *)
(* member only.                                                            *)
LEMMA PlacesOfOne ==
    ASSUME NEW all, Directory(all), NEW i \in 1..Len(all)
    PROVE  /\ i \in Mod!Assets(all) <=>
                all[i].member = "data" /\ all[i].e.kind \in Mod!AssetKinds /\ Mod!Good(all[i].e)
           /\ i \in Cached(all) <=> all[i].member = "cache" /\ Mod!GoodCache(all[i].e)
           /\ \A a : i \in RedirectsOf(all, a) <=>
                /\ all[i].member = "redirect" /\ all[i].e.flaws = {}
                /\ all[i].e.kind = a[1] /\ all[i].e.origin = a[2]
<1>1. i \in DOMAIN all
  BY DEF Directory
<1> QED BY <1>1, Zenon DEF Mod!Assets, Cached, RedirectsOf, Mod!Places

(* A redirect that is read is the last one of its name. *)
LEMMA RedirectRead ==
    ASSUME NEW all, Directory(all), NEW n \in Nat, n < Len(all), NEW redirects, NEW a,
           a \in Asked, LastOnes(redirects, all, a, Upto(RedirectsOf(all, a), n)),
           all[n + 1].member = "redirect"
    PROVE  LastOnes(Mod!ReadRedirectEntry(redirects, all[n + 1].e), all, a,
                    Upto(RedirectsOf(all, a), n + 1))
<1> DEFINE e == all[n + 1].e
           key == <<a[1], a[2]>>
           places == RedirectsOf(all, a)
           new == Mod!ReadRedirectEntry(redirects, e)
<1>0. n + 1 \in 1..Len(all) /\ places \subseteq Nat
  BY PlacesAreNumbers DEF Directory
<1>1. n + 1 \in places <=> e.flaws = {} /\ e.kind = a[1] /\ e.origin = a[2]
  BY <1>0, PlacesOfOne
<1>2. Mod!Has(e, {"type", "origin", "target"}) <=> e.flaws # {}
  <2>1. EntryIsWellFormed(all[n + 1])
    BY <1>0 DEF Directory
  <2> QED BY <2>1 DEF EntryIsWellFormed, Mod!Has
<1> HIDE DEF places
<1>3. CASE e.flaws # {}
  <2>1. Upto(places, n + 1) = Upto(places, n)
    BY <1>0, <1>1, <1>3, NotRead
  <2>2. new = redirects
    BY <1>2, <1>3 DEF Mod!ReadRedirectEntry
  <2> QED BY <2>1, <2>2 DEF places
<1>4. CASE e.flaws = {}
  <2>1. new = [k \in DOMAIN redirects \cup {<<e.kind, e.origin>>} |->
                 IF k = <<e.kind, e.origin>> THEN e.target ELSE redirects[k]]
    BY <1>2, <1>4 DEF Mod!ReadRedirectEntry
  <2>2. CASE n + 1 \in places
    <3>1. /\ Upto(places, n + 1) = Upto(places, n) \cup {n + 1}
          /\ \A j \in Upto(places, n) : j < n + 1
      BY <1>0, <2>2, UptoNext
    <3>2. key = <<e.kind, e.origin>>
      BY <1>1, <2>2
    <3>3. key \in DOMAIN new /\ new[key] = all[n + 1].e.target
      BY <2>1, <3>2
    <3>4. n + 1 \in Upto(places, n + 1) /\ \A j \in Upto(places, n + 1) : j <= n + 1
      <4>1. ASSUME NEW j \in Upto(places, n) PROVE j <= n + 1
        BY <1>0, <3>1, <4>1 DEF Upto
      <4> QED BY <3>1, <4>1
    <3> HIDE DEF new, key
    <3>5. LastOnes(new, all, a, Upto(places, n + 1))
      BY <3>3, <3>4 DEF LastOnes, key
    <3> QED BY <3>5 DEF places, new
  <2>3. CASE n + 1 \notin places
    <3>1. Upto(places, n + 1) = Upto(places, n)
      BY <1>0, <2>3, NotRead
    <3>2. key # <<e.kind, e.origin>>
      BY <1>1, <1>4, <2>3
    <3>3. /\ key \in DOMAIN new <=> key \in DOMAIN redirects
          /\ key \in DOMAIN redirects => new[key] = redirects[key]
      BY <2>1, <3>2
    <3>4. LastOnes(redirects, all, a, Upto(places, n))
      BY DEF places
    <3> HIDE DEF new, key
    <3>5. LastOnes(new, all, a, Upto(places, n))
      BY <3>3, <3>4 DEF LastOnes, key
    <3> QED BY <3>1, <3>5 DEF places, new
  <2> QED BY <2>2, <2>3
<1> QED BY <1>3, <1>4

(* One entry more is loaded, unless it throws. *)
LEMMA LoadsOn ==
    ASSUME Mod!ModsAssumption, NEW all, Directory(all), NEW n \in Nat, n < Len(all),
           NEW s, NEW err, Loaded(s, all, n, err),
           NEW read, read = Mod!ReadEntry([Mod!Reading(s) EXCEPT !.err = err], all[n + 1]),
           ~read.thrown
    PROVE  Loaded(read.storage, all, n + 1, read.err)
<1> DEFINE x == all[n + 1]
           r == [Mod!Reading(s) EXCEPT !.err = err]
           new == read.storage
           assets == Mod!Assets(all)
           cached == Cached(all)
<1>0. /\ n + 1 \in 1..Len(all) /\ n + 1 \in DOMAIN all /\ EntryIsWellFormed(x)
      /\ assets \subseteq Nat /\ cached \subseteq Nat /\ \A a : RedirectsOf(all, a) \subseteq Nat
  BY PlacesAreNumbers DEF Directory
<1>1. read = Mod!ReadEntry(r, x)
  OBVIOUS
<1>2. /\ n + 1 \in assets <=>
           x.member = "data" /\ x.e.kind \in Mod!AssetKinds /\ Mod!Good(x.e)
      /\ n + 1 \in cached <=> x.member = "cache" /\ Mod!GoodCache(x.e)
      /\ \A a : n + 1 \in RedirectsOf(all, a) => x.member = "redirect"
  BY <1>0, PlacesOfOne
<1>3. /\ DOMAIN s = {"assets", "cache", "redirects", "hashes"}
      /\ SelectedFrom(s.assets, AssetList(all), Upto(assets, n))
      /\ SelectedFrom(s.cache, CacheList(all), Upto(cached, n))
      /\ \A a \in Asked : LastOnes(s.redirects, all, a, Upto(RedirectsOf(all, a), n))
  BY DEF Loaded, Holds
<1>4. /\ AssetList(all)[n + 1] = AssetOf(x.e) /\ CacheList(all)[n + 1] = CacheOf(x.e)
      /\ s.assets \o <<>> = s.assets /\ s.cache \o <<>> = s.cache
  BY <1>0, <1>3, SelectedIsSeq DEF AssetList, CacheList
<1>5. err \in BOOLEAN /\ ((err \/ Fails(x)) <=> \E i \in 1..n + 1 : Fails(all[i]))
  BY FailsNext DEF Loaded
<1>r. /\ DOMAIN r = {"storage", "err", "thrown"}
      /\ r.storage = s /\ r.err = err /\ r.thrown = FALSE
  BY DEF Mod!Reading
<1> SUFFICES Loaded(new, all, n + 1, read.err)
  OBVIOUS
<1> HIDE DEF assets, cached, new, r
(* What the members have in common. *)
<1>6. ASSUME DOMAIN new = {"assets", "cache", "redirects", "hashes"},
             new.assets = s.assets \o (IF n + 1 \in assets THEN <<AssetOf(x.e)>> ELSE <<>>),
             new.cache = s.cache \o (IF n + 1 \in cached THEN <<CacheOf(x.e)>> ELSE <<>>),
             \A a \in Asked : LastOnes(new.redirects, all, a, Upto(RedirectsOf(all, a), n + 1)),
             read.err = (err \/ Fails(x))
      PROVE  Loaded(new, all, n + 1, read.err)
  <2>1. SelectedFrom(new.assets, AssetList(all), Upto(assets, n + 1))
    BY <1>0, <1>3, <1>4, <1>6, SelectsOn
  <2>2. SelectedFrom(new.cache, CacheList(all), Upto(cached, n + 1))
    BY <1>0, <1>3, <1>4, <1>6, SelectsOn
  <2>3. Holds(new, all, n + 1)
    BY <1>6, <2>1, <2>2, Zenon DEF Holds, assets, cached
  <2>4. read.err \in BOOLEAN /\ (read.err <=> \E i \in 1..n + 1 : Fails(all[i]))
    BY <1>5, <1>6
  <2> QED BY <2>3, <2>4 DEF Loaded
<1>7. ASSUME x.member # "redirect", new.redirects = s.redirects
      PROVE  \A a \in Asked : LastOnes(new.redirects, all, a, Upto(RedirectsOf(all, a), n + 1))
  <2>1. \A a : Upto(RedirectsOf(all, a), n + 1) = Upto(RedirectsOf(all, a), n)
    BY <1>0, <1>2, <1>7, NotRead
  <2> QED BY <1>3, <1>7, <2>1
<1>8. CASE x.member = "data"
  <2> DEFINE e == x.e
             found == Mod!ReadDataEntry(e)
  <2>1. Mod!DataIsWellFormed(e) /\ e.ignore \in BOOLEAN
    BY <1>0, <1>8 DEF EntryIsWellFormed, Mod!DataIsWellFormed
  <2>2. read = Mod!DataMember(r, e)
    BY <1>1, <1>8 DEF Mod!ReadEntry
  <2>3. /\ read.storage = [s EXCEPT !.assets = @ \o found.assets, !.hashes = @ \cup found.hashes]
        /\ read.err = (err \/ (found.result = "failed" /\ ~e.ignore))
        /\ read.thrown = (found.result = "thrown")
    BY <1>r, <2>2 DEF Mod!DataMember
  <2>4. /\ found.assets = IF e.kind \in Mod!AssetKinds /\ Mod!Good(e) THEN <<AssetOf(e)>> ELSE <<>>
        /\ found.result # "thrown" => (found.result = "failed" <=> ~Mod!Taken(e))
    BY <2>1, DataRead
  <2> HIDE DEF found
  <2>5. found.result = "failed" <=> ~Mod!Taken(e)
    BY <2>3, <2>4
  <2>6. (found.result = "failed" /\ ~e.ignore) <=> Fails(x)
    BY <1>8, <2>5 DEF Fails
  <2>7. read.err = (err \/ Fails(x))
    BY <1>5, <2>3, <2>6
  <2>8. /\ DOMAIN new = {"assets", "cache", "redirects", "hashes"}
        /\ new.assets = s.assets \o found.assets
        /\ new.cache = s.cache /\ new.redirects = s.redirects
    BY <1>3, <2>3 DEF new
  <2>9. new.assets = s.assets \o (IF n + 1 \in assets THEN <<AssetOf(x.e)>> ELSE <<>>)
    BY <1>2, <1>8, <2>4, <2>8
  <2>10. new.cache = s.cache \o (IF n + 1 \in cached THEN <<CacheOf(x.e)>> ELSE <<>>)
    BY <1>2, <1>4, <1>8, <2>8
  <2> QED BY <1>6, <1>7, <1>8, <2>7, <2>8, <2>9, <2>10
<1>9. CASE x.member = "cache"
  <2> DEFINE found == Mod!ReadCacheEntry(x.e)
  <2>1. found = IF Mod!GoodCache(x.e) THEN <<CacheOf(x.e)>> ELSE <<>>
    BY <1>0, <1>9, CacheRead DEF EntryIsWellFormed
  <2>2. read = Mod!CacheMember(r, x.e)
    BY <1>1, <1>9 DEF Mod!ReadEntry
  <2>3. /\ read.storage = [s EXCEPT !.cache = @ \o found]
        /\ read.err = (err \/ found = <<>>)
    BY <1>r, <2>2 DEF Mod!CacheMember
  <2> HIDE DEF found
  <2>4. found = <<>> <=> Fails(x)
    BY <1>9, <2>1 DEF Fails
  <2>5. read.err = (err \/ Fails(x))
    BY <1>5, <2>3, <2>4
  <2>6. /\ DOMAIN new = {"assets", "cache", "redirects", "hashes"}
        /\ new.cache = s.cache \o found
        /\ new.assets = s.assets /\ new.redirects = s.redirects
    BY <1>3, <2>3 DEF new
  <2>7. new.cache = s.cache \o (IF n + 1 \in cached THEN <<CacheOf(x.e)>> ELSE <<>>)
    BY <1>2, <1>9, <2>1, <2>6
  <2>8. new.assets = s.assets \o (IF n + 1 \in assets THEN <<AssetOf(x.e)>> ELSE <<>>)
    BY <1>2, <1>4, <1>9, <2>6
  <2> QED BY <1>6, <1>7, <1>9, <2>5, <2>6, <2>7, <2>8
<1>10. CASE x.member = "redirect"
  <2> DEFINE found == Mod!ReadRedirectEntry(s.redirects, x.e)
  <2>1. read = Mod!RedirectMember(r, x.e)
    BY <1>1, <1>10 DEF Mod!ReadEntry
  <2>2. /\ read.storage = [s EXCEPT !.redirects = found]
        /\ read.err = (err \/ Mod!Has(x.e, {"type", "origin", "target"}))
    BY <1>r, <2>1 DEF Mod!RedirectMember
  <2>3. \A a \in Asked : LastOnes(found, all, a, Upto(RedirectsOf(all, a), n + 1))
    BY <1>3, <1>10, RedirectRead
  <2> HIDE DEF found
  <2>4. Mod!Has(x.e, {"type", "origin", "target"}) <=> Fails(x)
    BY <1>0, <1>10 DEF EntryIsWellFormed, Mod!Has, Fails
  <2>5. read.err = (err \/ Fails(x))
    BY <1>5, <2>2, <2>4
  <2>6. /\ DOMAIN new = {"assets", "cache", "redirects", "hashes"}
        /\ new.redirects = found
        /\ new.assets = s.assets /\ new.cache = s.cache
    BY <1>3, <2>2 DEF new
  <2>7. /\ new.assets = s.assets \o (IF n + 1 \in assets THEN <<AssetOf(x.e)>> ELSE <<>>)
        /\ new.cache = s.cache \o (IF n + 1 \in cached THEN <<CacheOf(x.e)>> ELSE <<>>)
    BY <1>2, <1>4, <1>10, <2>6
  <2> QED BY <1>6, <2>3, <2>5, <2>6, <2>7
<1>11. CASE x.member = "metadata"
  <2>1. read = [r EXCEPT !.err = TRUE]
    BY <1>1, <1>11 DEF Mod!ReadEntry
  <2>2. Fails(x)
    BY <1>11 DEF Fails
  <2>3. new = s /\ read.err = (err \/ Fails(x))
    BY <1>5, <1>r, <2>1, <2>2 DEF new
  <2>4. /\ new.assets = s.assets \o (IF n + 1 \in assets THEN <<AssetOf(x.e)>> ELSE <<>>)
        /\ new.cache = s.cache \o (IF n + 1 \in cached THEN <<CacheOf(x.e)>> ELSE <<>>)
    BY <1>2, <1>4, <1>11, <2>3
  <2> QED BY <1>3, <1>6, <1>7, <1>11, <2>3, <2>4
<1> QED BY <1>0, <1>8, <1>9, <1>10, <1>11 DEF EntryIsWellFormed

(* Nothing is loaded at first. *)
LEMMA LoadedNothing ==
    ASSUME NEW s, NEW all, Directory(all)
    PROVE  Loaded(Mod!Clear(s), all, 0, FALSE)
<1> DEFINE c == Mod!Clear(s)
<1>1. c = [assets |-> <<>>, cache |-> <<>>, redirects |-> <<>>, hashes |-> s.hashes]
  BY DEF Mod!Clear, Mod!EmptyStorage
<1>2. /\ Upto(Mod!Assets(all), 0) = {} /\ Upto(Cached(all), 0) = {}
      /\ \A a : Upto(RedirectsOf(all, a), 0) = {}
  <2>1. Len(all) \in Nat
    BY DEF Directory
  <2> QED BY <2>1, PlacesAreNumbers, UptoEnds
<1>3. Holds(c, all, 0)
  <2>1. /\ DOMAIN c = {"assets", "cache", "redirects", "hashes"}
        /\ c.assets = <<>> /\ c.cache = <<>> /\ c.redirects = <<>>
    BY <1>1
  <2> HIDE DEF c
  <2>2. \A a \in Asked : LastOnes(c.redirects, all, a, Upto(RedirectsOf(all, a), 0))
    BY <1>2, <2>1 DEF LastOnes
  <2> QED BY <1>2, <2>1, <2>2, NothingSelected DEF Holds
<1>4. ~ \E i \in 1..0 : Fails(all[i])
  OBVIOUS
<1> QED BY <1>3, <1>4 DEF Loaded

(* The least and the greatest of a set, once it is known. *)
LEMMA LeastAndGreatest ==
    ASSUME NEW S, S \subseteq Nat, NEW x \in S
    PROVE  /\ (\A y \in S : x <= y) => Mod!Min(S) = x
           /\ (\A y \in S : y <= x) => Mod!Max(S) = x
<1>1. ASSUME \A y \in S : x <= y PROVE Mod!Min(S) = x
  <2> DEFINE m == CHOOSE z \in S : \A y \in S : z <= y
  <2>1. m \in S /\ \A y \in S : m <= y
    BY <1>1
  <2>2. Mod!Min(S) = m
    BY DEF Mod!Min
  <2> HIDE DEF m
  <2>3. m <= x /\ x <= m /\ m \in Nat /\ x \in Nat
    BY <1>1, <2>1
  <2> QED BY <2>2, <2>3
<1>2. ASSUME \A y \in S : y <= x PROVE Mod!Max(S) = x
  <2> DEFINE m == CHOOSE z \in S : \A y \in S : z >= y
  <2>1. m \in S /\ \A y \in S : m >= y
    <3>1. \A y \in S : x >= y
      BY <1>2
    <3> QED BY <3>1
  <2>2. Mod!Max(S) = m
    BY DEF Mod!Max
  <2> HIDE DEF m
  <2>3. m >= x /\ m <= x /\ m \in Nat /\ x \in Nat
    BY <1>2, <2>1
  <2> QED BY <2>2, <2>3
<1> QED BY <1>1, <1>2

(* get_xasset finds the first asset, which is that of the first entry. *)
LEMMA AnswerIsOffered ==
    ASSUME NEW all, Directory(all), NEW s, NEW kind, NEW name,
           SelectedFrom(s.assets, AssetList(all), Mod!Assets(all)),
           NEW answer, answer = Mod!GetXAsset(s, kind, name)
    PROVE  {answer[i].entry : i \in DOMAIN answer} = Mod!Offered(all, kind, name)
<1> DEFINE list == s.assets
           places == Mod!Assets(all)
           found == {i \in places : all[i].e.kind = kind /\ Mod!AssetName(all[i].e) = name}
           I == {k \in 1..Len(list) : list[k].kind = kind /\ list[k].name = name}
<1>1. PICK m, at : m \in Nat /\ Orders(at, m, places) /\ list = [k \in 1..m |-> AssetList(all)[at[k]]]
  BY DEF SelectedFrom
<1>2. places \subseteq DOMAIN all /\ places \subseteq Nat
  BY PlacesAreNumbers DEF Directory
<1>3. Len(list) = m /\ DOMAIN list = 1..m
  BY <1>1
<1>4. at \in [1..m -> places]
  BY <1>1 DEF Orders
<1>5. \A k \in 1..m : list[k] = AssetOf(all[at[k]].e)
  BY <1>1, <1>2, <1>4 DEF AssetList
<1>6. \A k \in 1..m : /\ list[k].entry = all[at[k]].e
                      /\ k \in I <=> at[k] \in found
  <2> SUFFICES ASSUME NEW k \in 1..m
               PROVE  list[k].entry = all[at[k]].e /\ (k \in I <=> at[k] \in found)
    OBVIOUS
  <2>1. at[k] \in places /\ list[k] = AssetOf(all[at[k]].e) /\ k \in 1..Len(list)
    BY <1>3, <1>4, <1>5
  <2>2. /\ list[k].entry = all[at[k]].e /\ list[k].kind = all[at[k]].e.kind
        /\ list[k].name = Mod!AssetName(all[at[k]].e)
    BY <2>1 DEF AssetOf
  <2> HIDE DEF list, places
  <2> QED BY <2>1, <2>2
<1>7. \A i \in found : \E k \in I : at[k] = i
  BY <1>1, <1>6 DEF Orders
<1>8. /\ Mod!GetXAsset(s, kind, name)
           = LET i == IF I # {} THEN Mod!Min(I) ELSE 0
             IN IF i = 0 THEN <<>> ELSE <<list[i]>>
      /\ Mod!Offered(all, kind, name) = IF found = {} THEN {} ELSE {all[Mod!Min(found)].e}
  BY DEF Mod!GetXAsset, Mod!SelectInSeq, Mod!Offered
<1>9. I \subseteq 1..m /\ found \subseteq Nat
  BY <1>2, <1>3
<1> HIDE DEF I, found, list, places
<1>10. CASE I = {}
  <2>1. found = {}
    BY <1>7, <1>10
  <2>2. answer = <<>>
    BY <1>8, <1>10
  <2>3. {answer[i].entry : i \in DOMAIN answer} = {}
    BY <2>2
  <2> QED BY <1>8, <2>1, <2>3
<1>11. CASE I # {}
  <2>1. PICK k \in I : \A l \in I : k <= l
    <3>1. I \subseteq Nat
      BY <1>9
    <3> QED BY <1>11, <3>1, SmallestOfSet
  <2>2. Mod!Min(I) = k /\ k \in 1..m /\ k # 0
    <3>1. k \in 1..m /\ k # 0 /\ I \subseteq Nat
      BY <1>9
    <3>2. Mod!Min(I) = k
      BY <2>1, <3>1, LeastAndGreatest
    <3> QED BY <3>1, <3>2
  <2>3. at[k] \in found
    BY <1>6, <2>1, <2>2
  <2>4. ASSUME NEW i \in found PROVE at[k] <= i
    <3>1. PICK l \in I : at[l] = i
      BY <1>7
    <3>2. k = l \/ (k < l /\ l \in 1..m)
      BY <1>9, <2>1, <2>2
    <3>3. k < l => at[k] < at[l]
      BY <1>1, <2>2, <3>2 DEF Orders
    <3>4. at[k] \in Nat /\ at[l] \in Nat
      BY <1>9, <2>3, <3>1
    <3> QED BY <3>1, <3>2, <3>3, <3>4
  <2>5. Mod!Min(found) = at[k]
    BY <1>9, <2>3, <2>4, LeastAndGreatest
  <2>6. answer = <<list[k]>>
    BY <1>8, <1>11, <2>2
  <2>7. {answer[i].entry : i \in DOMAIN answer} = {list[k].entry}
    BY <2>6
  <2>8. Mod!Offered(all, kind, name) = {all[at[k]].e}
    BY <1>8, <2>3, <2>5
  <2> QED BY <1>6, <2>2, <2>7, <2>8
<1> QED BY <1>10, <1>11

(* The redirect that is found is the last of the directory. *)
LEMMA NameIsMeant ==
    ASSUME NEW all, Directory(all), NEW s, NEW a,
           LastOnes(s.redirects, all, a, RedirectsOf(all, a))
    PROVE  Mod!Redirected(s, a[1], a[2]) = Mod!Meant(all, a[1], a[2])
<1> DEFINE places == RedirectsOf(all, a)
           key == <<a[1], a[2]>>
<1>1. /\ Mod!Redirected(s, a[1], a[2])
           = IF key \in DOMAIN s.redirects THEN s.redirects[key] ELSE a[2]
      /\ Mod!Meant(all, a[1], a[2]) = IF places = {} THEN a[2] ELSE all[Mod!Max(places)].e.target
  BY DEF Mod!Redirected, Mod!Meant, RedirectsOf
<1>2. places \subseteq Nat
  BY PlacesAreNumbers
<1>3. LastOnes(s.redirects, all, a, places)
  OBVIOUS
<1> HIDE DEF places
<1>4. CASE places = {}
  BY <1>1, <1>3, <1>4 DEF LastOnes
<1>5. CASE places # {}
  <2>1. PICK i \in places : /\ \A j \in places : j <= i
                            /\ s.redirects[key] = all[i].e.target
    BY <1>3, <1>5 DEF LastOnes
  <2>2. Mod!Max(places) = i
    BY <1>2, <2>1, LeastAndGreatest
  <2>3. key \in DOMAIN s.redirects
    BY <1>3, <1>5 DEF LastOnes
  <2> QED BY <1>1, <1>5, <2>1, <2>2, <2>3
<1> QED BY <1>4, <1>5

(* The names of what was selected. *)
NamesGiven(names, kept, list, all, places) ==
    /\ DOMAIN names = DOMAIN kept
    /\ \A k \in DOMAIN kept, i \in places : kept[k] = list[i] => names[k] = all[i].e.name

LEMMA SelectionLists ==
    ASSUME NEW all, NEW list, NEW places, NEW kept, SelectedFrom(kept, list, places),
           NEW names, NamesGiven(names, kept, list, all, places)
    PROVE  Mod!Lists(names, all, places)
<1>1. PICK m, at : m \in Nat /\ Orders(at, m, places) /\ kept = [k \in 1..m |-> list[at[k]]]
  BY DEF SelectedFrom
<1>2. DOMAIN names = 1..m /\ DOMAIN kept = 1..m
  BY <1>1 DEF NamesGiven
<1>3. at \in [DOMAIN names -> places]
  BY <1>1, <1>2 DEF Orders
<1>4. \A k \in DOMAIN names : names[k] = all[at[k]].e.name
  BY <1>1, <1>2, <1>3 DEF NamesGiven
<1>5. \A k, l \in DOMAIN names : k < l => at[k] < at[l]
  BY <1>1, <1>2 DEF Orders
<1>6. \A i \in places : \E k \in DOMAIN names : at[k] = i
  BY <1>1, <1>2 DEF Orders
<1> QED BY <1>3, <1>4, <1>5, <1>6 DEF Mod!Lists

(* What is kept of a list that was itself selected. *)
LEMMA KeptOfSelection ==
    ASSUME NEW full, NEW places, places \subseteq Nat, NEW mid, SelectedFrom(mid, full, places),
           NEW V, NEW some, Among(some, mid, DOMAIN mid, V),
           NEW wanted, Among(wanted, full, places, V)
    PROVE  SelectedFrom(Mod!Kept(mid, some), full, wanted)
<1>1. Len(mid) \in Nat /\ DOMAIN mid = 1..Len(mid)
  BY SelectedIsSeq
<1>2. some \subseteq 1..Len(mid)
  BY <1>1 DEF Among
<1>3. SelectedFrom(Mod!Kept(mid, some), mid, some)
  BY <1>1, <1>2, KeptInOrder
<1> QED BY <1>3, SelectedTwice, Zenon

(* The cache of a match. *)
LEMMA CacheServed ==
    ASSUME NEW all, Directory(all), NEW s,
           SelectedFrom(s.cache, CacheList(all), Cached(all)),
           NEW map, NEW mode, NEW gametype, Bad \notin {map, mode, gametype},
           NEW list, list = Mod!CustomCache(s, map, mode, gametype),
           NEW wanted,
           wanted = {i \in Mod!Places(all, "cache") :
                       /\ Mod!GoodCache(all[i].e)
                       /\ \/ map \in Mod!ToSet(all[i].e.map.values)
                          \/ mode \in Mod!ToSet(all[i].e.mode.values)
                          \/ gametype \in Mod!ToSet(all[i].e.gametype.values)}
    PROVE  Mod!Lists([k \in DOMAIN list |-> list[k].name], all, wanted)
<1> DEFINE For(c) == mode \in c.mode \/ map \in c.map \/ gametype \in c.gametype
           cached == Cached(all)
           full == CacheList(all)
           V == {c \in {full[i] : i \in cached} : For(c)}
           some == {k \in DOMAIN s.cache : For(s.cache[k])}
           names == [k \in DOMAIN list |-> list[k].name]
<1>1. list = Mod!Kept(s.cache, some)
  BY DEF Mod!CustomCache
<1>5. cached \subseteq DOMAIN all /\ cached \subseteq Nat
  BY PlacesAreNumbers DEF Directory
<1>6. \A k \in DOMAIN s.cache : \E i \in cached : s.cache[k] = full[i]
  <2> HIDE DEF full, cached
  <2>1. PICK m, at : m \in Nat /\ Orders(at, m, cached) /\ s.cache = [k \in 1..m |-> full[at[k]]]
    BY DEF SelectedFrom, full, cached
  <2>2. at \in [1..m -> cached]
    BY <2>1 DEF Orders
  <2> QED BY <2>1, <2>2
<1>7. Among(some, s.cache, DOMAIN s.cache, V)
  <2> HIDE DEF For, full, cached
  <2> QED BY <1>6 DEF Among
<1>9. ASSUME NEW i \in cached
      PROVE  full[i] = CacheOf(all[i].e) /\ full[i].name = all[i].e.name
  BY <1>5 DEF CacheList, CacheOf
<1>10. ASSUME NEW i \in cached
       PROVE  For(full[i]) <=> \/ map \in Mod!ToSet(all[i].e.map.values)
                               \/ mode \in Mod!ToSet(all[i].e.mode.values)
                               \/ gametype \in Mod!ToSet(all[i].e.gametype.values)
  <2>1. /\ full[i].map = Mod!Hooked(all[i].e.map) /\ full[i].mode = Mod!Hooked(all[i].e.mode)
        /\ full[i].gametype = Mod!Hooked(all[i].e.gametype)
    <3>1. full[i] = CacheOf(all[i].e)
      BY <1>9
    <3> HIDE DEF full, cached
    <3> QED BY <3>1 DEF CacheOf
  <2> HIDE DEF full, cached
  <2> QED BY <2>1 DEF Mod!Hooked
<1>11. Among(wanted, full, cached, V)
  <2>1. \A i : i \in cached <=> i \in Mod!Places(all, "cache") /\ Mod!GoodCache(all[i].e)
    BY DEF Cached
  <2>2. \A i \in cached : full[i] \in V <=> For(full[i])
    <3> HIDE DEF For, full, cached
    <3> QED OBVIOUS
  <2> HIDE DEF For, full, cached, V
  <2>3. \A i : i \in {j \in cached : full[j] \in V} <=> i \in wanted
    BY <1>10, <2>1, <2>2, Zenon
  <2> QED BY <2>3, Zenon DEF Among
<1>12. NamesGiven(names, list, full, all, wanted)
  <2>1. \A i \in wanted : i \in cached
    BY DEF Cached
  <2> HIDE DEF full, cached
  <2> QED BY <1>9, <2>1 DEF NamesGiven
<1>13. SelectedFrom(list, full, wanted)
  <2> HIDE DEF V, some, full, cached
  <2>1. SelectedFrom(s.cache, full, cached) /\ cached \subseteq Nat
    BY <1>5 DEF full, cached
  <2>2. SelectedFrom(Mod!Kept(s.cache, some), full, wanted)
    BY <1>7, <1>11, <2>1, KeptOfSelection
  <2> QED BY <1>1, <2>2
<1> HIDE DEF full, V, cached, names
<1>14. Mod!Lists(names, all, wanted)
  BY <1>12, <1>13, SelectionLists
<1> QED BY <1>14 DEF names

(* The files that are hooked around a lua file, by the set of their assets. *)
EntryNames(names, kept) == names = [i \in DOMAIN kept |-> kept[i].entry.name]

LEMMA LuaServed ==
    ASSUME NEW all, Directory(all), NEW s,
           SelectedFrom(s.assets, AssetList(all), Mod!Assets(all)),
           NEW V, NEW some, Among(some, s.assets, DOMAIN s.assets, V),
           NEW wanted, Among(wanted, AssetList(all), Mod!Assets(all), V),
           NEW kept, kept = Mod!Kept(s.assets, some), NEW names, EntryNames(names, kept)
    PROVE  Mod!Lists(names, all, wanted) /\ DOMAIN names = 1..Len(kept) /\ Len(kept) \in Nat
<1> DEFINE full == AssetList(all)
           places == Mod!Assets(all)
<1>3. places \subseteq DOMAIN all /\ places \subseteq Nat
  BY PlacesAreNumbers DEF Directory
<1>4. SelectedFrom(kept, full, wanted)
  BY <1>3, KeptOfSelection
<1>5. \A i \in places : full[i].entry.name = all[i].e.name
  BY <1>3 DEF AssetList, AssetOf
<1>6. Len(kept) \in Nat /\ DOMAIN kept = 1..Len(kept) /\ DOMAIN names = DOMAIN kept
  BY <1>4, SelectedIsSeq DEF EntryNames
<1>7. wanted \subseteq places
  BY DEF Among
<1> HIDE DEF full, places
<1>8. NamesGiven(names, kept, full, all, wanted)
  BY <1>5, <1>6, <1>7 DEF EntryNames, NamesGiven
<1>9. Mod!Lists(names, all, wanted)
  BY <1>4, <1>8, SelectionLists
<1> QED BY <1>6, <1>9

(* The lua file with the files before and after it. *)
LoadedAround(list, file, all, lua) ==
    \E k \in DOMAIN list :
        /\ list[k] = file
        /\ Mod!Lists(SubSeq(list, 1, k - 1), all, {i \in lua : file \in all[i].e.pre})
        /\ Mod!Lists(SubSeq(list, k + 1, Len(list)), all, {i \in lua : file \in all[i].e.post})

LEMMA LuaAround ==
    ASSUME NEW all, Directory(all), NEW s,
           SelectedFrom(s.assets, AssetList(all), Mod!Assets(all)),
           NEW file, NEW list, list = Mod!LuaLoaded(s, file),
           NEW lua, lua = {i \in Mod!Assets(all) : all[i].e.kind = "luafile"}
    PROVE  LoadedAround(list, file, all, lua)
<1> DEFINE places == Mod!Assets(all)
           base == {AssetOf(all[i].e) : i \in places}
           VB == {a \in base : a.kind = "luafile" /\ file \in a.entry.pre}
           VA == {a \in base : a.kind = "luafile" /\ file \in a.entry.post}
           before == {k \in DOMAIN s.assets : s.assets[k] \in VB}
           after == {k \in DOMAIN s.assets : s.assets[k] \in VA}
           keptB == Mod!Kept(s.assets, before)
           keptA == Mod!Kept(s.assets, after)
           namesB == [i \in DOMAIN keptB |-> keptB[i].entry.name]
           namesA == [i \in DOMAIN keptA |-> keptA[i].entry.name]
<1>1. \A k \in DOMAIN s.assets : s.assets[k] \in base
  <2>1. PICK m, at : /\ m \in Nat /\ Orders(at, m, places)
                     /\ s.assets = [k \in 1..m |-> AssetList(all)[at[k]]]
    BY DEF SelectedFrom
  <2>2. at \in [1..m -> places] /\ places \subseteq DOMAIN all
    BY <2>1, PlacesAreNumbers DEF Orders, Directory
  <2>3. \A i \in places : AssetList(all)[i] = AssetOf(all[i].e)
    BY <2>2 DEF AssetList
  <2> HIDE DEF places
  <2> QED BY <2>1, <2>2, <2>3
<1>2. list = namesB \o <<file>> \o namesA
  <2> DEFINE all2 == {k \in DOMAIN s.assets : s.assets[k].kind = "luafile"}
  <2> HIDE DEF base
  <2>1. before = {k \in all2 : file \in s.assets[k].entry.pre}
    BY <1>1
  <2>2. after = {k \in all2 : file \in s.assets[k].entry.post}
    BY <1>1
  <2> HIDE DEF before, after
  <2> QED BY <2>1, <2>2 DEF Mod!LuaLoaded
<1> DEFINE wantedB == {i \in lua : file \in all[i].e.pre}
           wantedA == {i \in lua : file \in all[i].e.post}
<1>3. Among(wantedB, AssetList(all), places, VB) /\ Among(wantedA, AssetList(all), places, VA)
  <2>1. places \subseteq DOMAIN all
    BY PlacesAreNumbers DEF Directory
  <2>2. \A i \in places : /\ AssetList(all)[i] \in base /\ AssetList(all)[i].entry = all[i].e
                          /\ AssetList(all)[i].kind = all[i].e.kind
    BY <2>1 DEF AssetList, AssetOf
  <2>3. \A i \in places : /\ i \in wantedB <=> AssetList(all)[i] \in VB
                          /\ i \in wantedA <=> AssetList(all)[i] \in VA
    <3> HIDE DEF base
    <3>1. lua = {i \in places : all[i].e.kind = "luafile"}
      OBVIOUS
    <3> HIDE DEF places
    <3> QED BY <2>2, <3>1
  <2>4. wantedB \subseteq places /\ wantedA \subseteq places
    OBVIOUS
  <2> HIDE DEF VB, VA, wantedB, wantedA, places
  <2> QED BY <2>3, <2>4 DEF Among
<1>4. /\ Among(before, s.assets, DOMAIN s.assets, VB) /\ Among(after, s.assets, DOMAIN s.assets, VA)
      /\ EntryNames(namesB, keptB) /\ EntryNames(namesA, keptA)
  BY DEF Among, EntryNames
<1> HIDE DEF VB, VA, before, after, wantedB, wantedA, namesB, namesA
<1>5. Mod!Lists(namesB, all, wantedB) /\ DOMAIN namesB = 1..Len(keptB) /\ Len(keptB) \in Nat
  BY <1>3, <1>4, LuaServed
<1>6. Mod!Lists(namesA, all, wantedA) /\ DOMAIN namesA = 1..Len(keptA) /\ Len(keptA) \in Nat
  BY <1>3, <1>4, LuaServed
<1> DEFINE S == {keptB[i].entry.name : i \in DOMAIN keptB}
                  \cup {keptA[i].entry.name : i \in DOMAIN keptA} \cup {file}
<1> HIDE DEF S, keptB, keptA
<1>7. namesB \in Seq(S) /\ namesA \in Seq(S) /\ file \in S
  <2>1. /\ namesB = [i \in DOMAIN keptB |-> keptB[i].entry.name]
        /\ namesA = [i \in DOMAIN keptA |-> keptA[i].entry.name]
    BY <1>4 DEF EntryNames
  <2>2. DOMAIN keptB = 1..Len(keptB) /\ DOMAIN keptA = 1..Len(keptA)
    BY <1>5, <1>6, <2>1
  <2>3. /\ \A i \in 1..Len(keptB) : keptB[i].entry.name \in S
        /\ \A i \in 1..Len(keptA) : keptA[i].entry.name \in S
        /\ file \in S
    BY <2>2 DEF S
  <2> QED BY <1>5, <1>6, <2>1, <2>2, <2>3
<1>8. LET k == Len(namesB) + 1
      IN /\ k \in DOMAIN list /\ list[k] = file
         /\ SubSeq(list, 1, k - 1) = namesB /\ SubSeq(list, k + 1, Len(list)) = namesA
  BY <1>2, <1>7, Around
<1> QED BY <1>5, <1>6, <1>8 DEF LoadedAround, wantedB, wantedA

(* The storage has all of a directory. *)
Whole(s, all) ==
    /\ SelectedFrom(s.assets, AssetList(all), Mod!Assets(all))
    /\ SelectedFrom(s.cache, CacheList(all), Cached(all))
    /\ \A a \in Asked : LastOnes(s.redirects, all, a, RedirectsOf(all, a))

LEMMA LoadedWhole ==
    ASSUME NEW all, Directory(all), NEW s, NEW err, Loaded(s, all, Len(all), err)
    PROVE  Whole(s, all)
<1>1. Len(all) \in Nat
  BY DEF Directory
<1>2. /\ Upto(Mod!Assets(all), Len(all)) = Mod!Assets(all)
      /\ Upto(Cached(all), Len(all)) = Cached(all)
      /\ \A a : Upto(RedirectsOf(all, a), Len(all)) = RedirectsOf(all, a)
  BY <1>1, PlacesAreNumbers, UptoEnds
<1>3. Holds(s, all, Len(all))
  BY DEF Loaded
<1>4. /\ SelectedFrom(s.assets, AssetList(all), Upto(Mod!Assets(all), Len(all)))
      /\ SelectedFrom(s.cache, CacheList(all), Upto(Cached(all), Len(all)))
      /\ \A a \in Asked : LastOnes(s.redirects, all, a, Upto(RedirectsOf(all, a), Len(all)))
  BY <1>3, Zenon DEF Holds
<1> QED BY <1>2, <1>4 DEF Whole

(* The loader: what is loaded so far, and what the last load has left. *)
LoaderInv ==
    /\ disk \in Disks /\ loads \in Nat
    /\ DOMAIN loader = {"pc", "all", "at", "err"}
    /\ loader.pc \in {"start", "loading", "idle", "thrown"}
    /\ loads > 0 => loader.pc # "start"
    /\ loader.pc # "start" => Directory(loader.all)
    /\ loader.pc = "loading" => /\ loader.at \in 0..Len(loader.all)
                                /\ Loaded(storage, loader.all, loader.at, loader.err)
    /\ loader.pc # "idle" => basis = Absent
    /\ loader.pc = "idle" =>
         /\ basis = loader.all /\ Whole(storage, loader.all)
         /\ report = "errors" <=> \E i \in 1..Len(loader.all) : Fails(loader.all[i])

(* A lookup of one thread: until it is answered, the name is that of the   *)
(* storage unless a load began.                                            *)
LookupInv(t) ==
    /\ DOMAIN lookup[t] = {"pc", "asked", "name", "torn", "answer", "of"}
    /\ lookup[t].torn \in BOOLEAN
    /\ lookup[t].pc = "redirected" =>
         /\ loader.pc # "start" /\ lookup[t].asked \in Asked
         /\ ~lookup[t].torn =>
              /\ loader.pc = "idle"
              /\ lookup[t].name
                   = Mod!Redirected(storage, lookup[t].asked[1], lookup[t].asked[2])
    /\ lookup[t].pc = "done" =>
         IF lookup[t].of = Absent THEN loader.pc = "thrown" ELSE Mod!AnsweredFrom(lookup[t])

(* What was served stays as it was, so it is part of the invariant itself. *)
ModsInv ==
    /\ LoaderInv
    /\ DOMAIN lookup = Players /\ \A t \in Players : LookupInv(t)
    /\ Mod!CacheIsWhole /\ Mod!LuaIsWhole

LEMMA ModsInit ==
    ASSUME Mod!ModsAssumption, Mod!Init PROVE ModsInv
<1>1. /\ disk \in Disks /\ loads = 0 /\ basis = Absent /\ served = Absent
      /\ loader = [pc |-> "start", all |-> <<>>, at |-> 0, err |-> FALSE]
      /\ lookup = [t \in Players |-> Mod!Idle]
  BY DEF Mod!Init
<1>2. LoaderInv
  BY <1>1 DEF LoaderInv
<1>3. ASSUME NEW t \in Players PROVE LookupInv(t)
  <2>1. lookup[t] = [pc |-> "idle", asked |-> Absent, name |-> Absent, torn |-> FALSE,
                     answer |-> <<>>, of |-> Absent]
    BY <1>1 DEF Mod!Idle
  <2> QED BY <2>1 DEF LookupInv
<1>4. Mod!CacheIsWhole /\ Mod!LuaIsWhole
  BY <1>1 DEF Mod!CacheIsWhole, Mod!LuaIsWhole
<1> QED BY <1>1, <1>2, <1>3, <1>4 DEF ModsInv

(* A lookup that is left alone stays right as long as the step of the      *)
(* loader does not reach it.                                               *)
LEMMA LookupStays ==
    ASSUME NEW t, LookupInv(t), lookup'[t] = lookup[t],
           loader.pc # "start" => loader'.pc # "start",
           loader.pc = "thrown" => loader'.pc = "thrown",
           loader.pc = "idle" => loader'.pc = "idle" /\ storage' = storage
    PROVE  LookupInv(t)'
  BY DEF LookupInv, Mod!AnsweredFrom

LEMMA ServedStays ==
    ASSUME Mod!CacheIsWhole, Mod!LuaIsWhole, UNCHANGED served
    PROVE  Mod!CacheIsWhole' /\ Mod!LuaIsWhole'
  BY DEF Mod!CacheIsWhole, Mod!LuaIsWhole

LEMMA BeginStep ==
    ASSUME Mod!ModsAssumption, ModsInv, Mod!LoadBegin PROVE ModsInv'
<1>1. /\ loader.pc = "start" \/ loader.pc = "idle"
      /\ loads' = loads + 1 /\ storage' = Mod!Clear(storage)
      /\ loader' = [pc |-> "loading", all |-> Mod!Entries(disk), at |-> 0, err |-> FALSE]
      /\ basis' = Absent
      /\ lookup' = [t \in Players |->
                      [lookup[t] EXCEPT !.torn = @ \/ lookup[t].pc = "redirected"]]
      /\ UNCHANGED <<disk, level, report, served>>
  BY DEF Mod!LoadBegin
<1>2. Directory(Mod!Entries(disk))
  BY EntriesAreWellFormed DEF ModsInv, LoaderInv
<1>3. Loaded(storage', Mod!Entries(disk), 0, FALSE) /\ 0 \in 0..Len(Mod!Entries(disk))
  <2>1. Loaded(Mod!Clear(storage), Mod!Entries(disk), 0, FALSE)
    BY <1>2, LoadedNothing
  <2>2. 0 \in 0..Len(Mod!Entries(disk))
    BY <1>2 DEF Directory
  <2> QED BY <1>1, <2>1, <2>2
<1>4. LoaderInv'
  <2>1. disk' \in Disks /\ loads' \in Nat /\ basis' = Absent
    BY <1>1 DEF ModsInv, LoaderInv
  <2>2. /\ DOMAIN loader' = {"pc", "all", "at", "err"} /\ loader'.pc = "loading"
        /\ loader'.all = Mod!Entries(disk) /\ loader'.at = 0 /\ loader'.err = FALSE
    BY <1>1
  <2>3. Directory(loader'.all) /\ loader'.at \in 0..Len(loader'.all)
    BY <1>2, <1>3, <2>2
  <2>4. Loaded(storage', loader'.all, loader'.at, loader'.err)
    BY <1>3, <2>2
  <2> QED BY <2>1, <2>2, <2>3, <2>4 DEF LoaderInv
<1>5. ASSUME NEW t \in Players PROVE LookupInv(t)'
  <2>1. lookup'[t] = [lookup[t] EXCEPT !.torn = lookup[t].torn \/ lookup[t].pc = "redirected"]
    BY <1>1
  <2>2. LookupInv(t)
    BY DEF ModsInv
  <2>3. /\ DOMAIN lookup'[t] = {"pc", "asked", "name", "torn", "answer", "of"}
        /\ lookup'[t].pc = lookup[t].pc /\ lookup'[t].asked = lookup[t].asked
        /\ lookup'[t].torn = (lookup[t].torn \/ lookup[t].pc = "redirected")
        /\ lookup'[t].of = lookup[t].of
    BY <2>1, <2>2 DEF LookupInv
  <2>4. lookup[t].pc = "done" => /\ lookup'[t].torn = lookup[t].torn
                                 /\ lookup'[t].answer = lookup[t].answer
                                 /\ lookup'[t].name = lookup[t].name
                                 /\ loader.pc # "thrown"
    BY <1>1, <2>1, <2>2 DEF LookupInv
  <2>5. lookup[t].pc = "done" => /\ lookup[t].of # Absent
                                 /\ Mod!AnsweredFrom(lookup[t])
    BY <2>2, <2>4 DEF LookupInv
  <2>6. lookup[t].pc = "done" => Mod!AnsweredFrom(lookup'[t])
    BY <2>3, <2>4, <2>5 DEF Mod!AnsweredFrom
  <2>7. loader'.pc = "loading"
    BY <1>1
  <2> QED BY <2>2, <2>3, <2>5, <2>6, <2>7 DEF LookupInv
<1>6. DOMAIN lookup' = Players
  BY <1>1
<1>7. Mod!CacheIsWhole' /\ Mod!LuaIsWhole'
  BY <1>1, ServedStays DEF ModsInv
<1> QED BY <1>4, <1>5, <1>6, <1>7 DEF ModsInv

LEMMA OneStep ==
    ASSUME Mod!ModsAssumption, ModsInv, Mod!LoadOne PROVE ModsInv'
<1> DEFINE read == Mod!ReadEntry([Mod!Reading(storage) EXCEPT !.err = loader.err],
                                 loader.all[loader.at + 1])
<1>1. /\ loader.pc = "loading" /\ loader.at < Len(loader.all)
      /\ storage' = read.storage
      /\ loader' = IF read.thrown THEN [loader EXCEPT !.pc = "thrown"]
                   ELSE [loader EXCEPT !.at = @ + 1, !.err = read.err]
      /\ UNCHANGED <<disk, loads, basis, level, report, served, lookup>>
  BY DEF Mod!LoadOne
<1>2. /\ Directory(loader.all) /\ loader.at \in 0..Len(loader.all) /\ Len(loader.all) \in Nat
      /\ Loaded(storage, loader.all, loader.at, loader.err) /\ basis = Absent
      /\ DOMAIN loader = {"pc", "all", "at", "err"}
  BY <1>1 DEF ModsInv, LoaderInv, Directory
<1>3. ~read.thrown => Loaded(read.storage, loader.all, loader.at + 1, read.err)
  <2>1. loader.at \in Nat
    BY <1>2
  <2> HIDE DEF read
  <2>2. read = Mod!ReadEntry([Mod!Reading(storage) EXCEPT !.err = loader.err],
                             loader.all[loader.at + 1])
    BY DEF read
  <2> QED BY <1>1, <1>2, <2>1, <2>2, LoadsOn
<1> HIDE DEF read
<1>4. /\ DOMAIN loader' = {"pc", "all", "at", "err"} /\ loader'.all = loader.all
      /\ read.thrown => loader'.pc = "thrown"
      /\ ~read.thrown => /\ loader'.pc = "loading" /\ loader'.at = loader.at + 1
                         /\ loader'.err = read.err
  BY <1>1, <1>2
<1>5. LoaderInv'
  <2>1. ~read.thrown => /\ loader'.at \in 0..Len(loader'.all)
                        /\ Loaded(storage', loader'.all, loader'.at, loader'.err)
    BY <1>1, <1>2, <1>3, <1>4
  <2> QED BY <1>1, <1>2, <1>4, <2>1 DEF ModsInv, LoaderInv
<1>6. ASSUME NEW t \in Players PROVE LookupInv(t)'
  <2>1. loader'.pc \in {"loading", "thrown"} /\ loader.pc = "loading" /\ lookup'[t] = lookup[t]
    BY <1>1, <1>4
  <2> QED BY <2>1, LookupStays DEF ModsInv
<1>7. Mod!CacheIsWhole' /\ Mod!LuaIsWhole'
  BY <1>1, ServedStays DEF ModsInv
<1> QED BY <1>1, <1>5, <1>6, <1>7 DEF ModsInv

LEMMA EndStep ==
    ASSUME Mod!ModsAssumption, ModsInv, Mod!LoadEnd PROVE ModsInv'
<1>1. /\ loader.pc = "loading" /\ loader.at = Len(loader.all)
      /\ loader' = [loader EXCEPT !.pc = "idle"]
      /\ basis' = loader.all
      /\ report' = IF loader.err THEN "errors" ELSE "reloaded"
      /\ UNCHANGED <<disk, storage, loads, level, served, lookup>>
  BY DEF Mod!LoadEnd
<1>2. /\ Directory(loader.all) /\ Loaded(storage, loader.all, Len(loader.all), loader.err)
      /\ DOMAIN loader = {"pc", "all", "at", "err"}
  BY <1>1 DEF ModsInv, LoaderInv
<1>3. /\ DOMAIN loader' = {"pc", "all", "at", "err"} /\ loader'.all = loader.all
      /\ loader'.pc = "idle"
  BY <1>1, <1>2
<1>4. Whole(storage, loader.all)
  BY <1>2, LoadedWhole
<1>5. report' = "errors" <=> \E i \in 1..Len(loader.all) : Fails(loader.all[i])
  <2>1. loader.err \in BOOLEAN /\ (loader.err <=> \E i \in 1..Len(loader.all) : Fails(loader.all[i]))
    BY <1>2 DEF Loaded
  <2>2. report' = "errors" <=> loader.err
    BY <1>1, <2>1
  <2> QED BY <2>1, <2>2
<1>6. LoaderInv'
  <2>1. Whole(storage', loader'.all)
    BY <1>1, <1>3, <1>4
  <2>2. report' = "errors" <=> \E i \in 1..Len(loader'.all) : Fails(loader'.all[i])
    BY <1>3, <1>5
  <2> QED BY <1>1, <1>2, <1>3, <2>1, <2>2 DEF ModsInv, LoaderInv
<1>7. ASSUME NEW t \in Players PROVE LookupInv(t)'
  BY <1>1, <1>3, LookupStays DEF ModsInv
<1>8. Mod!CacheIsWhole' /\ Mod!LuaIsWhole'
  BY <1>1, ServedStays DEF ModsInv
<1> QED BY <1>1, <1>6, <1>7, <1>8 DEF ModsInv

LEMMA SyncStep ==
    ASSUME Mod!ModsAssumption, ModsInv, Mod!BgCacheSync PROVE ModsInv'
<1>1. /\ loader.pc = "idle"
      /\ UNCHANGED <<disk, storage, loader, loads, basis, level, report, lookup>>
  BY DEF Mod!BgCacheSync
<1>2. PICK m \in Matches, dvars \in BOOLEAN :
        served' = [what |-> IF dvars THEN "cache" ELSE "nothing", key |-> m, of |-> basis,
                   list |-> IF dvars THEN Mod!CustomCache(storage, m[1], m[2], m[3]) ELSE <<>>]
  BY DEF Mod!BgCacheSync
<1>3. LoaderInv'
  BY <1>1 DEF ModsInv, LoaderInv, Whole
<1>4. DOMAIN lookup' = Players /\ \A t \in Players : LookupInv(t)'
  BY <1>1, LookupStays DEF ModsInv
<1>5. Mod!LuaIsWhole'
  <2>1. served'.what # "lua"
    BY <1>2
  <2> QED BY <2>1 DEF Mod!LuaIsWhole
<1>6. Mod!CacheIsWhole'
  <2>1. CASE dvars = FALSE
    <3>1. served'.what # "cache"
      BY <1>2, <2>1
    <3> QED BY <3>1 DEF Mod!CacheIsWhole
  <2>2. CASE dvars = TRUE
    <3>1. /\ served'.key = m /\ served'.of = loader.all
          /\ served'.list = Mod!CustomCache(storage, m[1], m[2], m[3])
      BY <1>1, <1>2, <2>2 DEF ModsInv, LoaderInv
    <3>2. /\ Directory(loader.all)
          /\ SelectedFrom(storage.cache, CacheList(loader.all), Cached(loader.all))
      BY <1>1 DEF ModsInv, LoaderInv, Whole
    <3>3. Bad \notin {m[1], m[2], m[3]}
      BY DEF Mod!ModsAssumption
    <3> DEFINE For(e) == /\ Mod!GoodCache(e)
                         /\ \/ m[1] \in Mod!ToSet(e.map.values)
                            \/ m[2] \in Mod!ToSet(e.mode.values)
                            \/ m[3] \in Mod!ToSet(e.gametype.values)
               list == Mod!CustomCache(storage, m[1], m[2], m[3])
    <3>4. Mod!Lists([k \in DOMAIN list |-> list[k].name], loader.all,
                    {i \in Mod!Places(loader.all, "cache") : For(loader.all[i].e)})
      BY <3>2, <3>3, CacheServed
    <3> HIDE DEF list
    <3>5. served'.list = list
      BY <3>1 DEF list
    <3> QED BY <3>1, <3>4, <3>5, Zenon DEF Mod!CacheIsWhole
  <2> QED BY <2>1, <2>2
<1> QED BY <1>3, <1>4, <1>5, <1>6 DEF ModsInv

LEMMA LuaStep ==
    ASSUME Mod!ModsAssumption, ModsInv, Mod!LoadLua PROVE ModsInv'
<1>1. /\ loader.pc = "idle"
      /\ UNCHANGED <<disk, storage, loader, loads, basis, level, report, lookup>>
  BY DEF Mod!LoadLua
<1>2. PICK file \in LuaFiles :
        served' = [what |-> "lua", key |-> file, of |-> basis,
                   list |-> Mod!LuaLoaded(storage, file)]
  BY DEF Mod!LoadLua
<1>3. LoaderInv'
  BY <1>1 DEF ModsInv, LoaderInv, Whole
<1>4. DOMAIN lookup' = Players /\ \A t \in Players : LookupInv(t)'
  BY <1>1, LookupStays DEF ModsInv
<1>5. Mod!CacheIsWhole'
  <2>1. served'.what # "cache"
    BY <1>2
  <2> QED BY <2>1 DEF Mod!CacheIsWhole
<1>6. Mod!LuaIsWhole'
  <2> DEFINE list == Mod!LuaLoaded(storage, file)
             all == loader.all
             lua == {i \in Mod!Assets(all) : all[i].e.kind = "luafile"}
  <2>1. served'.key = file /\ served'.of = all /\ served'.list = list
    BY <1>1, <1>2 DEF ModsInv, LoaderInv
  <2>2. Directory(all) /\ SelectedFrom(storage.assets, AssetList(all), Mod!Assets(all))
    BY <1>1 DEF ModsInv, LoaderInv, Whole
  <2>3. LoadedAround(list, file, all, lua)
    <3> HIDE DEF list, all, lua
    <3>1. list = Mod!LuaLoaded(storage, file)
      BY DEF list
    <3>2. lua = {i \in Mod!Assets(all) : all[i].e.kind = "luafile"}
      BY DEF lua
    <3>3. Directory(all)
      BY <2>2
    <3>4. SelectedFrom(storage.assets, AssetList(all), Mod!Assets(all))
      BY <2>2
    <3> QED BY <3>1, <3>2, <3>3, <3>4, LuaAround
  <2> HIDE DEF list
  <2> QED BY <2>1, <2>3, Zenon DEF LoadedAround, Mod!LuaIsWhole
<1> QED BY <1>3, <1>4, <1>5, <1>6 DEF ModsInv

LEMMA LookupStep ==
    ASSUME Mod!ModsAssumption, ModsInv, NEW t \in Players,
           Mod!LookupRedirect(t) \/ Mod!LookupAsset(t) \/ Mod!Return(t)
    PROVE  ModsInv'
<1>1. /\ UNCHANGED <<disk, storage, loader, loads, basis, level, report, served>>
      /\ \E new : lookup' = [lookup EXCEPT ![t] = new]
  BY DEF Mod!LookupRedirect, Mod!LookupAsset, Mod!Return
<1>2. LoaderInv'
  BY <1>1 DEF ModsInv, LoaderInv, Whole
<1>3. Mod!CacheIsWhole' /\ Mod!LuaIsWhole'
  BY <1>1, ServedStays DEF ModsInv
<1>4. DOMAIN lookup = Players /\ DOMAIN lookup' = Players
  BY <1>1 DEF ModsInv
<1>5. ASSUME NEW u \in Players, u # t PROVE LookupInv(u)'
  <2>1. lookup'[u] = lookup[u]
    BY <1>1, <1>4, <1>5
  <2> QED BY <1>1, <2>1, LookupStays DEF ModsInv
<1>6. LookupInv(t)'
  <2>1. CASE Mod!LookupRedirect(t)
    <3>1. PICK a \in Asked :
            lookup' = [lookup EXCEPT ![t] =
               [Mod!Idle EXCEPT !.pc = "redirected", !.asked = a,
                                !.name = Mod!Redirected(storage, a[1], a[2]),
                                !.torn = loader.pc # "idle"]]
      BY <2>1 DEF Mod!LookupRedirect
    <3>2. lookup'[t] = [Mod!Idle EXCEPT !.pc = "redirected", !.asked = a,
                                !.name = Mod!Redirected(storage, a[1], a[2]),
                                !.torn = loader.pc # "idle"]
      BY <1>4, <3>1
    <3>3. DOMAIN Mod!Idle = {"pc", "asked", "name", "torn", "answer", "of"}
      BY DEF Mod!Idle
    <3>4. /\ DOMAIN lookup'[t] = {"pc", "asked", "name", "torn", "answer", "of"}
          /\ lookup'[t].pc = "redirected" /\ lookup'[t].asked = a
          /\ lookup'[t].name = Mod!Redirected(storage, a[1], a[2])
          /\ lookup'[t].torn = (loader.pc # "idle")
      BY <3>2, <3>3
    <3>5. loader.pc # "start"
      <4>1. loads > 1 \/ loader.pc = "idle"
        BY <2>1, Zenon DEF Mod!LookupRedirect
      <4> QED BY <4>1 DEF ModsInv, LoaderInv
    <3> QED BY <1>1, <3>4, <3>5 DEF LookupInv
  <2>2. CASE Mod!LookupAsset(t)
    <3> DEFINE wish == lookup[t].asked
               name == lookup[t].name
               answer == Mod!GetXAsset(storage, wish[1], name)
    <3>1. LookupInv(t) /\ lookup[t].pc = "redirected" /\ loader.pc # "loading"
      BY <2>2 DEF Mod!LookupAsset, Mod!LockIsFree, ModsInv
    <3>2. lookup'[t] = [lookup[t] EXCEPT !.pc = "done", !.of = basis, !.answer = answer]
      BY <1>4, <2>2 DEF Mod!LookupAsset
    <3> HIDE DEF answer
    <3>3. /\ DOMAIN lookup'[t] = {"pc", "asked", "name", "torn", "answer", "of"}
          /\ lookup'[t].pc = "done" /\ lookup'[t].of = basis /\ lookup'[t].answer = answer
          /\ lookup'[t].asked = wish /\ lookup'[t].name = name
          /\ lookup'[t].torn = lookup[t].torn
      BY <3>1, <3>2 DEF LookupInv
    <3>4. loader.pc \in {"idle", "thrown"}
      BY <3>1 DEF LookupInv, ModsInv, LoaderInv
    <3>5. CASE loader.pc = "thrown"
      <4>1. basis = Absent
        BY <3>5 DEF ModsInv, LoaderInv
      <4> QED BY <1>1, <3>1, <3>3, <3>5, <4>1 DEF LookupInv
    <3>6. CASE loader.pc = "idle"
      <4>1. basis = loader.all /\ Directory(loader.all) /\ Whole(storage, loader.all)
        BY <3>6 DEF ModsInv, LoaderInv
      <4>2. {answer[i].entry : i \in DOMAIN answer} = Mod!Offered(loader.all, wish[1], name)
        <5>1. SelectedFrom(storage.assets, AssetList(loader.all), Mod!Assets(loader.all))
          BY <4>1 DEF Whole
        <5>2. answer = Mod!GetXAsset(storage, wish[1], name)
          BY DEF answer
        <5> QED BY <4>1, <5>1, <5>2, AnswerIsOffered
      <4>3. wish \in Asked /\ (~lookup[t].torn => name = Mod!Redirected(storage, wish[1], wish[2]))
        BY <3>1 DEF LookupInv
      <4>4. Mod!Redirected(storage, wish[1], wish[2]) = Mod!Meant(loader.all, wish[1], wish[2])
        <5>1. LastOnes(storage.redirects, loader.all, wish, RedirectsOf(loader.all, wish))
          BY <4>1, <4>3 DEF Whole
        <5> QED BY <4>1, <5>1, NameIsMeant
      <4>5. Mod!AnsweredFrom(lookup'[t])
        BY <3>3, <4>1, <4>2, <4>3, <4>4 DEF Mod!AnsweredFrom
      <4>6. basis # Absent
        BY <4>1 DEF Directory
      <4> QED BY <1>1, <3>1, <3>3, <4>5, <4>6 DEF LookupInv
    <3> QED BY <3>4, <3>5, <3>6
  <2>3. CASE Mod!Return(t)
    <3>1. lookup'[t] = [pc |-> "idle", asked |-> Absent, name |-> Absent, torn |-> FALSE,
                        answer |-> <<>>, of |-> Absent]
      BY <1>4, <2>3 DEF Mod!Return, Mod!Idle
    <3> QED BY <3>1 DEF LookupInv
  <2> QED BY <2>1, <2>2, <2>3
<1> QED BY <1>2, <1>3, <1>4, <1>5, <1>6 DEF ModsInv

LEMMA ModsStep ==
    ASSUME Mod!ModsAssumption, ModsInv, [Mod!Next]_Mod!vars PROVE ModsInv'
<1>1. ASSUME UNCHANGED <<storage, loader, loads, basis, report, served, lookup>>, disk' \in Disks
      PROVE  ModsInv'
  <2>1. LoaderInv'
    BY <1>1 DEF ModsInv, LoaderInv, Whole
  <2>2. DOMAIN lookup' = Players /\ \A t \in Players : LookupInv(t)'
    BY <1>1, LookupStays DEF ModsInv
  <2>3. Mod!CacheIsWhole' /\ Mod!LuaIsWhole'
    BY <1>1, ServedStays DEF ModsInv
  <2> QED BY <2>1, <2>2, <2>3 DEF ModsInv
<1>2. disk \in Disks
  BY DEF ModsInv, LoaderInv
<1>3. CASE Mod!Edit
  BY <1>1, <1>3 DEF Mod!Edit
<1>4. CASE Mod!ChangeLevel
  BY <1>1, <1>2, <1>4 DEF Mod!ChangeLevel
<1>5. CASE UNCHANGED Mod!vars
  BY <1>1, <1>2, <1>5 DEF Mod!vars
<1> QED BY <1>3, <1>4, <1>5, BeginStep, OneStep, EndStep, SyncStep, LuaStep, LookupStep DEF Mod!Next

LEMMA ModsServe == ModsInv => Mod!ServesWholeLoads
<1> SUFFICES ASSUME ModsInv PROVE Mod!ServesWholeLoads
  OBVIOUS
<1>1. Mod!LookupsAreWhole
  BY DEF ModsInv, LookupInv, Mod!LookupsAreWhole
<1>2. Mod!ReportIsTrue
  <2> SUFFICES ASSUME loader.pc = "idle"
               PROVE  report = "errors" <=>
                        \/ Mod!Places(basis, "metadata") # {}
                        \/ \E i \in Mod!Places(basis, "data") :
                              ~basis[i].e.ignore /\ ~Mod!Taken(basis[i].e)
                        \/ \E i \in Mod!Places(basis, "cache") : ~Mod!GoodCache(basis[i].e)
                        \/ \E i \in Mod!Places(basis, "redirect") : basis[i].e.flaws # {}
    BY DEF Mod!ReportIsTrue
  <2>1. /\ basis = loader.all /\ Directory(basis)
        /\ report = "errors" <=> \E i \in 1..Len(basis) : Fails(basis[i])
    BY DEF ModsInv, LoaderInv
  <2>2. DOMAIN basis = 1..Len(basis)
    BY <2>1 DEF Directory
  <2> QED BY <2>1, <2>2, Zenon DEF Fails, Mod!Places
<1> QED BY <1>1, <1>2 DEF ModsInv, Mod!ServesWholeLoads

(* ServesWholeLoads, for any directories, edits and reloads: what a load   *)
(* reports is true of the directory it has read; every lookup, whatever    *)
(* falls between its two steps, is answered from one whole load; and the   *)
(* cache of a match and the files around a lua file are those of one whole *)
(* load.                                                                   *)
THEOREM LoadsServedWhole == Mod!Spec => []ServesWholeLoads
<1>1. Mod!Init => ModsInv
  BY ModsAreWellFormed, ModsInit
<1>2. ModsInv /\ [Mod!Next]_Mod!vars => ModsInv'
  BY ModsAreWellFormed, ModsStep
<1>3. ModsInv => ServesWholeLoads
  BY ModsServe DEF ServesWholeLoads
<1> QED BY <1>1, <1>2, <1>3, PTL DEF Mod!Spec

------------------------------------------------------------------------------
(***************************************************************************)
(* GscCustom: scripts that a reload has destroyed are not read in a match. *)
(*                                                                         *)
(* The argument: only a reload leaves lists of destroyed scripts, and it   *)
(* is refused in a match; the lists it has left before are dropped with    *)
(* the first script of a machine, and until then no script runs that could *)
(* read them.                                                              *)
(***************************************************************************)

ScriptsInv ==
    /\ DOMAIN objs = Scripts!Instances
    /\ \A i \in gone : scriptLevel = "ui" \/ objs[i] = <<>>
    /\ gone \subseteq Scripts!Instances
    /\ scriptLevel \in {"ui", "game"}
    /\ StaleOnlyInFrontend

LEMMA ScriptsInit == Scripts!Init => ScriptsInv
  BY DEF Scripts!Init, ScriptsInv, StaleOnlyInFrontend, Scripts!StaleOnlyInFrontend

(* In a match no list that is read is of destroyed scripts, since a machine *)
(* without scripts has its lists dropped first.                             *)
LEMMA GoneInFrontend ==
    ASSUME ScriptsInv, NEW i \in Scripts!Instances, Scripts!Dangling(i, Scripts!ClearGsic(i))
    PROVE  scriptLevel = "ui"
  BY DEF ScriptsInv, Scripts!Dangling, Scripts!ClearGsic

LEMMA ScriptsLinked ==
    ASSUME ScriptsInv, NEW i \in Scripts!Instances, Scripts!ScrGetGscObj(i)
    PROVE  ScriptsInv'
<1>1. /\ scriptLevel' = scriptLevel
      /\ \/ /\ Scripts!Dangling(i, Scripts!ClearGsic(i))
            /\ stale' = scriptLevel /\ UNCHANGED <<objs, gone>>
         \/ /\ ~Scripts!Dangling(i, Scripts!ClearGsic(i))
            /\ UNCHANGED stale /\ gone' = gone \ {i}
            /\ \E new : objs' = [objs EXCEPT ![i] = new]
  BY DEF Scripts!ScrGetGscObj
<1>2. CASE stale' = scriptLevel /\ UNCHANGED <<objs, gone>> /\ Scripts!Dangling(i, Scripts!ClearGsic(i))
  BY <1>1, <1>2, GoneInFrontend
     DEF ScriptsInv, StaleOnlyInFrontend, Scripts!StaleOnlyInFrontend
<1>3. CASE UNCHANGED stale /\ gone' = gone \ {i} /\ \E new : objs' = [objs EXCEPT ![i] = new]
  BY <1>1, <1>3 DEF ScriptsInv, StaleOnlyInFrontend, Scripts!StaleOnlyInFrontend
<1> QED BY <1>1, <1>2, <1>3

LEMMA ScriptsLazy ==
    ASSUME ScriptsInv, NEW i \in Scripts!Instances, Scripts!LazyLink(i)
    PROVE  ScriptsInv'
<1>1. objs[i] # <<>>
  <2> SUFFICES ASSUME objs[i] = <<>> PROVE Scripts!Places(i) = {}
    BY DEF Scripts!LazyLink
  <2>1. Scripts!ToSet(objs[i]) = {}
    BY DEF Scripts!ToSet
  <2> QED BY <2>1 DEF Scripts!Places
<1>2. Scripts!Dangling(i, lists[i]) => scriptLevel = "ui"
  BY <1>1 DEF ScriptsInv, Scripts!Dangling
<1> QED BY <1>2 DEF Scripts!LazyLink, ScriptsInv, StaleOnlyInFrontend,
                    Scripts!StaleOnlyInFrontend

(* A detour of a script that a reload of the mods has destroyed is never   *)
(* read in a match, whatever groups of scripts are linked, replaced and    *)
(* dropped in whatever order on the two machines: mods_reload_f, which is  *)
(* refused in a match, and clear_gsic see to it.                           *)
THEOREM StaleScriptsStayInFrontend == Scripts!Spec => []StaleOnlyInFrontend
<1>1. Scripts!Init => ScriptsInv
  BY ScriptsInit
<1>2. ScriptsInv /\ [Scripts!Next]_Scripts!vars => ScriptsInv'
  <2> SUFFICES ASSUME ScriptsInv, [Scripts!Next]_Scripts!vars PROVE ScriptsInv'
    OBVIOUS
  <2>1. CASE Scripts!Reload
    BY <2>1 DEF Scripts!Reload, ScriptsInv, StaleOnlyInFrontend, Scripts!StaleOnlyInFrontend
  <2>2. CASE Scripts!ChangeLevel
    BY <2>2 DEF Scripts!ChangeLevel, ScriptsInv, StaleOnlyInFrontend, Scripts!StaleOnlyInFrontend
  <2>3. ASSUME NEW i \in Scripts!Instances, Scripts!ScrGetGscObj(i) PROVE ScriptsInv'
    BY <2>3, ScriptsLinked
  <2>4. ASSUME NEW i \in Scripts!Instances, Scripts!LazyLink(i) PROVE ScriptsInv'
    BY <2>4, ScriptsLazy
  <2>5. CASE UNCHANGED Scripts!vars
    BY <2>5 DEF Scripts!vars, ScriptsInv, StaleOnlyInFrontend, Scripts!StaleOnlyInFrontend
  <2> QED BY <2>1, <2>2, <2>3, <2>4, <2>5 DEF Scripts!Next
<1>3. ScriptsInv => StaleOnlyInFrontend
  BY DEF ScriptsInv
<1> QED BY <1>1, <1>2, <1>3, PTL DEF Scripts!Spec

------------------------------------------------------------------------------
(***************************************************************************)
(* GscCustom: calls lead to the detours that are meant for them.           *)
(*                                                                         *)
(* The argument: a list has seen the scripts up to its latest one, and a   *)
(* list never more than one before it.  A site leads to the last detour,   *)
(* in the order of the lists, that takes it of a list that has seen its    *)
(* script.  A new script is seen by no list and a new list has seen no     *)
(* script, so linking keeps this; the list that catches up next writes     *)
(* over what the lists before it have written, and those after it have     *)
(* written nothing to the scripts that are new to it.  In the end all      *)
(* lists have seen all scripts.                                            *)
(***************************************************************************)

(* The last of some places of a list. *)
LEMMA LastOfPlaces ==
    ASSUME NEW N \in Nat, NEW S, S \subseteq 1..N, S # {}
    PROVE  /\ Scripts!Max(S) \in S /\ \A y \in S : y <= Scripts!Max(S)
           /\ Table!Max(S) = Scripts!Max(S)
<1> DEFINE rest == {N - y : y \in S}
<1>1. rest \subseteq Nat /\ rest # {}
  <2>1. \A y \in S : N - y \in Nat
    OBVIOUS
  <2> QED BY <2>1
<1>2. PICK r \in rest : \A z \in rest : r <= z
  <2> HIDE DEF rest
  <2> QED BY <1>1, SmallestOfSet
<1>3. PICK x \in S : r = N - x
  BY <1>2
<1>4. \A y \in S : x >= y
  <2> TAKE y \in S
  <2>1. N - y \in rest
    OBVIOUS
  <2> QED BY <1>2, <1>3, <2>1
<1> DEFINE m == CHOOSE z \in S : \A y \in S : z >= y
<1>5. m \in S /\ \A y \in S : m >= y
  BY <1>4
<1>6. Scripts!Max(S) = m /\ Table!Max(S) = m
  BY DEF Scripts!Max, Table!Max
<1> HIDE DEF m
<1> QED BY <1>5, <1>6

(* ... and the first of them. *)
LEMMA FirstOfPlaces ==
    ASSUME NEW S, S \subseteq Nat, S # {}
    PROVE  Scripts!Min(S) \in S
<1>1. \E x \in S : \A y \in S : x <= y
  BY SmallestOfSet
<1> DEFINE m == CHOOSE z \in S : \A y \in S : z <= y
<1>2. m \in S
  BY <1>1
<1> QED BY <1>2 DEF Scripts!Min

(* The detours of the script that an entry of a list names, and whether one *)
(* of them is for a place of another script.                               *)
DetourOf(fs, e, n) == fs[e.file].detours[n]
PlacesOf(fs, e) == DOMAIN fs[e.file].detours
KeyAt(fs, e, n) == Scripts!Key(DetourOf(fs, e, n))

Taken(fs, script, p, e, n) ==
    LET d == DetourOf(fs, e, n)
        begin == fs[e.file].base + d.offset
    IN /\ n \in PlacesOf(fs, e)
       /\ Scripts!Sees(script, d) /\ ~(begin <= p /\ p < begin + d.size)
       /\ \E m \in Scripts!ToSet(script.imports) : m.fn = d.fn /\ p \in m.sites

(* The detours that lists have written so far: v is the last of them.      *)
Counts(fs, script, da, o, p, j, n) ==
    j \in 1..Len(da) /\ o <= da[j].latest /\ Taken(fs, script, p, da[j], n)

Leads(fs, script, da, o, p, v) ==
    \/ v = GamesOwn /\ \A j, n : ~Counts(fs, script, da, o, p, j, n)
    \/ \E j, n : /\ Counts(fs, script, da, o, p, j, n)
                 /\ v = [file |-> da[j].file, detour |-> DetourOf(fs, da[j], n)]
                 /\ \A k, m : Counts(fs, script, da, o, p, k, m) =>
                      k < j \/ (k = j /\ m <= n)

(* What the lists of an instance and the linked scripts are in any case.   *)
IsEntry(fs, e) == e = [file |-> e.file, latest |-> e.latest] /\ e.file \in DOMAIN fs

Typed(fs, ob, li, da) ==
    /\ IsList(ob) /\ IsList(li) /\ IsList(da) /\ Len(li) = Len(ob)
    /\ \A n \in 1..Len(ob) : Scripts!WellFormed(ob[n])
    /\ \A n \in 1..Len(li) : DOMAIN li[n] \subseteq Nat
    /\ \A k \in 1..Len(da) : IsEntry(fs, da[k])

(* Scripts of different lists never detour the same function. *)
Apart(fs, da) ==
    \A j, k \in 1..Len(da) : da[j].file # da[k].file =>
      \A n \in PlacesOf(fs, da[j]), m \in PlacesOf(fs, da[k]) :
         KeyAt(fs, da[j], n) # KeyAt(fs, da[k], m)

(* No linked script has a damaged import.                                  *)
Sound(ob) == \A n \in 1..Len(ob) : \A m \in Scripts!ToSet(ob[n].imports) : m.form \in 1..7

(* Each list has seen no more scripts than those before it, and the sites  *)
(* lead to the last detour that takes them of those that were here.        *)
InOrder(ob, da) ==
    /\ \A k \in 1..Len(da) : da[k].latest \in 0..Len(ob)
    /\ \A j, k \in 1..Len(da) : j < k => da[k].latest <= da[j].latest

AllLead(fs, ob, li, da) ==
    \A o \in 1..Len(ob) : \A p \in DOMAIN li[o] : Leads(fs, ob[o], da, o, p, li[o][p])

Ready(fs, ob, li, da) == InOrder(ob, da) /\ AllLead(fs, ob, li, da)

(* What holds while a group is linked.                                     *)
IsLinking(L) ==
    L = [objs |-> L.objs, links |-> L.links, data |-> L.data, raised |-> L.raised,
         failed |-> L.failed, stop |-> L.stop]

Going(L) ==
    /\ IsLinking(L)
    /\ Typed(scriptFiles, L.objs, L.links, L.data)
    /\ Apart(scriptFiles, L.data)
    /\ Sound(L.objs) => Ready(scriptFiles, L.objs, L.links, L.data)

(* The scripts of the mods that are loaded.                                *)
FilesAreWellFormed(fs) ==
    /\ Len(fs) \in Nat /\ DOMAIN fs = 1..Len(fs)
    /\ \A k \in 1..Len(fs) : Scripts!WellFormed(fs[k])

LEMMA LoadedScripts ==
    ASSUME Scripts!ScriptsAssumption, NEW fs \in Loads PROVE FilesAreWellFormed(fs)
<1>1. Len(fs) \in Nat /\ DOMAIN fs = 1..Len(fs)
  BY DEF Scripts!ScriptsAssumption
<1>2. ASSUME NEW k \in 1..Len(fs) PROVE Scripts!WellFormed(fs[k])
  <2>1. fs[k] \in Scripts!ToSet(fs)
    BY <1>1 DEF Scripts!ToSet
  <2>2. fs[k] \in UNION {Scripts!ToSet(load) : load \in Loads}
    BY <2>1
  <2> QED BY <2>2 DEF Scripts!ScriptsAssumption
<1> QED BY <1>1, <1>2 DEF FilesAreWellFormed

(* sync_gsic keeps it: a new list comes last and has seen no script, and   *)
(* it is not added if a function of it is detoured already.                *)
LEMMA EntryAdded ==
    ASSUME NEW fs, NEW ob, NEW li, NEW da, Typed(fs, ob, li, da),
           NEW e, IsEntry(fs, e), e.latest = 0
    PROVE  /\ Typed(fs, ob, li, Append(da, e))
           /\ Ready(fs, ob, li, da) => Ready(fs, ob, li, Append(da, e))
<1> DEFINE all == Append(da, e)
<1>1. /\ IsList(da) /\ Len(da) \in Nat /\ Len(ob) \in Nat
      /\ IsList(all) /\ Len(all) = Len(da) + 1 /\ all[Len(da) + 1] = e
      /\ \A n \in 1..Len(da) : all[n] = da[n]
  BY ListAppended DEF Typed, IsList
<1> HIDE DEF all
<1>2. \A n \in 1..Len(all) : n \in 1..Len(da) \/ n = Len(da) + 1
  BY <1>1
<1>3. Typed(fs, ob, li, all)
  <2>1. \A k \in 1..Len(all) : IsEntry(fs, all[k])
    BY <1>1, <1>2 DEF Typed
  <2> QED BY <1>1, <2>1 DEF Typed
<1>4. ASSUME Ready(fs, ob, li, da) PROVE Ready(fs, ob, li, all)
  <2>1. \A k \in 1..Len(all) : all[k].latest \in 0..Len(ob)
    BY <1>1, <1>2, <1>4 DEF Ready, InOrder
  <2>2. \A j, k \in 1..Len(all) : j < k => all[k].latest <= all[j].latest
    BY <1>1, <1>2, <1>4, <2>1 DEF Ready, InOrder
  <2>3. ASSUME NEW o \in 1..Len(ob), NEW p \in DOMAIN li[o]
        PROVE  Leads(fs, ob[o], all, o, p, li[o][p])
    <3>1. Leads(fs, ob[o], da, o, p, li[o][p])
      BY <1>4 DEF Ready, AllLead
    <3>2. \A j, n : Counts(fs, ob[o], all, o, p, j, n) <=> Counts(fs, ob[o], da, o, p, j, n)
      <4>1. ~(o <= e.latest)
        OBVIOUS
      <4> QED BY <1>1, <1>2, <4>1 DEF Counts
    <3>3. \A j, n : Counts(fs, ob[o], da, o, p, j, n) => all[j] = da[j]
      BY <1>1 DEF Counts
    <3> QED BY <3>1, <3>2, <3>3 DEF Leads
  <2> QED BY <2>1, <2>2, <2>3 DEF Ready, InOrder, AllLead
<1> QED BY <1>3, <1>4 DEF all

LEMMA SyncKeeps ==
    ASSUME FilesAreWellFormed(scriptFiles), NEW L, Going(L), NEW file \in 1..Len(scriptFiles)
    PROVE  Going(Scripts!SyncGsic(L, file)) /\ Scripts!SyncGsic(L, file).objs = L.objs
<1> DEFINE keys == {Scripts!Key(d) : d \in Scripts!ToSet(scriptFiles[file].detours)}
           taken == UNION {{Scripts!Key(d) : d \in Scripts!ToSet(Scripts!Detours(e))} :
                             e \in Scripts!ToSet(L.data)}
           isListed == \E e \in Scripts!ToSet(L.data) : e.file = file
<1>1. CASE isListed
  BY <1>1 DEF Scripts!SyncGsic
<1>2. CASE ~isListed /\ keys \cap taken # {}
  <2>1. Scripts!SyncGsic(L, file) = [L EXCEPT !.raised = @ \cup {"twice"}]
    BY <1>2 DEF Scripts!SyncGsic
  <2> QED BY <2>1 DEF Going, IsLinking
<1>3. CASE ~isListed /\ keys \cap taken = {}
  <2> DEFINE e == Scripts!NewEntry(L, file)
             M == Scripts!SyncGsic(L, file)
  <2>1. M = [L EXCEPT !.data = Append(@, e)]
    BY <1>3 DEF Scripts!SyncGsic
  <2>2. e = [file |-> file, latest |-> 0]
    BY DEF Scripts!NewEntry
  <2> HIDE DEF e, M
  <2>3. /\ IsLinking(M) /\ M.objs = L.objs /\ M.links = L.links /\ M.data = Append(L.data, e)
    BY <2>1 DEF Going, IsLinking
  <2>4. IsEntry(scriptFiles, e) /\ e.latest = 0
    BY <2>2 DEF IsEntry, FilesAreWellFormed
  <2>5. Typed(scriptFiles, L.objs, L.links, L.data)
    BY DEF Going
  <2>6. /\ Typed(scriptFiles, L.objs, L.links, M.data)
        /\ Ready(scriptFiles, L.objs, L.links, L.data)
             => Ready(scriptFiles, L.objs, L.links, M.data)
    BY <2>3, <2>4, <2>5, EntryAdded
  <2>7. Apart(scriptFiles, M.data)
    <3>1. /\ Len(L.data) \in Nat /\ DOMAIN L.data = 1..Len(L.data)
          /\ Len(M.data) = Len(L.data) + 1 /\ M.data[Len(L.data) + 1] = e
          /\ \A n \in 1..Len(L.data) : M.data[n] = L.data[n]
      BY <2>3, <2>5, ListAppended DEF Typed, IsList
    <3>2. ASSUME NEW k \in 1..Len(L.data), NEW n \in PlacesOf(scriptFiles, e),
                 NEW m \in PlacesOf(scriptFiles, L.data[k])
          PROVE  KeyAt(scriptFiles, e, n) # KeyAt(scriptFiles, L.data[k], m)
      <4>1. KeyAt(scriptFiles, e, n) \in keys
        BY <2>2 DEF Scripts!ToSet, KeyAt, DetourOf, PlacesOf
      <4>2. KeyAt(scriptFiles, L.data[k], m) \in taken
        <5>1. L.data[k] \in Scripts!ToSet(L.data)
          BY <3>1 DEF Scripts!ToSet
        <5>2. DetourOf(scriptFiles, L.data[k], m) \in Scripts!ToSet(Scripts!Detours(L.data[k]))
          BY DEF Scripts!ToSet, DetourOf, PlacesOf, Scripts!Detours
        <5> QED BY <5>1, <5>2 DEF KeyAt
      <4> HIDE DEF keys, taken
      <4> QED BY <1>3, <4>1, <4>2
    <3>3. \A n \in 1..Len(M.data) : n \in 1..Len(L.data) \/ n = Len(L.data) + 1
      BY <3>1
    <3>4. Apart(scriptFiles, L.data)
      BY DEF Going
    <3>5. ASSUME NEW j \in 1..Len(M.data), NEW k \in 1..Len(M.data),
                 M.data[j].file # M.data[k].file,
                 NEW n \in PlacesOf(scriptFiles, M.data[j]),
                 NEW m \in PlacesOf(scriptFiles, M.data[k])
          PROVE  KeyAt(scriptFiles, M.data[j], n) # KeyAt(scriptFiles, M.data[k], m)
      <4>1. CASE j \in 1..Len(L.data) /\ k \in 1..Len(L.data)
        BY <3>1, <3>4, <3>5, <4>1 DEF Apart
      <4>2. CASE j \in 1..Len(L.data) /\ k = Len(L.data) + 1
        BY <3>1, <3>2, <4>2
      <4>3. CASE j = Len(L.data) + 1 /\ k \in 1..Len(L.data)
        BY <3>1, <3>2, <4>3
      <4>4. CASE j = Len(L.data) + 1 /\ k = Len(L.data) + 1
        BY <3>5, <4>4
      <4> QED BY <3>3, <4>1, <4>2, <4>3, <4>4
    <3> QED BY <3>5 DEF Apart
  <2> QED BY <2>3, <2>6, <2>7 DEF Going, M
<1> QED BY <1>1, <1>2, <1>3

(* The game's linker keeps it: no list has seen the new script, whose sites *)
(* lead to the functions they name.                                        *)
LEMMA ScriptAdded ==
    ASSUME NEW fs, NEW ob, NEW li, NEW da, Typed(fs, ob, li, da),
           NEW script, Scripts!WellFormed(script),
           NEW link,
           link = [p \in UNION {m.sites : m \in Scripts!ToSet(script.imports)} |-> GamesOwn]
    PROVE  /\ Typed(fs, Append(ob, script), Append(li, link), da)
           /\ Sound(Append(ob, script)) => Sound(ob)
           /\ Ready(fs, ob, li, da) => Ready(fs, Append(ob, script), Append(li, link), da)
<1> DEFINE obs == Append(ob, script)
           lis == Append(li, link)
<1>1. /\ Len(da) \in Nat /\ Len(ob) \in Nat /\ Len(li) = Len(ob)
      /\ IsList(obs) /\ Len(obs) = Len(ob) + 1 /\ obs[Len(ob) + 1] = script
      /\ \A n \in 1..Len(ob) : obs[n] = ob[n]
      /\ IsList(lis) /\ Len(lis) = Len(ob) + 1 /\ lis[Len(ob) + 1] = link
      /\ \A n \in 1..Len(ob) : lis[n] = li[n]
  BY ListAppended DEF Typed, IsList
<1> HIDE DEF obs, lis
<1>2. \A n \in 1..Len(obs) : n \in 1..Len(ob) \/ n = Len(ob) + 1
  BY <1>1
<1>3. DOMAIN link \subseteq Nat /\ \A p \in DOMAIN link : link[p] = GamesOwn
  BY DEF Scripts!WellFormed
<1>4. Typed(fs, obs, lis, da)
  <2>1. \A n \in 1..Len(obs) : Scripts!WellFormed(obs[n])
    BY <1>1, <1>2 DEF Typed
  <2>2. \A n \in 1..Len(lis) : DOMAIN lis[n] \subseteq Nat
    BY <1>1, <1>2, <1>3 DEF Typed
  <2> QED BY <1>1, <2>1, <2>2 DEF Typed
<1>5. Sound(obs) => Sound(ob)
  BY <1>1 DEF Sound
<1>6. ASSUME Ready(fs, ob, li, da) PROVE Ready(fs, obs, lis, da)
  <2>1. InOrder(obs, da)
    BY <1>1, <1>6 DEF Ready, InOrder
  <2>2. ASSUME NEW o \in 1..Len(obs), NEW p \in DOMAIN lis[o]
        PROVE  Leads(fs, obs[o], da, o, p, lis[o][p])
    <3>1. CASE o \in 1..Len(ob)
      BY <1>1, <1>6, <3>1 DEF Ready, AllLead
    <3>2. CASE o = Len(ob) + 1
      <4>1. lis[o][p] = GamesOwn
        BY <1>1, <1>3, <3>2
      <4>2. \A j \in 1..Len(da) : ~(o <= da[j].latest)
        BY <1>1, <1>6, <3>2 DEF Ready, InOrder
      <4> QED BY <4>1, <4>2 DEF Leads, Counts
    <3> QED BY <1>2, <3>1, <3>2
  <2> QED BY <2>1, <2>2 DEF Ready, AllLead
<1> QED BY <1>4, <1>5, <1>6 DEF obs, lis

LEMMA ScriptKeeps ==
    ASSUME NEW L, Going(L), NEW script, Scripts!WellFormed(script)
    PROVE  Going(Scripts!LinkObj(L, script))
<1> DEFINE M == Scripts!LinkObj(L, script)
           link == [p \in UNION {m.sites : m \in Scripts!ToSet(script.imports)} |-> GamesOwn]
<1>1. CASE script.name \in Unlinkable
  <2>1. M = [L EXCEPT !.failed = TRUE]
    BY <1>1 DEF Scripts!LinkObj
  <2> QED BY <2>1 DEF Going, IsLinking
<1>2. CASE script.name \notin Unlinkable /\ script \in Scripts!ToSet(L.objs)
  BY <1>2 DEF Scripts!LinkObj
<1>3. CASE script.name \notin Unlinkable /\ script \notin Scripts!ToSet(L.objs)
  <2>1. M = [L EXCEPT !.objs = Append(@, script), !.links = Append(@, link)]
    BY <1>3 DEF Scripts!LinkObj
  <2>2. Typed(scriptFiles, L.objs, L.links, L.data)
    BY DEF Going
  <2> HIDE DEF M
  <2>3. /\ IsLinking(M) /\ M.objs = Append(L.objs, script) /\ M.links = Append(L.links, link)
        /\ M.data = L.data
    <3> HIDE DEF link
    <3> QED BY <2>1 DEF Going, IsLinking
  <2>4. /\ Typed(scriptFiles, M.objs, M.links, M.data)
        /\ Sound(M.objs) => Sound(L.objs)
        /\ Ready(scriptFiles, L.objs, L.links, L.data)
             => Ready(scriptFiles, M.objs, M.links, M.data)
    BY <2>2, <2>3, ScriptAdded
  <2> HIDE DEF link
  <2> QED BY <2>3, <2>4 DEF Going, M
<1> QED BY <1>1, <1>2, <1>3

(* So does a script of the mods, first its detours and then the script.    *)
LEMMA CustomKeeps ==
    ASSUME FilesAreWellFormed(scriptFiles), NEW L, Going(L), NEW file \in 1..Len(scriptFiles)
    PROVE  Going(Scripts!LinkCustom(L, file))
<1>1. CASE L.failed
  BY <1>1 DEF Scripts!LinkCustom
<1>2. CASE ~L.failed
  <2>1. Going(Scripts!SyncGsic(L, file))
    BY SyncKeeps
  <2>2. Scripts!WellFormed(scriptFiles[file])
    BY DEF FilesAreWellFormed
  <2>3. Going(Scripts!LinkObj(Scripts!SyncGsic(L, file), scriptFiles[file]))
    BY <2>1, <2>2, ScriptKeeps
  <2> QED BY <1>2, <2>3 DEF Scripts!LinkCustom
<1> QED BY <1>1, <1>2

(* The three loops: over the scripts hooked on one, over those of a group,  *)
(* over the lists.  A loop is what it has come to after each step.          *)
StepOf(loop, x, before, k) ==
    CASE loop = "hooked" ->
             IF x \in scriptFiles[k].hooks THEN Scripts!LinkCustom(before, k) ELSE before
      [] loop = "group" -> Scripts!ScrGscObjLink(before, x[k])
      [] OTHER -> Scripts!DetoursOf(before, k)

Loops(f, loop, x, begin, N) ==
    f = [k \in 0..N |-> IF k = 0 THEN begin ELSE StepOf(loop, x, f[k - 1], k)]

(* A loop can make one more step ...                                       *)
LEMMA LoopsOn ==
    ASSUME NEW loop, NEW x, NEW begin, NEW n \in Nat, NEW f, Loops(f, loop, x, begin, n)
    PROVE  \E g : Loops(g, loop, x, begin, n + 1)
<1> DEFINE Step(h, k) == IF k = 0 THEN begin ELSE StepOf(loop, x, h[k - 1], k)
           g == [k \in 0..n + 1 |-> IF k <= n THEN f[k] ELSE Step(f, k)]
<1>1. \A k \in 0..n : f[k] = Step(f, k)
  BY DEF Loops
<1>2. \A k \in 0..n : g[k] = f[k]
  OBVIOUS
<1>3. ASSUME NEW k \in 0..n + 1 PROVE g[k] = Step(g, k)
  <2>1. CASE k = 0
    <3>1. 0 \in 0..n
      OBVIOUS
    <3> QED BY <1>1, <1>2, <2>1, <3>1
  <2>2. CASE k # 0
    <3>1. k - 1 \in 0..n
      BY <2>2
    <3>2. g[k - 1] = f[k - 1]
      BY <1>2, <3>1
    <3> HIDE DEF g
    <3>3. Step(g, k) = Step(f, k)
      BY <2>2, <3>2 DEF Step
    <3>4. g[k] = Step(f, k)
      <4>1. CASE k <= n
        BY <1>1, <1>2, <4>1
      <4>2. CASE ~(k <= n)
        BY <4>2 DEF g
      <4> QED BY <4>1, <4>2
    <3> QED BY <3>3, <3>4
  <2> QED BY <2>1, <2>2
<1>4. g = [k \in 0..n + 1 |-> Step(g, k)]
  <2>1. g = [k \in 0..n + 1 |-> g[k]]
    OBVIOUS
  <2> HIDE DEF g
  <2> QED BY <1>3, <2>1
<1> HIDE DEF g
<1> QED BY <1>4 DEF Loops, Step

(* ... so it can make all of them.                                         *)
LEMMA LoopsThrough ==
    ASSUME NEW loop, NEW x, NEW begin, NEW N \in Nat
    PROVE  \E f : Loops(f, loop, x, begin, N)
<1> DEFINE failing == {n \in 0..N : ~ \E f : Loops(f, loop, x, begin, n)}
<1>1. 0 \notin failing
  <2>1. Loops([k \in 0..0 |-> begin], loop, x, begin, 0)
    BY DEF Loops
  <2> QED BY <2>1
<1>2. \A n \in 0..N - 1 : n + 1 \in failing => n \in failing
  <2> SUFFICES ASSUME NEW n \in 0..N - 1, n \notin failing PROVE n + 1 \notin failing
    OBVIOUS
  <2>1. PICK f : Loops(f, loop, x, begin, n)
    OBVIOUS
  <2> QED BY <2>1, LoopsOn
<1>3. failing = {}
  <2> HIDE DEF failing
  <2>1. failing \subseteq 0..N
    BY DEF failing
  <2> QED BY <1>1, <1>2, <2>1, NothingFails
<1> QED BY <1>3

(* Each step of a loop. *)
LEMMA LoopStep ==
    ASSUME NEW loop, NEW x, NEW begin, NEW N \in Nat, NEW f, Loops(f, loop, x, begin, N)
    PROVE  f[0] = begin /\ \A n \in 0..N - 1 : f[n + 1] = StepOf(loop, x, f[n], n + 1)
<1>1. f[0] = begin
  BY DEF Loops
<1>2. ASSUME NEW n \in 0..N - 1 PROVE f[n + 1] = StepOf(loop, x, f[n], n + 1)
  <2>1. n + 1 \in 0..N /\ n + 1 # 0 /\ (n + 1) - 1 = n
    OBVIOUS
  <2> QED BY <2>1 DEF Loops
<1> QED BY <1>1, <1>2

(* LinkHooked is such a loop, and each of its steps keeps what holds.      *)
LEMMA HookedLoop ==
    ASSUME NEW L, NEW name, Len(scriptFiles) \in Nat
    PROVE  \E f : /\ Loops(f, "hooked", name, L, Len(scriptFiles))
                  /\ Scripts!LinkHooked(L, name) = f[Len(scriptFiles)]
<1> DEFINE N == Len(scriptFiles)
           u == CHOOSE f : f = [k \in 0 .. N |->
                   CASE k = 0 -> L
                     [] k # 0 /\ name \in scriptFiles[k].hooks -> Scripts!LinkCustom(f[k - 1], k)
                     [] OTHER -> f[k - 1]]
<1>1. Scripts!LinkHooked(L, name) = u[N]
  BY DEF Scripts!LinkHooked
<1>2. PICK f : Loops(f, "hooked", name, L, N)
  BY LoopsThrough
<1>3. \A g : Loops(g, "hooked", name, L, N) <=>
        g = [k \in 0 .. N |-> CASE k = 0 -> L
                     [] k # 0 /\ name \in scriptFiles[k].hooks -> Scripts!LinkCustom(g[k - 1], k)
                     [] OTHER -> g[k - 1]]
  BY DEF Loops, StepOf
<1>4. Loops(u, "hooked", name, L, N)
  BY <1>2, <1>3
<1> QED BY <1>1, <1>4

LEMMA HookedKeeps ==
    ASSUME FilesAreWellFormed(scriptFiles), NEW L, Going(L), NEW name
    PROVE  Going(Scripts!LinkHooked(L, name))
<1> DEFINE N == Len(scriptFiles)
<1>0. N \in Nat
  BY DEF FilesAreWellFormed
<1>1. PICK f : Loops(f, "hooked", name, L, N) /\ Scripts!LinkHooked(L, name) = f[N]
  BY <1>0, HookedLoop
<1>2. f[0] = L /\ \A n \in 0..N - 1 : f[n + 1] = StepOf("hooked", name, f[n], n + 1)
  BY <1>0, <1>1, LoopStep
<1> HIDE DEF N
<1> DEFINE failing == {n \in 0..N : ~Going(f[n])}
<1>3. 0 \notin failing
  BY <1>2
<1>4. \A n \in 0..N - 1 : n + 1 \in failing => n \in failing
  <2> SUFFICES ASSUME NEW n \in 0..N - 1, Going(f[n]) PROVE Going(f[n + 1])
    BY <1>0
  <2>1. n + 1 \in 1..N
    BY <1>0
  <2>2. Going(Scripts!LinkCustom(f[n], n + 1))
    BY <2>1, CustomKeeps DEF N
  <2> QED BY <1>2, <2>2 DEF StepOf
<1>5. failing = {}
  <2> HIDE DEF failing
  <2>1. failing \subseteq 0..N
    BY DEF failing
  <2> QED BY <1>0, <1>3, <1>4, <2>1, NothingFails
<1>6. Going(f[N])
  BY <1>0, <1>5
<1> QED BY <1>1, <1>6 DEF N

(* The game has the scripts of its groups.                                 *)
LEMMA GameScripts ==
    ASSUME Scripts!ScriptsAssumption, NEW group \in Groups
    PROVE  /\ Len(group) \in Nat
           /\ \A n \in 1..Len(group) :
                Scripts!WellFormed(CHOOSE s \in Game : s.name = group[n])
<1>1. Len(group) \in Nat /\ DOMAIN group = 1..Len(group)
      /\ \A n \in DOMAIN group : \E s \in Game : s.name = group[n]
  BY DEF Scripts!ScriptsAssumption
<1>2. ASSUME NEW n \in 1..Len(group)
      PROVE  Scripts!WellFormed(CHOOSE s \in Game : s.name = group[n])
  <2>1. (CHOOSE s \in Game : s.name = group[n]) \in Game
    BY <1>1
  <2> QED BY <2>1 DEF Scripts!ScriptsAssumption
<1> QED BY <1>1, <1>2

(* One script of a group: those hooked on it and then itself.              *)
LEMMA NamedKeeps ==
    ASSUME FilesAreWellFormed(scriptFiles), NEW L, Going(L), NEW name,
           Scripts!WellFormed(CHOOSE s \in Game : s.name = name)
    PROVE  Going(Scripts!ScrGscObjLink(L, name))
<1> DEFINE hooked == Scripts!LinkHooked(L, name)
           custom == {k \in DOMAIN scriptFiles : scriptFiles[k].name = name}
<1>1. Going(hooked)
  BY HookedKeeps
<1>2. CASE hooked.failed
  BY <1>1, <1>2 DEF Scripts!ScrGscObjLink
<1>3. CASE ~hooked.failed /\ custom # {}
  <2>1. Scripts!Min(custom) \in custom
    <3>1. custom \subseteq Nat
      BY DEF FilesAreWellFormed
    <3> HIDE DEF custom
    <3> QED BY <1>3, <3>1, FirstOfPlaces
  <2>2. Scripts!Min(custom) \in 1..Len(scriptFiles)
    BY <2>1 DEF FilesAreWellFormed
  <2>3. Scripts!ScrGscObjLink(L, name) = Scripts!LinkCustom(hooked, Scripts!Min(custom))
    BY <1>3 DEF Scripts!ScrGscObjLink
  <2> HIDE DEF custom, hooked
  <2> QED BY <1>1, <2>2, <2>3, CustomKeeps
<1>4. CASE ~hooked.failed /\ custom = {}
  <2>1. Scripts!ScrGscObjLink(L, name) = Scripts!LinkObj(hooked, CHOOSE s \in Game : s.name = name)
    BY <1>4 DEF Scripts!ScrGscObjLink
  <2> HIDE DEF custom, hooked
  <2> QED BY <1>1, <2>1, ScriptKeeps
<1> QED BY <1>2, <1>3, <1>4

(* All scripts of a group.                                                 *)
LEMMA GroupKeeps ==
    ASSUME Scripts!ScriptsAssumption, FilesAreWellFormed(scriptFiles), NEW L, Going(L),
           NEW group \in Groups
    PROVE  Going(Scripts!LinkGroup(L, group))
<1> DEFINE N == Len(group)
<1>0. N \in Nat /\ \A n \in 1..N : Scripts!WellFormed(CHOOSE s \in Game : s.name = group[n])
  BY GameScripts
<1>1. PICK f : Loops(f, "group", group, L, N) /\ Scripts!LinkGroup(L, group) = f[N]
  <2> DEFINE u == CHOOSE f : f = [n \in 0 .. N |->
                     IF n = 0 THEN L ELSE Scripts!ScrGscObjLink(f[n - 1], group[n])]
  <2>1. Scripts!LinkGroup(L, group) = u[N]
    BY DEF Scripts!LinkGroup
  <2>2. PICK f : Loops(f, "group", group, L, N)
    BY <1>0, LoopsThrough
  <2>3. \A g : Loops(g, "group", group, L, N) <=>
          g = [n \in 0 .. N |-> IF n = 0 THEN L ELSE Scripts!ScrGscObjLink(g[n - 1], group[n])]
    BY DEF Loops, StepOf
  <2>4. Loops(u, "group", group, L, N)
    BY <2>2, <2>3
  <2> QED BY <2>1, <2>4
<1>2. f[0] = L /\ \A n \in 0..N - 1 : f[n + 1] = StepOf("group", group, f[n], n + 1)
  BY <1>0, <1>1, LoopStep
<1> HIDE DEF N
<1> DEFINE failing == {n \in 0..N : ~Going(f[n])}
<1>3. 0 \notin failing
  BY <1>2
<1>4. \A n \in 0..N - 1 : n + 1 \in failing => n \in failing
  <2> SUFFICES ASSUME NEW n \in 0..N - 1, Going(f[n]) PROVE Going(f[n + 1])
    BY <1>0
  <2>1. n + 1 \in 1..N
    BY <1>0
  <2>2. Scripts!WellFormed(CHOOSE s \in Game : s.name = group[n + 1])
    BY <1>0, <2>1
  <2>3. Going(Scripts!ScrGscObjLink(f[n], group[n + 1]))
    BY <2>2, NamedKeeps
  <2> QED BY <1>2, <2>3 DEF StepOf
<1>5. failing = {}
  <2> HIDE DEF failing
  <2>1. failing \subseteq 0..N
    BY DEF failing
  <2> QED BY <1>0, <1>3, <1>4, <2>1, NothingFails
<1>6. Going(f[N])
  BY <1>0, <1>5
<1> QED BY <1>1, <1>6 DEF N

(* link_detours: one list after the other catches up with the scripts.     *)
LEMMA SameTaken ==
    ASSUME NEW script, NEW p, NEW e, NEW n
    PROVE  Taken(scriptFiles, script, p, e, n) <=>
             /\ n \in DOMAIN Scripts!Detours(e)
             /\ Scripts!Takes(e, script, Scripts!Detours(e)[n], p)
  BY DEF Taken, DetourOf, PlacesOf, Scripts!Detours, Scripts!Takes, Scripts!InBody, Scripts!Start

(* The sites of a script stay, only where they lead changes.               *)
RelinkOf(e, script, linked) == Scripts!Relink(e, script, linked)

LEMMA SitesStay ==
    \A e, script, linked : DOMAIN RelinkOf(e, script, linked) = DOMAIN linked
  BY DEF Scripts!Relink, RelinkOf

(* What one list does to one script. *)
LEMMA Relinked ==
    ASSUME NEW e, IsEntry(scriptFiles, e), FilesAreWellFormed(scriptFiles),
           NEW script, NEW linked, NEW p \in DOMAIN linked,
           NEW v, v = RelinkOf(e, script, linked)[p]
    PROVE  \/ /\ \A n : ~Taken(scriptFiles, script, p, e, n)
              /\ v = linked[p]
           \/ \E n : /\ Taken(scriptFiles, script, p, e, n)
                     /\ v = [file |-> e.file, detour |-> DetourOf(scriptFiles, e, n)]
                     /\ \A m : Taken(scriptFiles, script, p, e, m) => m <= n
<1> DEFINE taken == {n \in DOMAIN Scripts!Detours(e) :
                       Scripts!Takes(e, script, Scripts!Detours(e)[n], p)}
<1>1. v = IF taken = {} THEN linked[p]
          ELSE [file |-> e.file, detour |-> Scripts!Detours(e)[Scripts!Max(taken)]]
  BY DEF RelinkOf, Scripts!Relink
<1>2. \A n : n \in taken <=> Taken(scriptFiles, script, p, e, n)
  <2>1. \A n : n \in taken <=> /\ n \in DOMAIN Scripts!Detours(e)
                               /\ Scripts!Takes(e, script, Scripts!Detours(e)[n], p)
    OBVIOUS
  <2> HIDE DEF taken
  <2> QED BY <2>1, SameTaken
<1>3. \E N \in Nat : taken \subseteq 1..N
  <2>1. e.file \in 1..Len(scriptFiles)
    BY DEF IsEntry, FilesAreWellFormed
  <2>2. Scripts!WellFormed(scriptFiles[e.file])
    BY <2>1 DEF FilesAreWellFormed
  <2> QED BY <2>2 DEF Scripts!WellFormed, Scripts!Detours
<1> HIDE DEF taken
<1>4. CASE taken = {}
  BY <1>1, <1>2, <1>4
<1>5. CASE taken # {}
  <2>1. Scripts!Max(taken) \in taken /\ \A y \in taken : y <= Scripts!Max(taken)
    BY <1>3, <1>5, LastOfPlaces
  <2>2. v = [file |-> e.file, detour |-> DetourOf(scriptFiles, e, Scripts!Max(taken))]
    BY <1>1, <1>5 DEF DetourOf, Scripts!Detours
  <2> QED BY <1>2, <2>1, <2>2
<1> QED BY <1>4, <1>5

(* All scripts are sound: one list catches up. *)
SeenAll(ob, da, k) == [da EXCEPT ![k].latest = Len(ob)]

Relinks(ob, li, da, k) ==
    [o \in DOMAIN li |-> IF o \in da[k].latest + 1 .. Len(ob) /\ o <= Len(ob)
                           THEN RelinkOf(da[k], ob[o], li[o]) ELSE li[o]]

(* What list k leaves when it has caught up.                               *)
CatchesUp(ob, li, da, k, lis, das) ==
    /\ DOMAIN lis = 1..Len(ob) /\ IsList(lis) /\ Len(lis) = Len(ob)
    /\ DOMAIN das = 1..Len(da) /\ IsList(das) /\ Len(das) = Len(da)
    /\ \A j \in 1..Len(da) : /\ das[j].file = da[j].file /\ IsEntry(scriptFiles, das[j])
                             /\ das[j].latest = IF j = k THEN Len(ob) ELSE da[j].latest
    /\ \A o \in 1..Len(ob) :
         /\ lis[o] = IF o \in da[k].latest + 1 .. Len(ob) /\ o <= Len(ob)
                       THEN RelinkOf(da[k], ob[o], li[o]) ELSE li[o]
         /\ DOMAIN lis[o] = DOMAIN li[o]

LEMMA ListRelinked ==
    ASSUME NEW ob, NEW li, NEW da, NEW k \in 1..Len(da), Typed(scriptFiles, ob, li, da)
    PROVE  CatchesUp(ob, li, da, k, Relinks(ob, li, da, k), SeenAll(ob, da, k))
<1> DEFINE lis == Relinks(ob, li, da, k)
           das == SeenAll(ob, da, k)
<1>1. /\ Len(ob) \in Nat /\ Len(li) = Len(ob) /\ DOMAIN li = 1..Len(ob)
      /\ Len(da) \in Nat /\ DOMAIN da = 1..Len(da) /\ IsEntry(scriptFiles, da[k])
  BY DEF Typed, IsList
<1>2. /\ DOMAIN lis = 1..Len(ob) /\ IsList(lis) /\ Len(lis) = Len(ob)
  <2>1. DOMAIN lis = 1..Len(ob) /\ lis = [o \in 1..Len(ob) |-> lis[o]]
    BY <1>1 DEF Relinks
  <2> QED BY <1>1, <2>1, ListOf
<1>3. /\ DOMAIN das = 1..Len(da) /\ IsList(das) /\ Len(das) = Len(da)
  <2>1. DOMAIN das = 1..Len(da) /\ das = [j \in 1..Len(da) |-> das[j]]
    BY <1>1 DEF SeenAll
  <2> QED BY <1>1, <2>1, ListOf
<1>4. \A j \in 1..Len(da) : /\ das[j].file = da[j].file /\ IsEntry(scriptFiles, das[j])
                            /\ das[j].latest = IF j = k THEN Len(ob) ELSE da[j].latest
  BY <1>1 DEF Typed, IsEntry, SeenAll
<1>5. \A o \in 1..Len(ob) :
        /\ lis[o] = IF o \in da[k].latest + 1 .. Len(ob) /\ o <= Len(ob)
                      THEN RelinkOf(da[k], ob[o], li[o]) ELSE li[o]
        /\ DOMAIN lis[o] = DOMAIN li[o]
  <2>1. \A o \in 1..Len(ob) :
          lis[o] = IF o \in da[k].latest + 1 .. Len(ob) /\ o <= Len(ob)
                     THEN RelinkOf(da[k], ob[o], li[o]) ELSE li[o]
    BY <1>1 DEF Relinks
  <2>2. ASSUME NEW o \in 1..Len(ob) PROVE DOMAIN lis[o] = DOMAIN li[o]
    <3>1. CASE o \in da[k].latest + 1 .. Len(ob) /\ o <= Len(ob)
      <4>1. lis[o] = RelinkOf(da[k], ob[o], li[o])
        BY <2>1, <3>1
      <4> QED BY <4>1, SitesStay
    <3>2. CASE ~(o \in da[k].latest + 1 .. Len(ob) /\ o <= Len(ob))
      <4>1. lis[o] = li[o]
        BY <2>1, <3>2
      <4> QED BY <4>1
    <3> QED BY <3>1, <3>2
  <2> QED BY <2>1, <2>2
<1> HIDE DEF lis, das
<1>6. CatchesUp(ob, li, da, k, lis, das)
  BY <1>2, <1>3, <1>4, <1>5 DEF CatchesUp
<1> QED BY <1>6 DEF lis, das

(* The lists before it have: then its detours are written last, since the  *)
(* lists after it have seen none of the scripts that are new to it.        *)
SeenBefore(ob, da, k) == \A j \in 1..Len(da) : j < k => da[j].latest = Len(ob)

LEMMA ListCatchesUp ==
    ASSUME FilesAreWellFormed(scriptFiles), NEW ob, NEW li, NEW da, NEW k \in 1..Len(da),
           Typed(scriptFiles, ob, li, da), Ready(scriptFiles, ob, li, da),
           SeenBefore(ob, da, k), NEW lis, NEW das, CatchesUp(ob, li, da, k, lis, das)
    PROVE  /\ Typed(scriptFiles, ob, lis, das) /\ Ready(scriptFiles, ob, lis, das)
           /\ Len(das) = Len(da)
           /\ \A j \in 1..Len(das) : j <= k => das[j].latest = Len(ob)
<1>1. /\ Len(ob) \in Nat /\ Len(li) = Len(ob) /\ DOMAIN li = 1..Len(ob)
      /\ Len(da) \in Nat /\ DOMAIN da = 1..Len(da) /\ IsEntry(scriptFiles, da[k])
  BY DEF Typed, IsList
<1>2. /\ DOMAIN lis = 1..Len(ob) /\ IsList(lis) /\ Len(lis) = Len(ob)
  BY DEF CatchesUp
<1>3. /\ DOMAIN das = 1..Len(da) /\ IsList(das) /\ Len(das) = Len(da)
  BY DEF CatchesUp
<1>4. \A j \in 1..Len(da) : /\ das[j].file = da[j].file /\ IsEntry(scriptFiles, das[j])
                            /\ das[j].latest = IF j = k THEN Len(ob) ELSE da[j].latest
  BY DEF CatchesUp
<1>5. \A o \in 1..Len(ob) :
        /\ lis[o] = IF o \in da[k].latest + 1 .. Len(ob) /\ o <= Len(ob)
                      THEN RelinkOf(da[k], ob[o], li[o]) ELSE li[o]
        /\ DOMAIN lis[o] = DOMAIN li[o]
  BY DEF CatchesUp
<1>6. Typed(scriptFiles, ob, lis, das)
  BY <1>1, <1>2, <1>3, <1>4, <1>5 DEF Typed
<1>7. InOrder(ob, das)
  <2>1. InOrder(ob, da)
    BY DEF Ready
  <2>2. \A j \in 1..Len(da) : das[j].latest \in 0..Len(ob)
    <3>1. \A j \in 1..Len(da) : da[j].latest \in 0..Len(ob)
      BY <2>1 DEF InOrder
    <3> QED BY <1>1, <1>4, <3>1
  <2>3. ASSUME NEW j \in 1..Len(da), NEW m \in 1..Len(da), j < m
        PROVE  das[m].latest <= das[j].latest
    <3>1. da[m].latest <= da[j].latest /\ da[m].latest \in 0..Len(ob) /\ da[j].latest \in 0..Len(ob)
      BY <2>1, <2>3 DEF InOrder
    <3>2. m = k => da[j].latest = Len(ob)
      BY <2>3 DEF SeenBefore
    <3>3. /\ das[j].latest = IF j = k THEN Len(ob) ELSE da[j].latest
          /\ das[m].latest = IF m = k THEN Len(ob) ELSE da[m].latest
      BY <1>4
    <3> QED BY <1>1, <2>3, <3>1, <3>2, <3>3
  <2> QED BY <1>3, <2>2, <2>3 DEF InOrder
<1>8. ASSUME NEW o \in 1..Len(ob), NEW p \in DOMAIN lis[o]
      PROVE  Leads(scriptFiles, ob[o], das, o, p, lis[o][p])
  <2>1. p \in DOMAIN li[o] /\ Leads(scriptFiles, ob[o], da, o, p, li[o][p])
    BY <1>5, <1>8 DEF Ready, AllLead
  <2>2. \A j, n : Taken(scriptFiles, ob[o], p, das[j], n) /\ j \in 1..Len(da) <=>
                  Taken(scriptFiles, ob[o], p, da[j], n) /\ j \in 1..Len(da)
    BY <1>4 DEF Taken, DetourOf, PlacesOf
  <2>3. \A j, n : \/ DetourOf(scriptFiles, das[j], n) = DetourOf(scriptFiles, da[j], n)
                  \/ j \notin 1..Len(da)
    BY <1>4 DEF DetourOf
  <2>4. CASE o <= da[k].latest
    <3>1. lis[o] = li[o]
      <4>1. da[k].latest \in Nat
        BY DEF Ready, InOrder
      <4>2. o \notin da[k].latest + 1 .. Len(ob)
        BY <1>1, <2>4, <4>1
      <4> QED BY <1>5, <4>2, Zenon
    <3>2. \A j, n : Counts(scriptFiles, ob[o], das, o, p, j, n)
                      <=> Counts(scriptFiles, ob[o], da, o, p, j, n)
      <4>1. \A j \in 1..Len(da) : o <= das[j].latest <=> o <= da[j].latest
        <5>1. o <= Len(ob)
          BY <1>1
        <5> QED BY <1>4, <2>4, <5>1
      <4> QED BY <1>3, <2>2, <4>1 DEF Counts
    <3>3. \A j, n : Counts(scriptFiles, ob[o], da, o, p, j, n) => j \in 1..Len(da)
      BY DEF Counts
    <3> QED BY <1>4, <2>1, <2>3, <3>1, <3>2, <3>3 DEF Leads
  <2>5. CASE ~(o <= da[k].latest)
    <3>0. da[k].latest \in 0..Len(ob)
      BY DEF Ready, InOrder
    <3>1. lis[o] = RelinkOf(da[k], ob[o], li[o])
      BY <1>1, <1>5, <2>5, <3>0
    <3>2. ASSUME NEW j, NEW n
          PROVE  Counts(scriptFiles, ob[o], das, o, p, j, n) <=>
                   \/ j < k /\ Counts(scriptFiles, ob[o], da, o, p, j, n)
                   \/ j = k /\ Taken(scriptFiles, ob[o], p, da[k], n)
      <4>1. CASE j \notin 1..Len(da)
        BY <1>3, <4>1 DEF Counts
      <4>2. CASE j \in 1..Len(da) /\ j < k
        <5>1. das[j].latest = da[j].latest
          BY <1>4, <4>2
        <5> QED BY <1>3, <2>2, <4>2, <5>1 DEF Counts
      <4>3. CASE j = k
        <5>1. das[k].latest = Len(ob) /\ o <= Len(ob)
          BY <1>1, <1>4
        <5> QED BY <1>3, <2>2, <4>3, <5>1 DEF Counts
      <4>4. CASE j \in 1..Len(da) /\ k < j
        <5>1. das[j].latest = da[j].latest /\ da[j].latest <= da[k].latest /\ da[j].latest \in Nat
          BY <1>4, <4>4 DEF Ready, InOrder
        <5>2. ~(o <= das[j].latest)
          BY <2>5, <3>0, <5>1
        <5> QED BY <4>4, <5>2 DEF Counts
      <4> QED BY <1>1, <4>1, <4>2, <4>3, <4>4
    <3>3. \A j, n : Counts(scriptFiles, ob[o], da, o, p, j, n) => j < k
      <4>1. ASSUME NEW j, NEW n, Counts(scriptFiles, ob[o], da, o, p, j, n), ~(j < k) PROVE FALSE
        <5>1. j \in 1..Len(da) /\ o <= da[j].latest
          BY <4>1 DEF Counts
        <5>2. da[j].latest <= da[k].latest /\ da[j].latest \in Nat
          BY <4>1, <5>1, <1>1 DEF Ready, InOrder
        <5> QED BY <2>5, <3>0, <5>1, <5>2
      <4> QED BY <4>1
    <3>4. CASE /\ \A n : ~Taken(scriptFiles, ob[o], p, da[k], n)
               /\ lis[o][p] = li[o][p]
      <4>1. \A j, n : Counts(scriptFiles, ob[o], das, o, p, j, n)
                        <=> Counts(scriptFiles, ob[o], da, o, p, j, n)
        BY <3>2, <3>3, <3>4
      <4>2. \A j, n : Counts(scriptFiles, ob[o], da, o, p, j, n) => j \in 1..Len(da)
        BY DEF Counts
      <4> QED BY <1>4, <2>1, <2>3, <3>4, <4>1, <4>2 DEF Leads
    <3>5. ASSUME NEW n, Taken(scriptFiles, ob[o], p, da[k], n),
                 lis[o][p] = [file |-> da[k].file, detour |-> DetourOf(scriptFiles, da[k], n)],
                 \A m : Taken(scriptFiles, ob[o], p, da[k], m) => m <= n
          PROVE  Leads(scriptFiles, ob[o], das, o, p, lis[o][p])
      <4>1. Counts(scriptFiles, ob[o], das, o, p, k, n)
        BY <3>2, <3>5
      <4>2. lis[o][p] = [file |-> das[k].file, detour |-> DetourOf(scriptFiles, das[k], n)]
        BY <1>1, <1>4, <2>3, <3>5
      <4>3. \A j, m : Counts(scriptFiles, ob[o], das, o, p, j, m) => j < k \/ (j = k /\ m <= n)
        BY <3>2, <3>5
      <4> QED BY <4>1, <4>2, <4>3 DEF Leads
    <3>6. \/ /\ \A n : ~Taken(scriptFiles, ob[o], p, da[k], n)
             /\ lis[o][p] = li[o][p]
          \/ \E n : /\ Taken(scriptFiles, ob[o], p, da[k], n)
                    /\ lis[o][p] = [file |-> da[k].file, detour |-> DetourOf(scriptFiles, da[k], n)]
                    /\ \A m : Taken(scriptFiles, ob[o], p, da[k], m) => m <= n
      BY <1>1, <2>1, <3>1, Relinked
    <3> QED BY <3>4, <3>5, <3>6
  <2> QED BY <2>4, <2>5
<1>9. \A j \in 1..Len(das) : j <= k => das[j].latest = Len(ob)
  BY <1>1, <1>3, <1>4 DEF SeenBefore
<1> QED BY <1>3, <1>6, <1>7, <1>8, <1>9 DEF Ready, AllLead

(* Whatever happens, a list keeps its script, and the scripts stay.        *)
Same(L, M) ==
    /\ IsLinking(M) /\ M.objs = L.objs
    /\ Len(M.data) = Len(L.data) /\ Typed(scriptFiles, M.objs, M.links, M.data)
    /\ \A k \in 1..Len(L.data) : M.data[k].file = L.data[k].file

LEMMA NothingDamaged ==
    ASSUME NEW ob, Sound(ob), IsList(ob), NEW e, NEW new, new \subseteq 1..Len(ob)
    PROVE  {o \in new : Scripts!Damaged(e, ob[o])} = {}
<1>1. \A o \in 1..Len(ob) : ~Scripts!Damaged(e, ob[o])
  BY DEF Sound, Scripts!Damaged
<1> QED BY <1>1

LEMMA ListKeeps ==
    ASSUME FilesAreWellFormed(scriptFiles), NEW L, IsLinking(L),
           Typed(scriptFiles, L.objs, L.links, L.data), NEW k \in 1..Len(L.data)
    PROVE  Same(L, Scripts!DetoursOf(L, k))
<1>1. CASE L.stop
  BY <1>1 DEF Scripts!DetoursOf, Same
<1>2. CASE ~L.stop
  <2> DEFINE entry == L.data[k]
             new == entry.latest + 1 .. Len(L.objs)
             damaged == {o \in new : Scripts!Damaged(entry, L.objs[o])}
             last == IF damaged = {} THEN Len(L.objs) ELSE Scripts!Min(damaged) - 1
             lis == [o \in DOMAIN L.links |->
                       IF o \in new /\ o <= last THEN Scripts!Relink(entry, L.objs[o], L.links[o])
                                                 ELSE L.links[o]]
             das == [L.data EXCEPT ![k].latest = last]
             M == Scripts!DetoursOf(L, k)
  <2>1. M = [L EXCEPT !.links = lis, !.data = das, !.stop = (damaged # {})]
    BY <1>2 DEF Scripts!DetoursOf, IsLinking
  <2>2. \A o \in DOMAIN L.links : DOMAIN lis[o] = DOMAIN L.links[o]
    BY DEF Scripts!Relink
  <2>3. DOMAIN lis = DOMAIN L.links /\ lis = [o \in DOMAIN L.links |-> lis[o]]
    OBVIOUS
  <2> HIDE DEF last, damaged, new, M, lis
  <2>4. /\ DOMAIN L.links = 1..Len(L.links) /\ Len(L.links) \in Nat
        /\ DOMAIN L.data = 1..Len(L.data) /\ Len(L.data) \in Nat
    BY DEF Typed, IsList
  <2>5. IsList(lis) /\ Len(lis) = Len(L.links)
    BY <2>3, <2>4, ListOf
  <2>6. IsList(das) /\ Len(das) = Len(L.data)
    <3>1. DOMAIN das = 1..Len(L.data) /\ das = [j \in 1..Len(L.data) |-> das[j]]
      BY <2>4
    <3> HIDE DEF das
    <3> QED BY <2>4, <3>1, ListOf
  <2>7. ASSUME NEW j \in 1..Len(L.data)
        PROVE  das[j].file = L.data[j].file /\ IsEntry(scriptFiles, das[j])
    <3>1. IsEntry(scriptFiles, L.data[j])
      BY DEF Typed
    <3>2. das[j] = IF j = k THEN [L.data[j] EXCEPT !.latest = last] ELSE L.data[j]
      BY <2>4
    <3> HIDE DEF das
    <3> QED BY <3>1, <3>2 DEF IsEntry
  <2> HIDE DEF das
  <2>8. IsLinking(M) /\ M.objs = L.objs /\ M.links = lis /\ M.data = das
    BY <2>1 DEF IsLinking
  <2>9. Typed(scriptFiles, L.objs, lis, das)
    BY <2>2, <2>4, <2>5, <2>6, <2>7 DEF Typed
  <2>10. Same(L, M)
    BY <2>6, <2>7, <2>8, <2>9 DEF Same
  <2> QED BY <2>10 DEF M
<1> QED BY <1>1, <1>2

(* The first k lists have seen all scripts.                                *)
Caught(L, k) == \A j \in 1..Len(L.data) : j <= k => L.data[j].latest = Len(L.objs)

LEMMA SoundListKeeps ==
    ASSUME FilesAreWellFormed(scriptFiles), NEW L, IsLinking(L),
           Typed(scriptFiles, L.objs, L.links, L.data), Sound(L.objs), L.stop = FALSE,
           Ready(scriptFiles, L.objs, L.links, L.data), NEW n \in Nat, Caught(L, n),
           n + 1 \in 1..Len(L.data)
    PROVE  LET M == Scripts!DetoursOf(L, n + 1)
           IN /\ M.stop = FALSE /\ Ready(scriptFiles, M.objs, M.links, M.data)
              /\ Caught(M, n + 1)
<1> DEFINE k == n + 1
           entry == L.data[k]
           new == entry.latest + 1 .. Len(L.objs)
           damaged == {o \in new : Scripts!Damaged(entry, L.objs[o])}
           last == IF damaged = {} THEN Len(L.objs) ELSE Scripts!Min(damaged) - 1
           N == Len(L.objs)
           lis == [o \in DOMAIN L.links |->
                     IF o \in L.data[k].latest + 1 .. Len(L.objs) /\ o <= Len(L.objs)
                       THEN Scripts!Relink(L.data[k], L.objs[o], L.links[o]) ELSE L.links[o]]
           das == [L.data EXCEPT ![k].latest = Len(L.objs)]
           M == Scripts!DetoursOf(L, k)
<1>1. damaged = {}
  <2>1. new \subseteq 1..Len(L.objs)
    <3>1. entry.latest \in Nat /\ Len(L.objs) \in Nat
      BY DEF Ready, InOrder, Typed, IsList
    <3> QED BY <3>1
  <2>2. IsList(L.objs)
    BY DEF Typed
  <2> HIDE DEF new, entry
  <2> QED BY <2>1, <2>2, NothingDamaged
<1>2. last = Len(L.objs)
  BY <1>1
<1>3. M = [L EXCEPT
             !.links = [o \in DOMAIN L.links |->
                          IF o \in new /\ o <= last
                            THEN Scripts!Relink(entry, L.objs[o], L.links[o]) ELSE L.links[o]],
             !.data = [L.data EXCEPT ![k].latest = last], !.stop = (damaged # {})]
  BY DEF Scripts!DetoursOf, IsLinking
<1>4. M = [L EXCEPT !.links = lis, !.data = das, !.stop = FALSE]
  <2> HIDE DEF damaged, last, M, k
  <2> QED BY <1>1, <1>2, <1>3
<1> HIDE DEF M, lis, das, damaged, last
<1>5. M.objs = L.objs /\ M.links = lis /\ M.data = das /\ M.stop = FALSE
  BY <1>4 DEF IsLinking
<1>6. SeenBefore(L.objs, L.data, k)
  BY DEF Caught, Typed, IsList, SeenBefore
<1>7. /\ Ready(scriptFiles, L.objs, lis, das)
      /\ Len(das) = Len(L.data)
      /\ \A j \in 1..Len(das) : j <= k => das[j].latest = Len(L.objs)
  <2>1. k \in 1..Len(L.data)
    OBVIOUS
  <2>2. lis = Relinks(L.objs, L.links, L.data, k) /\ das = SeenAll(L.objs, L.data, k)
    BY DEF lis, das, SeenAll, Relinks, RelinkOf
  <2> HIDE DEF k, entry, new
  <2>3. CatchesUp(L.objs, L.links, L.data, k, lis, das)
    BY <2>1, <2>2, ListRelinked
  <2> QED BY <1>6, <2>1, <2>3, ListCatchesUp
<1>8. M.stop = FALSE /\ Ready(scriptFiles, M.objs, M.links, M.data) /\ Caught(M, k)
  BY <1>5, <1>7 DEF Caught
<1> QED BY <1>8 DEF M

(* LinkDetours is a loop over the lists.                                   *)
LEMMA DetoursLoop ==
    ASSUME NEW L, Len(L.data) \in Nat
    PROVE  \E f : /\ Loops(f, "lists", L, [L EXCEPT !.stop = FALSE], Len(L.data))
                  /\ Scripts!LinkDetours(L) = f[Len(L.data)]
<1> DEFINE N == Len(L.data)
           begin == [L EXCEPT !.stop = FALSE]
           u == CHOOSE f : f = [k \in 0 .. N |->
                   IF k = 0 THEN [L EXCEPT !.stop = FALSE] ELSE Scripts!DetoursOf(f[k - 1], k)]
<1>1. Scripts!LinkDetours(L) = u[N]
  BY DEF Scripts!LinkDetours
<1>2. PICK f : Loops(f, "lists", L, begin, N)
  BY LoopsThrough
<1>3. \A g : Loops(g, "lists", L, begin, N) <=>
        g = [k \in 0 .. N |->
                   IF k = 0 THEN [L EXCEPT !.stop = FALSE] ELSE Scripts!DetoursOf(g[k - 1], k)]
  BY DEF Loops, StepOf
<1>4. Loops(u, "lists", L, begin, N)
  BY <1>2, <1>3
<1> QED BY <1>1, <1>4

(* After all lists: their scripts are the same, and if all scripts are      *)
(* sound each site leads where the lists say.                               *)
LEMMA DetoursKeep ==
    ASSUME FilesAreWellFormed(scriptFiles), NEW L, Going(L)
    PROVE  LET M == Scripts!LinkDetours(L)
           IN /\ Same(L, M)
              /\ Sound(L.objs) =>
                   Ready(scriptFiles, M.objs, M.links, M.data) /\ Caught(M, Len(M.data))
<1> DEFINE N == Len(L.data)
           begin == [L EXCEPT !.stop = FALSE]
<1>0. N \in Nat
  BY DEF Going, Typed, IsList
<1>1. PICK f : Loops(f, "lists", L, begin, N) /\ Scripts!LinkDetours(L) = f[N]
  BY <1>0, DetoursLoop
<1>2. f[0] = begin /\ \A n \in 0..N - 1 : f[n + 1] = StepOf("lists", L, f[n], n + 1)
  <2> HIDE DEF begin, N
  <2> QED BY <1>0, <1>1, LoopStep
<1>3. \A n \in 0..N - 1 : f[n + 1] = Scripts!DetoursOf(f[n], n + 1)
  BY <1>2 DEF StepOf
<1>4. /\ Same(L, begin) /\ begin.stop = FALSE
      /\ begin.data = L.data /\ begin.links = L.links /\ begin.objs = L.objs
  <2>1. /\ IsLinking(begin) /\ begin.stop = FALSE /\ begin.data = L.data /\ begin.links = L.links
        /\ begin.objs = L.objs
    <3>1. begin = [L EXCEPT !.stop = FALSE]
      OBVIOUS
    <3> HIDE DEF begin
    <3> QED BY <3>1 DEF Going, IsLinking
  <2> HIDE DEF begin
  <2> QED BY <2>1 DEF Going, Same
<1> HIDE DEF begin
<1> DEFINE Fine(n) ==
      /\ Same(L, f[n])
      /\ Sound(L.objs) => /\ f[n].stop = FALSE
                          /\ Ready(scriptFiles, f[n].objs, f[n].links, f[n].data)
                          /\ Caught(f[n], n)
    failing == {n \in 0..N : ~Fine(n)}
<1>5. Fine(0)
  <2>1. Caught(begin, 0)
    BY <1>0, <1>4 DEF Caught
  <2> QED BY <1>2, <1>4, <2>1 DEF Going
<1>6. ASSUME NEW n \in 0..N - 1, Fine(n) PROVE Fine(n + 1)
  <2> DEFINE P == f[n]
             M == f[n + 1]
  <2>1. /\ IsLinking(P) /\ Typed(scriptFiles, P.objs, P.links, P.data) /\ P.objs = L.objs
        /\ Len(P.data) = N /\ \A k \in 1..N : P.data[k].file = L.data[k].file
    BY <1>6 DEF Same
  <2>2. n \in Nat /\ n + 1 \in 1..Len(P.data)
    BY <1>0, <2>1
  <2>3. M = Scripts!DetoursOf(P, n + 1)
    BY <1>3
  <2> HIDE DEF P, M, N
  <2>4. Same(P, M)
    BY <2>1, <2>2, <2>3, ListKeeps
  <2>5. Same(L, M)
    BY <2>1, <2>4 DEF Same, N
  <2>6. ASSUME Sound(L.objs)
        PROVE  /\ M.stop = FALSE /\ Ready(scriptFiles, M.objs, M.links, M.data)
               /\ Caught(M, n + 1)
    <3>1. P.stop = FALSE /\ Ready(scriptFiles, P.objs, P.links, P.data) /\ Caught(P, n)
      BY <1>6, <2>6 DEF P
    <3>2. Sound(P.objs)
      BY <2>1, <2>6
    <3> QED BY <2>1, <2>2, <2>3, <3>1, <3>2, SoundListKeeps
  <2> QED BY <2>5, <2>6 DEF M
<1> HIDE DEF Fine, N
<1>7. failing = {}
  <2>1. 0 \notin failing
    BY <1>5
  <2>2. \A n \in 0..N - 1 : n + 1 \in failing => n \in failing
    <3> SUFFICES ASSUME NEW n \in 0..N - 1, Fine(n) PROVE Fine(n + 1)
      BY <1>0
    <3> QED BY <1>6
  <2>3. failing \subseteq 0..N
    OBVIOUS
  <2> HIDE DEF failing
  <2> QED BY <1>0, <2>1, <2>2, <2>3, NothingFails
<1>8. Fine(N)
  BY <1>0, <1>7
<1>9. /\ Same(L, f[N])
      /\ Sound(L.objs) => Ready(scriptFiles, f[N].objs, f[N].links, f[N].data) /\ Caught(f[N], N)
  BY <1>8 DEF Fine
<1>10. Len(f[N].data) = N
  BY <1>9 DEF Same, N
<1> QED BY <1>1, <1>9, <1>10 DEF N

(* From what the lists say to where the calls must lead: the last detour   *)
(* in the order of the lists is the one that DetoursLinked wants.          *)
DetourHere(i, k, n) == Scripts!DetourAt(i, <<k, n>>)

LEMMA OneLast ==
    ASSUME NEW A, \A a \in A : \E j \in Nat, n \in Nat : a = <<j, n>>,
           NEW a \in A, \A b \in A : ~Scripts!Before(a, b)
    PROVE  (CHOOSE c \in A : \A b \in A : ~Scripts!Before(c, b)) = a
<1> DEFINE c == CHOOSE x \in A : \A b \in A : ~Scripts!Before(x, b)
<1>1. c \in A /\ \A b \in A : ~Scripts!Before(c, b)
  OBVIOUS
<1> HIDE DEF c
<1>2. ~Scripts!Before(a, c) /\ ~Scripts!Before(c, a)
  BY <1>1
<1>3. PICK j \in Nat, n \in Nat : a = <<j, n>>
  OBVIOUS
<1>4. PICK k \in Nat, m \in Nat : c = <<k, m>>
  BY <1>1
<1>5. j = k /\ n = m
  BY <1>2, <1>3, <1>4 DEF Scripts!Before
<1>6. c = a
  BY <1>3, <1>4, <1>5
<1> QED BY <1>6 DEF c

LEMMA LeadsAsWanted ==
    ASSUME FilesAreWellFormed(scriptFiles), NEW i,
           IsList(lists[i]), \A k \in 1..Len(lists[i]) : lists[i][k].file \in DOMAIN scriptFiles,
           NEW script, NEW o, NEW p \in Nat, \A k \in 1..Len(lists[i]) : o <= lists[i][k].latest,
           NEW v, Leads(scriptFiles, script, lists[i], o, p, v)
    PROVE  v = Scripts!Wanted(i, script, p)
<1> DEFINE da == lists[i]
           Mine(a) == LET d == Scripts!DetourAt(i, a).detour
                          begin == scriptFiles[Scripts!DetourAt(i, a).file].base + d.offset
                      IN /\ Scripts!Sees(script, d)
                         /\ \E m \in Scripts!ToSet(script.imports) : m.fn = d.fn /\ p \in m.sites
                         /\ p \notin begin .. begin + d.size - 1
           mine == {a \in Scripts!Active(i) : Mine(a)}
<1>1. Scripts!Wanted(i, script, p) =
        IF mine = {} THEN GamesOwn
        ELSE Scripts!DetourAt(i, CHOOSE a \in mine : \A b \in mine : ~Scripts!Before(a, b))
  BY DEF Scripts!Wanted
<1>2. Len(da) \in Nat /\ DOMAIN da = 1..Len(da)
  BY DEF IsList
<1>3. ASSUME NEW k \in 1..Len(da), NEW n \in PlacesOf(scriptFiles, da[k])
      PROVE  /\ n \in Nat /\ scriptFiles[da[k].file].base \in Nat
             /\ DetourOf(scriptFiles, da[k], n).offset \in Nat
             /\ DetourOf(scriptFiles, da[k], n).size \in Nat
  <2>1. Scripts!WellFormed(scriptFiles[da[k].file])
    BY DEF FilesAreWellFormed
  <2>2. DetourOf(scriptFiles, da[k], n) \in Scripts!ToSet(scriptFiles[da[k].file].detours)
    BY DEF DetourOf, PlacesOf, Scripts!ToSet
  <2> QED BY <2>1, <2>2 DEF Scripts!WellFormed, PlacesOf
<1>4. \A a : a \in Scripts!Active(i) <=>
        \E k \in 1..Len(da) : \E n \in PlacesOf(scriptFiles, da[k]) : a = <<k, n>>
  BY <1>2 DEF Scripts!Active, Scripts!Detours, PlacesOf
<1>5. \A k, n : DetourHere(i, k, n)
                  = [file |-> da[k].file, detour |-> DetourOf(scriptFiles, da[k], n)]
  BY DEF DetourHere, Scripts!DetourAt, Scripts!Detours, DetourOf
<1>6. ASSUME NEW k \in 1..Len(da), NEW n \in PlacesOf(scriptFiles, da[k])
      PROVE  Mine(<<k, n>>) <=> Taken(scriptFiles, script, p, da[k], n)
  <2> DEFINE d == DetourOf(scriptFiles, da[k], n)
             begin == scriptFiles[da[k].file].base + d.offset
  <2>1. p \notin begin .. begin + d.size - 1 <=> ~(begin <= p /\ p < begin + d.size)
    <3>1. scriptFiles[da[k].file].base \in Nat /\ d.offset \in Nat /\ d.size \in Nat
      BY <1>3
    <3> HIDE DEF d
    <3>2. begin \in Nat
      BY <3>1
    <3> HIDE DEF begin
    <3> QED BY <3>1, <3>2
  <2>2. Scripts!DetourAt(i, <<k, n>>).detour = d /\ Scripts!DetourAt(i, <<k, n>>).file = da[k].file
    <3>1. Scripts!DetourAt(i, <<k, n>>) = DetourHere(i, k, n)
      BY DEF DetourHere
    <3> QED BY <1>5, <3>1
  <2> QED BY <2>1, <2>2 DEF Taken
<1> HIDE DEF Mine
<1>7. \A k, n : Counts(scriptFiles, script, da, o, p, k, n) <=>
                  k \in 1..Len(da) /\ Taken(scriptFiles, script, p, da[k], n)
  BY DEF Counts
<1>8. \A k, n : Counts(scriptFiles, script, da, o, p, k, n) <=> <<k, n>> \in mine
  <2> SUFFICES ASSUME NEW k, NEW n
               PROVE  Counts(scriptFiles, script, da, o, p, k, n) <=> <<k, n>> \in mine
    OBVIOUS
  <2>1. Taken(scriptFiles, script, p, da[k], n) => n \in PlacesOf(scriptFiles, da[k])
    BY DEF Taken
  <2>2. <<k, n>> \in Scripts!Active(i) <=> k \in 1..Len(da) /\ n \in PlacesOf(scriptFiles, da[k])
    BY <1>4
  <2> HIDE DEF da
  <2> QED BY <1>6, <1>7, <2>1, <2>2
<1>9. \A a \in mine : \E k \in Nat, n \in Nat : a = <<k, n>>
  <2> SUFFICES ASSUME NEW a \in Scripts!Active(i) PROVE \E k \in Nat, n \in Nat : a = <<k, n>>
    OBVIOUS
  <2>1. PICK k \in 1..Len(da) : \E n \in PlacesOf(scriptFiles, da[k]) : a = <<k, n>>
    BY <1>4
  <2>2. PICK n \in PlacesOf(scriptFiles, da[k]) : a = <<k, n>>
    BY <2>1
  <2>3. k \in Nat /\ n \in Nat
    BY <1>2, <1>3
  <2> QED BY <2>2, <2>3
<1> HIDE DEF mine
<1>10. CASE v = GamesOwn /\ \A j, n : ~Counts(scriptFiles, script, da, o, p, j, n)
  <2>1. mine = {}
    BY <1>8, <1>9, <1>10
  <2> QED BY <1>1, <1>10, <2>1
<1>11. ASSUME NEW j, NEW n, Counts(scriptFiles, script, da, o, p, j, n),
              v = [file |-> da[j].file, detour |-> DetourOf(scriptFiles, da[j], n)],
              \A k, m : Counts(scriptFiles, script, da, o, p, k, m) => k < j \/ (k = j /\ m <= n)
       PROVE  v = Scripts!Wanted(i, script, p)
  <2>1. <<j, n>> \in mine
    BY <1>8, <1>11
  <2>2. j \in Nat /\ n \in Nat
    BY <1>9, <2>1
  <2>3. ASSUME NEW b \in mine PROVE ~Scripts!Before(<<j, n>>, b)
    <3>1. PICK k \in Nat, m \in Nat : b = <<k, m>>
      BY <1>9
    <3>2. k < j \/ (k = j /\ m <= n)
      BY <1>8, <1>11, <3>1
    <3> QED BY <2>2, <3>1, <3>2 DEF Scripts!Before
  <2>4. (CHOOSE a \in mine : \A b \in mine : ~Scripts!Before(a, b)) = <<j, n>>
    BY <1>9, <2>1, <2>3, OneLast
  <2>5. v = Scripts!DetourAt(i, <<j, n>>)
    <3>1. Scripts!DetourAt(i, <<j, n>>) = DetourHere(i, j, n)
      BY DEF DetourHere
    <3> QED BY <1>5, <1>11, <3>1
  <2>6. mine # {}
    BY <2>1
  <2> QED BY <1>1, <2>4, <2>5, <2>6
<1> QED BY <1>10, <1>11 DEF Leads

(* The invariant, for each instance whose lists are of scripts that are    *)
(* still there: its lists have seen all its scripts.                       *)
Listed(i) ==
    /\ Typed(scriptFiles, objs[i], links[i], lists[i])
    /\ Apart(scriptFiles, lists[i])
    /\ objs[i] # <<>> /\ Sound(objs[i]) =>
         /\ Ready(scriptFiles, objs[i], links[i], lists[i])
         /\ \A k \in 1..Len(lists[i]) : lists[i][k].latest = Len(objs[i])

Linked(ob, li) ==
    /\ IsList(ob) /\ IsList(li) /\ Len(li) = Len(ob)
    /\ \A n \in 1..Len(ob) : Scripts!WellFormed(ob[n])
    /\ \A n \in 1..Len(li) : DOMAIN li[n] \subseteq Nat

DetoursInv ==
    /\ scriptFiles \in Loads
    /\ objs = [i \in Scripts!Instances |-> objs[i]]
    /\ links = [i \in Scripts!Instances |-> links[i]]
    /\ lists = [i \in Scripts!Instances |-> lists[i]]
    /\ \A i \in Scripts!Instances :
         /\ Linked(objs[i], links[i]) /\ IsList(lists[i])
         /\ i \notin gone \/ lists[i] = <<>> => Listed(i)

(* It says what DetoursLinked says.                                        *)
LEMMA ListedWell ==
    ASSUME FilesAreWellFormed(scriptFiles), NEW i, Listed(i)
    PROVE  /\ Sound(objs[i]) => \A o \in 1..Len(objs[i]) : \A p \in DOMAIN links[i][o] :
                links[i][o][p] = Scripts!Wanted(i, objs[i][o], p)
           /\ \A a, b \in Scripts!Active(i) :
                Scripts!DetourAt(i, a).file # Scripts!DetourAt(i, b).file =>
                  Scripts!Key(Scripts!DetourAt(i, a).detour)
                    # Scripts!Key(Scripts!DetourAt(i, b).detour)
<1> DEFINE da == lists[i]
<1>1. /\ IsList(da) /\ DOMAIN da = 1..Len(da)
      /\ Len(links[i]) = Len(objs[i]) /\ Len(objs[i]) \in Nat
      /\ \A k \in 1..Len(da) : da[k].file \in DOMAIN scriptFiles
  BY DEF Listed, Typed, IsList, IsEntry
<1>2. ASSUME Sound(objs[i]), NEW o \in 1..Len(objs[i]), NEW p \in DOMAIN links[i][o]
      PROVE  links[i][o][p] = Scripts!Wanted(i, objs[i][o], p)
  <2>1. objs[i] # <<>>
    BY <1>1
  <2>2. /\ Leads(scriptFiles, objs[i][o], da, o, p, links[i][o][p])
        /\ \A k \in 1..Len(da) : o <= da[k].latest
    BY <1>1, <1>2, <2>1 DEF Listed, Ready, AllLead
  <2>3. p \in Nat
    BY <1>1 DEF Listed, Typed
  <2> QED BY <1>1, <2>2, <2>3, LeadsAsWanted
<1>3. \A a : a \in Scripts!Active(i) <=>
        \E k \in 1..Len(da) : \E n \in PlacesOf(scriptFiles, da[k]) : a = <<k, n>>
  BY <1>1 DEF Scripts!Active, Scripts!Detours, PlacesOf
<1>4. \A k, n : DetourHere(i, k, n)
                  = [file |-> da[k].file, detour |-> DetourOf(scriptFiles, da[k], n)]
  BY DEF DetourHere, Scripts!DetourAt, Scripts!Detours, DetourOf
<1>5. ASSUME NEW a \in Scripts!Active(i), NEW b \in Scripts!Active(i),
             Scripts!DetourAt(i, a).file # Scripts!DetourAt(i, b).file
      PROVE  Scripts!Key(Scripts!DetourAt(i, a).detour) # Scripts!Key(Scripts!DetourAt(i, b).detour)
  <2>1. PICK k \in 1..Len(da) : \E n \in PlacesOf(scriptFiles, da[k]) : a = <<k, n>>
    BY <1>3
  <2>2. PICK n \in PlacesOf(scriptFiles, da[k]) : a = <<k, n>>
    BY <2>1
  <2>3. PICK j \in 1..Len(da) : \E m \in PlacesOf(scriptFiles, da[j]) : b = <<j, m>>
    BY <1>3
  <2>4. PICK m \in PlacesOf(scriptFiles, da[j]) : b = <<j, m>>
    BY <2>3
  <2>5. /\ Scripts!DetourAt(i, a).file = da[k].file
        /\ Scripts!DetourAt(i, a).detour = DetourOf(scriptFiles, da[k], n)
        /\ Scripts!DetourAt(i, b).file = da[j].file
        /\ Scripts!DetourAt(i, b).detour = DetourOf(scriptFiles, da[j], m)
    <3>1. /\ Scripts!DetourAt(i, a) = DetourHere(i, k, n)
          /\ Scripts!DetourAt(i, b) = DetourHere(i, j, m)
      BY <2>2, <2>4 DEF DetourHere
    <3> QED BY <1>4, <3>1
  <2>6. Apart(scriptFiles, da)
    BY DEF Listed
  <2> HIDE DEF da
  <2> QED BY <1>5, <2>5, <2>6 DEF Apart, KeyAt
<1> QED BY <1>2, <1>5

LEMMA InvMeans == ASSUME Scripts!ScriptsAssumption, DetoursInv PROVE DetoursLinked
<1>1. FilesAreWellFormed(scriptFiles)
  BY LoadedScripts DEF DetoursInv
<1>2. ASSUME NEW i \in Scripts!Instances, ~Scripts!Dangling(i, lists[i])
      PROVE  /\ (\A s \in Scripts!ToSet(objs[i]) :
                    \A m \in Scripts!ToSet(s.imports) : m.form \in 1..7) =>
                  \A o \in DOMAIN objs[i] : \A p \in DOMAIN links[i][o] :
                     links[i][o][p] = Scripts!Wanted(i, objs[i][o], p)
             /\ \A a, b \in Scripts!Active(i) :
                  Scripts!DetourAt(i, a).file # Scripts!DetourAt(i, b).file =>
                    Scripts!Key(Scripts!DetourAt(i, a).detour)
                      # Scripts!Key(Scripts!DetourAt(i, b).detour)
  <2>1. Listed(i)
    BY <1>2 DEF Scripts!Dangling, DetoursInv
  <2>2. DOMAIN objs[i] = 1..Len(objs[i])
    BY DEF DetoursInv, Linked, IsList
  <2>3. (\A s \in Scripts!ToSet(objs[i]) : \A m \in Scripts!ToSet(s.imports) : m.form \in 1..7)
          => Sound(objs[i])
    BY <2>2 DEF Sound, Scripts!ToSet
  <2> QED BY <1>1, <2>1, <2>2, <2>3, ListedWell
<1> QED BY <1>2 DEF DetoursLinked, Scripts!DetoursLinked

(* Without lists there is nothing to say of them ...                       *)
LEMMA NothingListed ==
    ASSUME NEW fs, NEW ob, NEW li, NEW da, da = <<>>, Linked(ob, li)
    PROVE  /\ Typed(fs, ob, li, da) /\ Apart(fs, da) /\ InOrder(ob, da)
           /\ ob = <<>> => Ready(fs, ob, li, da)
<1>1. IsList(da) /\ Len(da) = 0 /\ 1..Len(da) = {}
  <2>1. <<>> \in Seq({}) /\ Len(<<>>) = 0
    BY EmptySeq
  <2> QED BY <2>1, ListOf DEF IsList
<1> QED BY <1>1 DEF Typed, Apart, InOrder, Linked, Ready, AllLead

(* ... and where the sites lead does not depend on the files.              *)
LEMMA NothingLeads ==
    ASSUME NEW fs, NEW gs, NEW ob, NEW li, NEW da, da = <<>>, Ready(fs, ob, li, da)
    PROVE  Ready(gs, ob, li, da)
<1>1. \A j : j \notin 1..Len(da)
  BY EmptySeq
<1>2. ASSUME NEW o \in 1..Len(ob), NEW p \in DOMAIN li[o] PROVE Leads(gs, ob[o], da, o, p, li[o][p])
  <2>1. Leads(fs, ob[o], da, o, p, li[o][p])
    BY DEF Ready, AllLead
  <2>2. li[o][p] = GamesOwn
    BY <1>1, <2>1 DEF Leads, Counts
  <2> QED BY <1>1, <2>2 DEF Leads, Counts
<1> QED BY <1>2 DEF Ready, AllLead

LEMMA DetoursInitial == Scripts!Init => DetoursInv
<1> SUFFICES ASSUME Scripts!Init PROVE DetoursInv
  OBVIOUS
<1>1. ASSUME NEW i \in Scripts!Instances
      PROVE  /\ objs[i] = <<>> /\ links[i] = <<>> /\ lists[i] = <<>>
             /\ Linked(objs[i], links[i]) /\ IsList(lists[i]) /\ Listed(i)
  <2>1. objs[i] = <<>> /\ links[i] = <<>> /\ lists[i] = <<>>
    BY DEF Scripts!Init
  <2>2. IsList(<<>>) /\ Len(<<>>) = 0 /\ 1..Len(<<>>) = {}
    <3>1. <<>> \in Seq({}) /\ Len(<<>>) = 0
      BY EmptySeq
    <3> QED BY <3>1, ListOf DEF IsList
  <2>3. Linked(objs[i], links[i])
    BY <2>1, <2>2 DEF Linked
  <2>4. Typed(scriptFiles, objs[i], links[i], lists[i]) /\ Apart(scriptFiles, lists[i])
    BY <2>1, <2>3, NothingListed
  <2> QED BY <2>1, <2>2, <2>3, <2>4 DEF Listed
<1> QED BY <1>1 DEF DetoursInv, Scripts!Init

(* A group is linked, from lists that a new level has cleared.             *)
Begun(i) ==
    [objs |-> objs[i], links |-> links[i], data |-> Scripts!ClearGsic(i),
     raised |-> {}, failed |-> FALSE, stop |-> FALSE]

LEMMA BegunGoes ==
    ASSUME DetoursInv, NEW i \in Scripts!Instances, ~Scripts!Dangling(i, Scripts!ClearGsic(i))
    PROVE  Going(Begun(i))
<1>1. Linked(objs[i], links[i])
  BY DEF DetoursInv
<1>2. IsLinking(Begun(i)) /\ Begun(i).objs = objs[i] /\ Begun(i).links = links[i]
      /\ Begun(i).data = Scripts!ClearGsic(i)
  BY DEF Begun, IsLinking
<1>3. CASE objs[i] = <<>>
  <2>1. Scripts!ClearGsic(i) = <<>>
    BY <1>3 DEF Scripts!ClearGsic
  <2>2. /\ Typed(scriptFiles, objs[i], links[i], <<>>) /\ Apart(scriptFiles, <<>>)
        /\ Ready(scriptFiles, objs[i], links[i], <<>>)
    BY <1>1, <1>3, NothingListed
  <2> QED BY <1>2, <2>1, <2>2 DEF Going
<1>4. CASE objs[i] # <<>>
  <2>1. Scripts!ClearGsic(i) = lists[i]
    BY <1>4 DEF Scripts!ClearGsic
  <2>2. Listed(i)
    BY <2>1 DEF Scripts!Dangling, DetoursInv
  <2> QED BY <1>2, <1>4, <2>1, <2>2 DEF Going, Listed
<1> QED BY <1>3, <1>4

(* After the group and the lists all is as it has to be.                   *)
Complete(L) ==
    /\ Linked(L.objs, L.links) /\ IsList(L.data)
    /\ Typed(scriptFiles, L.objs, L.links, L.data) /\ Apart(scriptFiles, L.data)
    /\ Sound(L.objs) => /\ Ready(scriptFiles, L.objs, L.links, L.data)
                        /\ \A k \in 1..Len(L.data) : L.data[k].latest = Len(L.objs)

LEMMA GroupCompletes ==
    ASSUME Scripts!ScriptsAssumption, FilesAreWellFormed(scriptFiles), NEW L, Going(L),
           NEW group \in Groups
    PROVE  Complete(Scripts!LinkDetours(Scripts!LinkGroup(L, group)))
<1> DEFINE P == Scripts!LinkGroup(L, group)
           M == Scripts!LinkDetours(P)
<1>1. Going(P)
  BY GroupKeeps
<1> HIDE DEF P
<1>2. /\ Same(P, M)
      /\ Sound(P.objs) => Ready(scriptFiles, M.objs, M.links, M.data) /\ Caught(M, Len(M.data))
  BY <1>1, DetoursKeep
<1> HIDE DEF M
<1>3. /\ Typed(scriptFiles, M.objs, M.links, M.data) /\ M.objs = P.objs
      /\ Len(M.data) = Len(P.data)
      /\ \A k \in 1..Len(P.data) : M.data[k].file = P.data[k].file
  BY <1>2 DEF Same
<1>4. Apart(scriptFiles, M.data)
  <2>1. Apart(scriptFiles, P.data)
    BY <1>1 DEF Going
  <2>2. \A k \in 1..Len(P.data) :
           PlacesOf(scriptFiles, M.data[k]) = PlacesOf(scriptFiles, P.data[k])
    BY <1>3 DEF PlacesOf
  <2>3. \A k \in 1..Len(P.data) : \A n :
           DetourOf(scriptFiles, M.data[k], n) = DetourOf(scriptFiles, P.data[k], n)
    BY <1>3 DEF DetourOf
  <2>4. ASSUME NEW j \in 1..Len(M.data), NEW k \in 1..Len(M.data),
               M.data[j].file # M.data[k].file,
               NEW n \in PlacesOf(scriptFiles, M.data[j]),
               NEW m \in PlacesOf(scriptFiles, M.data[k])
        PROVE  KeyAt(scriptFiles, M.data[j], n) # KeyAt(scriptFiles, M.data[k], m)
    <3>0. j \in 1..Len(P.data) /\ k \in 1..Len(P.data)
      BY <1>3
    <3>1. P.data[j].file # P.data[k].file
      BY <1>3, <2>4, <3>0
    <3>2. n \in PlacesOf(scriptFiles, P.data[j]) /\ m \in PlacesOf(scriptFiles, P.data[k])
      BY <2>2, <3>0
    <3>3. /\ KeyAt(scriptFiles, M.data[j], n) = KeyAt(scriptFiles, P.data[j], n)
          /\ KeyAt(scriptFiles, M.data[k], m) = KeyAt(scriptFiles, P.data[k], m)
      BY <2>3, <3>0 DEF KeyAt
    <3>4. KeyAt(scriptFiles, P.data[j], n) # KeyAt(scriptFiles, P.data[k], m)
      BY <2>1, <3>0, <3>1, <3>2 DEF Apart
    <3> QED BY <3>3, <3>4
  <2> QED BY <2>4 DEF Apart
<1>5. Linked(M.objs, M.links) /\ IsList(M.data)
  BY <1>3 DEF Typed, Linked
<1>6. Sound(M.objs) => /\ Ready(scriptFiles, M.objs, M.links, M.data)
                       /\ \A k \in 1..Len(M.data) : M.data[k].latest = Len(M.objs)
  <2>1. Len(M.data) \in Nat
    BY <1>3 DEF Typed, IsList
  <2> QED BY <1>2, <1>3, <2>1 DEF Caught
<1> QED BY <1>3, <1>4, <1>5, <1>6 DEF Complete, M, P

LEMMA GroupStep ==
    ASSUME Scripts!ScriptsAssumption, DetoursInv,
           NEW i \in Scripts!Instances, Scripts!ScrGetGscObj(i)
    PROVE  DetoursInv'
<1>0. scriptFiles' = scriptFiles
  BY DEF Scripts!ScrGetGscObj
<1>1. CASE Scripts!Dangling(i, Scripts!ClearGsic(i))
  <2>1. UNCHANGED <<objs, links, lists, gone>>
    BY <1>1 DEF Scripts!ScrGetGscObj
  <2> QED BY <1>0, <2>1 DEF DetoursInv, Listed
<1>2. CASE ~Scripts!Dangling(i, Scripts!ClearGsic(i))
  <2>1. PICK group \in Groups :
          LET done == Scripts!LinkDetours(Scripts!LinkGroup(Begun(i), group))
          IN /\ objs' = [objs EXCEPT ![i] = done.objs]
             /\ links' = [links EXCEPT ![i] = done.links]
             /\ lists' = [lists EXCEPT ![i] = done.data]
             /\ gone' = gone \ {i}
    BY <1>2 DEF Scripts!ScrGetGscObj, Begun
  <2> DEFINE done == Scripts!LinkDetours(Scripts!LinkGroup(Begun(i), group))
  <2>2. Complete(done)
    <3>1. Going(Begun(i))
      BY <1>2, BegunGoes
    <3>2. FilesAreWellFormed(scriptFiles)
      BY LoadedScripts DEF DetoursInv
    <3> QED BY <3>1, <3>2, GroupCompletes
  <2> HIDE DEF done
  <2>3. /\ objs' = [objs EXCEPT ![i] = done.objs]
        /\ links' = [links EXCEPT ![i] = done.links]
        /\ lists' = [lists EXCEPT ![i] = done.data]
        /\ gone' = gone \ {i}
    BY <2>1 DEF done
  <2>4. /\ objs' = [j \in Scripts!Instances |-> objs'[j]]
        /\ links' = [j \in Scripts!Instances |-> links'[j]]
        /\ lists' = [j \in Scripts!Instances |-> lists'[j]]
        /\ objs'[i] = done.objs /\ links'[i] = done.links /\ lists'[i] = done.data
        /\ \A j \in Scripts!Instances : j # i =>
             objs'[j] = objs[j] /\ links'[j] = links[j] /\ lists'[j] = lists[j]
    BY <2>3 DEF DetoursInv
  <2>5. ASSUME NEW j \in Scripts!Instances
        PROVE  /\ Linked(objs'[j], links'[j]) /\ IsList(lists'[j])
               /\ j \notin gone' \/ lists'[j] = <<>> => Listed(j)'
    <3>1. CASE j = i
      BY <1>0, <2>2, <2>4, <3>1 DEF Complete, Listed
    <3>2. CASE j # i
      <4>1. /\ Linked(objs[j], links[j]) /\ IsList(lists[j])
            /\ j \notin gone \/ lists[j] = <<>> => Listed(j)
        BY DEF DetoursInv
      <4> QED BY <1>0, <2>3, <2>4, <3>2, <4>1 DEF Listed
    <3> QED BY <3>1, <3>2
  <2> QED BY <1>0, <2>4, <2>5 DEF DetoursInv
<1> QED BY <1>1, <1>2

(* A reload leaves lists that are no longer read, or none.                 *)
LEMMA ReloadStep == ASSUME DetoursInv, Scripts!Reload PROVE DetoursInv'
<1>1. /\ scriptFiles' \in Loads /\ UNCHANGED <<objs, links, lists>>
      /\ gone' = gone \cup {i \in Scripts!Instances : lists[i] # <<>>}
  BY DEF Scripts!Reload
<1>2. ASSUME NEW j \in Scripts!Instances
      PROVE  j \notin gone' \/ lists'[j] = <<>> => Listed(j)'
  <2> SUFFICES ASSUME lists[j] = <<>> PROVE Listed(j)'
    BY <1>1
  <2>1. Listed(j) /\ Linked(objs[j], links[j])
    BY DEF DetoursInv
  <2>2. Typed(scriptFiles', objs[j], links[j], lists[j]) /\ Apart(scriptFiles', lists[j])
    BY <2>1, NothingListed
  <2>3. Ready(scriptFiles, objs[j], links[j], lists[j])
          => Ready(scriptFiles', objs[j], links[j], lists[j])
    BY NothingLeads
  <2> QED BY <1>1, <2>1, <2>2, <2>3 DEF Listed
<1> QED BY <1>1, <1>2 DEF DetoursInv

(* With the level the scripts go, and the lists are not read before they   *)
(* are cleared.                                                            *)
LEMMA LevelStep == ASSUME DetoursInv, Scripts!ChangeLevel PROVE DetoursInv'
<1>1. /\ objs' = [i \in Scripts!Instances |-> <<>>]
      /\ links' = [i \in Scripts!Instances |-> <<>>]
      /\ UNCHANGED <<scriptFiles, lists, gone>>
  BY DEF Scripts!ChangeLevel
<1>2. Linked(<<>>, <<>>)
  <2>1. <<>> \in Seq({}) /\ Len(<<>>) = 0
    BY EmptySeq
  <2> QED BY <2>1, ListOf DEF IsList, Linked
<1>3. ASSUME NEW j \in Scripts!Instances
      PROVE  /\ Linked(objs'[j], links'[j])
             /\ j \notin gone' \/ lists'[j] = <<>> => Listed(j)'
  <2>1. objs'[j] = <<>> /\ links'[j] = <<>>
    BY <1>1
  <2>2. Listed(j) => Typed(scriptFiles, <<>>, <<>>, lists[j]) /\ Apart(scriptFiles, lists[j])
    BY <1>2 DEF Listed, Typed, Linked
  <2>3. j \notin gone \/ lists[j] = <<>> => Listed(j)
    BY DEF DetoursInv
  <2> QED BY <1>1, <1>2, <2>1, <2>2, <2>3 DEF Listed
<1> QED BY <1>1, <1>3 DEF DetoursInv

(* Every call that a detour is meant for leads to it and no other call does, *)
(* after each group of scripts, whatever the scripts of the mods hook and   *)
(* replace, in whatever order they were linked, and whatever levels and     *)
(* reloads come between (unless a damaged import has ended the linking);    *)
(* and two scripts never detour the same function: sync_gsic, link_detours  *)
(* and clear_gsic see to it.                                                *)
THEOREM DetoursStayLinked == Scripts!Spec => []DetoursLinked
<1>1. Scripts!Init => DetoursInv
  BY DetoursInitial
<1>2. DetoursInv /\ [Scripts!Next]_Scripts!vars => DetoursInv'
  <2> SUFFICES ASSUME DetoursInv, [Scripts!Next]_Scripts!vars PROVE DetoursInv'
    OBVIOUS
  <2>1. CASE Scripts!Reload
    BY <2>1, ReloadStep
  <2>2. CASE Scripts!ChangeLevel
    BY <2>2, LevelStep
  <2>3. ASSUME NEW i \in Scripts!Instances, Scripts!ScrGetGscObj(i) PROVE DetoursInv'
    BY <2>3, ScriptsAreWellFormed, GroupStep
  <2>4. ASSUME NEW i \in Scripts!Instances, Scripts!LazyLink(i) PROVE DetoursInv'
    BY <2>4 DEF Scripts!LazyLink, DetoursInv, Listed
  <2>5. CASE UNCHANGED Scripts!vars
    BY <2>5 DEF Scripts!vars, DetoursInv, Listed
  <2> QED BY <2>1, <2>2, <2>3, <2>4, <2>5 DEF Scripts!Next
<1>3. DetoursInv => DetoursLinked
  BY ScriptsAreWellFormed, InvMeans
<1> QED BY <1>1, <1>2, <1>3, PTL DEF Scripts!Spec

------------------------------------------------------------------------------
(***************************************************************************)
(* Hashes: the names in the table are true, no line is left out, and what  *)
(* is shown is read.                                                       *)
(*                                                                         *)
(* The argument: a text is added with its own hash or as a line of a       *)
(* precomputed file has it, behind a separator that lies where the line's  *)
(* format has it or further back; no hash ever leaves the table.  So each  *)
(* line of a file keeps that of the table, and so does a file.             *)
(***************************************************************************)

Texts == Seq(Parts)
Asset(text) == Table!HashFrom(Table!Fnv1a, text)
Field(text) == Table!CanonOf(text)
Add(t, h, text) == Table!add_hash(t, h, text)

\* The name of a hash: a text with that hash, or from a precomputed file.
TrueName(h, text, from) ==
    \/ text \in Texts /\ (h = Asset(text) \/ h = Field(text))
    \/ Table!Said(from, h, text)

TrueNames(t, from) == \A h \in DOMAIN t : TrueName(h, t[h], from)

(* One more name that is true. *)
LEMMA AddTrue ==
    ASSUME NEW t, NEW from, TrueNames(t, from), NEW h, NEW text, TrueName(h, text, from)
    PROVE  TrueNames(Add(t, h, text), from)
<1>1. CASE ~enabled
  BY <1>1 DEF Add, Table!add_hash
<1>2. CASE enabled
  <2> DEFINE new == [g \in DOMAIN t \cup {h} |-> IF g = h THEN text ELSE t[g]]
  <2>1. Add(t, h, text) = new
    BY <1>2 DEF Add, Table!add_hash
  <2>2. TrueNames(new, from)
    BY DEF TrueNames
  <2> QED BY <2>1, <2>2
<1> QED BY <1>1, <1>2

(* What is added is in the table, and nothing leaves it. *)
LEMMA AddKeeps ==
    ASSUME NEW t, NEW h, NEW text
    PROVE  DOMAIN t \subseteq DOMAIN Add(t, h, text) /\ (enabled => h \in DOMAIN Add(t, h, text))
BY DEF Add, Table!add_hash

(* More lines of precomputed files take no name away. *)
LEMMA TrueOfMore ==
    ASSUME NEW t, NEW from, NEW more, from \subseteq more, TrueNames(t, from)
    PROVE  TrueNames(t, more)
<1>1. \A h, text : Table!Said(from, h, text) => Table!Said(more, h, text)
  BY DEF Table!Said
<1> QED BY <1>1 DEF TrueNames, TrueName

(* A text that is hashed is added with its hash. *)
LEMMA HashedTrue ==
    ASSUME NEW t, NEW from, TrueNames(t, from), NEW text \in Texts, NEW start
    PROVE  /\ TrueNames(Table!generate_hash(t, text, start), from)
           /\ TrueNames(Table!canon_hash(t, text), from)
<1>1. TrueName(Asset(text), text, from) /\ TrueName(Field(text), text, from)
  BY DEF TrueName
<1>2. TrueNames(Add(t, Asset(text), text), from) /\ TrueNames(Add(t, Field(text), text), from)
  BY <1>1, AddTrue
<1>3. Table!generate_hash(t, text, start) \in {t, Add(t, Asset(text), text)}
  BY DEF Table!generate_hash, Add, Asset
<1>4. Table!canon_hash(t, text) = Add(t, Field(text), text)
  BY DEF Table!canon_hash, Add, Field
<1> QED BY <1>2, <1>3, <1>4

Hashed(t, text, start) == Table!generate_hash(t, text, start)

(* No hash leaves the table when a text is hashed. *)
LEMMA HashedKeeps ==
    ASSUME NEW t, NEW text, NEW start
    PROVE  /\ DOMAIN t \subseteq DOMAIN Hashed(t, text, start)
           /\ DOMAIN t \subseteq DOMAIN Table!canon_hash(t, text)
           /\ enabled => /\ Asset(text) \in DOMAIN Hashed(t, text, Table!Fnv1a)
                         /\ Field(text) \in DOMAIN Table!canon_hash(t, text)
<1> DEFINE h == Table!HashFrom(start, text)
<1>1. /\ DOMAIN t \subseteq DOMAIN Add(t, h, text) /\ DOMAIN t \subseteq DOMAIN Add(t, Field(text), text)
      /\ enabled => /\ Asset(text) \in DOMAIN Add(t, Asset(text), text)
                    /\ Field(text) \in DOMAIN Add(t, Field(text), text)
  <2> HIDE DEF h
  <2> QED BY AddKeeps
<1>2. Hashed(t, text, start) \in {t, Add(t, h, text)}
  BY DEF Hashed, Table!generate_hash, Add
<1>3. Table!canon_hash(t, text) = Add(t, Field(text), text)
  BY DEF Table!canon_hash, Add, Field
<1>4. Hashed(t, text, Table!Fnv1a) = Add(t, Asset(text), text)
  BY DEF Hashed, Table!generate_hash, Add, Asset
<1> HIDE DEF h
<1> QED BY <1>1, <1>2, <1>3, <1>4

LEMMA OneText == \A part \in Parts : <<part>> \in Texts
BY DEF Texts

(* ... also by a pattern, which may continue another hash. *)
LEMMA PatternTrue ==
    ASSUME Table!HashesAssumption, NEW t, NEW from, TrueNames(t, from), NEW text \in Texts
    PROVE  /\ TrueNames(Table!generate_hash_pattern(t, text), from)
           /\ TrueNames(Table!canon_hash_pattern(t, text), from)
           /\ DOMAIN t \subseteq DOMAIN Table!generate_hash_pattern(t, text)
           /\ DOMAIN t \subseteq DOMAIN Table!canon_hash_pattern(t, text)
<1>1. <<".lua">> \in Texts
  <2>1. ".lua" \in Parts
    BY DEF Table!HashesAssumption
  <2> QED BY <2>1, OneText
<1>2. \A start : TrueNames(Hashed(t, <<".lua">>, start), from)
                 /\ DOMAIN t \subseteq DOMAIN Hashed(t, <<".lua">>, start)
  BY <1>1, HashedTrue, HashedKeeps DEF Hashed
<1>3. \A start : TrueNames(Hashed(t, text, start), from)
                 /\ DOMAIN t \subseteq DOMAIN Hashed(t, text, start)
  BY HashedTrue, HashedKeeps DEF Hashed
<1>4. /\ TrueNames(Table!generate_hash_pattern(t, text), from)
      /\ DOMAIN t \subseteq DOMAIN Table!generate_hash_pattern(t, text)
  <2> DEFINE table == Table!generate_hash_pattern(t, text)
             rest == Table!Mask(Table!Front(Tail(text)))
  <2>1. table \in {t, Hashed(t, <<".lua">>, rest), Hashed(t, text, Table!Fnv1a)}
    BY DEF Table!generate_hash_pattern, Hashed
  <2> HIDE DEF table, rest
  <2>2. TrueNames(table, from) /\ DOMAIN t \subseteq DOMAIN table
    BY <1>2, <1>3, <2>1
  <2> QED BY <2>2 DEF table
<1>5. /\ TrueNames(Table!canon_hash_pattern(t, text), from)
      /\ DOMAIN t \subseteq DOMAIN Table!canon_hash_pattern(t, text)
  <2>1. TrueNames(Table!canon_hash(t, text), from) /\ DOMAIN t \subseteq DOMAIN Table!canon_hash(t, text)
    BY HashedTrue, HashedKeeps
  <2> QED BY <2>1 DEF Table!canon_hash_pattern
<1> QED BY <1>4, <1>5

(* The lines of a file that can be read. *)
LineOf(format, line) ==
    IF format = "STRING" THEN line \in Texts
    ELSE /\ format \in {"COMMON", "SERIOUS_COMPILER"}
         /\ line \in [hash : Texts, hex : BOOLEAN, full : BOOLEAN, rest : Texts, within : Nat \ {0}]

AfterLine(format, t, line, spilt) == Table!ReadLine(format, t, line, spilt)

(* The text behind the last separator is what the line says, or an end of  *)
(* it; and a comma and a blank behind the hash are a separator.            *)
LEMMA SeparatorFacts ==
    ASSUME NEW format \in {"COMMON", "SERIOUS_COMPILER"}, NEW line, LineOf(format, line)
    PROVE  /\ Table!Separators(line) # {} =>
                Table!Behind(line, IF format = "COMMON" THEN 1 ELSE 2) \in Table!SaidBy(format, line)
           /\ Len(line.rest) > 1 /\ line.rest[1] = "comma" /\ line.rest[2] = "blank"
                => Table!Separators(line) # {}
<1> DEFINE S == Table!Separators(line)
           chars == IF format = "COMMON" THEN 1 ELSE 2
           first == IF format = "COMMON" THEN 2 ELSE 3
           again == \E n \in 2 .. line.within :
                      n < Len(line.rest) /\ line.rest[n] = "comma" /\ line.rest[n + 1] = "blank"
           idx == Table!Max(S)
<1>1. line.within \in Nat \ {0} /\ Len(line.rest) \in Nat
  <2>1. line.rest \in Texts /\ line.within \in Nat \ {0}
    BY DEF LineOf
  <2> QED BY <2>1 DEF Texts
<1>2. S = {n \in 1 .. line.within :
             n < Len(line.rest) /\ line.rest[n] = "comma" /\ line.rest[n + 1] = "blank"}
  BY DEF Table!Separators
<1>3. Len(line.rest) > 1 /\ line.rest[1] = "comma" /\ line.rest[2] = "blank" => 1 \in S
  BY <1>1, <1>2
<1>4. ASSUME S # {} PROVE Table!Behind(line, chars) \in Table!SaidBy(format, line)
  <2>1. idx \in S
    <3>1. S \subseteq 1 .. line.within
      BY <1>2
    <3> HIDE DEF S
    <3> QED BY <1>1, <1>4, <3>1, LastOfPlaces
  <2>2. idx \in 1 .. line.within /\ idx < Len(line.rest)
        /\ line.rest[idx] = "comma" /\ line.rest[idx + 1] = "blank"
    BY <1>2, <2>1
  <2>3. Table!Behind(line, chars) = SubSeq(line.rest, idx + chars, Len(line.rest))
    BY DEF Table!Behind
  <2> HIDE DEF S, idx
  <2>4. idx + chars \in (IF again THEN first .. Len(line.rest) + 1 ELSE {first})
    <3>1. CASE idx = 1
      BY <1>1, <2>2, <3>1
    <3>2. CASE idx # 1
      <4>1. idx \in 2 .. line.within
        BY <1>1, <2>2, <3>2
      <4>2. again
        BY <2>2, <4>1
      <4> HIDE DEF again
      <4> QED BY <1>1, <2>2, <4>1, <4>2
    <3> QED BY <3>1, <3>2
  <2>5. Table!SaidBy(format, line) = {SubSeq(line.rest, k, Len(line.rest)) :
                                       k \in IF again THEN first .. Len(line.rest) + 1 ELSE {first}}
    BY DEF Table!SaidBy
  <2> HIDE DEF again, first, chars
  <2> QED BY <2>3, <2>4, <2>5
<1> QED BY <1>3, <1>4

(* A line adds nothing, its own hash, or what it says for it. *)
LEMMA LineTrue ==
    ASSUME NEW format, NEW t, NEW line, NEW spilt, NEW from, TrueNames(t, from), enabled,
           LineOf(format, line), <<format, line>> \in from
    PROVE  /\ TrueNames(AfterLine(format, t, line, spilt), from)
           /\ DOMAIN t \subseteq DOMAIN AfterLine(format, t, line, spilt)
           /\ Table!IsRead(AfterLine(format, t, line, spilt), format, line)
<1> DEFINE after == AfterLine(format, t, line, spilt)
<1>1. CASE format = "STRING"
  <2>0. line \in Texts
    BY <1>1 DEF LineOf
  <2> DEFINE first == IF Table!is_valid_h32(line) THEN Table!canon_hash(t, line) ELSE t
  <2>1. TrueNames(Table!canon_hash(t, line), from) /\ DOMAIN t \subseteq DOMAIN Table!canon_hash(t, line)
        /\ Field(line) \in DOMAIN Table!canon_hash(t, line)
    BY <2>0, HashedTrue, HashedKeeps
  <2>2. TrueNames(first, from) /\ DOMAIN t \subseteq DOMAIN first
        /\ (Table!is_valid_h32(line) => Field(line) \in DOMAIN first)
    BY <2>1
  <2>3. after = Hashed(first, line, Table!Fnv1a)
    BY <1>1 DEF AfterLine, Table!ReadLine, Table!StringLine, Hashed
  <2> HIDE DEF first, after
  <2>4. TrueNames(Hashed(first, line, Table!Fnv1a), from)
    BY <2>0, <2>2, HashedTrue DEF Hashed
  <2>5. DOMAIN first \subseteq DOMAIN after /\ Asset(line) \in DOMAIN after
    BY <2>3, HashedKeeps
  <2>6. Table!IsRead(after, format, line)
    BY <1>1, <2>2, <2>5 DEF Table!IsRead, Asset, Field
  <2> QED BY <2>2, <2>3, <2>4, <2>5, <2>6 DEF after
<1>2. CASE format # "STRING" /\ after = t /\ (Table!Separators(line) = {} \/ (format # "COMMON" /\ ~line.hex))
  <2>1. format \in {"COMMON", "SERIOUS_COMPILER"}
    BY <1>2 DEF LineOf
  <2>2. Table!IsRead(t, format, line)
    BY <1>2, <2>1, SeparatorFacts DEF Table!IsRead
  <2> HIDE DEF after
  <2> QED BY <1>2, <2>2 DEF after
<1>3. ASSUME NEW h, NEW text, format # "STRING", Table!Separators(line) # {},
             text = Table!Behind(line, IF format = "COMMON" THEN 1 ELSE 2),
             h = line.hash \/ (format = "COMMON" /\ line.full),
             after = Add(t, h, text)
      PROVE  /\ TrueNames(after, from) /\ DOMAIN t \subseteq DOMAIN after
             /\ Table!IsRead(after, format, line)
  <2>1. format \in {"COMMON", "SERIOUS_COMPILER"}
    BY <1>3 DEF LineOf
  <2>2. text \in Table!SaidBy(format, line)
    BY <1>3, <2>1, SeparatorFacts
  <2> DEFINE b == <<format, line>>
  <2>3. b \in from /\ b[1] = format /\ b[2] = line
    OBVIOUS
  <2> HIDE DEF b
  <2>4. Table!Said(from, h, text)
    BY <1>3, <2>2, <2>3 DEF Table!Said
  <2>5. TrueNames(Add(t, h, text), from) /\ DOMAIN t \subseteq DOMAIN Add(t, h, text)
        /\ h \in DOMAIN Add(t, h, text)
    BY <2>4, AddTrue, AddKeeps DEF TrueName
  <2> HIDE DEF after
  <2>6. Table!IsRead(after, format, line)
    BY <1>3, <2>1, <2>5 DEF Table!IsRead
  <2> QED BY <1>3, <2>5, <2>6
<1>4. CASE format = "COMMON"
  <2>1. CASE Table!Separators(line) = {}
    <3>1. after = t
      BY <1>4, <2>1 DEF AfterLine, Table!ReadLine, Table!CommonLine
    <3> QED BY <1>2, <1>4, <2>1, <3>1
  <2>2. CASE Table!Separators(line) # {}
    <3> DEFINE h == IF line.full /\ line.hash \in spilt THEN <<"spilt">> \o line.hash ELSE line.hash
               text == Table!Behind(line, 1)
    <3>1. after = Add(t, h, text)
      BY <1>4, <2>2 DEF AfterLine, Table!ReadLine, Table!CommonLine, Add
    <3>2. h = line.hash \/ line.full
      OBVIOUS
    <3>3. text = Table!Behind(line, IF format = "COMMON" THEN 1 ELSE 2)
      BY <1>4
    <3> HIDE DEF h, text, after
    <3> QED BY <1>3, <1>4, <2>2, <3>1, <3>2, <3>3 DEF after
  <2> QED BY <2>1, <2>2
<1>5. CASE format # "STRING" /\ format # "COMMON"
  <2>1. CASE ~line.hex \/ Table!Separators(line) = {}
    <3>1. after = t
      BY <1>5, <2>1 DEF AfterLine, Table!ReadLine, Table!SeriousLine
    <3> QED BY <1>2, <1>5, <2>1, <3>1
  <2>2. CASE ~(~line.hex \/ Table!Separators(line) = {})
    <3> DEFINE text == Table!Behind(line, 2)
    <3>1. after = Add(t, line.hash, text)
      BY <1>5, <2>2 DEF AfterLine, Table!ReadLine, Table!SeriousLine, Add
    <3>3. text = Table!Behind(line, IF format = "COMMON" THEN 1 ELSE 2)
      BY <1>5
    <3> HIDE DEF text, after
    <3> QED BY <1>3, <1>5, <2>2, <3>1, <3>3 DEF after
  <2> QED BY <2>1, <2>2
<1> QED BY <1>1, <1>4, <1>5

(* The tables after each line of a file. *)
ReadsOn(f, table, file, spilt, N) ==
    f = [n \in 0 .. N |-> IF n = 0 THEN table
                          ELSE AfterLine(file.format, f[n - 1], file.lines[n], spilt)]

(* One more line can be read ... *)
LEMMA ReadsNext ==
    ASSUME NEW table, NEW file, NEW spilt, NEW n \in Nat, NEW f, ReadsOn(f, table, file, spilt, n)
    PROVE  \E g : ReadsOn(g, table, file, spilt, n + 1)
<1> DEFINE Step(h, k) == IF k = 0 THEN table
                         ELSE AfterLine(file.format, h[k - 1], file.lines[k], spilt)
           g == [k \in 0..n + 1 |-> IF k <= n THEN f[k] ELSE Step(f, k)]
<1>1. \A k \in 0..n : f[k] = Step(f, k)
  BY DEF ReadsOn
<1>2. \A k \in 0..n : g[k] = f[k]
  OBVIOUS
<1>3. ASSUME NEW k \in 0..n + 1 PROVE g[k] = Step(g, k)
  <2>1. CASE k = 0
    <3>1. 0 \in 0..n
      OBVIOUS
    <3> QED BY <1>1, <1>2, <2>1, <3>1
  <2>2. CASE k # 0
    <3>1. k - 1 \in 0..n
      BY <2>2
    <3>2. g[k - 1] = f[k - 1]
      BY <1>2, <3>1
    <3> HIDE DEF g
    <3>3. Step(g, k) = Step(f, k)
      BY <2>2, <3>2 DEF Step
    <3>4. g[k] = Step(f, k)
      <4>1. CASE k <= n
        BY <1>1, <1>2, <4>1
      <4>2. CASE ~(k <= n)
        BY <4>2 DEF g
      <4> QED BY <4>1, <4>2
    <3> QED BY <3>3, <3>4
  <2> QED BY <2>1, <2>2
<1>4. g = [k \in 0..n + 1 |-> Step(g, k)]
  <2>1. g = [k \in 0..n + 1 |-> g[k]]
    OBVIOUS
  <2> HIDE DEF g
  <2> QED BY <1>3, <2>1
<1> HIDE DEF g
<1> QED BY <1>4 DEF ReadsOn, Step

(* ... so the lines of every file. *)
LEMMA ReadsThrough ==
    ASSUME NEW table, NEW file, NEW spilt, NEW N \in Nat
    PROVE  \E f : ReadsOn(f, table, file, spilt, N)
<1> DEFINE failing == {n \in 0..N : ~ \E f : ReadsOn(f, table, file, spilt, n)}
<1>1. 0 \notin failing
  <2>1. ReadsOn([k \in 0..0 |-> table], table, file, spilt, 0)
    BY DEF ReadsOn
  <2> QED BY <2>1
<1>2. \A n \in 0..N - 1 : n + 1 \in failing => n \in failing
  <2> SUFFICES ASSUME NEW n \in 0..N - 1, n \notin failing PROVE n + 1 \notin failing
    OBVIOUS
  <2>1. PICK f : ReadsOn(f, table, file, spilt, n)
    OBVIOUS
  <2> QED BY <2>1, ReadsNext
<1>3. failing = {}
  <2> HIDE DEF failing
  <2>1. failing \subseteq 0..N
    BY DEF failing
  <2> QED BY <1>1, <1>2, <2>1, NothingFails
<1> QED BY <1>3

(* A file keeps the names true. *)
WellFormed(file) ==
    file.lines # Absent =>
         file.lines \in Seq(IF file.format = "STRING" THEN Texts
                           ELSE [hash : Texts, hex : BOOLEAN, full : BOOLEAN, rest : Texts,
                                 within : Nat \ {0}])

\* The table is true, and the first lines of a file are in it.
ReadUpto(t, from, file, n) ==
    TrueNames(t, from) /\ \A k \in 1..n : Table!IsRead(t, file.format, file.lines[k])

\* A line that is in a table is in a larger one.
LEMMA IsReadStays ==
    ASSUME NEW t, NEW u, DOMAIN t \subseteq DOMAIN u, NEW format, NEW line, Table!IsRead(t, format, line)
    PROVE  Table!IsRead(u, format, line)
BY DEF Table!IsRead

(* Each line of a file keeps what the lines before it have kept. *)
LEMMA FileTrue ==
    ASSUME NEW file, WellFormed(file), NEW t, NEW from, NEW spilt, TrueNames(t, from),
           Table!Comes(file) \subseteq from
    PROVE  LET after == Table!load_file(t, file, spilt).table
           IN /\ TrueNames(after, from) /\ DOMAIN t \subseteq DOMAIN after
              /\ \A b \in Table!Comes(file) : Table!IsRead(after, b[1], b[2])
<1>1. CASE ~enabled \/ ~Table!Known(file)
  <2>1. Table!load_file(t, file, spilt).table = t
    BY <1>1 DEF Table!load_file
  <2>2. Table!Comes(file) = {}
    BY <1>1 DEF Table!Comes
  <2> QED BY <2>1, <2>2
<1>2. CASE enabled /\ Table!Known(file)
  <2> DEFINE N == Len(file.lines)
             after == Table!ReadLines(t, file, spilt)
  <2>1. /\ N \in Nat /\ DOMAIN file.lines = 1..N
        /\ \A n \in 1..N : LineOf(file.format, file.lines[n])
    <3>1. file.lines # Absent /\ file.format \in {"STRING", "COMMON", "SERIOUS_COMPILER"}
      BY <1>2 DEF Table!Known
    <3> DEFINE Lines == IF file.format = "STRING" THEN Texts
                        ELSE [hash : Texts, hex : BOOLEAN, full : BOOLEAN, rest : Texts,
                              within : Nat \ {0}]
    <3>2. file.lines \in Seq(Lines)
      BY <3>1 DEF WellFormed
    <3>3. \A line \in Lines : LineOf(file.format, line)
      BY <3>1 DEF LineOf
    <3> HIDE DEF Lines
    <3> QED BY <3>2, <3>3
  <2>2. PICK f : ReadsOn(f, t, file, spilt, N) /\ after = f[N]
    <3> DEFINE u == CHOOSE f : ReadsOn(f, t, file, spilt, N)
    <3>1. ReadsOn(u, t, file, spilt, N)
      BY <2>1, ReadsThrough
    <3>2. after = u[N]
      BY DEF Table!ReadLines, ReadsOn, AfterLine
    <3> QED BY <3>1, <3>2
  <2>3. Table!load_file(t, file, spilt).table = after
    BY <1>2 DEF Table!load_file
  <2>4. Table!Comes(file) = {<<file.format, file.lines[n]>> : n \in 1..N}
    BY <1>2, <2>1 DEF Table!Comes
  <2> HIDE DEF N, after
  <2> DEFINE Kept(n) == DOMAIN t \subseteq DOMAIN f[n] /\ ReadUpto(f[n], from, file, n)
             failing == {n \in 0..N : ~Kept(n)}
  <2>5. 0 \notin failing
    <3>1. f[0] = t
      BY <2>1, <2>2 DEF ReadsOn
    <3> QED BY <3>1 DEF ReadUpto
  <2>6. \A n \in 0..N - 1 : n + 1 \in failing => n \in failing
    <3>9. SUFFICES ASSUME NEW n \in 0..N - 1, Kept(n) PROVE Kept(n + 1)
      <4> HIDE DEF Kept
      <4>1. \A n \in 0..N - 1 : n \in 0..N
        BY <2>1
      <4> QED BY <4>1, <3>9 DEF failing
    <3>0. n \in Nat /\ n + 1 \in 1..N /\ n + 1 \in 0..N /\ n + 1 # 0 /\ (n + 1) - 1 = n
      BY <2>1
    <3> DEFINE line == file.lines[n + 1]
               old == f[n]
               new == AfterLine(file.format, old, line, spilt)
    <3>1. f[n + 1] = new
      BY <2>2, <3>0 DEF ReadsOn
    <3>2. LineOf(file.format, line) /\ <<file.format, line>> \in from
      BY <2>1, <2>4, <3>0
    <3>3. TrueNames(old, from) /\ DOMAIN t \subseteq DOMAIN old
          /\ \A k \in 1..n : Table!IsRead(old, file.format, file.lines[k])
      BY <3>9 DEF ReadUpto
    <3> HIDE DEF Kept, line, old
    <3>4. TrueNames(new, from) /\ DOMAIN old \subseteq DOMAIN new
          /\ Table!IsRead(new, file.format, line)
      BY <1>2, <3>2, <3>3, LineTrue
    <3> HIDE DEF new
    <3>5. ASSUME NEW k \in 1..n + 1 PROVE Table!IsRead(new, file.format, file.lines[k])
      <4>1. CASE k = n + 1
        BY <3>4, <4>1 DEF line
      <4>2. CASE k # n + 1
        <5>1. k \in 1..n
          BY <3>0, <4>2
        <5> QED BY <3>3, <3>4, <5>1, IsReadStays
      <4> QED BY <4>1, <4>2
    <3>6. DOMAIN t \subseteq DOMAIN new /\ ReadUpto(new, from, file, n + 1)
      BY <3>3, <3>4, <3>5 DEF ReadUpto
    <3> QED BY <3>1, <3>6 DEF Kept
  <2>7. failing = {}
    <3> HIDE DEF failing
    <3>1. failing \subseteq 0..N
      BY DEF failing
    <3> QED BY <2>1, <2>5, <2>6, <3>1, NothingFails
  <2>8. DOMAIN t \subseteq DOMAIN after /\ ReadUpto(after, from, file, N)
    BY <2>1, <2>2, <2>7
  <2>9. ASSUME NEW b \in Table!Comes(file) PROVE Table!IsRead(after, b[1], b[2])
    <3>1. PICK n \in 1..N : b = <<file.format, file.lines[n]>>
      BY <2>4
    <3> QED BY <2>8, <3>1 DEF ReadUpto
  <2> QED BY <2>3, <2>8, <2>9 DEF ReadUpto
<1> QED BY <1>1, <1>2

\* Every line of files is in a table.
AllRead(t, from) == \A b \in from : Table!IsRead(t, b[1], b[2])

TableInv ==
    TrueNames(hashTable, brought) /\ AllRead(hashTable, brought) /\ (hashesStarted = FALSE => brought = {})

LEMMA TableInitial == Table!HashInit => TableInv
BY DEF Table!HashInit, TableInv, Table!NoNames, TrueNames, AllRead

(* Lines that were in a table stay in a larger one. *)
LEMMA AllReadStays ==
    ASSUME NEW t, NEW u, DOMAIN t \subseteq DOMAIN u, NEW from, AllRead(t, from)
    PROVE  AllRead(u, from)
BY IsReadStays DEF AllRead

FileAfter(t, file, spilt) == Table!load_file(t, file, spilt).table

(* A file that is loaded brings its lines, or is not there. *)
LEMMA LoadedTrue ==
    ASSUME NEW file, WellFormed(file), NEW t, NEW all, NEW from, NEW spilt, TrueNames(t, all),
           AllRead(t, from), Table!Comes(file) \subseteq all
    PROVE  /\ TrueNames(FileAfter(t, file, spilt), all)
           /\ AllRead(FileAfter(t, file, spilt), from \cup Table!Comes(file))
<1> DEFINE after == FileAfter(t, file, spilt)
<1>1. /\ TrueNames(after, all) /\ DOMAIN t \subseteq DOMAIN after
      /\ \A b \in Table!Comes(file) : Table!IsRead(after, b[1], b[2])
  BY FileTrue DEF FileAfter
<1> HIDE DEF after
<1>2. AllRead(after, from)
  BY <1>1, AllReadStays
<1>3. AllRead(after, from \cup Table!Comes(file))
  BY <1>1, <1>2 DEF AllRead
<1> QED BY <1>1, <1>3 DEF after

(* The invariant of the next state, from its parts. *)
LEMMA TableInvFrom ==
    ASSUME NEW t, NEW from, hashTable' = t, brought' = from, TrueNames(t, from), AllRead(t, from),
           hashesStarted' = FALSE => from = {}
    PROVE  TableInv'
BY DEF TableInv, TrueNames, TrueName, AllRead, Asset, Field

(* The files that are loaded at the start. *)
LEMMA DefaultsTrue ==
    ASSUME Table!HashesAssumption, TableInv, Table!HashPreStart PROVE TableInv'
<1>1. /\ hashesStarted' = TRUE /\ brought = {} /\ TrueNames(hashTable, {})
      /\ AllRead(hashTable, {})
  BY DEF Table!HashPreStart, TableInv
<1>2. CASE hashTable' = hashTable /\ brought' = brought
  BY <1>1, <1>2, TableInvFrom
<1>3. CASE \E there \in SUBSET {1, 2}, spilt \in SUBSET Table!Full :
            LET FileLoaded(t, n) == IF n \in there THEN Table!load_file(t, Defaults[n], spilt).table ELSE t
            IN /\ hashTable' = FileLoaded(FileLoaded(hashTable, 1), 2)
               /\ brought' = UNION {Table!Comes(Defaults[n]) : n \in there}
  <2>0. PICK there \in SUBSET {1, 2}, spilt \in SUBSET Table!Full :
            LET FileLoaded(t, n) == IF n \in there THEN Table!load_file(t, Defaults[n], spilt).table ELSE t
            IN /\ hashTable' = FileLoaded(FileLoaded(hashTable, 1), 2)
               /\ brought' = UNION {Table!Comes(Defaults[n]) : n \in there}
    BY <1>3
  <2> DEFINE from == UNION {Table!Comes(Defaults[n]) : n \in there}
             Lines(n) == IF n \in there THEN Table!Comes(Defaults[n]) ELSE {}
             first == IF 1 \in there THEN FileAfter(hashTable, Defaults[1], spilt) ELSE hashTable
             second == IF 2 \in there THEN FileAfter(first, Defaults[2], spilt) ELSE first
  <2>1. hashTable' = second /\ brought' = from
    BY <2>0 DEF FileAfter
  <2>2. Lines(1) \subseteq from /\ Lines(2) \subseteq from /\ from = Lines(1) \cup Lines(2)
    OBVIOUS
  <2>3. WellFormed(Defaults[1]) /\ WellFormed(Defaults[2])
    BY DEF Table!HashesAssumption, WellFormed, Texts
  <2>4. TrueNames(hashTable, from)
    <3> HIDE DEF from
    <3> QED BY <1>1, TrueOfMore
  <2> HIDE DEF from
  <2>5. TrueNames(first, from) /\ AllRead(first, Lines(1))
    <3>1. CASE 1 \in there
      <4>1. {} \cup Table!Comes(Defaults[1]) = Lines(1)
        BY <3>1
      <4>2. Table!Comes(Defaults[1]) \subseteq from
        BY <2>2, <3>1
      <4>3. TrueNames(FileAfter(hashTable, Defaults[1], spilt), from)
            /\ AllRead(FileAfter(hashTable, Defaults[1], spilt), {} \cup Table!Comes(Defaults[1]))
        BY <1>1, <2>3, <2>4, <4>2, LoadedTrue
      <4> HIDE DEF Lines
      <4> QED BY <3>1, <4>1, <4>3
    <3>2. CASE 1 \notin there
      BY <1>1, <2>4, <3>2
    <3> QED BY <3>1, <3>2
  <2> HIDE DEF first
  <2>6. TrueNames(second, from) /\ AllRead(second, Lines(1) \cup Lines(2))
    <3>1. CASE 2 \in there
      <4>1. Table!Comes(Defaults[2]) = Lines(2)
        BY <3>1
      <4>2. Table!Comes(Defaults[2]) \subseteq from
        BY <2>2, <4>1
      <4> HIDE DEF Lines
      <4>3. TrueNames(FileAfter(first, Defaults[2], spilt), from)
            /\ AllRead(FileAfter(first, Defaults[2], spilt), Lines(1) \cup Table!Comes(Defaults[2]))
        BY <2>3, <2>5, <4>2, LoadedTrue
      <4> QED BY <3>1, <4>1, <4>3
    <3>2. CASE 2 \notin there
      <4>1. Lines(1) \cup Lines(2) = Lines(1)
        BY <3>2
      <4> HIDE DEF Lines
      <4> QED BY <2>5, <3>2, <4>1
    <3> QED BY <3>1, <3>2
  <2> HIDE DEF second, Lines
  <2> QED BY <1>1, <2>1, <2>2, <2>6, TableInvFrom
<1> QED BY <1>2, <1>3 DEF Table!HashPreStart

(* A file of a mod. *)
LEMMA FilesTrue ==
    ASSUME Table!HashesAssumption, TableInv, Table!LoadFile PROVE TableInv'
<1>0. PICK file \in HashFiles, spilt \in SUBSET Table!Full :
         /\ hashTable' = Table!load_file(hashTable, file, spilt).table
         /\ brought' = brought \cup Table!Comes(file)
  BY DEF Table!LoadFile
<1>1. hashesStarted /\ hashesStarted' = hashesStarted
  BY DEF Table!LoadFile
<1> DEFINE from == brought \cup Table!Comes(file)
           after == FileAfter(hashTable, file, spilt)
<1>2. WellFormed(file)
  BY DEF Table!HashesAssumption, WellFormed, Texts
<1>3. TrueNames(hashTable, from) /\ AllRead(hashTable, brought)
  BY TrueOfMore DEF TableInv
<1>4. Table!Comes(file) \subseteq from
  OBVIOUS
<1>5. hashTable' = after /\ brought' = from
  BY <1>0 DEF FileAfter
<1>6. TrueNames(after, from) /\ AllRead(after, from)
  <2>1. ASSUME NEW all, all = from PROVE TrueNames(after, all) /\ AllRead(after, from)
    <3> HIDE DEF from
    <3>1. TrueNames(hashTable, all) /\ Table!Comes(file) \subseteq all
      BY <1>3, <1>4, <2>1
    <3>2. TrueNames(after, all) /\ AllRead(after, brought \cup Table!Comes(file))
      BY <1>2, <1>3, <3>1, LoadedTrue
    <3> QED BY <3>2 DEF from
  <2> QED BY <2>1
<1> HIDE DEF from, after
<1> QED BY <1>1, <1>5, <1>6, TableInvFrom

(* A text that the program hashes. *)
LEMMA HashesTrue ==
    ASSUME Table!HashesAssumption, TableInv, Table!Hash PROVE TableInv'
<1>0. PICK text \in HashedTexts :
         hashTable' \in {Table!generate_hash(hashTable, text, Table!Fnv1a),
                       Table!canon_hash(hashTable, text),
                       Table!generate_hash_pattern(hashTable, text),
                       Table!canon_hash_pattern(hashTable, text)}
  BY DEF Table!Hash
<1>1. hashesStarted' = hashesStarted /\ brought' = brought
  BY DEF Table!Hash
<1>2. text \in Texts
  BY DEF Table!HashesAssumption, Texts
<1>3. TrueNames(hashTable, brought) /\ AllRead(hashTable, brought)
      /\ (hashesStarted = FALSE => brought = {})
  BY DEF TableInv
<1> DEFINE from == brought
           a == Table!generate_hash(hashTable, text, Table!Fnv1a)
           b == Table!canon_hash(hashTable, text)
           c == Table!generate_hash_pattern(hashTable, text)
           d == Table!canon_hash_pattern(hashTable, text)
<1>4. TrueNames(a, from) /\ TrueNames(b, from)
      /\ DOMAIN hashTable \subseteq DOMAIN a /\ DOMAIN hashTable \subseteq DOMAIN b
  BY <1>2, <1>3, HashedTrue, HashedKeeps DEF Hashed
<1>5. TrueNames(c, from) /\ TrueNames(d, from)
      /\ DOMAIN hashTable \subseteq DOMAIN c /\ DOMAIN hashTable \subseteq DOMAIN d
  BY <1>2, <1>3, PatternTrue
<1>6. hashTable' \in {a, b, c, d}
  BY <1>0
<1> HIDE DEF a, b, c, d, from
<1>7. PICK t : t = hashTable' /\ TrueNames(t, from) /\ DOMAIN hashTable \subseteq DOMAIN t
  BY <1>4, <1>5, <1>6
<1>8. AllRead(t, from)
  BY <1>3, <1>7, AllReadStays DEF from
<1> QED BY <1>1, <1>3, <1>7, <1>8, TableInvFrom DEF from

(* A text in the table has the hash it is the name of, or a line says so,  *)
(* and every line that was come to is there.                               *)
THEOREM TableStaysTrue ==
    ASSUME Table!HashesAssumption PROVE Table!HashSpec => []TableInv
<1>1. TableInv /\ [Table!HashNext]_hashesVars => TableInv'
  <2>1. ASSUME TableInv, UNCHANGED hashesVars PROVE TableInv'
    <3>1. hashTable' = hashTable /\ brought' = brought /\ hashesStarted' = hashesStarted
      BY <2>1 DEF hashesVars
    <3> QED BY <2>1, <3>1, TableInvFrom DEF TableInv
  <2> QED BY <2>1, DefaultsTrue, FilesTrue, HashesTrue DEF Table!HashNext
<1> QED BY <1>1, TableInitial, PTL DEF Table!HashSpec, hashesVars, Table!hashVars

------------------------------------------------------------------------------
(* A text and what is hashed of it. *)
Lowered(text) == Table!Lower(Table!Slashes(text))

(* What is hashed of a text is a text of the same length. *)
LEMMA LoweredIsText ==
    ASSUME Table!HashesAssumption, NEW text \in Texts
    PROVE  /\ Lowered(text) \in Texts /\ Len(Lowered(text)) = Len(text)
           /\ Table!Lower(text) \in Texts
           /\ \A k \in 1..Len(text) :
                 LET part == IF text[k] = "\\" THEN "/" ELSE text[k]
                 IN Lowered(text)[k] = IF part \in DOMAIN Small THEN Small[part] ELSE part
<1>0. Small \in [DOMAIN Small -> Parts]
  BY DEF Table!HashesAssumption
<1>1. /\ Len(text) \in Nat /\ DOMAIN text = 1..Len(text)
      /\ \A k \in 1..Len(text) : text[k] \in Parts
  BY DEF Texts
<1> DEFINE slashed == Table!Slashes(text)
           small == Table!Lower(slashed)
<1>2. slashed = [k \in 1..Len(text) |-> IF text[k] = "\\" THEN "/" ELSE text[k]]
  BY <1>1 DEF Table!Slashes
<1> HIDE DEF slashed
<1>3. small = [k \in 1..Len(text) |-> IF slashed[k] \in DOMAIN Small THEN Small[slashed[k]]
                                                                     ELSE slashed[k]]
  BY <1>2 DEF Table!Lower
<1>4. \A k \in 1..Len(text) : slashed[k] \in Parts
  BY <1>1, <1>2 DEF Table!HashesAssumption
<1>5. small \in [1..Len(text) -> Parts]
  BY <1>0, <1>3, <1>4
<1>6. Table!Lower(text) \in [1..Len(text) -> Parts]
  BY <1>0, <1>1 DEF Table!Lower
<1>7. Table!Lower(text) \in Texts /\ small \in Texts /\ Len(small) = Len(text)
  BY <1>1, <1>5, <1>6 DEF Texts
<1> QED BY <1>2, <1>3, <1>7 DEF Lowered, slashed

(* The two hashes differ in their width. *)
LEMMA HashesAreTexts ==
    ASSUME Table!HashesAssumption, NEW text \in Texts
    PROVE  /\ Asset(text) = <<"64">> \o Lowered(text) /\ Asset(text) \in Texts
           /\ Field(text) \in Texts
           /\ Asset(text) # <<>> /\ Head(Asset(text)) = "64"
           /\ Field(text) # <<>> /\ Head(Field(text)) = "32"
<1>1. Lowered(text) \in Texts /\ Table!Lower(text) \in Texts
  BY LoweredIsText
<1> DEFINE a == Lowered(text)
           b == Table!Lower(text)
<1>2. Asset(text) = <<"64">> \o a /\ Field(text) = <<"32">> \o b
  BY DEF Asset, Field, Lowered, Table!HashFrom, Table!Fnv1a, Table!CanonOf
<1> HIDE DEF a, b
<1>3. a \in Seq(Parts) /\ b \in Seq(Parts)
  BY <1>1 DEF a, b, Texts
<1>4. ASSUME NEW part \in Parts, NEW rest \in Seq(Parts)
      PROVE  <<part>> \o rest \in Seq(Parts) /\ <<part>> \o rest # <<>> /\ Head(<<part>> \o rest) = part
  OBVIOUS
<1>5. "64" \in Parts /\ "32" \in Parts
  BY DEF Table!HashesAssumption
<1> QED BY <1>2, <1>3, <1>4, <1>5 DEF Texts, a

(* A notation is read as the hash behind it. *)
LEMMA NotationIsRead ==
    ASSUME NEW h \in Texts, h # <<>>, Head(h) # "top"
    PROVE  /\ \A type \in {"hash_", "script_"} : Table!PatternHash(<<type>> \o h) = h
           /\ Table!CanonPatternHash(<<"var_">> \o h) = h
<1> SUFFICES ASSUME NEW type \in {"hash_", "script_", "var_"}
             PROVE  /\ type # "var_" => Table!PatternHash(<<type>> \o h) = h
                    /\ type = "var_" => Table!CanonPatternHash(<<type>> \o h) = h
  OBVIOUS
<1> DEFINE shown == <<type>> \o h
<1>1. shown # <<>> /\ Head(shown) = type /\ Tail(shown) = h
  BY DEF Texts
<1>2. Table!Mask(h) = h
  BY DEF Table!Mask, Table!Begins
<1> HIDE DEF shown
<1>3. type # "var_" => Table!PatternHash(shown) = h
  BY <1>1, <1>2 DEF Table!PatternHash, Table!Begins
<1>4. type = "var_" => Table!CanonPatternHash(shown) = h
  BY <1>1 DEF Table!CanonPatternHash
<1> QED BY <1>3, <1>4 DEF shown

(* A hash is read back from its name, or else from its notation. *)
LEMMA TrueIsReadBack ==
    ASSUME Table!HashesAssumption, TableInv PROVE Table!ShownIsReadBack
<1> SUFFICES ASSUME NEW text \in HashedTexts
             PROVE /\ Table!ReadsBack(Asset(text)) => \A type \in {"hash_", "script_"} :
                         Table!PatternHash(Table!Shown(type, Asset(text))) = Asset(text)
                   /\ Table!ReadsBack(Field(text)) =>
                         Table!CanonPatternHash(Table!Shown("var_", Field(text))) = Field(text)
  BY DEF Table!ShownIsReadBack, Asset, Field
<1>1. text \in Texts
  BY DEF Table!HashesAssumption, Texts
<1> DEFINE asset == Asset(text)
           field == Field(text)
<1>2. /\ asset \in Texts /\ asset # <<>> /\ Head(asset) = "64"
      /\ field \in Texts /\ field # <<>> /\ Head(field) = "32"
  BY <1>1, HashesAreTexts
<1>3. "64" # "top" /\ "32" # "top" /\ "64" # "32"
  OBVIOUS
<1> HIDE DEF asset, field
<1>4. \A type \in {"hash_", "script_"} : Table!PatternHash(<<type>> \o asset) = asset
  BY <1>2, <1>3, NotationIsRead
<1>5. Table!CanonPatternHash(<<"var_">> \o field) = field
  BY <1>2, <1>3, NotationIsRead
<1>6. ASSUME Table!ReadsBack(asset), asset \in DOMAIN hashTable
      PROVE  Table!PatternHash(hashTable[asset]) = asset
  <2> DEFINE name == hashTable[asset]
  <2>1. ~Table!IsNotation(name) /\ ~Table!Said(brought, asset, name)
    BY <1>6 DEF Table!ReadsBack
  <2>2. name \in Texts /\ (asset = Asset(name) \/ asset = Field(name))
    BY <1>6, <2>1 DEF TableInv, TrueNames, TrueName
  <2> HIDE DEF name
  <2>3. asset = Asset(name)
    BY <1>2, <1>3, <2>2, HashesAreTexts
  <2>4. Table!PatternHash(name) = Asset(name)
    BY <2>1 DEF Table!PatternHash, Table!IsNotation, Table!Begins, Asset
  <2> QED BY <2>3, <2>4 DEF name
<1>7. ASSUME Table!ReadsBack(field), field \in DOMAIN hashTable
      PROVE  Table!CanonPatternHash(hashTable[field]) = field
  <2> DEFINE name == hashTable[field]
  <2>1. ~Table!IsNotation(name) /\ ~Table!Said(brought, field, name)
    BY <1>7 DEF Table!ReadsBack
  <2>2. name \in Texts /\ (field = Asset(name) \/ field = Field(name))
    BY <1>7, <2>1 DEF TableInv, TrueNames, TrueName
  <2> HIDE DEF name
  <2>3. field = Field(name)
    BY <1>2, <1>3, <2>2, HashesAreTexts
  <2>4. Table!CanonPatternHash(name) = Field(name)
    BY <2>1 DEF Table!CanonPatternHash, Table!IsNotation, Field
  <2> QED BY <2>3, <2>4 DEF name
<1>8. \A type, h : Table!Shown(type, h) = IF h \in DOMAIN hashTable /\ hashTable[h] # Absent
                                          THEN hashTable[h] ELSE <<type>> \o h
  BY DEF Table!Shown, Table!lookup
<1>9. Table!ReadsBack(asset) => \A type \in {"hash_", "script_"} :
        Table!PatternHash(Table!Shown(type, asset)) = asset
  <2> SUFFICES ASSUME Table!ReadsBack(asset), NEW type \in {"hash_", "script_"}
               PROVE  Table!PatternHash(Table!Shown(type, asset)) = asset
    OBVIOUS
  <2>1. CASE asset \in DOMAIN hashTable /\ hashTable[asset] # Absent
    BY <1>6, <1>8, <2>1
  <2>2. CASE ~(asset \in DOMAIN hashTable /\ hashTable[asset] # Absent)
    BY <1>4, <1>8, <2>2
  <2> QED BY <2>1, <2>2
<1>10. Table!ReadsBack(field) => Table!CanonPatternHash(Table!Shown("var_", field)) = field
  <2>1. CASE field \in DOMAIN hashTable /\ hashTable[field] # Absent
    BY <1>7, <1>8, <2>1
  <2>2. CASE ~(field \in DOMAIN hashTable /\ hashTable[field] # Absent)
    BY <1>5, <1>8, <2>2
  <2> QED BY <2>1, <2>2
<1> QED BY <1>9, <1>10 DEF asset, field

(* What is shown for a hash is read as that hash. *)
THEOREM HashesStayRead ==
    ASSUME Table!HashesAssumption PROVE Table!HashSpec => []Table!HashesReadBack
<1>1. TableInv => Table!HashesReadBack
  <2>1. TableInv => Table!NamesAreTrue
    BY DEF TableInv, TrueNames, TrueName, Table!NamesAreTrue, Asset, Field
  <2>2. TableInv => Table!LinesAreRead
    BY DEF TableInv, AllRead, Table!LinesAreRead
  <2> QED BY <2>1, <2>2, TrueIsReadBack DEF Table!HashesReadBack
<1> QED BY <1>1, TableStaysTrue, PTL

------------------------------------------------------------------------------
(***************************************************************************)
(* Settings: what was written or read is read again.                       *)
(*                                                                         *)
(* The argument: what the client or the user has last seen of a setting is *)
(* what the document has, or nothing is known; and unless it is being      *)
(* written, was edited or could not be written the file has the same       *)
(* settings as the document, so that a restart changes nothing.            *)
(***************************************************************************)

\* Documents are functions; the values that are none are told from them.
NoFunction(x) == \A f : x # [k \in DOMAIN f |-> f[k]]

\* What the client would read from the file.
FileDoc == IF file_name \in {Absent, Broken} THEN <<>> ELSE file_name

SettingsInv ==
    /\ DOMAIN lastTold = Json!Keys
    /\ \A key \in Json!Keys : lastTold[key] \in {Absent, Json!Get(Json!get_json_document, key)}
    /\ json_doc # Absent /\ ~disturbed /\ ~writing =>
         \A key \in Json!Keys : Json!Get(FileDoc, key) = Json!Get(json_doc, key)
    /\ writing \in BOOLEAN /\ (writing => json_doc # Absent)
    /\ json_doc \in {Absent, Broken} => json_doc = Absent
    /\ Json!SettingsReadBack

(* Before the first use the document is that of the file ... *)
LEMMA DocumentIsFile ==
    ASSUME json_doc = Absent PROVE Json!get_json_document = FileDoc
  BY DEF Json!get_json_document, FileDoc

(* ... and afterwards it is the one in memory. *)
LEMMA DocumentIsRead ==
    ASSUME json_doc # Absent PROVE Json!get_json_document = json_doc
  BY DEF Json!get_json_document

(* A section is no value that is not an object. *)
LEMMA WithIsFunction ==
    ASSUME NoFunction(NotAnObject), NEW object, NEW name, NEW value
    PROVE  Json!With(object, name, value) # NotAnObject
<1> DEFINE new == Json!With(object, name, value)
<1>1. new = [n \in DOMAIN new |-> new[n]]
  BY DEF Json!With
<1> HIDE DEF new
<1>2. new # NotAnObject
  BY <1>1 DEF NoFunction
<1> QED BY <1>2 DEF new

(* A section that is set up changes no setting.                             *)
LEMMA SectionKeeps ==
    ASSUME NoFunction(NotAnObject), NEW doc, NEW section
    PROVE  LET with == Json!get_json_section(doc, section)
           IN /\ section \in DOMAIN with /\ with[section] # NotAnObject
              /\ with = doc \/ with = Json!With(doc, section, <<>>)
              /\ \A key : Json!Get(with, key) = Json!Get(doc, key)
<1>0. CASE section \in DOMAIN doc /\ doc[section] # NotAnObject
  BY <1>0 DEF Json!get_json_section
<1>1. CASE ~(section \in DOMAIN doc /\ doc[section] # NotAnObject)
  <2> DEFINE new == Json!With(doc, section, <<>>)
  <2>0. Json!get_json_section(doc, section) = new
    BY <1>1 DEF Json!get_json_section
  <2>2. DOMAIN new = DOMAIN doc \cup {section} /\ new[section] = <<>>
        /\ \A s \in DOMAIN doc : s # section => new[s] = doc[s]
    BY DEF Json!With
  <2> HIDE DEF new
  <2>3. <<>> # NotAnObject
    <3>1. <<>> = [k \in DOMAIN <<>> |-> <<>>[k]]
      OBVIOUS
    <3> QED BY <3>1 DEF NoFunction
  <2>4. ASSUME NEW key PROVE Json!Get(new, key) = Json!Get(doc, key)
    BY <1>1, <2>2, <2>3 DEF Json!Get
  <2> QED BY <2>0, <2>2, <2>3, <2>4 DEF new
<1> QED BY <1>0, <1>1

SettingOf(doc, s, k) == Json!Get(doc, <<s, k>>)
SettingSet(doc, s, k, value) == Json!SetMember(doc, <<s, k>>, value)

(* A member that is set is all that changes.                                *)
LEMMA MemberIsSet ==
    ASSUME NoFunction(NotAnObject)
    PROVE  \A doc, s, k, value, s2, k2 :
             SettingOf(SettingSet(doc, s, k, value), s2, k2)
               = IF s2 = s /\ k2 = k THEN value ELSE SettingOf(doc, s2, k2)
<1> SUFFICES ASSUME NEW doc, NEW s, NEW k, NEW value, NEW s2, NEW k2
             PROVE  Json!Get(Json!SetMember(doc, <<s, k>>, value), <<s2, k2>>)
                      = IF s2 = s /\ k2 = k THEN value ELSE Json!Get(doc, <<s2, k2>>)
  BY DEF SettingOf, SettingSet
<1> DEFINE with == Json!get_json_section(doc, s)
           members == Json!With(with[s], k, value)
           new == [with EXCEPT ![s] = members]
<1>1. Json!SetMember(doc, <<s, k>>, value) = new
  BY DEF Json!SetMember
<1>2. /\ s \in DOMAIN with /\ with[s] # NotAnObject
      /\ \A key : Json!Get(with, key) = Json!Get(doc, key)
  BY SectionKeeps
<1>4. members # NotAnObject
  BY WithIsFunction
<1>5. /\ DOMAIN members = DOMAIN with[s] \cup {k} /\ members[k] = value
      /\ \A m \in DOMAIN with[s] : m # k => members[m] = with[s][m]
  BY DEF Json!With
<1> HIDE DEF with, members
<1>6. /\ DOMAIN new = DOMAIN with /\ new[s] = members
      /\ \A t \in DOMAIN with : t # s => new[t] = with[t]
  BY <1>2
<1> HIDE DEF new
<1> SUFFICES Json!Get(new, <<s2, k2>>)
               = IF s2 = s /\ k2 = k THEN value ELSE Json!Get(doc, <<s2, k2>>)
  BY <1>1
<1>7. CASE s2 # s
  BY <1>2, <1>6, <1>7 DEF Json!Get
<1>8. CASE s2 = s /\ k2 = k
  BY <1>2, <1>4, <1>5, <1>6, <1>8 DEF Json!Get
<1>9. CASE s2 = s /\ k2 # k
  BY <1>2, <1>4, <1>5, <1>6, <1>9 DEF Json!Get
<1> QED BY <1>7, <1>8, <1>9

NoDocuments == NoFunction(NotAnObject) /\ NoFunction(Absent) /\ NoFunction(Broken)

(* A document is neither none nor broken, also with new members.            *)
LEMMA DocumentsStay ==
    ASSUME NoDocuments, json_doc \in {Absent, Broken} => json_doc = Absent, NEW section, NEW k, NEW value
    PROVE  LET doc == Json!get_json_document
           IN /\ doc \notin {Absent, Broken}
              /\ Json!get_json_section(doc, section) \notin {Absent, Broken}
              /\ Json!SetMember(doc, <<section, k>>, value) \notin {Absent, Broken}
<1> DEFINE doc == Json!get_json_document
<1>1. \A f : [n \in DOMAIN f |-> f[n]] \notin {Absent, Broken}
  BY DEF NoDocuments, NoFunction
<1>2. doc \notin {Absent, Broken}
  <2>1. <<>> = [n \in DOMAIN <<>> |-> <<>>[n]]
    OBVIOUS
  <2>2. <<>> \notin {Absent, Broken}
    BY <1>1, <2>1
  <2> QED BY <2>2 DEF Json!get_json_document
<1> HIDE DEF doc
<1>3. Json!get_json_section(doc, section) \notin {Absent, Broken}
  <2>1. Json!With(doc, section, <<>>) \notin {Absent, Broken}
    <3> DEFINE new == Json!With(doc, section, <<>>)
    <3>1. new = [n \in DOMAIN new |-> new[n]]
      BY DEF Json!With
    <3> HIDE DEF new
    <3>2. new \notin {Absent, Broken}
      BY <1>1, <3>1
    <3> QED BY <3>2 DEF new
  <2> QED BY <1>2, <2>1 DEF Json!get_json_section
<1>4. Json!SetMember(doc, <<section, k>>, value) \notin {Absent, Broken}
  <2> DEFINE new == Json!SetMember(doc, <<section, k>>, value)
  <2>1. new = [n \in DOMAIN new |-> new[n]]
    BY DEF Json!SetMember
  <2> HIDE DEF new
  <2>2. new \notin {Absent, Broken}
    BY <1>1, <2>1
  <2> QED BY <2>2 DEF new
<1> QED BY <1>2, <1>3, <1>4 DEF doc

LEMMA SettingsInitial ==
    ASSUME Json!SettingsAssumption, NoDocuments, Json!SettingsInit PROVE SettingsInv
<1>1. json_doc = Absent /\ writing = FALSE /\ lastRead = Absent
      /\ file_name \in {Absent, Broken} \cup UserFiles
      /\ lastTold = [key \in Json!Keys |-> IF file_name \in {Absent, Broken} THEN Absent
                                                     ELSE Json!Get(file_name, key)]
  BY DEF Json!SettingsInit, Json!InFile
<1>2. Json!get_json_document = FileDoc
  BY <1>1, DocumentIsFile
<1> QED BY <1>1, <1>2 DEF SettingsInv, FileDoc, Json!SettingsReadBack

(* What a step tells of one setting, and what becomes of the document.      *)
LEMMA ToldOne ==
    ASSUME NoDocuments, SettingsInv, NEW r \in Reads, NEW value,
           lastTold' = [lastTold EXCEPT ![<<r.section, r.key>>] = value],
           json_doc' = Json!SetMember(Json!get_json_document, <<r.section, r.key>>, value)
    PROVE  /\ DOMAIN lastTold' = Json!Keys /\ json_doc' \notin {Absent, Broken}
           /\ \A key \in Json!Keys : lastTold'[key] \in {Absent, Json!Get(json_doc', key)}
<1> DEFINE doc == Json!get_json_document
           new == Json!SetMember(doc, <<r.section, r.key>>, value)
<1>1. \A s, k : SettingOf(new, s, k)
                  = IF s = r.section /\ k = r.key THEN value ELSE SettingOf(doc, s, k)
  <2> DEFINE set == SettingSet(doc, r.section, r.key, value)
  <2>1. new = set
    BY DEF SettingSet
  <2> HIDE DEF new
  <2>2. \A s, k : SettingOf(set, s, k)
                    = IF s = r.section /\ k = r.key THEN value ELSE SettingOf(doc, s, k)
    BY MemberIsSet DEF NoDocuments
  <2> HIDE DEF set
  <2> QED BY <2>1, <2>2
<1>2. new \notin {Absent, Broken}
  BY DocumentsStay DEF SettingsInv
<1>3. DOMAIN lastTold = Json!Keys
      /\ \A key \in Json!Keys : lastTold[key] \in {Absent, Json!Get(doc, key)}
  BY DEF SettingsInv
<1> HIDE DEF doc, new
<1>4. json_doc' = new
  BY DEF doc, new
<1> SUFFICES ASSUME NEW key \in Json!Keys
             PROVE  lastTold'[key] \in {Absent, Json!Get(new, key)}
  BY <1>2, <1>3, <1>4
<1>5. PICK q \in Reads : key = <<q.section, q.key>>
  BY DEF Json!Keys
<1>6. \A d : SettingOf(d, q.section, q.key) = Json!Get(d, key)
  BY <1>5 DEF SettingOf
<1>7. CASE q.section = r.section /\ q.key = r.key
  BY <1>1, <1>3, <1>5, <1>6, <1>7
<1>8. CASE ~(q.section = r.section /\ q.key = r.key)
  <2>1. key # <<r.section, r.key>>
    BY <1>5, <1>8
  <2>2. lastTold'[key] = lastTold[key]
    BY <1>3, <2>1
  <2>3. Json!Get(new, key) = Json!Get(doc, key)
    BY <1>1, <1>6, <1>8
  <2> QED BY <1>3, <2>2, <2>3
<1> QED BY <1>7, <1>8

(* The document of a step that has one is what is read afterwards.          *)
LEMMA InvAfter ==
    ASSUME json_doc' \notin {Absent, Broken},
           DOMAIN lastTold' = Json!Keys,
           \A key \in Json!Keys : lastTold'[key] \in {Absent, Json!Get(json_doc', key)},
           ~disturbed' /\ ~writing' =>
             \A key \in Json!Keys : Json!Get(FileDoc', key) = Json!Get(json_doc', key),
           writing' \in BOOLEAN, Json!SettingsReadBack'
    PROVE  SettingsInv'
<1>1. Json!get_json_document' = json_doc'
  BY DEF Json!get_json_document
<1> DEFINE now == Json!get_json_document'
           file == FileDoc'
<1>2. \A key \in Json!Keys : lastTold'[key] \in {Absent, Json!Get(now, key)}
  BY <1>1
<1> QED BY <1>2 DEF SettingsInv, Json!Get, Json!get_json_document, Json!Keys

(* A read tells what it was told before, or writes its default. *)
LEMMA SettingsAreRead ==
    ASSUME Json!SettingsAssumption, NoDocuments, SettingsInv, Json!Read PROVE SettingsInv'
<1>0. PICK r \in Reads :
        LET key   == <<r.section, r.key>>
            doc   == Json!get_json_section(Json!get_json_document, r.section)
            value == Json!Get(doc, key)
        IN \/ /\ Json!Fits(value, r.type)
              /\ json_doc' = doc
              /\ Json!Answered(r, value)
              /\ UNCHANGED <<file_name, writing, runs, disturbed>>
           \/ /\ ~Json!Fits(value, r.type)
              /\ json_doc' = Json!SetMember(doc, key, r.default)
              /\ Json!Answered(r, r.default)
              /\ \E opens \in BOOLEAN : Json!write_json_config(opens)
              /\ runs' = runs
  BY DEF Json!Read
<1> DEFINE old == Json!get_json_document
           doc == Json!get_json_section(old, r.section)
           key == <<r.section, r.key>>
           value == Json!Get(doc, key)
<1>1. key \in Json!Keys
  BY DEF Json!Keys
<1>2. ~writing
  BY DEF Json!Read
<1>3. /\ r.section \in DOMAIN doc /\ doc[r.section] # NotAnObject
      /\ \A k : Json!Get(doc, k) = Json!Get(old, k)
  BY SectionKeeps DEF NoDocuments
<1>4. /\ DOMAIN lastTold = Json!Keys
      /\ \A k \in Json!Keys : lastTold[k] \in {Absent, Json!Get(old, k)}
  BY DEF SettingsInv
<1>5. lastTold[key] \in {Absent, value}
  BY <1>1, <1>3, <1>4
<1>6. doc \notin {Absent, Broken}
  BY DocumentsStay DEF SettingsInv
<1>7. \A k \in Json!Keys : ~disturbed => Json!Get(FileDoc, k) = Json!Get(old, k)
  <2>1. CASE json_doc = Absent
    BY <2>1, DocumentIsFile
  <2>2. CASE json_doc # Absent
    BY <1>2, <2>2, DocumentIsRead DEF SettingsInv
  <2> QED BY <2>1, <2>2
<1>8. CASE /\ Json!Fits(value, r.type) /\ json_doc' = doc /\ Json!Answered(r, value)
           /\ UNCHANGED <<file_name, writing, runs, disturbed>>
  <2>1. /\ lastRead' = [type |-> r.type, value |-> value, was |-> lastTold[key]]
        /\ lastTold' = [lastTold EXCEPT ![key] = value]
    BY <1>8 DEF Json!Answered
  <2>2. Json!SettingsReadBack'
    BY <1>5, <1>8, <2>1 DEF Json!SettingsReadBack, Json!Fits
  <2>3. FileDoc' = FileDoc /\ writing' = writing /\ disturbed' = disturbed
    BY <1>8 DEF FileDoc
  <2> DEFINE new == json_doc'
  <2>4. new = doc
    BY <1>8
  <2> HIDE DEF new, doc, key, old
  <2>5. \A k \in Json!Keys : lastTold'[k] \in {Absent, Json!Get(new, k)}
    BY <1>1, <1>3, <1>4, <2>1, <2>4 DEF value
  <2>6. ~disturbed' => \A k \in Json!Keys : Json!Get(FileDoc', k) = Json!Get(new, k)
    BY <1>3, <1>7, <2>3, <2>4
  <2>7. DOMAIN lastTold' = Json!Keys /\ writing' \in BOOLEAN /\ new \notin {Absent, Broken}
    BY <1>4, <1>6, <2>1, <2>3, <2>4 DEF SettingsInv
  <2> QED BY <2>2, <2>5, <2>6, <2>7, InvAfter DEF new
<1>9. CASE /\ ~Json!Fits(value, r.type) /\ json_doc' = Json!SetMember(doc, key, r.default)
           /\ Json!Answered(r, r.default)
           /\ \E opens \in BOOLEAN : Json!write_json_config(opens)
  <2>1. /\ lastRead' = [type |-> r.type, value |-> r.default, was |-> lastTold[key]]
        /\ lastTold' = [lastTold EXCEPT ![key] = r.default]
    BY <1>9 DEF Json!Answered
  <2>2. Json!SettingsReadBack'
    BY <1>5, <1>9, <2>1 DEF Json!SettingsReadBack, Json!Fits, Json!SettingsAssumption
  <2>3. json_doc' = Json!SetMember(old, key, r.default)
    <3>1. Json!get_json_section(doc, r.section) = doc
      BY <1>3 DEF Json!get_json_section
    <3> QED BY <1>9, <3>1 DEF Json!SetMember
  <2>4. /\ DOMAIN lastTold' = Json!Keys /\ json_doc' \notin {Absent, Broken}
        /\ \A k \in Json!Keys : lastTold'[k] \in {Absent, Json!Get(json_doc', k)}
    BY <2>1, <2>3, ToldOne
  <2>5. writing' \in BOOLEAN /\ (writing' \/ disturbed')
    BY <1>9 DEF Json!write_json_config
  <2> QED BY <2>2, <2>4, <2>5, InvAfter
<1> QED BY <1>0, <1>8, <1>9

(* A write. *)
LEMMA SettingsAreWritten ==
    ASSUME NoDocuments, SettingsInv, Json!Write PROVE SettingsInv'
<1>1. PICK r \in Reads, value \in Values :
        /\ json_doc' = Json!SetMember(Json!get_json_document, <<r.section, r.key>>, value)
        /\ lastTold' = [lastTold EXCEPT ![<<r.section, r.key>>] = value]
        /\ \E opens \in BOOLEAN : Json!write_json_config(opens)
  BY DEF Json!Write
<1>2. /\ DOMAIN lastTold' = Json!Keys /\ json_doc' \notin {Absent, Broken}
      /\ \A k \in Json!Keys : lastTold'[k] \in {Absent, Json!Get(json_doc', k)}
  BY <1>1, ToldOne
<1>3. writing' \in BOOLEAN /\ (writing' \/ disturbed')
  BY <1>1 DEF Json!write_json_config
<1>4. Json!SettingsReadBack'
  BY DEF Json!Write, SettingsInv, Json!SettingsReadBack
<1> QED BY <1>2, <1>3, <1>4, InvAfter

(* The end of a write brings the document to the file. *)
LEMMA SettingsInFile ==
    ASSUME NoDocuments, SettingsInv, Json!WriteEnd PROVE SettingsInv'
<1>1. /\ writing /\ writing' = FALSE /\ file_name' = json_doc /\ json_doc' = json_doc
      /\ lastTold' = lastTold /\ lastRead' = lastRead
  BY DEF Json!WriteEnd
<1>2. json_doc \notin {Absent, Broken}
  BY <1>1 DEF SettingsInv
<1>3. FileDoc' = json_doc'
  BY <1>1, <1>2 DEF FileDoc
<1>4. DOMAIN lastTold = Json!Keys /\ Json!SettingsReadBack
      /\ \A k \in Json!Keys : lastTold[k] \in {Absent, Json!Get(json_doc, k)}
  BY <1>2, DocumentIsRead DEF SettingsInv
<1>5. Json!SettingsReadBack'
  BY <1>1, <1>4 DEF Json!SettingsReadBack
<1>6. DOMAIN lastTold' = Json!Keys
      /\ \A k \in Json!Keys : lastTold'[k] \in {Absent, Json!Get(json_doc', k)}
  BY <1>1, <1>4
<1> QED BY <1>1, <1>2, <1>3, <1>5, <1>6, InvAfter

(* The same when the client has not yet read the file.                      *)
LEMMA InvBefore ==
    ASSUME json_doc' = Absent, writing' = FALSE, DOMAIN lastTold' = Json!Keys,
           \A key \in Json!Keys : lastTold'[key] \in {Absent, Json!Get(FileDoc', key)},
           Json!SettingsReadBack'
    PROVE  SettingsInv'
<1>1. Json!get_json_document' = FileDoc'
  BY DEF Json!get_json_document, FileDoc
<1> DEFINE now == Json!get_json_document'
           file == FileDoc'
<1>2. \A key \in Json!Keys : lastTold'[key] \in {Absent, Json!Get(now, key)}
  BY <1>1
<1> QED BY <1>2 DEF SettingsInv, Json!Get, Json!get_json_document, Json!Keys

(* An edit counts before the client has read the file. *)
LEMMA SettingsAreEdited ==
    ASSUME Json!SettingsAssumption, SettingsInv, Json!Edit PROVE SettingsInv'
<1>1. /\ ~writing /\ file_name' \in UserFiles \cup {Broken}
      /\ json_doc' = json_doc /\ writing' = writing /\ lastRead' = lastRead
  BY DEF Json!Edit
<1>2. Json!SettingsReadBack'
  BY <1>1 DEF SettingsInv, Json!SettingsReadBack
<1>3. writing' = FALSE
  BY <1>1 DEF SettingsInv
<1>4. CASE json_doc = Absent
  <2>1. lastTold' = [key \in Json!Keys |-> IF file_name' \in {Absent, Broken} THEN Absent
                                                 ELSE Json!Get(file_name', key)]
    BY <1>4 DEF Json!Edit, Json!InFile, Json!Get, Json!Keys
  <2> DEFINE file == FileDoc'
  <2>2. file_name' # Broken => file = file_name'
    BY <1>1 DEF FileDoc, Json!SettingsAssumption
  <2> HIDE DEF file
  <2>3. \A key \in Json!Keys : lastTold'[key] \in {Absent, Json!Get(file, key)}
    BY <2>1, <2>2
  <2> QED BY <1>1, <1>2, <1>3, <1>4, <2>1, <2>3, InvBefore DEF file
<1>5. CASE json_doc # Absent
  <2>1. lastTold' = lastTold /\ disturbed' = TRUE
    BY <1>5 DEF Json!Edit
  <2>2. DOMAIN lastTold = Json!Keys /\ json_doc \notin {Absent, Broken}
        /\ \A k \in Json!Keys : lastTold[k] \in {Absent, Json!Get(json_doc, k)}
    BY <1>5, DocumentIsRead DEF SettingsInv
  <2>3. DOMAIN lastTold' = Json!Keys /\ json_doc' \notin {Absent, Broken}
        /\ \A k \in Json!Keys : lastTold'[k] \in {Absent, Json!Get(json_doc', k)}
    BY <1>1, <2>1, <2>2
  <2> QED BY <1>2, <1>3, <2>1, <2>3, InvAfter
<1> QED BY <1>4, <1>5

(* A restart reads what was known, or else what the file has. *)
LEMMA SettingsAreKept ==
    ASSUME SettingsInv, Json!Restart PROVE SettingsInv'
<1>1. /\ json_doc # Absent /\ json_doc' = Absent /\ writing' = FALSE
      /\ file_name' = file_name /\ lastRead' = lastRead
      /\ lastTold' = IF disturbed \/ writing THEN Json!InFile ELSE lastTold
  BY DEF Json!Restart
<1>2. Json!SettingsReadBack'
  BY <1>1 DEF SettingsInv, Json!SettingsReadBack
<1>3. FileDoc' = FileDoc
  BY <1>1 DEF FileDoc
<1>4. DOMAIN lastTold' = Json!Keys
      /\ \A key \in Json!Keys : lastTold'[key] \in {Absent, Json!Get(FileDoc, key)}
  <2>1. CASE disturbed \/ writing
    BY <1>1, <2>1 DEF Json!InFile, FileDoc
  <2>2. CASE ~(disturbed \/ writing)
    <3>1. DOMAIN lastTold = Json!Keys
          /\ \A key \in Json!Keys : /\ lastTold[key] \in {Absent, Json!Get(json_doc, key)}
                                     /\ Json!Get(FileDoc, key) = Json!Get(json_doc, key)
      BY <1>1, <2>2, DocumentIsRead DEF SettingsInv
    <3> QED BY <1>1, <2>2, <3>1
  <2> QED BY <2>1, <2>2
<1> DEFINE file == FileDoc'
<1>5. \A key \in Json!Keys : lastTold'[key] \in {Absent, Json!Get(file, key)}
  BY <1>3, <1>4
<1> QED BY <1>1, <1>2, <1>4, <1>5, InvBefore

(* What was written or read is read again. *)
THEOREM SettingsStayRead ==
    ASSUME Json!SettingsAssumption, NoDocuments
    PROVE  Json!SettingsSpec => []Json!SettingsReadBack
<1>1. Json!SettingsInit => SettingsInv
  BY SettingsInitial
<1>2. SettingsInv /\ [Json!SettingsNext]_settingsVars => SettingsInv'
  <2>1. ASSUME SettingsInv, UNCHANGED settingsVars PROVE SettingsInv'
    BY <2>1 DEF settingsVars, SettingsInv, FileDoc, Json!get_json_document, Json!SettingsReadBack, Json!Get, Json!Keys
  <2> QED BY <2>1, SettingsAreRead, SettingsAreWritten, SettingsInFile, SettingsAreEdited, SettingsAreKept
          DEF Json!SettingsNext
<1>3. SettingsInv => Json!SettingsReadBack
  BY DEF SettingsInv
<1> QED BY <1>1, <1>2, <1>3, PTL DEF Json!SettingsSpec, settingsVars, Json!settingsVars

(* Hashes and settings, the tables that are filled from files: a text that  *)
(* the client shows for a hash has that hash, and what was written to the   *)
(* settings or read from them once is read again.                           *)
THEOREM TablesAlwaysReadBack ==
    ASSUME NoDocuments
    PROVE  Table!HashSpec /\ Json!SettingsSpec => []TablesReadBack
<1>1. Table!HashesReadBack /\ Json!SettingsReadBack => TablesReadBack
  BY DEF TablesReadBack
<1> QED BY <1>1, HashesStayRead, SettingsStayRead, HashesAreWellFormed, SettingsAreWellFormed, PTL
===============================================================================
