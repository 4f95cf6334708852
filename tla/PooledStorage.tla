--------------------------- MODULE PooledStorage ---------------------------
(***************************************************************************)
(* Uploads and downloads of films and screenshots.  One upload is spread   *)
(* over two servers: tasks of the lobby (bdPooledStorage.cpp) write the    *)
(* metadata of a file, the HTTP server (fileshare_server.cpp) its data;    *)
(* fileshare.cpp reads and writes the metadata, bdTags.cpp lists the films.*)
(*                                                                         *)
(* Each action is one task or HTTP packet, handled from beginning to end   *)
(* by the server thread; packets and tasks of different uploads are        *)
(* handled in any order.  The game, which is not in the repository, sends  *)
(* the packets of one upload in order, waits for the answer to its last    *)
(* chunk before it reports the size, describes the file at any time, and   *)
(* may give up.  A write of a file happens or fails as a whole; nobody     *)
(* looks at the result.                                                    *)
(***************************************************************************)
EXTENDS Integers, Sequences, FiniteSets

CONSTANTS
    Uploads,     \* the uploads of the game
    Category,    \* the category of each: its file extension
    MaxParts,    \* bound: the chunks of one file
    MaxClock,    \* bound: seconds that pass
    None         \* no file, no metadata, no upload

ASSUME StorageAssumption ==
    /\ Category \in [Uploads -> {"demo", "jpg", ""}]
    /\ MaxParts \in Nat
    /\ MaxClock \in Nat \ {0}
    /\ None \notin Uploads

VARIABLES
    clock,       \* time(nullptr), in seconds
    directory,   \* whether the file share directory exists
    meta,        \* the metadata file of each id
    files,       \* the data file of each name
    uploadName,  \* fileshare_upload_file_name
    buffer,      \* fileshare_upload_buffer
    inProgress,  \* upload_in_progress
    upload,      \* the game's side of each upload
    viewer,      \* the game's side of a download
    flaws        \* history: what went wrong with each upload

store  == <<directory, meta, files>>
server == <<uploadName, buffer, inProgress>>
vars   == <<clock, store, server, upload, viewer, flaws>>

Ids == 1 .. MaxClock

\* get_file_name: the id and the extension of the category.
FileName(id, category) == <<id, category>>
Names == Ids \X {"demo", "jpg", ""}

NewUpload == [step |-> "new", id |-> None, parts |-> 0, sent |-> 0, posted |-> FALSE,
              described |-> "no"]
NoViewer  == [step |-> "idle", ids |-> {}, id |-> None, offer |-> None, content |-> None]

Init ==
    /\ clock = 1
    /\ directory = FALSE
    /\ meta = [id \in Ids |-> None]
    /\ files = [n \in Names |-> None]
    /\ uploadName = None
    /\ buffer = <<>>
    /\ inProgress = FALSE
    /\ upload = [u \in Uploads |-> NewUpload]
    /\ viewer = NoViewer
    /\ flaws = [u \in Uploads |-> {}]

-----------------------------------------------------------------------------
(* Metadata *)

\* What SerializeMetaJSON keeps of a state: the size from UPLOADED on, the
\* description in DESCRIBED only.
Serialized(m) ==
    [m EXCEPT !.size = IF m.state = "UPLOADING" THEN 0 ELSE @,
              !.ddl  = IF m.state = "DESCRIBED" THEN @ ELSE None]

\* Mutant: a description is asked for where a size should be.
Valid_Swapped(m) ==
    CASE m.state = "DESCRIBED" -> m.size # 0
      [] m.state = "UPLOADED"  -> m.ddl # None
      [] OTHER                 -> TRUE

\* ParseMetaJSON; names of files and ids are not empty.
Valid(m) ==
    CASE m.state = "DESCRIBED" -> m.ddl # None
      [] m.state = "UPLOADED"  -> m.size # 0
      [] OTHER                 -> TRUE

\* ReadMetaDataJson without and with an expected state
Readable(id) == meta[id] # None /\ Valid(meta[id])
ReadableAs(id, expect) == Readable(id) /\ meta[id].state = expect

\* WriteMetaDataJson: the directory is made, then the file is written or not.
\* blame is what has gone wrong with each upload in this step already.
WriteMeta(u, id, m, blame) ==
    /\ directory' = TRUE
    /\ \/ /\ meta' = [meta EXCEPT ![id] = Serialized(m)]
          /\ flaws' = [v \in Uploads |-> flaws[v] \cup blame[v]]
       \/ /\ UNCHANGED meta
          /\ flaws' = [v \in Uploads |->
                         flaws[v] \cup blame[v] \cup IF v = u THEN {"write"} ELSE {}]

NoBlame == [v \in Uploads |-> {}]

-----------------------------------------------------------------------------
(* Tasks of bdPooledStorage *)

\* Uploads that were given this id.
Holders(id) == {u \in Uploads : upload[u].id = id}

\* The id is the time in seconds: two uploads in one second share it.
_preUpload(u) ==
    /\ upload[u].step = "new"
    /\ \E n \in 0 .. MaxParts :
         upload' = [upload EXCEPT ![u].step = "url", ![u].id = clock, ![u].parts = n]
    /\ WriteMeta(u, clock,
                 [state |-> "UPLOADING", name |-> FileName(clock, Category[u]),
                  size |-> 0, ddl |-> None],
                 [v \in Uploads |-> IF Holders(clock) # {} /\ v \in Holders(clock) \cup {u}
                                    THEN {"shared"} ELSE {}])
    /\ UNCHANGED <<clock, files, server, viewer>>

\* utilities::io::file_size
SizeOf(f) == IF f = None THEN 0 ELSE Len(f)

\* Takes the size from the file that is there; a description that came
\* before is dropped with the state.
_postUploadFile(u) ==
    /\ upload[u].step = "created"
    /\ ~upload[u].posted
    /\ upload' = [upload EXCEPT ![u].posted = TRUE]
    /\ LET id == upload[u].id
           m  == meta[id]
       IN IF Readable(id)
          THEN WriteMeta(u, id,
                         [m EXCEPT !.state = "UPLOADED", !.size = SizeOf(files[m.name])],
                         NoBlame)
          ELSE UNCHANGED <<directory, meta, flaws>>
    /\ UNCHANGED <<clock, files, server, viewer>>

\* Describes a file in whatever state it is.  A file that is described
\* before its size was reported is taken for flawed.
_preUploadSummary(u) ==
    /\ upload[u].step \in {"url", "sending", "created"}
    /\ upload[u].described = "no"
    /\ \E ddl \in {u, None} :
         LET id == upload[u].id
         IN /\ upload' = [upload EXCEPT ![u].described = IF ddl = u THEN "text" ELSE "empty"]
            /\ IF Readable(id)
               THEN WriteMeta(u, id, [meta[id] EXCEPT !.state = "DESCRIBED", !.ddl = ddl],
                              IF upload[u].posted THEN NoBlame
                              ELSE [NoBlame EXCEPT ![u] = {"order"}])
               ELSE UNCHANGED <<directory, meta, flaws>>
    /\ UNCHANGED <<clock, files, server, viewer>>

\* bdTags::searchByTagsBase: throws when there is no directory, and then the
\* game gets no answer.
searchByTagsBase ==
    /\ viewer.step = "idle"
    /\ viewer' = IF directory
                 THEN [viewer EXCEPT !.step = "listed",
                         !.ids = {id \in Ids : /\ files[FileName(id, "demo")] # None
                                               /\ meta[id] # None}]
                 ELSE [viewer EXCEPT !.step = "unanswered"]
    /\ UNCHANGED <<clock, store, server, upload, flaws>>

\* What a download can be offered for.
Offered(id) == ReadableAs(id, "DESCRIBED") /\ files[meta[id].name] # None

getPooledMetaDataByID ==
    /\ viewer.step = "listed"
    /\ viewer' = [viewer EXCEPT !.step = "shown", !.ids = {id \in @ : Offered(id)}]
    /\ UNCHANGED <<clock, store, server, upload, flaws>>

_preDownload(id) ==
    /\ viewer.step = "shown"
    /\ id \in viewer.ids
    /\ viewer' = IF Offered(id)
                 THEN [viewer EXCEPT !.step = "offered", !.id = id, !.offer = meta[id]]
                 ELSE [viewer EXCEPT !.step = "refused", !.id = id]
    /\ UNCHANGED <<clock, store, server, upload, flaws>>

-----------------------------------------------------------------------------
(* fileshare_server::handle *)

\* Uploads whose packets are on their way.
Sending == {u \in Uploads : upload[u].step = "sending"}

\* Mutant: the buffer is cleared when an upload is finalized only.
BufferAfterPut_Kept == buffer

\* fileshare_upload_buffer.clear()
BufferAfterPut == <<>>

\* One name, one buffer and one flag for all uploads: what is under way is
\* given up without a word.
Put(u) ==
    /\ upload[u].step = "url"
    /\ upload' = [upload EXCEPT ![u].step = "sending"]
    /\ uploadName' = FileName(upload[u].id, Category[u])
    /\ buffer' = BufferAfterPut
    /\ inProgress' = TRUE
    /\ flaws' = [v \in Uploads |-> IF v \in Sending \/ (v = u /\ Sending # {})
                                   THEN flaws[v] \cup {"overlap"} ELSE flaws[v]]
    /\ UNCHANGED <<clock, store, viewer>>

\* 501 Not Implemented
NotInProgress(u) ==
    /\ upload[u].step = "sending"
    /\ ~inProgress
    /\ upload' = [upload EXCEPT ![u].step = "failed"]
    /\ UNCHANGED <<clock, store, server, viewer, flaws>>

Chunk(u) ==
    /\ upload[u].step = "sending"
    /\ inProgress
    /\ upload[u].sent < upload[u].parts
    /\ upload' = [upload EXCEPT ![u].sent = @ + 1]
    /\ buffer' = Append(buffer, <<u, upload[u].sent + 1>>)
    /\ UNCHANGED <<clock, store, uploadName, inProgress, viewer, flaws>>

\* finalize_upload_file: 201 Created, also when the file could not be written.
LastChunk(u) ==
    /\ upload[u].step = "sending"
    /\ inProgress
    /\ upload[u].sent = upload[u].parts
    /\ upload' = [upload EXCEPT ![u].step = "created"]
    /\ directory' = TRUE
    /\ inProgress' = FALSE
    /\ \/ files' = [files EXCEPT ![uploadName] = buffer] /\ UNCHANGED flaws
       \/ UNCHANGED files /\ flaws' = [flaws EXCEPT ![u] = @ \cup {"write"}]
    /\ UNCHANGED <<clock, meta, uploadName, buffer, viewer>>

\* download_file: 404 when there is none.
Get ==
    /\ viewer.step = "offered"
    /\ viewer' = [viewer EXCEPT !.step = IF files[viewer.offer.name] = None THEN "404" ELSE "200",
                                !.content = files[viewer.offer.name]]
    /\ UNCHANGED <<clock, store, server, upload, flaws>>

-----------------------------------------------------------------------------

\* The game loses interest; the servers are not told.
GiveUp(u) ==
    /\ upload[u].step \in {"url", "sending", "created"}
    /\ upload' = [upload EXCEPT ![u].step = "failed"]
    /\ UNCHANGED <<clock, store, server, viewer, flaws>>

LookAgain ==
    /\ viewer.step # "idle"
    /\ viewer' = NoViewer
    /\ UNCHANGED <<clock, store, server, upload, flaws>>

Tick ==
    /\ clock < MaxClock
    /\ clock' = clock + 1
    /\ UNCHANGED <<store, server, upload, viewer, flaws>>

UploadStep(u) == _preUpload(u) \/ _postUploadFile(u) \/ _preUploadSummary(u)
                 \/ Put(u) \/ NotInProgress(u) \/ Chunk(u) \/ LastChunk(u) \/ GiveUp(u)

ViewerStep == searchByTagsBase \/ getPooledMetaDataByID \/ (\E id \in Ids : _preDownload(id))
              \/ Get \/ LookAgain

Next == (\E u \in Uploads : UploadStep(u)) \/ ViewerStep \/ Tick

Spec == Init /\ [][Next]_vars

-----------------------------------------------------------------------------
(* Properties *)

Chunks   == Uploads \X (Nat \ {0})
Metadata == [state : {"UPLOADING", "UPLOADED", "DESCRIBED"}, name : Names, size : Nat,
             ddl : Uploads \cup {None}]

ASSUME NoneAssumption ==
    /\ None \notin Ids /\ None \notin Names
    /\ None \notin Metadata /\ None \notin Seq(Chunks)

\* Every variable keeps its type.
TypeOK ==
    /\ clock \in Ids
    /\ directory \in BOOLEAN
    /\ meta \in [Ids -> Metadata \cup {None}]
    /\ files \in [Names -> Seq(Chunks) \cup {None}]
    /\ uploadName \in Names \cup {None}
    /\ buffer \in Seq(Chunks)
    /\ inProgress \in BOOLEAN
    /\ upload \in [Uploads -> [step : {"new", "url", "sending", "created", "failed"},
                               id : Ids \cup {None}, parts : Nat, sent : Nat,
                               posted : BOOLEAN, described : {"no", "text", "empty"}]]
    /\ viewer \in [step : {"idle", "unanswered", "listed", "shown", "offered", "refused",
                           "200", "404"},
                   ids : SUBSET Ids, id : Ids \cup {None}, offer : Metadata \cup {None},
                   content : Seq(Chunks) \cup {None}]
    /\ flaws \in [Uploads -> SUBSET {"shared", "overlap", "write", "order"}]

\* The chunks of an upload, as they should be stored.
Content(u) == [k \in 1 .. upload[u].parts |-> <<u, k>>]

\* A download gives the chunks of the upload whose description was shown, all
\* of them and in order, and as many as the description says, although the
\* description and the data are read at different times from files written at
\* different times by different servers.  The only exceptions are uploads
\* that shared their second, overlapped, failed to be written or were
\* described too early; only their files are refused after they were shown, and
\* what was offered is never missing.
DownloadIsUpload ==
    /\ viewer.step = "200" =>
         LET u == viewer.offer.ddl
         IN flaws[u] = {} => /\ viewer.content = Content(u)
                             /\ viewer.offer.size = upload[u].parts
    /\ viewer.step = "refused" => \E u \in Holders(viewer.id) : flaws[u] # {}
    /\ viewer.step # "404"

\* An upload that went well can be downloaded, and is listed when it is a
\* film, until the end, whatever other uploads do.  Empty files and empty
\* descriptions are never offered, although every answer was a success.
UploadIsOffered ==
    \A u \in Uploads :
      LET id == upload[u].id
      IN (upload[u].posted /\ upload[u].described # "no" /\ flaws[u] = {}) =>
           IF upload[u].parts > 0 /\ upload[u].described = "text"
           THEN /\ Offered(id)
                /\ meta[id].ddl = u
                /\ meta[id].size = upload[u].parts
           ELSE ~Offered(id)
=============================================================================
