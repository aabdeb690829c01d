-------------------------- MODULE DocumentVersions --------------------------
(***************************************************************************)
(* One document and its history of versions: the requests that upload it,  *)
(* replace its file, edit its details, delete it and open it for download, *)
(* the object store the files go to and the extraction runs they schedule  *)
(* (services/document.py, repositories/document.py, models/document.py,    *)
(* services/document_storage.py, and schedule_for_document of              *)
(* services/ocr.py).                                                       *)
(*                                                                         *)
(* Requests run in threads of their own, each with its own database        *)
(* session.  A request works on the copy of the row it loaded; its UPDATE  *)
(* names only the columns it gave another value than the copy's (the       *)
(* session's unit of work), so what it leaves alone keeps what others      *)
(* committed meanwhile.  One action is what happens between two visible    *)
(* effects: a read, a write to the object store, a commit.                 *)
(*                                                                         *)
(* A request carries one file, and the storage key it is given is fresh    *)
(* (build_stored_filename draws a UUID): the request itself stands for     *)
(* both.  Of the columns that mirror the current file, the model keeps the *)
(* storage key, which always differs, and the name, which files may share  *)
(* and which stands for the others (type, size, uploader).                 *)
(***************************************************************************)
EXTENDS Naturals, FiniteSets

CONSTANTS
    Requests,      \* the requests made in a behaviour, each at most once
    Names,         \* original file names
    Details,       \* values of the description
    NoRequest,     \* no file
    Nothing,       \* no name, no description
    MaxMishaps     \* bound: crashes, and failures of the database or of storage

ASSUME VersionConstants ==
    /\ IsFiniteSet(Requests)
    /\ NoRequest \notin Requests
    /\ Nothing \notin Names \cup Details
    /\ MaxMishaps \in Nat

VARIABLES
    row,         \* the row of "documents"; version 0 before it is inserted
    versions,    \* the rows of "document_versions"
    objects,     \* the files the object store holds
    runs,        \* the version numbers that have an extraction run
    requests,    \* what each request is doing
    stale,       \* history: has a replacement overwritten a row it had not read?
    mishaps

vars == <<row, versions, objects, runs, requests, stale, mishaps>>

Kinds == {"upload", "replace", "edit", "delete", "download"}

NoRow == [version |-> 0, key |-> NoRequest, name |-> Nothing,
          details |-> Nothing, deleted |-> FALSE]

Rows == [version : Nat, key : Requests \cup {NoRequest}, name : Names \cup {Nothing},
         details : Details \cup {Nothing}, deleted : BOOLEAN]

Versions == [version : Nat \ {0}, key : Requests, name : Names]

Fresh == [pc |-> "new", kind |-> "download", name |-> Nothing, copy |-> NoRow, next |-> 0]

RequestStates ==
    [pc   : {"new", "loaded", "numbered", "stored", "committed", "saved", "done"},
     kind : Kinds,
     name : Names \cup Details \cup {Nothing},
     copy : Rows,
     next : Nat]

TypeOK ==
    /\ row \in Rows
    /\ versions \subseteq Versions
    /\ objects \subseteq Requests
    /\ runs \subseteq Nat
    /\ requests \in [Requests -> RequestStates]
    /\ stale \in BOOLEAN
    /\ mishaps \in 0 .. MaxMishaps

Init ==
    /\ row = NoRow
    /\ versions = {}
    /\ objects = {}
    /\ runs = {}
    /\ requests = [r \in Requests |-> Fresh]
    /\ stale = FALSE
    /\ mishaps = 0

-----------------------------------------------------------------------------
(* Helpers *)

At(r, pc, kinds) == requests[r].pc = pc /\ requests[r].kind \in kinds

Goto(r, pc) == requests' = [requests EXCEPT ![r].pc = pc]

Done == [Fresh EXCEPT !.pc = "done"]

End(r) == requests' = [requests EXCEPT ![r] = Done]

Mishap ==
    /\ mishaps < MaxMishaps
    /\ mishaps' = mishaps + 1

(* select(max(version)) over the history: "or 0" when it is empty. *)
HighestVersion ==
    IF versions = {} THEN 0
    ELSE CHOOSE n \in {v.version : v \in versions} :
            \A v \in versions : v.version <= n

-----------------------------------------------------------------------------
(* Requests arrive *)

(* The document is uploaded once: its identifier is drawn by that request. *)
(* Every other request names a document that exists.                       *)
ArriveUpload(r) ==
    /\ \A q \in Requests : requests[q].pc = "new"
    /\ \E n \in Names :
          requests' = [requests EXCEPT ![r].pc = "numbered", ![r].kind = "upload",
                                       ![r].name = n, ![r].next = 1]
    /\ UNCHANGED <<row, versions, objects, runs, stale, mishaps>>

(* get_document: a deleted document is not found, and a request for one    *)
(* ends there.  delete_document looks at deleted rows too, and does        *)
(* nothing to one.                                                         *)
Arrive(r) ==
    /\ row.version > 0
    /\ ~row.deleted
    /\ requests[r].pc = "new"
    /\ \E k \in Kinds \ {"upload"} :
       \E n \in CASE k = "replace" -> Names
                  [] k = "edit"    -> Details
                  [] OTHER         -> {Nothing} :
          requests' = [requests EXCEPT ![r] = [pc |-> "loaded", kind |-> k, name |-> n,
                                               copy |-> row, next |-> 0]]
    /\ UNCHANGED <<row, versions, objects, runs, stale, mishaps>>

-----------------------------------------------------------------------------
(* Upload and replacement *)

ReadHighest(r) ==
    /\ At(r, "loaded", {"replace"})
    /\ requests' = [requests EXCEPT ![r].pc = "numbered", ![r].next = HighestVersion + 1]
    /\ UNCHANGED <<row, versions, objects, runs, stale, mishaps>>

(* The file goes to the object store before any row mentions it. *)
Store(r) ==
    /\ At(r, "numbered", {"upload", "replace"})
    /\ objects' = objects \cup {r}
    /\ Goto(r, "stored")
    /\ UNCHANGED <<row, versions, runs, stale, mishaps>>

NewVersion(r) == [version |-> requests[r].next, key |-> r, name |-> requests[r].name]

(* What an UPDATE of every column would write. *)
MirroredWhole(r) ==
    LET req == requests[r]
    IN  [req.copy EXCEPT !.version = req.next, !.key = r, !.name = req.name]

(* An UPDATE that takes a file of the same name for the same file. *)
MirroredIfRenamed(r) ==
    LET req == requests[r]
    IN  IF req.name = req.copy.name THEN [row EXCEPT !.version = req.next]
        ELSE [row EXCEPT !.version = req.next, !.key = r, !.name = req.name]

(* UPDATE documents: a column is written when its value differs from the   *)
(* copy's.  The key always does, and so does the version.                  *)
Mirrored(r) ==
    LET req == requests[r]
    IN  [row EXCEPT !.version = req.next,
                    !.key     = r,
                    !.name    = IF req.name = req.copy.name THEN @ ELSE req.name]

(* Without the unique constraint. *)
TakenNever(n) == FALSE

Taken(n) == \E v \in versions : v.version = n

(* _persist: the version row and the mirroring columns are one             *)
(* transaction; a number taken meanwhile violates the unique constraint    *)
(* and the transaction is rolled back, leaving the object behind.          *)
Commit(r) ==
    /\ At(r, "stored", {"upload", "replace"})
    /\ ~Taken(requests[r].next)
    /\ versions' = versions \cup {NewVersion(r)}
    /\ row' = Mirrored(r)
    /\ stale' = (stale \/ (requests[r].kind = "replace" /\ row.name # requests[r].copy.name))
    /\ Goto(r, "committed")
    /\ UNCHANGED <<objects, runs, mishaps>>

Conflict(r) ==
    /\ At(r, "stored", {"upload", "replace"})
    /\ Taken(requests[r].next)
    /\ End(r)
    /\ UNCHANGED <<row, versions, objects, runs, stale, mishaps>>

(* repository.save reads the row again after its commit: the copy is now   *)
(* the row as whoever committed last left it.                              *)
Refresh(r) ==
    /\ At(r, "committed", {"upload", "replace"})
    /\ requests' = [requests EXCEPT ![r].pc = "saved", ![r].copy = row]
    /\ UNCHANGED <<row, versions, objects, runs, stale, mishaps>>

(* One run for each document, not for each version. *)
ScheduleOnce(r) ==
    /\ At(r, "saved", {"upload", "replace"})
    /\ runs' = IF runs = {} THEN {requests[r].copy.version} ELSE runs
    /\ End(r)
    /\ UNCHANGED <<row, versions, objects, stale, mishaps>>

(* schedule_for_document: one run for each version; the constraint on      *)
(* (document, version) makes a second insert fail, which is swallowed.     *)
Schedule(r) ==
    /\ At(r, "saved", {"upload", "replace"})
    /\ runs' = runs \cup {requests[r].copy.version}
    /\ End(r)
    /\ UNCHANGED <<row, versions, objects, stale, mishaps>>

-----------------------------------------------------------------------------
(* Details, deletion and download *)

(* update_document: the description of the row, by the same rule. *)
CommitEdit(r) ==
    /\ At(r, "loaded", {"edit"})
    /\ row' = [row EXCEPT !.details =
                  IF requests[r].name = requests[r].copy.details THEN @ ELSE requests[r].name]
    /\ Goto(r, "committed")
    /\ UNCHANGED <<versions, objects, runs, stale, mishaps>>

(* A deletion that took the files with it. *)
CommitDeleteFiles(r) ==
    /\ At(r, "loaded", {"delete"})
    /\ row' = [row EXCEPT !.deleted = TRUE]
    /\ objects' = objects \ {v.key : v \in versions}
    /\ Goto(r, "committed")
    /\ UNCHANGED <<versions, runs, stale, mishaps>>

(* delete_document is logical: the rows and the files stay.  Its copy was  *)
(* not deleted when it loaded; the UPDATE writes deleted_at whatever the   *)
(* row holds now.                                                          *)
CommitDelete(r) ==
    /\ At(r, "loaded", {"delete"})
    /\ row' = [row EXCEPT !.deleted = TRUE]
    /\ Goto(r, "committed")
    /\ UNCHANGED <<versions, objects, runs, stale, mishaps>>

(* Either reads the row again after its commit, as repository.save does,   *)
(* and has nothing left to do.                                             *)
Answer(r) ==
    /\ At(r, "committed", {"edit", "delete"})
    /\ End(r)
    /\ UNCHANGED <<row, versions, objects, runs, stale, mishaps>>

(* open_download and open_preview: the entry of the copy's current version *)
(* among the versions that exist, then its object.                         *)
Entry(r) == {v \in versions : v.version = requests[r].copy.version}

Open(r) ==
    /\ At(r, "loaded", {"download"})
    /\ \E v \in Entry(r) : v.key \in objects
    /\ End(r)
    /\ UNCHANGED <<row, versions, objects, runs, stale, mishaps>>

-----------------------------------------------------------------------------
(* Mishaps *)

(* The object store or the database refuses, before anything is committed  *)
(* or in the read that follows a commit: the request ends with an error,   *)
(* and what was committed stays.                                           *)
Fail(r) ==
    /\ requests[r].pc \in {"loaded", "numbered", "stored", "committed"}
    /\ Mishap
    /\ End(r)
    /\ UNCHANGED <<row, versions, objects, runs, stale>>

(* schedule_for_document swallows what goes wrong in it. *)
Swallow(r) ==
    /\ At(r, "saved", {"upload", "replace"})
    /\ End(r)
    /\ Mishap
    /\ UNCHANGED <<row, versions, objects, runs, stale>>

(* The process dies and is started again: its requests are gone.  At       *)
(* startup only runs that have a row are queued again (requeue_pending).   *)
Crash ==
    /\ Mishap
    /\ requests' = [r \in Requests |->
                        IF requests[r].pc = "new" THEN requests[r]
                        ELSE Done]
    /\ UNCHANGED <<row, versions, objects, runs, stale>>

-----------------------------------------------------------------------------
(* The specification *)

Step(r) ==
    \/ ReadHighest(r) \/ Store(r) \/ Commit(r) \/ Conflict(r)
    \/ Refresh(r) \/ Schedule(r)
    \/ CommitEdit(r) \/ CommitDelete(r) \/ Answer(r)
    \/ Open(r)

Next ==
    \/ \E r \in Requests :
          ArriveUpload(r) \/ Arrive(r) \/ Step(r) \/ Fail(r) \/ Swallow(r)
    \/ Crash

Spec == Init /\ [][Next]_vars

(* A request that has arrived runs to its end: its thread is scheduled. *)
FairSpec == Spec /\ WF_vars(\E r \in Requests : Step(r))

-----------------------------------------------------------------------------
(* Properties *)

(* The history is a numbering: the versions are 1, 2, ... up to the one    *)
(* the row names, no number is used twice, and each row is its own file    *)
(* (uq_document_versions_document_id_version against replacements that     *)
(* read the same highest version).                                         *)
HistoryIsNumbered ==
    /\ {v.version : v \in versions} = 1 .. row.version
    /\ \A v, w \in versions : (v.version = w.version \/ v.key = w.key) => v = w

(* Every version ever committed can still be opened, deleted or not: its   *)
(* object was stored before its row and nothing takes it away (the         *)
(* docstrings of _store and delete_document).                              *)
VersionsAreStored == \A v \in versions : v.key \in objects

(* The row names the file of its current version, whatever overlapped: the *)
(* version and the key are always written together.  The other mirrored    *)
(* columns agree as long as no replacement wrote over a name it had not    *)
(* read.                                                                   *)
RowIsNewest ==
    \A v \in versions : v.version = row.version =>
        /\ v.key = row.key
        /\ ~stale => v.name = row.name

(* What was committed stays: versions are written once and never lost, and *)
(* no request that loaded the row earlier brings a deleted document back   *)
(* or turns the row to an older version.                                   *)
HistoryIsKept ==
    [][ /\ versions \subseteq versions'
        /\ row.deleted => row'.deleted
        /\ row'.version >= row.version ]_vars

(* Overlapping replacements may each schedule the later of them, never     *)
(* neither: without a mishap the document's current version ends with an   *)
(* extraction run.                                                         *)
CurrentIsExtracted ==
    [](row.version > 0 => <>(mishaps > 0 \/ row.version \in runs))

=============================================================================
