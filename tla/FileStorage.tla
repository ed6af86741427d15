---------------------------- MODULE FileStorage -----------------------------
(***************************************************************************)
(* One file in the storage of the controller (local.go, s3.go): Upload,    *)
(* Download and Delete as the steps they take on the directory or the      *)
(* bucket. Files share no directory and no key, as each has an id of its   *)
(* own, which nobody knows before Upload has returned it.                  *)
(***************************************************************************)
CONSTANTS
    Backend,  \* storage types: "local", "s3"
    Name,     \* kinds of filename: "plain", "empty", "dot" for ".", "metadata"
              \* for ".metadata", "lines" for one with a line break
    Faults    \* what may go wrong: "io", "crash", "delete"

VARIABLES
    backend,  \* the configured type
    name,     \* the filename the client sent
    dir,      \* basePath/fileId exists (local)
    data,     \* the file in it, or the object
    meta,     \* .metadata in it (local)
    upload,   \* the step of Upload
    download, \* the step of Download, then what the reader got
    delete    \* the step of Delete

vars == <<backend, name, dir, data, meta, upload, download, delete>>

local == backend = "local"
s3    == backend = "s3"

\* A local file is in the directory of its id.
TypeOK ==
    /\ backend \in Backend /\ name \in Name
    /\ dir \in BOOLEAN
    /\ data \in {"none", "partial", "whole", "clobbered"}
    /\ meta \in BOOLEAN
    /\ upload \in {"idle", "mkdir", "copied", "put", "ok", "failed"}
    /\ download \in {"idle", "info", "partial", "whole", "clobbered", "not found", "error",
                     "io"}
    /\ delete \in {"idle", "removing", "done"}
    /\ (data # "none" /\ local) => dir

Init ==
    /\ backend \in Backend /\ name \in Name
    /\ dir = FALSE /\ data = "none" /\ meta = FALSE
    /\ upload = "idle" /\ download = "idle" /\ delete = "idle"

-----------------------------------------------------------------------------
(* Upload to the local storage.                                            *)

UploadMkdir ==
    /\ local /\ upload = "idle"
    /\ \/ dir' = TRUE /\ upload' = "mkdir"
       \/ "io" \in Faults /\ upload' = "failed" /\ UNCHANGED dir
    /\ UNCHANGED <<backend, name, data, meta, download, delete>>

\* sanitizeFilename leaves "." as it is, which is the directory.
NoFilename == name = "dot"

\* os.Create. On error the directory stays behind.
UploadCreate ==
    /\ local /\ upload = "mkdir" /\ data = "none"
    /\ \/ ~NoFilename /\ data' = "partial" /\ UNCHANGED upload
       \/ /\ NoFilename \/ "io" \in Faults
          /\ upload' = "failed" /\ UNCHANGED data
    /\ UNCHANGED <<backend, name, dir, meta, download, delete>>

\* Mutant of UploadCopy: the error of io.Copy is not looked at.
UploadCopyUnchecked ==
    /\ local /\ upload = "mkdir" /\ data = "partial"
    /\ upload' = "copied"
    /\ data' \in {"whole", "partial"}
    /\ UNCHANGED <<backend, name, dir, meta, download, delete>>

\* io.Copy through the limit: a broken or too long body removes the file, not
\* its directory.
UploadCopy ==
    /\ local /\ upload = "mkdir" /\ data = "partial"
    /\ \/ data' = "whole" /\ upload' = "copied"
       \/ "io" \in Faults /\ data' = "none" /\ upload' = "failed"
    /\ UNCHANGED <<backend, name, dir, meta, download, delete>>

\* writeMetadata: a file called .metadata is overwritten.
Overwritten == IF name = "metadata" THEN "clobbered" ELSE data

\* On error the directory is removed.
WriteMetadata ==
    /\ local /\ upload = "copied"
    /\ \/ /\ meta' = TRUE /\ upload' = "ok"
          /\ data' = Overwritten
          /\ UNCHANGED dir
       \/ /\ "io" \in Faults
          /\ upload' = "failed" /\ data' = "none" /\ dir' = FALSE /\ meta' = FALSE
    /\ UNCHANGED <<backend, name, download, delete>>

-----------------------------------------------------------------------------
(* Upload to S3. The filename is a header: one with a line break is        *)
(* refused. An error may come before the object is there or after.         *)

PutObject ==
    /\ s3 /\ upload = "idle"
    /\ \/ name # "lines" /\ data' = "whole" /\ upload' = "put"
       \/ name = "lines" /\ upload' = "failed" /\ UNCHANGED data
       \/ "io" \in Faults /\ upload' = "failed" /\ data' \in {"none", "whole"}
    /\ UNCHANGED <<backend, name, dir, meta, download, delete>>

\* Without a size Upload fails, and the object stays.
HeadObject ==
    /\ s3 /\ upload = "put"
    /\ upload' = "ok" \/ ("io" \in Faults /\ upload' = "failed")
    /\ UNCHANGED <<backend, name, dir, data, meta, download, delete>>

\* The process ends between two steps: nobody learns the id.
Crash ==
    /\ "crash" \in Faults
    /\ upload \in {"mkdir", "copied", "put"}
    /\ upload' = "failed"
    /\ UNCHANGED <<backend, name, dir, data, meta, download, delete>>

-----------------------------------------------------------------------------
(* Download and Delete, by an id that Upload has returned.                 *)

\* readMetadata: the metadata is read by lines. Of a name that has several only
\* the first is found again, and an empty one counts as missing.
Readable == name \notin {"lines", "empty"}

LocalFileInfo ==
    IF ~meta THEN "not found" ELSE IF Readable /\ data # "none" THEN "info" ELSE "error"

\* The first key that starts with the id, and its headers.
findObjectByFileID == IF data = "none" THEN "not found" ELSE "info"

\* What a download gets, or the I/O error that ends it.
Read(result) ==
    \/ download' = result
    \/ "io" \in Faults /\ download' = "io"

GetFileInfo ==
    /\ upload = "ok" /\ download = "idle"
    /\ Read(IF local THEN LocalFileInfo ELSE findObjectByFileID)
    /\ UNCHANGED <<backend, name, dir, data, meta, upload, delete>>

Contents == IF data = "none" THEN "error" ELSE data

\* os.Open, GetObject.
Open ==
    /\ download = "info"
    /\ Read(Contents)
    /\ UNCHANGED <<backend, name, dir, data, meta, upload, delete>>

Close ==
    /\ download \notin {"idle", "info"}
    /\ download' = "idle"
    /\ UNCHANGED <<backend, name, dir, data, meta, upload, delete>>

Delete ==
    /\ "delete" \in Faults
    /\ upload = "ok" /\ delete = "idle"
    /\ delete' = "removing"
    /\ UNCHANGED <<backend, name, dir, data, meta, upload, download>>

\* RemoveAll takes the entries of the directory one by one, in any order, and
\* stops at the first that cannot be removed.
Remove ==
    /\ delete = "removing"
    /\ \/ /\ data # "none" /\ data' = "none"
          /\ meta' = (meta /\ name # "metadata")
          /\ delete' = IF s3 THEN "done" ELSE delete
          /\ UNCHANGED dir
       \/ meta /\ name # "metadata" /\ meta' = FALSE /\ UNCHANGED <<dir, data, delete>>
       \/ /\ local /\ data = "none" /\ ~meta
          /\ dir' = FALSE /\ delete' = "done" /\ UNCHANGED <<data, meta>>
       \/ "io" \in Faults /\ delete' = "done" /\ UNCHANGED <<dir, data, meta>>
    /\ UNCHANGED <<backend, name, upload, download>>

-----------------------------------------------------------------------------
Next ==
    \/ UploadMkdir \/ UploadCreate \/ UploadCopy \/ WriteMetadata
    \/ PutObject \/ HeadObject \/ Crash
    \/ GetFileInfo \/ Open \/ Close \/ Delete \/ Remove

Spec == Init /\ [][Next]_vars

-----------------------------------------------------------------------------
\* What Upload has accepted is what Download serves, until it is deleted, or the
\* download fails on an I/O error of its own: no failed step of Upload and no
\* crash leaves an accepted file that is missing, unreadable or different, and a
\* body that broke is never served. Only the local storage breaks it, for three
\* kinds of filename: its own metadata file, one of several lines, and none.
ServedIsUploaded ==
    /\ download # "partial"
    /\ (download \in {"clobbered", "not found", "error"} /\ delete = "idle")
          => (local /\ name \in {"lines", "empty", "metadata"})
=============================================================================
