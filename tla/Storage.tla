------------------------------- MODULE Storage -------------------------------
(***************************************************************************)
(* The drivers of internal/storage: what Put, GetStream and Delete do to   *)
(* the objects.  The filesystem driver (fs.go) takes one step per system   *)
(* call; the bucket (s3.go) and the map of the tests (memory.go) take one. *)
(* A writer is one call of Put; the module that uses this one says when    *)
(* each of its steps runs.                                                 *)
(*                                                                         *)
(* A kill of the process (not of the machine) stops every writer where it  *)
(* stands and leaves its temporary file behind.  Directories are created   *)
(* as needed and never removed; they are left out.                         *)
(***************************************************************************)
CONSTANTS
  Writer,  \* calls of Put
  Key,     \* keys that resolve to a path below the root
  Object,  \* contents of whole objects
  None,    \* no such object
  Torn     \* the content of an object that is not whole

VARIABLES
  driver,  \* STORAGE_DRIVER, or the Memory of the tests
  files,   \* the object under each key
  temps    \* the temporary file of each writer

storage == <<driver, files, temps>>

StorageTypeOK ==
  /\ driver \in {"fs", "s3", "memory"}
  /\ files \in [Key -> Object \cup {None, Torn}]
  /\ temps \in [Writer -> {None, "empty", "part", "whole"}]

StorageInit(seed) ==
  /\ driver \in {"fs", "s3", "memory"}
  /\ files = seed
  /\ temps = [w \in Writer |-> None]
-----------------------------------------------------------------------------
\* fs: os.MkdirAll and os.CreateTemp, in the directory of the destination.
CreateTemp(w) ==
  /\ driver = "fs"
  /\ temps' = [temps EXCEPT ![w] = "empty"]
  /\ UNCHANGED <<driver, files>>

\* io.Copy, piece by piece.
Copy(w) ==
  /\ \/ temps[w] = "empty" /\ temps' = [temps EXCEPT ![w] = "part"]
     \/ temps[w] = "part" /\ temps' = [temps EXCEPT ![w] = "whole"]
  /\ UNCHANGED <<driver, files>>

\* Put renames after Copy, Sync and Close went well.
ReadyToRename_AnyTime(w) == temps[w] # None
ReadyToRename(w) == temps[w] = "whole"

Rename(w, k, c) ==
  /\ ReadyToRename(w)
  /\ files' = [files EXCEPT ![k] = IF temps[w] = "whole" THEN c ELSE Torn]
  /\ temps' = [temps EXCEPT ![w] = None]
  /\ UNCHANGED driver

\* The deferred clean-up of a Put that fails, which may fail as well.
Abandon(w) ==
  /\ temps' \in {temps, [temps EXCEPT ![w] = None]}
  /\ UNCHANGED <<driver, files>>

\* s3 and memory: the object is there or it is not.
PutObject(k, c) ==
  /\ driver # "fs"
  /\ files' = [files EXCEPT ![k] = c]
  /\ UNCHANGED <<driver, temps>>

\* Delete, of one key: a missing object is no error.
Remove(k) ==
  /\ files' = [files EXCEPT ![k] = None]
  /\ UNCHANGED <<driver, temps>>

\* GetStream: the object, or not found.
GetStream(k) == files[k]
-----------------------------------------------------------------------------
Port == INSTANCE ObjectStore WITH objects <- files
=============================================================================
