----------------------------- MODULE SQLiteFile -----------------------------
(***************************************************************************)
(* The database file of perception/sqlite_cache.py and how cache instances *)
(* of one or several processes open it: an unusable file is renamed aside  *)
(* and replaced, one of a newer schema is left alone, and what cannot be   *)
(* opened disables the instance.  Between an instance's look at the file   *)
(* and its rename another may have replaced it, and between the rename of  *)
(* the file and that of its sidecars another may have created a new one.   *)
(*                                                                         *)
(* A file stands for what is read through one write-ahead log: when a log  *)
(* is taken from a file in use, those who have it open go on with the file *)
(* they know, and the path holds one more, the same main file without it.  *)
(* The -shm sidecar, which SQLite rebuilds from the log, is left out.      *)
(***************************************************************************)
EXTENDS Naturals, FiniteSets

CONSTANTS
  Instances,  \* SQLiteCache objects on the same path
  Spares,     \* how many files they may create; bounds the model
  NoFile

Files == 0 .. Spares

ASSUME FileAssumption == IsFiniteSet(Instances) /\ Spares \in Nat /\ NoFile \notin Files

VARIABLES
  path,      \* the file at the cache path
  log,       \* the file whose write-ahead log is beside the path
  main,      \* the first of the files that have the same main file
  kind,      \* what each file that exists holds
  aside,     \* the quarantined files
  phase,     \* how far _open() has come in each instance
  conn       \* the file its connection is bound to, or the one it is moving

fileVars == <<path, log, main, kind, aside, phase, conn>>

\* _configure tells these apart: no file yet, no tables, this schema, a newer
\* one, and what it cannot use: another schema, or not a database.
Kinds == {"absent", "empty", "current", "newer", "unusable"}

FileInit ==
  /\ kind \in {[f \in Files |-> IF f = 0 THEN k ELSE "absent"] : k \in Kinds}
  /\ path = IF kind[0] = "absent" THEN NoFile ELSE 0
  /\ log \in {path, NoFile}
  /\ main = [f \in Files |-> f]
  /\ aside = {}
  /\ phase = [i \in Instances |-> "new"]
  /\ conn = [i \in Instances |-> NoFile]

Unused == {f \in Files : kind[f] = "absent"}
Enter(i, where) == phase' = [phase EXCEPT ![i] = where]

\* os.open with O_CREAT | O_EXCL; a file that is there by now is taken as it is.
CreateIfAbsent ==
  IF path # NoFile
  THEN UNCHANGED <<path, kind>>
  ELSE \E f \in Unused :
         /\ path' = f
         /\ kind' = [kind EXCEPT ![f] = "empty"]

\* _prepare_path and the version check before it.  A path that is a directory,
\* a link or cannot be created disables the instance.
Prepare(i) ==
  /\ phase[i] = "new"
  /\ Enter(i, IF path = NoFile THEN "creating" ELSE "opening")
  /\ UNCHANGED <<path, log, main, kind, aside, conn>>

PrepareFails(i) ==
  /\ phase[i] = "new" /\ path = NoFile
  /\ Enter(i, "disabled")
  /\ UNCHANGED <<path, log, main, kind, aside, conn>>

CreatePrivateFile(i) ==
  /\ phase[i] \in {"creating", "recreating"}
  /\ CreateIfAbsent
  /\ Enter(i, IF phase[i] = "creating" THEN "opening" ELSE "reopening")
  /\ UNCHANGED <<log, main, aside, conn>>

\* What _configure decides of a file's contents; the second attempt does not
\* quarantine again.
Verdict(found, attempt) ==
  CASE found \in {"empty", "current"} -> "open"
    [] found = "newer" -> "disabled"
    [] OTHER -> IF attempt = "opening" THEN "quarantining" ELSE "disabled"

\* _try_open: connecting to a path where nothing is creates the file; a file
\* without tables is given the schema in one transaction.  A log that is beside
\* a file just created is not its own, and SQLite deletes it.
TryOpen(i) ==
  /\ phase[i] \in {"opening", "reopening"}
  /\ \E f \in IF path = NoFile THEN Unused ELSE {path} :
       LET found == IF path = NoFile THEN "empty" ELSE kind[f]
           next  == Verdict(found, phase[i])
       IN /\ path' = f
          /\ kind' = [kind EXCEPT ![f] = IF next = "open" THEN "current" ELSE found]
          /\ conn' = [conn EXCEPT ![i] = IF next = "open" THEN f ELSE NoFile]
          /\ log' = IF next = "open" THEN f ELSE log
          /\ Enter(i, next)
  /\ UNCHANGED <<main, aside>>

\* Locked past the deadline, read-only, or an I/O error: never a reason to move
\* the file.
TryOpenFails(i) ==
  /\ phase[i] \in {"opening", "reopening"}
  /\ Enter(i, "disabled")
  /\ UNCHANGED <<path, log, main, kind, aside, conn>>

\* _quarantine: os.replace of whatever is at the path now, to a fresh name.
Quarantine(i) ==
  /\ phase[i] = "quarantining" /\ path # NoFile
  /\ aside' = aside \cup {path} /\ path' = NoFile
  /\ conn' = [conn EXCEPT ![i] = path]
  /\ Enter(i, "following")
  /\ UNCHANGED <<log, main, kind>>

\* Nothing is at the path, or it cannot be renamed.
QuarantineFails(i) ==
  /\ phase[i] = "quarantining"
  /\ Enter(i, "disabled")
  /\ UNCHANGED <<path, log, main, kind, aside, conn>>

\* The sidecars beside the path go the same way; one that cannot be renamed stays.
MoveSidecars(i) ==
  /\ phase[i] = "following"
  /\ log' \in IF log = path THEN {log} ELSE {log, NoFile}
  /\ conn' = [conn EXCEPT ![i] = NoFile]
  /\ Enter(i, "recreating")
  /\ UNCHANGED <<path, main, kind, aside>>

\* They are by now those of a file that another instance has created and opened:
\* h is what stays of it at the path.
TakeLogOfAnother(i, h, left) ==
  /\ phase[i] = "following" /\ path # NoFile /\ log = path
  /\ path' = h /\ log' = NoFile
  /\ main' = [main EXCEPT ![h] = main[path]]
  /\ kind' = [kind EXCEPT ![h] = left]
  /\ conn' = [conn EXCEPT ![i] = NoFile]
  /\ Enter(i, "recreating")
  /\ UNCHANGED aside

\* The steps of _open() that leave the tables alone.
Open(i) ==
  \/ Prepare(i) \/ PrepareFails(i) \/ CreatePrivateFile(i)
  \/ TryOpen(i) \/ TryOpenFails(i)
  \/ Quarantine(i) \/ QuarantineFails(i) \/ MoveSidecars(i)

\* sqlite3.Connection.close: the last connection to a main file that is still at
\* the path writes the log back and deletes the one beside the path.
WritesBack(i) ==
  /\ path # NoFile /\ main[path] = main[conn[i]]
  /\ \A j \in Instances \ {i} : phase[j] = "open" => main[conn[j]] # main[conn[i]]

CloseConnection(i) ==
  /\ Enter(i, "closed")
  /\ log' = IF WritesBack(i) THEN NoFile ELSE log
  /\ UNCHANGED <<path, main, kind, aside, conn>>

\* __init__ returns once the worker has set _opened.
Opened(i) == phase[i] \in {"open", "disabled"}
Available(i) == phase[i] = "open"

FileTypeOK ==
  /\ path \in Files \cup {NoFile} /\ log \in Files \cup {NoFile}
  /\ main \in [Files -> Files] /\ kind \in [Files -> Kinds] /\ aside \subseteq Files
  /\ phase \in [Instances -> {"new", "creating", "opening", "quarantining", "following",
                              "recreating", "reopening", "open", "disabled", "closed"}]
  /\ conn \in [Instances -> Files \cup {NoFile}]

-----------------------------------------------------------------------------
\* A connection to f's main file is closed.
Closing(f) ==
  \E i \in Instances : main[conn[i]] = main[f] /\ phase[i] = "open" /\ phase'[i] = "closed"

\* An instance is between the two renames of another file and takes f's log, too; the
\* main file stays at the path.
Parting(f) ==
  /\ \E i \in Instances : phase[i] = "following" /\ conn[i] \in aside \ {f}
  /\ log = f /\ log' = NoFile /\ path' \in Files /\ main'[path'] = main[f]

\* However instances race to replace an unusable file, none of them destroys
\* one: every file that ever existed is at the path or set aside, what it holds
\* is not reset, and the file at the path keeps its log until a connection to it
\* is closed (O_EXCL, rename to a fresh name, no second quarantine).  The one
\* exception is an instance between the rename of a file and that of its
\* sidecars: it takes away the log of the file another has created meanwhile.
NothingIsDestroyed ==
  [][\A f \in Files :
       /\ kind[f] # "absent" => kind'[f] = kind[f] \/ kind[f] = "empty"
       /\ f \in aside => f \in aside'
       /\ path = f => \/ path' = f /\ (log = f => log' = f \/ Closing(f))
                      \/ f \in aside'
                      \/ Parting(f)]_fileVars

\* docs/runtime.md: the file and its sidecars are renamed atomically.  Not so.
QuarantineIsAtomic == [][\A f \in Files : path = f => ~Parting(f)]_fileVars
=============================================================================
