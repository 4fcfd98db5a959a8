------------------------------ MODULE SpaceFiles ------------------------------
(***************************************************************************)
(* The files of a space: the files API of people and of the agent's tools, *)
(* and code in a sandbox, which writes to the same directory.              *)
(* services/platform/app/api/external/files.py with core/fsops.py and      *)
(* core/agentfs.py.                                                        *)
(*                                                                         *)
(* A file is an inode with a text and a time of change; its version is     *)
(* that time (with the size, which tells nothing more here: every change   *)
(* has a time of its own).  The kernel's calls are the steps, as worker    *)
(* threads make them at any time.  `write`, `put` and `edit` of a path     *)
(* exclude each other by a lock of the process; nothing else takes it.     *)
(* Directories, symlinks, owners and the access check are left out.        *)
(***************************************************************************)
EXTENDS Naturals, FiniteSets, Sequences

CONSTANTS
    FileClients,     \* requests under way at once
    NoClient, NoPath,
    Paths,           \* files of the space
    Texts,           \* what people, agents and code write
    Empty, Torn,     \* a file just truncated; a file half written, or by two at once
    FileMixes,       \* bound: the kinds of requests that come together
    MaxFileRequests, \* bound: requests, in all
    MaxIndexed       \* bound: with the index at work, requests, changes by code and apps, faults

ASSUME FilesAssumption ==
    /\ Texts # {} /\ {Empty, Torn} \intersect Texts = {} /\ Empty # Torn
    /\ NoClient \notin FileClients /\ NoPath \notin Paths /\ {MaxFileRequests, MaxIndexed} \subseteq Nat

VARIABLES
    tree,       \* the inode each path names, 0 for none
    inodes,
    mtimes,     \* the latest time of a change
    writeLock,  \* _write_locks: who holds each path's
    fileReq,    \* each client's request
    lastSeen,   \* what each client was last told of a file: its version, its text
    pending,    \* FileIndex._pending: paths to index
    wake,       \* FileIndex._wake
    fileMix, filesLeft

diskVars == <<tree, inodes, mtimes>>
fileVars == <<diskVars, writeLock, fileReq, lastSeen, pending, wake, fileMix, filesLeft>>

Locked  == {"write", "put", "edit"}
FileOps == Locked \union {"none", "read", "upload", "move", "copy", "delete", "code", "index", "embed", "rows", "app", "fault"}

FileText == Texts \union {Empty, Torn}
FileReq  == [op : FileOps, at : {"idle", "read", "lock", "check", "truncate", "fill", "copy", "end"},
             path : Paths \union {NoPath}, to : Paths \union {NoPath}, text : FileText, version : Nat, inode : Nat, mtime : Nat]

SpaceFilesTypeOK ==
    /\ inodes \in Seq([text : FileText, mtime : 1 .. mtimes])
    /\ tree \in [Paths -> 0 .. Len(inodes)]
    /\ \A p, q \in Paths : tree[p] = tree[q] /\ tree[p] # 0 => p = q
    /\ fileReq \in [FileClients -> FileReq]
    /\ writeLock \in [Paths -> FileClients \union {NoClient}]
    /\ \A p \in Paths, c \in FileClients :
          writeLock[p] = c <=> /\ fileReq[c].op \in Locked /\ fileReq[c].path = p
                               /\ fileReq[c].at \in {"check", "truncate", "fill", "end"}
    /\ lastSeen \in [FileClients -> [path : Paths \union {NoPath}, version : Nat, text : FileText]]
    /\ pending \subseteq Paths /\ wake \in BOOLEAN

NoFileReq == [op |-> "none", at |-> "idle", path |-> NoPath, to |-> NoPath, text |-> Empty,
              version |-> 0, inode |-> 0, mtime |-> 0]
NothingSeen == [path |-> NoPath, version |-> 0, text |-> Empty]

\* A space with no file, or with one.
SpaceFilesInit ==
    /\ \/ tree = [p \in Paths |-> 0] /\ inodes = << >> /\ mtimes = 0
       \/ \E p \in Paths, t \in Texts : /\ tree = [[q \in Paths |-> 0] EXCEPT ![p] = 1]
                                        /\ inodes = <<[text |-> t, mtime |-> 1]>> /\ mtimes = 1
    /\ writeLock = [p \in Paths |-> NoClient]
    /\ fileReq = [c \in FileClients |-> NoFileReq] /\ lastSeen = [c \in FileClients |-> NothingSeen]
    /\ pending = {} /\ wake = FALSE
    /\ fileMix \in FileMixes /\ filesLeft = IF "index" \in fileMix THEN MaxIndexed ELSE MaxFileRequests

There(p) == tree[p] # 0
File(p)  == inodes[tree[p]]

UsesFile(op) ==
    /\ op \in fileMix /\ filesLeft > 0
    /\ filesLeft' = filesLeft - 1 /\ UNCHANGED fileMix

FileTo(c, r) == fileReq' = [fileReq EXCEPT ![c] = r]
FileAt(c, s) == FileTo(c, [fileReq[c] EXCEPT !.at = s])

AskForFile(c, r) ==
    /\ fileReq[c].at = "idle" /\ UsesFile(r.op) /\ FileTo(c, r)
    /\ UNCHANGED <<lastSeen, pending, wake, writeLock>>

FileStep(c, s) == fileReq[c].at = s /\ UNCHANGED <<fileMix, filesLeft>>

Released(c) == [p \in Paths |-> IF writeLock[p] = c THEN NoClient ELSE writeLock[p]]

\* The version is taken when the file is opened, its text is read by a thread.
OpenRead(c, p) ==
    /\ There(p)
    /\ AskForFile(c, [NoFileReq EXCEPT !.op = "read", !.at = "read", !.path = p,
                                       !.inode = tree[p], !.mtime = File(p).mtime])
    /\ UNCHANGED diskVars

FinishRead(c) ==
    LET r == fileReq[c] IN
    /\ FileStep(c, "read") /\ FileTo(c, NoFileReq)
    /\ lastSeen' = [lastSeen EXCEPT ![c] = [path |-> r.path, version |-> r.mtime, text |-> inodes[r.inode].text]]
    /\ UNCHANGED <<diskVars, writeLock, pending, wake>>

\* What a client may send as `if_version`.
Conditions(c, p) == {0} \union IF lastSeen[c].path = p THEN {lastSeen[c].version} ELSE {}

\* POST /write and PUT /content.
AskWrite(c, op, p, t) ==
    /\ \E v \in Conditions(c, p) :
          AskForFile(c, [NoFileReq EXCEPT !.op = op, !.at = "lock", !.path = p, !.text = t, !.version = v])
    /\ UNCHANGED diskVars

\* POST /edit opens the file before it waits for the lock; what it replaces its client has read.
AskEdit(c, p, t) ==
    /\ There(p) /\ lastSeen[c].path = p /\ lastSeen[c].version # 0
    /\ \E v \in Conditions(c, p) :
          AskForFile(c, [NoFileReq EXCEPT !.op = "edit", !.at = "lock", !.path = p, !.text = t,
                                          !.version = v, !.inode = tree[p]])
    /\ UNCHANGED diskVars

\* Mutant: the path's lock is not waited for.
TakeWriteLockIgnored(c) ==
    /\ FileStep(c, "lock")
    /\ writeLock' = [writeLock EXCEPT ![fileReq[c].path] = c] /\ FileAt(c, "check")
    /\ UNCHANGED <<diskVars, lastSeen, pending, wake>>

TakeWriteLock(c) ==
    LET p == fileReq[c].path IN
    /\ FileStep(c, "lock") /\ writeLock[p] = NoClient
    /\ writeLock' = [writeLock EXCEPT ![p] = c] /\ FileAt(c, "check")
    /\ UNCHANGED <<diskVars, lastSeen, pending, wake>>

\* _check_version of what the path names; _edit's of what it opened, where `old_string` must be.
Acceptable(c) ==
    LET r == fileReq[c] IN
    IF r.op = "edit"
    THEN (r.version # 0 => inodes[r.inode].mtime = r.version) /\ inodes[r.inode].text = lastSeen[c].text
    ELSE r.version # 0 => There(r.path) /\ File(r.path).mtime = r.version

CheckVersion(c) ==
    /\ FileStep(c, "check")
    /\ \/ Acceptable(c) /\ FileAt(c, "truncate") /\ UNCHANGED writeLock
       \/ ~Acceptable(c) /\ FileTo(c, NoFileReq) /\ writeLock' = Released(c)
    /\ UNCHANGED <<diskVars, lastSeen, pending, wake>>

\* A new file, or what is there, emptied in place.
Opened(i, p) ==
    /\ mtimes' = mtimes + 1
    /\ IF i = 0 THEN /\ inodes' = Append(inodes, [text |-> Empty, mtime |-> mtimes'])
                     /\ tree' = [tree EXCEPT ![p] = Len(inodes')]
                ELSE inodes' = [inodes EXCEPT ![i] = [text |-> Empty, mtime |-> mtimes']] /\ UNCHANGED tree

TruncateFile(c) ==
    LET r == fileReq[c]
        i == IF r.op = "edit" THEN r.inode ELSE tree[r.path] IN
    /\ FileStep(c, "truncate") /\ Opened(i, r.path)
    /\ FileTo(c, [r EXCEPT !.at = "fill", !.mtime = mtimes', !.inode = IF i = 0 THEN Len(inodes') ELSE i])
    /\ UNCHANGED <<writeLock, lastSeen, pending, wake>>

Overwritten(i, t) ==
    /\ mtimes' = mtimes + 1 /\ inodes' = [inodes EXCEPT ![i] = [text |-> t, mtime |-> mtimes']]
    /\ UNCHANGED tree

\* Where another has written to it since, the two may be left mixed.
Fill(c) ==
    LET r == fileReq[c] IN
    /\ FileStep(c, "fill")
    /\ \E t \in {r.text} \union IF inodes[r.inode].mtime = r.mtime THEN {} ELSE {Torn} : Overwritten(r.inode, t)
    /\ FileTo(c, [r EXCEPT !.at = "end", !.mtime = mtimes'])
    /\ UNCHANGED <<writeLock, lastSeen, pending, wake>>

\* The client is gone before its body has come: nothing is queued, what was written stays.
AbortPut(c) ==
    LET r == fileReq[c] IN
    /\ FileStep(c, "fill") /\ r.op = "put" /\ FileTo(c, NoFileReq) /\ writeLock' = Released(c)
    /\ UNCHANGED diskVars \/ Overwritten(r.inode, Torn)
    /\ UNCHANGED <<lastSeen, pending, wake>>

\* POST /upload overwrites what is there.
Upload(c, p, t) ==
    /\ AskForFile(c, [NoFileReq EXCEPT !.op = "upload", !.at = "truncate", !.path = p, !.text = t])
    /\ UNCHANGED diskVars

DeleteFile(c, p) ==
    /\ There(p) /\ AskForFile(c, [NoFileReq EXCEPT !.op = "delete", !.at = "end", !.path = p])
    /\ tree' = [tree EXCEPT ![p] = 0] /\ UNCHANGED <<inodes, mtimes>>

\* renameat2 with RENAME_NOREPLACE.
MoveFile(c, p, q) ==
    /\ There(p) /\ ~There(q)
    /\ AskForFile(c, [NoFileReq EXCEPT !.op = "move", !.at = "end", !.path = p, !.to = q])
    /\ tree' = [tree EXCEPT ![p] = 0, ![q] = tree[p]] /\ UNCHANGED <<inodes, mtimes>>

\* Of a copy, `version` is the inode it copies.
OpenCopy(c, p, q) ==
    /\ There(p) /\ ~There(q) /\ Opened(0, q)
    /\ AskForFile(c, [NoFileReq EXCEPT !.op = "copy", !.at = "copy", !.path = q, !.inode = Len(inodes'), !.version = tree[p],
                                       !.mtime = File(p).mtime])

\* copyfileobj, then the source's time as it was when it was opened: of a source that was
\* written meanwhile the copy has the later text and the earlier time.
CopyText(c) ==
    LET r == fileReq[c] IN
    /\ FileStep(c, "copy") /\ FileAt(c, "end")
    /\ inodes' = [inodes EXCEPT ![r.inode] = [text |-> inodes[r.version].text, mtime |-> r.mtime]]
    /\ UNCHANGED <<tree, mtimes, writeLock, lastSeen, pending, wake>>

\* Back on the event loop: the lock is released, the paths are queued for the index, and the
\* client has its answer, of a write with the version it made.
EndFileReq(c) ==
    LET r == fileReq[c] IN
    /\ FileStep(c, "end") /\ FileTo(c, NoFileReq) /\ writeLock' = Released(c)
    /\ pending' = pending \union {r.path} \union IF r.op = "move" THEN {r.to} ELSE {}
    /\ wake' = TRUE
    /\ lastSeen' = IF r.op \in Locked
                   THEN [lastSeen EXCEPT ![c] = [path |-> r.path, version |-> r.mtime, text |-> r.text]]
                   ELSE lastSeen
    /\ UNCHANGED diskVars

\* Code in a sandbox writes, or deletes, a file.
RunCode(p, t) ==
    /\ UsesFile("code")
    /\ \/ There(p) /\ Overwritten(tree[p], t)
       \/ There(p) /\ tree' = [tree EXCEPT ![p] = 0] /\ UNCHANGED <<inodes, mtimes>>
       \/ /\ ~There(p) /\ mtimes' = mtimes + 1 /\ tree' = [tree EXCEPT ![p] = Len(inodes) + 1]
          /\ inodes' = Append(inodes, [text |-> t, mtime |-> mtimes'])
    /\ UNCHANGED <<writeLock, fileReq, lastSeen, pending, wake>>

AskFile(c) ==
    \E p \in Paths :
       \/ OpenRead(c, p) \/ DeleteFile(c, p)
       \/ \E t \in Texts : (\E op \in {"write", "put"} : AskWrite(c, op, p, t)) \/ AskEdit(c, p, t) \/ Upload(c, p, t)
       \/ \E q \in Paths : MoveFile(c, p, q) \/ OpenCopy(c, p, q)

ServeFile(c) ==
    \/ FinishRead(c) \/ TakeWriteLock(c) \/ CheckVersion(c) \/ TruncateFile(c) \/ Fill(c)
    \/ CopyText(c) \/ EndFileReq(c)

SpaceFilesNext ==
    \/ \E c \in FileClients : AskFile(c) \/ ServeFile(c) \/ AbortPut(c)
    \/ \E p \in Paths, t \in Texts : RunCode(p, t)

\* `if_version`: among writes, edits and uploads of content, one with a version replaces only
\* the text its client was told with that version, and an edit only the text it looked for.
ReplacesWhatItSaw ==
    [][\A c \in FileClients :
          LET r == fileReq[c] IN
          /\ fileMix \subseteq Locked \union {"read"} /\ (r.version # 0 \/ r.op = "edit")
          /\ r.at = "truncate" /\ fileReq'[c].at = "fill"
          => inodes[fileReq'[c].inode].text = lastSeen[c].text]_fileVars
===============================================================================
