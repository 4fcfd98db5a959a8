------------------------------ MODULE SearchIndex ------------------------------
(***************************************************************************)
(* The index of a space's files and of its app's rows, which search reads: *)
(* one background task that is told of changes and scans for the others,   *)
(* stores the text of what has changed, then has it embedded.              *)
(* services/platform/app/core/fileindex.py and core/appindex.py, with      *)
(* their callers in core/appdata.py.                                       *)
(*                                                                         *)
(* A file or a row is one chunk; what it is made from is its text, of a    *)
(* row with the declaration it was rendered by.  A vector stands for the   *)
(* text and the model that made it.  Each change of a row has a time of    *)
(* its own.  A transaction is a step, and so is a call of the filesystem,  *)
(* of the app's database or of the embeddings service.                     *)
(***************************************************************************)
EXTENDS SpaceFiles

CONSTANTS
    Rows,          \* rows of the installed app's table
    Declarations,  \* what its package may declare to be indexed
    NoDecl,        \* nothing is
    MaxSwaps       \* bound: changes of the embeddings service's model

Docs == Paths \union Rows

ASSUME SearchAssumption ==
    /\ Paths \intersect Rows = {} /\ NoPath \notin Rows /\ NoDecl \notin Declarations /\ MaxSwaps \in 0 .. 1
    /\ \A m \in FileMixes : "rows" \in m => "index" \in m

VARIABLES
    rows,       \* the app's rows: text and _updated_at, 0 where there is none
    install,    \* its instance: installed or not, and what its version declares
    untold,     \* a change of them is not yet told to the index
    appPending, \* FileIndex._apps_pending, of this instance
    indexed,     \* indexed_files and indexed_app_rows with their chunks
    storedDecl, \* indexed_instances.declaration_hash
    indexer,    \* the task
    served,     \* the model the embeddings service runs
    label,      \* the model HttpEmbedder believes it runs
    unseen      \* history variable: what it has wrong, or does not know, and only a scan will find

appVars    == <<rows, install, untold, appPending>>
storeVars  == <<indexed, storedDecl>>
searchVars == <<appVars, storeVars, indexer, served, label, unseen>>

Decls    == Declarations \union {NoDecl}
DocText  == [decl : Decls, text : FileText]
NoText   == [decl |-> NoDecl, text |-> Empty]
Vector   == [text : DocText, model : 0 .. 2]
NoVector == [text |-> NoText, model |-> 0]
Chunk    == [stamp : Nat, text : DocText, model : 0 .. 2, of : Vector]
Absent   == [stamp |-> 0, text |-> NoText, model |-> 0, of |-> NoVector]
Indexer  == [at : {"idle", "pop", "stat", "compare", "read", "text", "store", "app_known", "app_read",
                   "app_store", "model", "select", "embed", "update"},
             scan : BOOLEAN, embedding : BOOLEAN,
             under : SUBSET Paths, found : [Paths -> Nat], todo : SUBSET Paths,
             doc : Docs \union {NoPath}, inode : Nat, stamp : Nat, text : DocText,
             decl : Decls, read : [Rows -> [text : FileText, stamp : Nat]],
             model : 0 .. 2, batch : SUBSET (Docs \X DocText), vector : Vector]

NoRows == [r \in Rows |-> [text |-> Empty, stamp |-> 0]]
Asleep == [at |-> "idle", scan |-> FALSE, embedding |-> FALSE, under |-> {}, found |-> [p \in Paths |-> 0],
           todo |-> {}, doc |-> NoPath, inode |-> 0, stamp |-> 0, text |-> NoText, decl |-> NoDecl,
           read |-> NoRows, model |-> 0, batch |-> {}, vector |-> NoVector]

SearchTypeOK ==
    /\ SpaceFilesTypeOK
    /\ rows \in [Rows -> [text : FileText, stamp : Nat]]
    /\ install \in [live : BOOLEAN, decl : Decls]
    /\ untold \in BOOLEAN /\ appPending \in BOOLEAN
    /\ indexed \in [Docs -> Chunk] /\ storedDecl \in Decls
    /\ \A r \in Rows : indexed[r].stamp # 0 => storedDecl # NoDecl
    /\ indexer \in Indexer /\ {served, label} \subseteq 0 .. 2 /\ unseen \subseteq Docs

Fresh(f) == [Absent EXCEPT !.stamp = f.mtime, !.text = [decl |-> NoDecl, text |-> f.text]]

\* A first scan is over, and no vector made yet.
SearchInit ==
    /\ SpaceFilesInit
    /\ rows = NoRows /\ untold = FALSE /\ appPending = FALSE
    /\ install \in [live : {TRUE}, decl : Decls]
    /\ indexed = [d \in Docs |-> IF d \in Paths /\ There(d) THEN Fresh(File(d)) ELSE Absent]
    /\ storedDecl = install.decl
    /\ indexer = Asleep /\ served = 1 /\ label = 0 /\ unseen = {}

\* What the steps of the task leave alone, those of `_run` and `_process_pending` apart.
requestVars == <<diskVars, writeLock, fileReq, lastSeen, fileMix, filesLeft>>
In(s)   == indexer.at = s /\ UNCHANGED <<fileVars, appVars, served>>
Goes(s) == indexer' = [indexer EXCEPT !.at = s]

RowsDropped == [d \in Docs |-> IF d \in Rows THEN Absent ELSE indexed[d]]

\* `_run`: woken, or the scan is due; the wake-up is cleared before the work it stands for.
\* A scan first drops the rows of what is not live; one that finds nothing is left out.
BeginIndexing ==
    /\ "index" \in fileMix /\ indexer.at = "idle" /\ wake' = FALSE
    /\ \/ wake /\ indexer' = [Asleep EXCEPT !.at = "pop"] /\ UNCHANGED storeVars
       \/ /\ unseen # {}
          /\ indexer' = [Asleep EXCEPT !.at = "stat", !.scan = TRUE, !.under = Paths]
          /\ IF install.live THEN UNCHANGED storeVars ELSE indexed' = RowsDropped /\ storedDecl' = NoDecl
    /\ UNCHANGED <<requestVars, pending, appVars, served, label, unseen>>

\* `_process_pending`: files first, then the app; then on with what is to be embedded.
Pop ==
    /\ indexer.at = "pop"
    /\ \/ \E p \in pending :
             /\ pending' = pending \ {p} /\ UNCHANGED appPending
             /\ indexer' = [indexer EXCEPT !.at = "stat", !.scan = FALSE, !.under = {p}]
       \/ /\ pending = {} /\ appPending /\ appPending' = FALSE /\ UNCHANGED pending /\ Goes("app_known")
       \/ /\ pending = {} /\ ~appPending /\ UNCHANGED <<pending, appPending>>
          /\ Goes(IF ~indexer.embedding THEN "model" ELSE IF indexer.batch = {} THEN "select" ELSE "embed")
    /\ UNCHANGED <<requestVars, wake, rows, install, untold, storeVars, served, label, unseen>>

\* stat_tree, in a thread: what it finds there, these apart.
StatBut(lost) ==
    /\ indexer' = [indexer EXCEPT !.at = "compare",
            !.found = [p \in Paths |-> IF p \in indexer.under \ lost /\ There(p) THEN File(p).mtime ELSE 0]]
    /\ unseen' = lost \union IF indexer.scan THEN unseen \ Paths ELSE unseen

StatTree == In("stat") /\ StatBut({}) /\ UNCHANGED <<storeVars, label>>

AfterFile(todo) == IF todo # {} THEN "read" ELSE IF indexer.scan THEN "app_known" ELSE "pop"

\* `_reconcile`: those gone are dropped, those whose time is not the known one are read.
Compare ==
    LET todo == {p \in indexer.under : indexer.found[p] \notin {0, indexed[p].stamp}} IN
    /\ In("compare")
    /\ indexed' = [d \in Docs |-> IF d \in indexer.under /\ indexer.found[d] = 0 THEN Absent ELSE indexed[d]]
    /\ indexer' = [indexer EXCEPT !.at = AfterFile(todo), !.todo = todo, !.found = Asleep.found]
    /\ UNCHANGED <<storedDecl, label, unseen>>

\* read_text, in a thread: the open file's time, then its text.
OpenText ==
    /\ In("read")
    /\ \E p \in indexer.todo :
          indexer' = [indexer EXCEPT !.at = IF There(p) THEN "text" ELSE "store", !.todo = @ \ {p}, !.doc = p,
                                     !.inode = tree[p], !.stamp = IF There(p) THEN File(p).mtime ELSE 0]
    /\ UNCHANGED <<storeVars, label, unseen>>

ReadText ==
    /\ In("text")
    /\ indexer' = [indexer EXCEPT !.at = "store", !.inode = 0,
                                  !.text = [decl |-> NoDecl, text |-> inodes[indexer.inode].text]]
    /\ UNCHANGED <<storeVars, label, unseen>>

\* A document's new row and chunk; the vector of an equal chunk it had is kept.
Entry(d, stamp, text) ==
    IF indexed[d].text = text THEN [indexed[d] EXCEPT !.stamp = stamp]
                             ELSE [Absent EXCEPT !.stamp = stamp, !.text = text]

\* Mutant: the file is looked at again when its text is indexed.
StoreTextStatAfter ==
    LET i == indexer
        stamp == IF i.stamp # 0 /\ There(i.doc) THEN File(i.doc).mtime ELSE 0 IN
    /\ In("store")
    /\ indexed' = [indexed EXCEPT ![i.doc] = IF stamp = 0 THEN Absent ELSE Entry(i.doc, stamp, i.text)]
    /\ indexer' = [i EXCEPT !.at = AfterFile(i.todo), !.doc = NoPath, !.stamp = 0, !.text = NoText]
    /\ UNCHANGED <<storedDecl, label, unseen>>

\* `_index_file`'s transaction.
StoreText ==
    LET i == indexer IN
    /\ In("store")
    /\ indexed' = [indexed EXCEPT ![i.doc] = IF i.stamp = 0 THEN Absent ELSE Entry(i.doc, i.stamp, i.text)]
    /\ indexer' = [i EXCEPT !.at = AfterFile(i.todo), !.doc = NoPath, !.stamp = 0, !.text = NoText]
    /\ UNCHANGED <<storedDecl, label, unseen>>

\* appindex.reconcile: what is live and declared; rows of another declaration are dropped.
AppKnown ==
    LET decl == IF install.live THEN install.decl ELSE NoDecl IN
    /\ In("app_known") /\ unseen' = unseen \ Rows /\ UNCHANGED label
    /\ indexer' = [indexer EXCEPT !.at = IF decl = NoDecl THEN "pop" ELSE "app_read", !.decl = decl]
    /\ IF storedDecl # decl THEN indexed' = RowsDropped /\ storedDecl' = NoDecl ELSE UNCHANGED storeVars

\* read_instance, in a thread; the database goes with the instance.
ReadInstance ==
    /\ In("app_read") /\ indexer' = [indexer EXCEPT !.at = "app_store", !.read = rows]
    /\ UNCHANGED <<storeVars, label, unseen>>

RowEntry(r) ==
    LET new == indexer.read[r] IN
    IF new.stamp = 0 THEN Absent
    ELSE IF new.stamp = indexed[r].stamp THEN indexed[r]
    ELSE Entry(r, new.stamp, [decl |-> indexer.decl, text |-> new.text])

StoreInstance ==
    /\ In("app_store") /\ storedDecl' = indexer.decl
    /\ indexed' = [d \in Docs |-> IF d \in Rows THEN RowEntry(d) ELSE indexed[d]]
    /\ indexer' = [indexer EXCEPT !.at = "pop", !.decl = NoDecl, !.read = NoRows]
    /\ UNCHANGED <<label, unseen>>

\* HttpEmbedder.model is asked again once what it said is too old.
Believed == {served} \union ({label} \ {0})

\* Mutant: the wake-up is cleared after the work.
AskModelClearsWake ==
    /\ indexer.at = "model" /\ indexer' = Asleep /\ wake' = FALSE
    /\ UNCHANGED <<requestVars, pending, appVars, served, storeVars, label, unseen>>

\* `_embed_pending`; there may be no service, or it is down, or to be left alone for a while.
AskModel ==
    /\ In("model")
    /\ \/ \E m \in Believed : /\ "embed" \in fileMix
                              /\ label' = m
                              /\ indexer' = [indexer EXCEPT !.at = "select", !.embedding = TRUE, !.model = m]
       \/ indexer' = Asleep /\ UNCHANGED label
    /\ UNCHANGED <<storeVars, unseen>>

ToEmbed == {d \in Docs : indexed[d].text.text # Empty /\ indexed[d].model # indexer.model}

Select ==
    /\ In("select")
    /\ indexer' = IF ToEmbed = {} THEN Asleep
                  ELSE [indexer EXCEPT !.at = "embed", !.batch = {<<d, indexed[d].text>> : d \in ToEmbed}]
    /\ UNCHANGED <<storeVars, label, unseen>>

\* embed_documents, a chunk at a time: a vector, or the service refuses its text, or is down.
Embed ==
    /\ In("embed")
    /\ \E b \in indexer.batch, m \in Believed :
          /\ label' = m
          /\ \E v \in {[text |-> b[2], model |-> served], NoVector} :
                indexer' = [indexer EXCEPT !.at = "update", !.batch = @ \ {b}, !.doc = b[1], !.text = b[2],
                                           !.vector = v]
    /\ UNCHANGED <<storeVars, unseen>>

EmbedFails == In("embed") /\ indexer' = Asleep /\ UNCHANGED <<storeVars, label, unseen>>

\* Mutant: the chunk is updated whatever it holds by then.
SameTextUnchecked == TRUE

\* `WHERE content_hash = ...`
SameText == indexed[indexer.doc].text = indexer.text

UpdateChunk ==
    LET i == indexer IN
    /\ In("update")
    /\ indexed' = IF SameText THEN [indexed EXCEPT ![i.doc].model = i.model, ![i.doc].of = i.vector] ELSE indexed
    /\ indexer' = [i EXCEPT !.at = "pop", !.doc = NoPath, !.text = NoText, !.vector = NoVector]
    /\ UNCHANGED <<storedDecl, label, unseen>>

\* A statement fails: what the task had in hand is forgotten, what is queued waits.
InHand ==
    pending \union (IF indexer.at \in {"stat", "compare", "read", "text", "store"} THEN indexer.under ELSE {})
            \union (IF appPending \/ indexer.scan \/ indexer.at \in {"app_known", "app_store"} THEN Rows ELSE {})

IndexFails ==
    /\ indexer.at \in {"compare", "store", "app_known", "app_store", "select", "update"} /\ UsesFile("fault")
    /\ indexer' = Asleep /\ unseen' = unseen \union InHand
    /\ UNCHANGED <<diskVars, writeLock, fileReq, lastSeen, pending, wake, appVars, storeVars, served, label>>

\* Without the space's directory nothing under it is looked at.
NoFilesRoot ==
    /\ indexer' = [indexer EXCEPT !.at = AfterFile({})]
    /\ unseen' = unseen \union indexer.under

\* A read fails.  What stat_tree or read_text cannot open or read is taken to be gone; of an
\* app's database that cannot be read nothing is dropped, and it is not asked again.
ReadFails ==
    /\ UsesFile("fault")
    /\ \/ /\ indexer.at = "stat"
          /\ NoFilesRoot \/ \E p \in indexer.under : There(p) /\ StatBut({p})
       \/ /\ indexer.at = "text" /\ indexer' = [indexer EXCEPT !.at = "store", !.inode = 0, !.stamp = 0]
          /\ unseen' = unseen \union {indexer.doc}
       \/ /\ indexer.at = "app_read" /\ indexer' = [indexer EXCEPT !.at = "pop", !.decl = NoDecl]
          /\ unseen' = unseen \union Rows
    /\ UNCHANGED <<diskVars, writeLock, fileReq, lastSeen, pending, wake, appVars, storeVars, served, label>>

\* An app's statement has changed a row; a build has changed what is declared; the app is
\* uninstalled.  Its handler tells the index when it has committed.
AppChanges ==
    /\ install.live /\ untold' = TRUE
    /\ \/ /\ UsesFile("rows") /\ UNCHANGED install
          /\ \E r \in Rows, t \in Texts \union {Empty} :
                rows' = [rows EXCEPT ![r] = IF t = Empty THEN NoRows[r]
                                            ELSE [text |-> t, stamp |-> MaxIndexed + 1 - filesLeft]]
       \/ UsesFile("app") /\ UNCHANGED rows /\ \E d \in Decls : install' = [install EXCEPT !.decl = d]
       \/ UsesFile("app") /\ rows' = NoRows /\ install' = [install EXCEPT !.live = FALSE]
    /\ UNCHANGED <<diskVars, writeLock, fileReq, lastSeen, pending, wake, appPending, storeVars, indexer, served,
                   label, unseen>>

TellIndex ==
    /\ untold /\ untold' = FALSE /\ appPending' = TRUE /\ wake' = TRUE
    /\ UNCHANGED <<requestVars, pending, rows, install, storeVars, indexer, served, label, unseen>>

SwapModel ==
    /\ "embed" \in fileMix /\ served <= MaxSwaps /\ served' = served + 1
    /\ UNCHANGED <<fileVars, appVars, storeVars, indexer, label, unseen>>

\* The platform restarts: requests and queues are gone, files and the index stay.
SearchRestart ==
    /\ UsesFile("fault")
    /\ fileReq' = [c \in FileClients |-> NoFileReq] /\ writeLock' = [p \in Paths |-> NoClient]
    /\ pending' = {} /\ wake' = FALSE /\ appPending' = FALSE /\ untold' = FALSE
    /\ indexer' = Asleep /\ label' = 0 /\ unseen' = Docs
    /\ UNCHANGED <<diskVars, lastSeen, rows, install, storeVars, served>>

\* The name a file has got while a request wrote to it is not the one the request queues.
Renamed(c) == {p \in Paths : There(p) /\ tree[p] = fileReq[c].inode /\ p # fileReq[c].path}

FileChange ==
    /\ UNCHANGED <<appVars, storeVars, indexer, served, label>>
    /\ \/ \E c \in FileClients : /\ AskFile(c) \/ ServeFile(c)
                                 /\ unseen' = unseen \union IF fileReq[c].at = "end" THEN Renamed(c) ELSE {}
       \/ \E c \in FileClients : AbortPut(c) /\ unseen' = unseen \union {fileReq[c].path} \union Renamed(c)
       \/ \E p \in Paths, t \in Texts : RunCode(p, t) /\ unseen' = unseen \union {p}

Indexing ==
    \/ BeginIndexing \/ Pop \/ StatTree \/ Compare \/ OpenText \/ ReadText \/ StoreText
    \/ AppKnown \/ ReadInstance \/ StoreInstance
    \/ AskModel \/ Select \/ Embed \/ EmbedFails \/ UpdateChunk

SearchNext ==
    \/ FileChange \/ Indexing \/ IndexFails \/ ReadFails
    \/ AppChanges \/ TellIndex \/ SwapModel \/ SearchRestart

SearchSpec == SearchInit /\ [][SearchNext]_<<fileVars, searchVars>>

RowText(r) == [decl |-> install.decl, text |-> rows[r].text]

\* "every row can be rebuilt from disk": what the index holds under a file's or a row's present
\* time is its present text, or the index would never look at it again.  Not so with copies:
\* they have their source's time, so a name can get another text with the time that is indexed.
NeverFooled ==
    /\ \A p \in Paths : "copy" \notin fileMix /\ There(p) /\ indexed[p].stamp = File(p).mtime
                        => indexed[p].text.text = File(p).text
    /\ \A r \in Rows : storedDecl = install.decl /\ rows[r].stamp # 0 /\ indexed[r].stamp = rows[r].stamp
                       => indexed[r].text = RowText(r)

Settled ==
    /\ indexer.at = "idle" /\ ~wake /\ ~untold
    /\ \A c \in FileClients : fileReq[c].at \notin {"fill", "copy", "end"}

\* When nothing is under way the index is of what the files and the app hold now, without
\* waiting for a scan, but for what the history calls unseen: what sandboxed code wrote, and
\* what a failing call or a restart made the task forget.
SettledIsIndexed ==
    Settled /\ "copy" \notin fileMix =>
        /\ \A p \in Paths \ unseen :
              IF There(p) THEN indexed[p].stamp = File(p).mtime /\ indexed[p].text.text = File(p).text
                          ELSE indexed[p] = Absent
        /\ \A r \in Rows \ unseen :
              IF install.live /\ install.decl # NoDecl /\ rows[r].stamp # 0
              THEN indexed[r].stamp = rows[r].stamp /\ indexed[r].text = RowText(r)
              ELSE indexed[r] = Absent

\* The chunks the vector half of a search ranks, once it knows the model.
Ranked == {d \in Docs : indexed[d].model = served /\ indexed[d].of # NoVector}

\* "search only uses vectors from the current" model: a vector that is ranked was made by the
\* model that is served from the chunk's present text.
VectorsMatch == \A d \in Ranked : indexed[d].of = [text |-> indexed[d].text, model |-> served]

\* Whatever changes while the index reads, what it takes for current is: a document's text and
\* the vector of a chunk.
IndexIsTrue == NeverFooled /\ VectorsMatch

\* With the types, and whose a path's write lock is.
IndexIsKept == SearchTypeOK /\ IndexIsTrue
===============================================================================
