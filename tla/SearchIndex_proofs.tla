-------------------------- MODULE SearchIndex_proofs --------------------------
(***************************************************************************)
(* Proofs about SpaceFiles and SearchIndex, for any clients, paths, texts, *)
(* rows, declarations and bounds: the type invariant with the locks, that  *)
(* what the index takes for current is, that a request with a version      *)
(* replaces only what its client saw, and that no change is forgotten.     *)
(***************************************************************************)
EXTENDS SearchIndex, SequenceTheorems, TLAPS

-----------------------------------------------------------------------------
(* The parts of the invariant.                                             *)

Ids == 1 .. Len(inodes)

\* What a request holds of the disk, and of what it was asked.
Holding(c) ==
    LET r == fileReq[c] IN
    /\ r.at = "idle" <=> r.op = "none"
    /\ r.op \in fileMix \union {"none"}
    /\ r.at # "idle" => r.path \in Paths
    /\ r.op = "move" => r.to \in Paths
    /\ r.at = "read" <=> r.op = "read"
    /\ r.at \in {"lock", "check"} => r.op \in Locked
    /\ r.at \in {"truncate", "fill"} => r.op \in Locked \union {"upload"}
    /\ r.at = "copy" => r.op = "copy"
    /\ r.at \in {"read", "fill", "copy"} \/ r.op = "edit" => r.inode \in Ids
    /\ r.at = "copy" => r.version \in Ids /\ r.mtime \in 1 .. mtimes

\* Without copies every change has a time of its own.
Timed == "copy" \notin fileMix => \A i, j \in Ids : inodes[i].mtime = inodes[j].mtime => i = j

DiskOK ==
    /\ mtimes \in Nat /\ inodes \in Seq([text : FileText, mtime : 1 .. mtimes])
    /\ tree \in [Paths -> 0 .. Len(inodes)]
    /\ \A p, q \in Paths : tree[p] = tree[q] /\ tree[p] # 0 => p = q

\* A request has the lock of its path.
Locks(r, p) == r.op \in Locked /\ r.path = p /\ r.at \in {"check", "truncate", "fill", "end"}

LocksOK ==
    /\ writeLock \in [Paths -> FileClients \union {NoClient}]
    /\ \A p \in Paths, c \in FileClients : writeLock[p] = c <=> Locks(fileReq[c], p)

Told == [path : Paths \union {NoPath}, version : Nat, text : FileText]

QueueOK ==
    /\ lastSeen \in [FileClients -> Told] /\ pending \subseteq Paths /\ wake \in BOOLEAN
    /\ filesLeft \in Nat /\ fileMix \in FileMixes /\ ("rows" \in fileMix => filesLeft <= MaxIndexed)

FilesInv == /\ DiskOK /\ fileReq \in [FileClients -> FileReq] /\ LocksOK /\ QueueOK
            /\ Timed /\ \A c \in FileClients : Holding(c)

Conditional == fileMix \subseteq Locked \union {"read"}

\* What a client was told of a file is what it has, as long as it has that version.
Seen(c) ==
    LET s == lastSeen[c] IN
    /\ s.version <= mtimes
    /\ s.path \in Paths /\ tree[s.path] # 0 /\ inodes[tree[s.path]].mtime = s.version
       => inodes[tree[s.path]].text = s.text

\* What a request that holds the lock has found.
Found(c) ==
    LET r == fileReq[c] IN
    /\ r.at \in {"read", "fill", "end"} \/ r.op = "edit" => tree[r.path] = r.inode /\ r.inode # 0
    /\ r.at = "read" => r.mtime <= mtimes
    /\ r.at \in {"fill", "end"} => inodes[r.inode].mtime = r.mtime
    /\ r.at = "end" => inodes[r.inode].text = r.text
    /\ r.op \in {"write", "put", "edit"} /\ r.version # 0 =>
           lastSeen[c].path = r.path /\ lastSeen[c].version = r.version
    /\ r.at = "truncate" /\ r.op # "edit" /\ r.version # 0 =>
           tree[r.path] # 0 /\ inodes[tree[r.path]].mtime = r.version
    /\ r.at = "truncate" /\ r.op = "edit" => inodes[r.inode].text = lastSeen[c].text

SeenInv == Conditional => \A c \in FileClients : Seen(c) /\ Found(c)

\* What the index holds, or is about to, under a time of a file is the file's text of then.
TextOf(stamp, text) == \A i \in Ids : inodes[i].mtime = stamp => inodes[i].text = text

FilesTrue ==
    "copy" \notin fileMix =>
        /\ \A p \in Paths : indexed[p].stamp <= mtimes /\ TextOf(indexed[p].stamp, indexed[p].text.text)
        /\ indexer.stamp <= mtimes
        /\ indexer.at = "text" => /\ indexer.inode \in Ids
                                  /\ \A i \in Ids : inodes[i].mtime = indexer.stamp => i = indexer.inode
        /\ indexer.at = "store" => TextOf(indexer.stamp, indexer.text.text)

Past(stamp) == stamp = 0 \/ stamp + filesLeft <= MaxIndexed

RowsTrue ==
    /\ \A r \in Rows :
          /\ Past(rows[r].stamp) /\ Past(indexed[r].stamp) /\ Past(indexer.read[r].stamp)
          /\ indexed[r].stamp # 0 => indexed[r].text.decl = storedDecl
          /\ rows[r].stamp # 0 /\ indexed[r].stamp = rows[r].stamp => indexed[r].text.text = rows[r].text
          /\ indexer.at = "app_store" /\ rows[r].stamp # 0 /\ indexer.read[r].stamp = rows[r].stamp
             => indexer.read[r].text = rows[r].text
    /\ indexer.at \in {"app_read", "app_store"} => storedDecl \in {indexer.decl, NoDecl}

VectorsTrue ==
    /\ served \in 1 .. 2 /\ label <= served /\ indexer.model <= served
    /\ \A d \in Docs : /\ indexed[d].model <= served
                       /\ indexed[d].model = served /\ indexed[d].of # NoVector
                          => indexed[d].of = [text |-> indexed[d].text, model |-> served]
    /\ indexer.at = "update" /\ indexer.vector # NoVector =>
          /\ indexer.vector.text = indexer.text
          /\ indexer.model = served => indexer.vector.model = served

\* The task has in hand what it is to look at.
Task ==
    LET i == indexer IN
    /\ i.at \in {"text", "store"} => i.doc \in Paths
    /\ i.at = "update" => i.doc \in Docs
    /\ i.at = "text" => i.inode \in Ids
    /\ i.at = "read" => i.todo # {}
    /\ i.at \in {"app_read", "app_store"} => i.decl # NoDecl

-----------------------------------------------------------------------------
(* The disk.                                                               *)

\* Every file is as it was, but for one, which has a time of its own.
Renewed ==
    /\ mtimes <= mtimes' /\ Ids \subseteq Ids'
    /\ \A i \in Ids' : (i \in Ids /\ inodes'[i] = inodes[i]) \/ inodes'[i].mtime > mtimes
    /\ \A i, j \in Ids' : inodes'[i].mtime > mtimes /\ inodes'[j].mtime > mtimes => i = j

LEMMA DiskTypes ==
    ASSUME DiskOK
    PROVE  /\ mtimes \in Nat /\ Len(inodes) \in Nat /\ Ids = 1 .. Len(inodes)
           /\ \A p \in Paths : tree[p] \in 0 .. Len(inodes) /\ (tree[p] # 0 => tree[p] \in Ids)
           /\ \A i \in Ids : /\ inodes[i] \in [text : FileText, mtime : 1 .. mtimes]
                             /\ inodes[i].text \in FileText /\ inodes[i].mtime \in 1 .. mtimes
<1>1. mtimes \in Nat /\ Len(inodes) \in Nat /\ Ids = 1 .. Len(inodes)
  BY DEF DiskOK, Ids
<1>2. \A i \in Ids : inodes[i] \in [text : FileText, mtime : 1 .. mtimes]
  BY ElementOfSeq DEF DiskOK, Ids
<1> QED  BY <1>1, <1>2 DEF DiskOK

LEMMA Untouched ==
    ASSUME DiskOK, UNCHANGED <<inodes, mtimes>>
    PROVE  Renewed
<1>1. Ids' = Ids
  BY DEF Ids
<1> QED  BY <1>1, DiskTypes DEF Renewed

\* A file is written to.
LEMMA Rewritten ==
    ASSUME DiskOK, NEW i \in Ids, NEW t \in FileText, UNCHANGED tree, mtimes' = mtimes + 1,
           inodes' = [inodes EXCEPT ![i] = [text |-> t, mtime |-> mtimes']]
    PROVE  /\ DiskOK' /\ Renewed /\ Ids' = Ids /\ inodes'[i] = [text |-> t, mtime |-> mtimes']
           /\ \A j \in Ids \ {i} : inodes'[j] = inodes[j]
<1> DEFINE Old == [text : FileText, mtime : 1 .. mtimes]
           New == [text : FileText, mtime : 1 .. mtimes']
           e   == [text |-> t, mtime |-> mtimes']
<1>1. mtimes \in Nat /\ mtimes' \in Nat /\ Len(inodes) \in Nat /\ inodes \in Seq(Old) /\ i \in 1 .. Len(inodes)
  BY DEF DiskOK, Ids
<1>2. Old \subseteq New /\ e \in New
  BY <1>1
<1> HIDE DEF e, New, Old
<1>3. inodes \in Seq(New)
  BY <1>1, <1>2, SeqMonotonic
<1>4. /\ inodes' \in Seq(New) /\ Len(inodes') = Len(inodes) /\ inodes'[i] = e
      /\ \A j \in 1 .. Len(inodes) : j # i => inodes'[j] = inodes[j]
  <2>1. inodes' = [inodes EXCEPT ![i] = e]
    BY DEF e
  <2> QED  BY <1>1, <1>2, <1>3, <2>1, ExceptSeq
<1>5. Ids' = Ids
  BY <1>4 DEF Ids
<1>6. DiskOK'
  BY <1>1, <1>4 DEF DiskOK, New
<1>7. \A j \in Ids : inodes[j].mtime \in 1 .. mtimes
  BY DiskTypes
<1>8. e.mtime = mtimes + 1
  BY DEF e
<1>9. Renewed
  BY <1>1, <1>4, <1>5, <1>7, <1>8 DEF Renewed, Ids
<1> QED  BY <1>4, <1>5, <1>6, <1>9 DEF Ids, e

\* A file is made.
LEMMA Created ==
    ASSUME DiskOK, NEW p \in Paths, NEW t \in FileText, mtimes' = mtimes + 1,
           inodes' = Append(inodes, [text |-> t, mtime |-> mtimes']),
           tree' = [tree EXCEPT ![p] = Len(inodes')]
    PROVE  /\ DiskOK' /\ Renewed /\ Len(inodes') = Len(inodes) + 1 /\ Ids' = Ids \union {Len(inodes')}
           /\ Len(inodes') \notin Ids /\ Len(inodes') # 0
           /\ inodes'[Len(inodes')] = [text |-> t, mtime |-> mtimes']
           /\ \A j \in Ids : inodes'[j] = inodes[j]
<1> DEFINE Old == [text : FileText, mtime : 1 .. mtimes]
           New == [text : FileText, mtime : 1 .. mtimes']
           e   == [text |-> t, mtime |-> mtimes']
           n   == Len(inodes) + 1
<1>1. mtimes \in Nat /\ mtimes' \in Nat /\ Len(inodes) \in Nat /\ inodes \in Seq(Old)
  BY DEF DiskOK
<1>2. Old \subseteq New /\ e \in New
  BY <1>1
<1> HIDE DEF e, New, Old
<1>3. inodes \in Seq(New)
  BY <1>1, <1>2, SeqMonotonic
<1>4. /\ inodes' \in Seq(New) /\ Len(inodes') = n /\ inodes'[n] = e
      /\ \A j \in 1 .. Len(inodes) : inodes'[j] = inodes[j]
  <2>1. inodes' = Append(inodes, e)
    BY DEF e
  <2> QED  BY <1>1, <1>2, <1>3, <2>1, AppendProperties
<1>5. Ids = 1 .. Len(inodes) /\ Ids' = 1 .. n /\ n \notin Ids /\ n # 0 /\ Ids' = Ids \union {n}
  BY <1>1, <1>4 DEF Ids
<1>6. tree' \in [Paths -> 0 .. n] /\ tree'[p] = n /\ \A x \in Paths \ {p} : tree'[x] = tree[x]
  BY <1>1, <1>4 DEF DiskOK
<1>7. \A x, y \in Paths : tree'[x] = tree'[y] /\ tree'[x] # 0 => x = y
  <2>1. \A x \in Paths : tree[x] # n
    BY <1>1 DEF DiskOK
  <2> QED  BY <1>6, <2>1 DEF DiskOK
<1>8. DiskOK'
  BY <1>1, <1>4, <1>6, <1>7 DEF DiskOK, New
<1>9. \A j \in Ids : inodes[j].mtime \in 1 .. mtimes
  BY DiskTypes
<1>10. e.mtime = mtimes + 1
  BY DEF e
<1> HIDE DEF n
<1>11. Renewed
  BY <1>1, <1>4, <1>5, <1>9, <1>10 DEF Renewed
<1> QED  BY <1>4, <1>5, <1>8, <1>11 DEF e, n

\* A name goes, or a file gets another.
LEMMA Relinked ==
    ASSUME DiskOK, UNCHANGED <<inodes, mtimes>>, NEW p \in Paths,
           \/ tree' = [tree EXCEPT ![p] = 0]
           \/ \E q \in Paths : tree[q] = 0 /\ tree[p] # 0 /\ tree' = [tree EXCEPT ![p] = 0, ![q] = tree[p]]
    PROVE  DiskOK' /\ Renewed /\ Ids' = Ids
<1>1. Ids' = Ids /\ Renewed
  BY Untouched DEF Ids
<1>2. tree \in [Paths -> 0 .. Len(inodes)] /\ Len(inodes) \in Nat
  BY DEF DiskOK
<1>3. tree' \in [Paths -> 0 .. Len(inodes)] /\ \A x, y \in Paths : tree'[x] = tree'[y] /\ tree'[x] # 0 => x = y
  <2>1. CASE tree' = [tree EXCEPT ![p] = 0]
    BY <1>2, <2>1 DEF DiskOK
  <2>2. ASSUME NEW q \in Paths, tree[q] = 0, tree[p] # 0, tree' = [tree EXCEPT ![p] = 0, ![q] = tree[p]]
        PROVE  <1>3!1 /\ <1>3!2
    <3>1. /\ p # q /\ tree'[p] = 0 /\ tree'[q] = tree[p] /\ \A x \in Paths \ {p, q} : tree'[x] = tree[x]
          /\ tree' \in [Paths -> 0 .. Len(inodes)]
      BY <1>2, <2>2
    <3>2. \A x, y \in Paths : tree[x] = tree[y] /\ tree[x] # 0 => x = y
      BY DEF DiskOK
    <3>3. \A x \in Paths \ {p, q} : tree'[x] # tree'[q]
      BY <2>2, <3>1, <3>2
    <3>4. \A x, y \in Paths : tree'[x] = tree'[y] /\ tree'[x] # 0 => x = y
      BY <3>1, <3>2, <3>3
    <3> QED  BY <3>1, <3>4
  <2> QED  BY <2>1, <2>2
<1> QED  BY <1>1, <1>3 DEF DiskOK

LEMMA Copied ==
    ASSUME DiskOK, NEW i \in Ids, NEW t \in FileText, NEW m \in 1 .. mtimes, UNCHANGED <<tree, mtimes>>,
           inodes' = [inodes EXCEPT ![i] = [text |-> t, mtime |-> m]]
    PROVE  DiskOK' /\ Ids' = Ids
<1> DEFINE New == [text : FileText, mtime : 1 .. mtimes]
           e   == [text |-> t, mtime |-> m]
<1>1. mtimes \in Nat /\ Len(inodes) \in Nat /\ inodes \in Seq(New) /\ i \in 1 .. Len(inodes) /\ e \in New
  BY DEF DiskOK, Ids
<1> HIDE DEF e, New
<1>2. inodes' \in Seq(New) /\ Len(inodes') = Len(inodes)
  <2>1. inodes' = [inodes EXCEPT ![i] = e]
    BY DEF e
  <2> QED  BY <1>1, <2>1, ExceptSeq
<1> QED  BY <1>1, <1>2 DEF DiskOK, Ids, New

\* Times stay apart.
LEMMA StaysTimed ==
    ASSUME DiskOK, Timed, Renewed, fileMix' = fileMix
    PROVE  Timed'
<1>1. \A i \in Ids : inodes[i].mtime \in 1 .. mtimes
  BY DiskTypes
<1>2. mtimes \in Nat
  BY DEF DiskOK
<1> QED  BY <1>1, <1>2 DEF Timed, Renewed

-----------------------------------------------------------------------------
(* The requests.                                                           *)

LEMMA NoRequest == NoFileReq \in FileReq /\ \A p : ~Locks(NoFileReq, p)
BY FilesAssumption DEF NoFileReq, FileReq, FileOps, Locked, FileText, Locks

LEMMA FilesTypes ==
    ASSUME FilesInv, NEW c \in FileClients
    PROVE  /\ DiskOK /\ LocksOK /\ QueueOK /\ Timed /\ Holding(c) /\ fileReq[c] \in FileReq
           /\ fileReq[c].op \in FileOps /\ fileReq[c].text \in FileText /\ fileReq[c].version \in Nat
           /\ fileReq[c].inode \in Nat /\ fileReq[c].mtime \in Nat
           /\ fileReq \in [FileClients -> FileReq]
<1>1. fileReq[c] \in FileReq
  BY DEF FilesInv
<1> QED  BY <1>1 DEF FilesInv, FileReq

\* One request goes on, and takes the lock of its path, keeps it or gives it back.
LEMMA RequestStep ==
    ASSUME FilesInv, NEW c \in FileClients, NEW r \in FileReq, fileReq' = [fileReq EXCEPT ![c] = r],
           DiskOK', Timed', QueueOK', Ids \subseteq Ids', mtimes <= mtimes', Holding(c)', fileMix' = fileMix,
           \/ writeLock' = writeLock /\ \A p \in Paths : Locks(r, p) <=> Locks(fileReq[c], p)
           \/ \E p \in Paths : /\ writeLock[p] = NoClient /\ writeLock' = [writeLock EXCEPT ![p] = c]
                               /\ \A q \in Paths : (Locks(r, q) <=> q = p) /\ ~Locks(fileReq[c], q)
           \/ writeLock' = Released(c) /\ \A p \in Paths : ~Locks(r, p)
    PROVE  FilesInv'
<1>1. /\ fileReq' \in [FileClients -> FileReq] /\ fileReq'[c] = r
      /\ \A x \in FileClients \ {c} : fileReq'[x] = fileReq[x]
  BY DEF FilesInv
<1>2. LocksOK'
  <2>1. /\ writeLock \in [Paths -> FileClients \union {NoClient}]
        /\ \A p \in Paths, x \in FileClients : writeLock[p] = x <=> Locks(fileReq[x], p)
        /\ NoClient \notin FileClients
    BY FilesAssumption DEF FilesInv, LocksOK
  <2>2. CASE writeLock' = writeLock /\ \A p \in Paths : Locks(r, p) <=> Locks(fileReq[c], p)
    BY <1>1, <2>1, <2>2 DEF LocksOK
  <2>3. ASSUME NEW p \in Paths, writeLock[p] = NoClient, writeLock' = [writeLock EXCEPT ![p] = c],
               \A q \in Paths : (Locks(r, q) <=> q = p) /\ ~Locks(fileReq[c], q)
        PROVE  LocksOK'
    <3>1. /\ writeLock' \in [Paths -> FileClients \union {NoClient}] /\ writeLock'[p] = c
          /\ \A q \in Paths \ {p} : writeLock'[q] = writeLock[q]
      BY <2>1, <2>3
    <3>2. ASSUME NEW q \in Paths, NEW x \in FileClients
          PROVE  writeLock'[q] = x <=> Locks(fileReq'[x], q)
      <4>1. CASE x = c
        BY <1>1, <2>1, <2>3, <3>1, <4>1
      <4>2. CASE x # c
        BY <1>1, <2>1, <2>3, <3>1, <4>2
      <4> QED  BY <4>1, <4>2
    <3> QED  BY <3>1, <3>2 DEF LocksOK, Locks
  <2>4. CASE writeLock' = Released(c) /\ \A p \in Paths : ~Locks(r, p)
    <3>1. \A q \in Paths : writeLock'[q] = IF writeLock[q] = c THEN NoClient ELSE writeLock[q]
      BY <2>4 DEF Released
    <3>2. writeLock' \in [Paths -> FileClients \union {NoClient}]
      BY <2>1, <2>4 DEF Released
    <3>3. ASSUME NEW q \in Paths, NEW x \in FileClients
          PROVE  writeLock'[q] = x <=> Locks(fileReq'[x], q)
      BY <1>1, <2>1, <2>4, <3>1
    <3> QED  BY <3>2, <3>3 DEF LocksOK, Locks
  <2> QED  BY <2>2, <2>3, <2>4
<1>3. \A x \in FileClients : Holding(x)'
  <2>1. ASSUME NEW x \in FileClients, x # c
        PROVE  Holding(x)'
    <3>1. Holding(x) /\ fileReq'[x] = fileReq[x] /\ fileMix' = fileMix
      BY <1>1, <2>1 DEF FilesInv
    <3>2. mtimes \in Nat /\ mtimes' \in Nat
      BY DEF FilesInv, DiskOK
    <3> QED  BY <3>1, <3>2 DEF Holding
  <2> QED  BY <2>1
<1> QED  BY <1>1, <1>2, <1>3 DEF FilesInv

\* A request is asked.
LEMMA AskStep ==
    ASSUME FilesInv, NEW c \in FileClients, NEW r \in FileReq, AskForFile(c, r), r.at # "idle", r.op \in FileOps,
           DiskOK', Timed', Ids \subseteq Ids', mtimes <= mtimes', Holding(c)',
           \A p \in Paths : ~Locks(r, p)
    PROVE  FilesInv'
<1>1. /\ fileReq' = [fileReq EXCEPT ![c] = r] /\ UNCHANGED <<lastSeen, pending, wake, writeLock, fileMix>>
      /\ filesLeft' = filesLeft - 1 /\ filesLeft > 0 /\ fileReq[c].at = "idle"
  BY DEF AskForFile, UsesFile, FileTo
<1>2. QueueOK'
  BY <1>1, FilesAssumption DEF FilesInv, QueueOK
<1>3. \A p \in Paths : ~Locks(fileReq[c], p)
  BY <1>1 DEF Locks
<1> QED  BY <1>1, <1>2, <1>3, RequestStep

\* What a request does of its own between two of these.
LEMMA ServeStep ==
    ASSUME FilesInv, NEW c \in FileClients, UNCHANGED <<fileMix, filesLeft, pending, wake, lastSeen>>
    PROVE  QueueOK'
BY DEF FilesInv, QueueOK

LEMMA AskFileInv ==
    ASSUME FilesInv, NEW c \in FileClients, AskFile(c)
    PROVE  FilesInv' /\ Renewed
<1>1. DiskOK /\ Timed /\ fileReq[c] \in FileReq /\ mtimes \in Nat /\ Len(inodes) \in Nat
  BY FilesTypes, DiskTypes
<1>2. \A p \in Paths : /\ tree[p] \in 0 .. Len(inodes) /\ (tree[p] # 0 => tree[p] \in Ids)
                       /\ (tree[p] # 0 => File(p).text \in FileText /\ File(p).mtime \in 1 .. mtimes)
  BY <1>1, DiskTypes DEF File
<1>2a. \A p \in Paths : tree[p] \in Nat /\ (tree[p] # 0 => File(p).mtime \in Nat)
  BY <1>1, <1>2
<1>3. \A r \in FileReq : AskForFile(c, r) =>
          /\ fileReq'[c] = r /\ r.op \in fileMix /\ fileMix' = fileMix
  BY DEF FilesInv, AskForFile, UsesFile, FileTo
<1>4. \A p \in Paths : Conditions(c, p) \subseteq Nat
  BY DEF Conditions, FilesInv, QueueOK, Told
<1>5. Empty \in FileText /\ NoPath \notin Paths /\ Texts \subseteq FileText
  BY FilesAssumption DEF FileText
<1>6. ASSUME UNCHANGED <<diskVars, fileMix>>
      PROVE  DiskOK' /\ Renewed /\ Timed' /\ Ids' = Ids /\ mtimes <= mtimes' /\ mtimes' = mtimes
  BY <1>1, <1>6, Untouched, StaysTimed DEF diskVars, DiskOK, Ids
<1>7. ASSUME NEW p \in Paths, OpenRead(c, p)
      PROVE  FilesInv' /\ Renewed
  <2>9. UNCHANGED <<diskVars, fileMix>>
    BY <1>7 DEF OpenRead, AskForFile, UsesFile
  <2> DEFINE r == [NoFileReq EXCEPT !.op = "read", !.at = "read", !.path = p, !.inode = tree[p], !.mtime = File(p).mtime]
  <2>1. r \in FileReq /\ r.at = "read" /\ r.op = "read" /\ r.path = p /\ r.inode = tree[p]
    BY <1>5, <1>7, <1>2a DEF NoFileReq, FileReq, FileOps, OpenRead, There
  <2>2. AskForFile(c, r) /\ tree[p] # 0
    BY <1>7 DEF OpenRead, There
  <2> HIDE DEF r
  <2>3. Holding(c)' /\ \A q \in Paths : ~Locks(r, q)
    BY <1>2, <1>3, <1>6, <2>9, <2>1, <2>2 DEF Holding, Locked, Locks
  <2> QED  BY <1>6, <2>9, <2>1, <2>2, <2>3, AskStep DEF FileOps, Locked
<1>8. ASSUME NEW p \in Paths, NEW t \in Texts, NEW op \in {"write", "put"}, AskWrite(c, op, p, t)
      PROVE  FilesInv' /\ Renewed
  <2>9. UNCHANGED <<diskVars, fileMix>>
    BY <1>8 DEF AskWrite, AskForFile, UsesFile
  <2> PICK v \in Conditions(c, p) :
             AskForFile(c, [NoFileReq EXCEPT !.op = op, !.at = "lock", !.path = p, !.text = t, !.version = v])
    BY <1>8 DEF AskWrite
  <2> DEFINE r == [NoFileReq EXCEPT !.op = op, !.at = "lock", !.path = p, !.text = t, !.version = v]
  <2>1. r \in FileReq /\ r.at = "lock" /\ r.op = op /\ r.path = p
    BY <1>4, <1>5 DEF NoFileReq, FileReq, FileOps, Locked
  <2> HIDE DEF r
  <2>2. AskForFile(c, r)
    BY DEF r
  <2>3. Holding(c)' /\ \A q \in Paths : ~Locks(r, q)
    BY <1>3, <2>1, <2>2 DEF Holding, Locked, Locks
  <2> QED  BY <1>6, <2>9, <2>1, <2>2, <2>3, AskStep DEF FileOps, Locked
<1>9. ASSUME NEW p \in Paths, NEW t \in Texts, AskEdit(c, p, t)
      PROVE  FilesInv' /\ Renewed
  <2>9. UNCHANGED <<diskVars, fileMix>>
    BY <1>9 DEF AskEdit, AskForFile, UsesFile
  <2> PICK v \in Conditions(c, p) :
             AskForFile(c, [NoFileReq EXCEPT !.op = "edit", !.at = "lock", !.path = p, !.text = t, !.version = v,
                                             !.inode = tree[p]])
    BY <1>9 DEF AskEdit
  <2> DEFINE r == [NoFileReq EXCEPT !.op = "edit", !.at = "lock", !.path = p, !.text = t, !.version = v,
                                    !.inode = tree[p]]
  <2>1. r \in FileReq /\ r.at = "lock" /\ r.op = "edit" /\ r.path = p /\ r.inode = tree[p]
    BY <1>4, <1>5, <1>2a DEF NoFileReq, FileReq, FileOps, Locked
  <2> HIDE DEF r
  <2>2. AskForFile(c, r) /\ tree[p] # 0
    BY <1>9 DEF r, AskEdit, There
  <2>3. Holding(c)' /\ \A q \in Paths : ~Locks(r, q)
    BY <1>2, <1>3, <1>6, <2>9, <2>1, <2>2 DEF Holding, Locked, Locks
  <2> QED  BY <1>6, <2>9, <2>1, <2>2, <2>3, AskStep DEF FileOps, Locked
<1>10. ASSUME NEW p \in Paths, NEW t \in Texts, Upload(c, p, t)
      PROVE  FilesInv' /\ Renewed
  <2>9. UNCHANGED <<diskVars, fileMix>>
    BY <1>10 DEF Upload, AskForFile, UsesFile
  <2> DEFINE r == [NoFileReq EXCEPT !.op = "upload", !.at = "truncate", !.path = p, !.text = t]
  <2>1. r \in FileReq /\ r.at = "truncate" /\ r.op = "upload" /\ r.path = p
    BY <1>5 DEF NoFileReq, FileReq, FileOps
  <2>2. AskForFile(c, r)
    BY <1>10 DEF Upload
  <2> HIDE DEF r
  <2>3. Holding(c)' /\ \A q \in Paths : ~Locks(r, q)
    BY <1>3, <2>1, <2>2 DEF Holding, Locked, Locks
  <2> QED  BY <1>6, <2>9, <2>1, <2>2, <2>3, AskStep DEF FileOps
<1>11. ASSUME NEW p \in Paths, DeleteFile(c, p)
       PROVE  FilesInv' /\ Renewed
  <2> DEFINE r == [NoFileReq EXCEPT !.op = "delete", !.at = "end", !.path = p]
  <2>1. r \in FileReq /\ r.at = "end" /\ r.op = "delete" /\ r.path = p
    BY <1>5 DEF NoFileReq, FileReq, FileOps
  <2>2. AskForFile(c, r) /\ tree' = [tree EXCEPT ![p] = 0] /\ UNCHANGED <<inodes, mtimes>>
    BY <1>11 DEF DeleteFile
  <2> HIDE DEF r
  <2>3. DiskOK' /\ Renewed /\ Ids' = Ids /\ mtimes <= mtimes'
    <3>1. DiskOK /\ UNCHANGED <<inodes, mtimes>>
      BY <1>1, <2>2
    <3>2. \/ tree' = [tree EXCEPT ![p] = 0]
          \/ \E x \in Paths : tree[x] = 0 /\ tree[p] # 0 /\ tree' = [tree EXCEPT ![p] = 0, ![x] = tree[p]]
      BY <2>2
    <3>3. DiskOK' /\ Renewed /\ Ids' = Ids
      BY <3>1, <3>2, Relinked
    <3> QED  BY <1>1, <3>1, <3>3
  <2>4. Timed'
    BY <1>1, <1>3, <2>1, <2>2, <2>3, StaysTimed
  <2>5. Holding(c)' /\ \A q \in Paths : ~Locks(r, q)
    BY <1>3, <2>1, <2>2 DEF Holding, Locked, Locks
  <2> QED  BY <2>1, <2>2, <2>3, <2>4, <2>5, AskStep DEF FileOps
<1>12. ASSUME NEW p \in Paths, NEW q \in Paths, MoveFile(c, p, q)
       PROVE  FilesInv' /\ Renewed
  <2> DEFINE r == [NoFileReq EXCEPT !.op = "move", !.at = "end", !.path = p, !.to = q]
  <2>1. r \in FileReq /\ r.at = "end" /\ r.op = "move" /\ r.path = p /\ r.to = q
    BY <1>5 DEF NoFileReq, FileReq, FileOps
  <2>2. /\ AskForFile(c, r) /\ tree[p] # 0 /\ tree[q] = 0
        /\ tree' = [tree EXCEPT ![p] = 0, ![q] = tree[p]] /\ UNCHANGED <<inodes, mtimes>>
    BY <1>12 DEF MoveFile, There
  <2> HIDE DEF r
  <2>3. DiskOK' /\ Renewed /\ Ids' = Ids /\ mtimes <= mtimes'
    <3>1. DiskOK /\ UNCHANGED <<inodes, mtimes>>
      BY <1>1, <2>2
    <3>2. \/ tree' = [tree EXCEPT ![p] = 0]
          \/ \E x \in Paths : tree[x] = 0 /\ tree[p] # 0 /\ tree' = [tree EXCEPT ![p] = 0, ![x] = tree[p]]
      BY <2>2
    <3>3. DiskOK' /\ Renewed /\ Ids' = Ids
      BY <3>1, <3>2, Relinked
    <3> QED  BY <1>1, <3>1, <3>3
  <2>4. Timed'
    BY <1>1, <1>3, <2>1, <2>2, <2>3, StaysTimed
  <2>5. Holding(c)' /\ \A x \in Paths : ~Locks(r, x)
    BY <1>3, <2>1, <2>2 DEF Holding, Locked, Locks
  <2> QED  BY <2>1, <2>2, <2>3, <2>4, <2>5, AskStep DEF FileOps
<1>13. ASSUME NEW p \in Paths, NEW q \in Paths, OpenCopy(c, p, q)
       PROVE  FilesInv' /\ Renewed
  <2> DEFINE r == [NoFileReq EXCEPT !.op = "copy", !.at = "copy", !.path = q, !.inode = Len(inodes'),
                                    !.version = tree[p], !.mtime = File(p).mtime]
  <2>1. /\ AskForFile(c, r) /\ tree[p] # 0 /\ tree[q] = 0 /\ mtimes' = mtimes + 1
        /\ inodes' = Append(inodes, [text |-> Empty, mtime |-> mtimes'])
        /\ tree' = [tree EXCEPT ![q] = Len(inodes')]
    BY <1>13 DEF OpenCopy, Opened, There
  <2>2. /\ DiskOK' /\ Renewed /\ Ids' = Ids \union {Len(inodes')} /\ mtimes <= mtimes' /\ Len(inodes') \in Nat
    <3>1. DiskOK /\ Empty \in FileText
      BY <1>1, <1>5
    <3>2. /\ DiskOK' /\ Renewed /\ Len(inodes') = Len(inodes) + 1 /\ Ids' = Ids \union {Len(inodes')}
      BY <2>1, <3>1, Created
    <3> QED  BY <1>1, <2>1, <3>2
  <2>3. /\ r \in FileReq /\ r.at = "copy" /\ r.op = "copy" /\ r.path = q /\ r.inode = Len(inodes')
        /\ r.version \in Ids /\ r.mtime \in 1 .. mtimes
    <3>1. Len(inodes') \in Nat /\ tree[p] \in Nat /\ File(p).mtime \in Nat
      BY <1>2a, <2>1, <2>2
    <3>2. r \in FileReq /\ r.at = "copy" /\ r.op = "copy" /\ r.path = q /\ r.inode = Len(inodes')
          /\ r.version = tree[p] /\ r.mtime = File(p).mtime
      BY <1>5, <3>1 DEF NoFileReq, FileReq, FileOps
    <3> QED  BY <1>2, <2>1, <3>2
  <2> HIDE DEF r
  <2>4. Timed'
    BY <1>1, <1>3, <2>1, <2>2, <2>3, StaysTimed
  <2>5. Holding(c)' /\ \A x \in Paths : ~Locks(r, x)
    BY <1>1, <1>3, <2>1, <2>2, <2>3 DEF Holding, Locked, Locks
  <2> QED  BY <2>1, <2>2, <2>3, <2>4, <2>5, AskStep DEF FileOps
<1> QED
  BY <1>7, <1>8, <1>9, <1>10, <1>11, <1>12, <1>13 DEF AskFile

\* A file is emptied: one that is there, or a new one.
LEMMA OpenedDisk ==
    ASSUME DiskOK, NEW i \in {0} \union Ids, NEW p \in Paths, Opened(i, p)
    PROVE  /\ DiskOK' /\ Renewed /\ mtimes' = mtimes + 1
           /\ i = 0 => /\ tree' = [tree EXCEPT ![p] = Len(inodes')] /\ Len(inodes') = Len(inodes) + 1
                       /\ Len(inodes') \in Ids' /\ Len(inodes') \notin Ids /\ Len(inodes') # 0
                       /\ inodes'[Len(inodes')].mtime = mtimes' /\ inodes'[Len(inodes')].text = Empty
                       /\ \A j \in Ids : inodes'[j] = inodes[j]
           /\ i # 0 => /\ UNCHANGED tree /\ Ids' = Ids /\ i \in Ids'
                       /\ inodes'[i].mtime = mtimes' /\ inodes'[i].text = Empty
                       /\ \A j \in Ids \ {i} : inodes'[j] = inodes[j]
<1>1. Empty \in FileText /\ mtimes' = mtimes + 1
  BY DEF FileText, Opened
<1>2. CASE i = 0
  <2>1. /\ inodes' = Append(inodes, [text |-> Empty, mtime |-> mtimes'])
        /\ tree' = [tree EXCEPT ![p] = Len(inodes')]
    BY <1>2 DEF Opened
  <2>2. /\ DiskOK' /\ Renewed /\ Len(inodes') = Len(inodes) + 1 /\ Ids' = Ids \union {Len(inodes')}
        /\ Len(inodes') \notin Ids /\ Len(inodes') # 0
        /\ inodes'[Len(inodes')] = [text |-> Empty, mtime |-> mtimes']
        /\ \A j \in Ids : inodes'[j] = inodes[j]
    BY <1>1, <2>1, Created
  <2>3. inodes'[Len(inodes')].mtime = mtimes' /\ inodes'[Len(inodes')].text = Empty /\ Len(inodes') \in Ids'
    BY <2>2
  <2> QED  BY <1>1, <1>2, <2>1, <2>2, <2>3
<1>3. CASE i # 0
  <2>1. /\ i \in Ids /\ inodes' = [inodes EXCEPT ![i] = [text |-> Empty, mtime |-> mtimes']] /\ UNCHANGED tree
    BY <1>3 DEF Opened
  <2>2. /\ DiskOK' /\ Renewed /\ Ids' = Ids /\ inodes'[i] = [text |-> Empty, mtime |-> mtimes']
        /\ \A j \in Ids \ {i} : inodes'[j] = inodes[j]
    BY <1>1, <2>1, Rewritten
  <2>3. inodes'[i].mtime = mtimes' /\ inodes'[i].text = Empty /\ i \in Ids'
    BY <2>1, <2>2
  <2> QED  BY <1>1, <1>3, <2>1, <2>2, <2>3
<1> QED  BY <1>2, <1>3

LEMMA OverwrittenDisk ==
    ASSUME DiskOK, NEW i \in Ids, NEW t \in FileText, Overwritten(i, t)
    PROVE  /\ DiskOK' /\ Renewed /\ Ids' = Ids /\ mtimes' = mtimes + 1 /\ UNCHANGED tree
           /\ inodes'[i].mtime = mtimes' /\ inodes'[i].text = t
           /\ \A j \in Ids \ {i} : inodes'[j] = inodes[j]
<1>1. /\ mtimes' = mtimes + 1 /\ inodes' = [inodes EXCEPT ![i] = [text |-> t, mtime |-> mtimes']] /\ UNCHANGED tree
  BY DEF Overwritten
<1>2. /\ DiskOK' /\ Renewed /\ Ids' = Ids /\ inodes'[i] = [text |-> t, mtime |-> mtimes']
      /\ \A j \in Ids \ {i} : inodes'[j] = inodes[j]
  BY <1>1, Rewritten
<1> QED  BY <1>1, <1>2

LEMMA ServeFileInv ==
    ASSUME FilesInv, NEW c \in FileClients, ServeFile(c) \/ AbortPut(c)
    PROVE  FilesInv' /\ (Renewed \/ ("copy" \in fileMix /\ Ids' = Ids))
<1> DEFINE s == fileReq[c]
<1>1. /\ DiskOK /\ Timed /\ s \in FileReq /\ mtimes \in Nat /\ Len(inodes) \in Nat /\ Holding(c) /\ QueueOK
      /\ s.text \in FileText /\ s.path \in Paths \union {NoPath} /\ s.inode \in Nat
      /\ fileReq \in [FileClients -> FileReq]
  BY FilesTypes, DiskTypes DEF FileReq
<1>2. \A i \in Ids : inodes[i].text \in FileText /\ inodes[i].mtime \in 1 .. mtimes
  BY <1>1, DiskTypes
<1>3. Empty \in FileText /\ Torn \in FileText /\ NoPath \notin Paths /\ NoFileReq \in FileReq
  BY FilesAssumption, NoRequest DEF FileText
<1>4. ASSUME UNCHANGED <<diskVars, fileMix>>
      PROVE  DiskOK' /\ Renewed /\ Timed' /\ Ids' = Ids /\ mtimes <= mtimes' /\ mtimes' = mtimes
  BY <1>1, <1>4, Untouched, StaysTimed DEF diskVars, DiskOK, Ids
<1>5. ASSUME DiskOK', Timed', QueueOK', Ids \subseteq Ids', mtimes <= mtimes', fileMix' = fileMix,
             fileReq' = [fileReq EXCEPT ![c] = NoFileReq],
             writeLock' = Released(c) \/ (writeLock' = writeLock /\ \A p \in Paths : ~Locks(s, p))
      PROVE  FilesInv'
  <2>1. Holding(c)'
    <3>1. fileReq'[c] = NoFileReq
      BY <1>1, <1>5
    <3> QED  BY <3>1 DEF Holding, NoFileReq, Locked
  <2> QED  BY <1>3, <1>5, <2>1, NoRequest, RequestStep
<1>6. CASE FinishRead(c)
  <2>1. /\ UNCHANGED <<diskVars, fileMix, filesLeft, writeLock, pending, wake>> /\ s.at = "read"
        /\ fileReq' = [fileReq EXCEPT ![c] = NoFileReq]
        /\ lastSeen' = [lastSeen EXCEPT ![c] = [path |-> s.path, version |-> s.mtime, text |-> inodes[s.inode].text]]
    BY <1>6 DEF FinishRead, FileStep, FileTo
  <2>2. s.op = "read" /\ s.inode \in Ids /\ s.mtime \in Nat
    BY <1>1, <2>1 DEF Holding, FileReq
  <2>3. [path |-> s.path, version |-> s.mtime, text |-> inodes[s.inode].text] \in Told
    BY <1>1, <1>2, <2>2 DEF Told
  <2>4. QueueOK'
    BY <1>1, <2>1, <2>3 DEF QueueOK
  <2>5. \A p \in Paths : ~Locks(s, p)
    BY <2>2 DEF Locks, Locked
  <2> QED  BY <1>4, <1>5, <2>1, <2>4, <2>5
<1>7. CASE TakeWriteLock(c)
  <2> DEFINE r == [s EXCEPT !.at = "check"]
  <2>1. /\ UNCHANGED <<diskVars, fileMix, filesLeft, pending, wake, lastSeen>> /\ s.at = "lock"
        /\ writeLock[s.path] = NoClient /\ writeLock' = [writeLock EXCEPT ![s.path] = c]
        /\ fileReq' = [fileReq EXCEPT ![c] = r]
    BY <1>7 DEF TakeWriteLock, FileStep, FileAt, FileTo
  <2>2. s.op \in Locked /\ s.path \in Paths
    BY <1>1, <2>1 DEF Holding
  <2>3. /\ r \in FileReq /\ r.at = "check" /\ r.op = s.op /\ r.path = s.path /\ r.inode = s.inode
        /\ fileReq'[c] = r
    BY <1>1, <2>1 DEF FileReq
  <2> HIDE DEF r
  <2>4. Holding(c)'
    BY <1>1, <1>4, <2>1, <2>2, <2>3 DEF Holding, Locked
  <2>5. \A q \in Paths : (Locks(r, q) <=> q = s.path) /\ ~Locks(s, q)
    BY <2>1, <2>2, <2>3 DEF Locks
  <2> HIDE DEF s
  <2> QED  BY <1>4, <2>1, <2>2, <2>3, <2>4, <2>5, ServeStep, RequestStep DEF s
<1>8. CASE CheckVersion(c)
  <2>1. /\ UNCHANGED <<diskVars, fileMix, filesLeft, pending, wake, lastSeen>> /\ s.at = "check"
        /\ \/ fileReq' = [fileReq EXCEPT ![c] = [s EXCEPT !.at = "truncate"]] /\ writeLock' = writeLock
           \/ fileReq' = [fileReq EXCEPT ![c] = NoFileReq] /\ writeLock' = Released(c)
    BY <1>8 DEF CheckVersion, FileStep, FileAt, FileTo
  <2>2. QueueOK'
    BY <2>1, ServeStep
  <2>3. CASE fileReq' = [fileReq EXCEPT ![c] = [s EXCEPT !.at = "truncate"]] /\ writeLock' = writeLock
    <3> DEFINE r == [s EXCEPT !.at = "truncate"]
    <3>1. s.op \in Locked /\ s.path \in Paths
      BY <1>1, <2>1 DEF Holding
    <3>2. /\ r \in FileReq /\ r.at = "truncate" /\ r.op = s.op /\ r.path = s.path /\ r.inode = s.inode
          /\ fileReq'[c] = r
      BY <1>1, <2>3 DEF FileReq
    <3> HIDE DEF r
    <3>3. Holding(c)'
      BY <1>1, <1>4, <2>1, <3>1, <3>2 DEF Holding, Locked
    <3>4. \A q \in Paths : Locks(r, q) <=> Locks(s, q)
      BY <2>1, <3>1, <3>2 DEF Locks
    <3>5. fileReq' = [fileReq EXCEPT ![c] = r]
      BY <2>3 DEF r
    <3> QED  BY <1>4, <2>1, <2>2, <2>3, <3>2, <3>3, <3>4, <3>5, RequestStep
  <2> QED  BY <1>4, <1>5, <2>1, <2>2, <2>3
<1>9. CASE TruncateFile(c)
  <2> DEFINE i == IF s.op = "edit" THEN s.inode ELSE tree[s.path]
             n == IF i = 0 THEN Len(inodes') ELSE i
             r == [s EXCEPT !.at = "fill", !.mtime = mtimes', !.inode = n]
  <2>1. /\ UNCHANGED <<fileMix, filesLeft, pending, wake, lastSeen, writeLock>> /\ s.at = "truncate"
        /\ Opened(i, s.path) /\ fileReq' = [fileReq EXCEPT ![c] = r]
    BY <1>9 DEF TruncateFile, FileStep, FileTo
  <2>2. s.op \in Locked \union {"upload"} /\ s.path \in Paths /\ i \in {0} \union Ids
    BY <1>1, <2>1, DiskTypes DEF Holding
  <2> HIDE DEF i
  <2>3. DiskOK' /\ Renewed /\ mtimes' \in Nat /\ mtimes <= mtimes' /\ n \in Ids' /\ n \in Nat
    <3>1. DiskOK' /\ Renewed /\ mtimes' = mtimes + 1 /\ (i = 0 => Len(inodes') \in Ids') /\ (i # 0 => i \in Ids')
      BY <1>1, <2>1, <2>2, OpenedDisk
    <3>2. Ids' \subseteq Nat
      BY <3>1 DEF DiskOK, Ids
    <3>3. n \in Ids'
      BY <3>1
    <3> HIDE DEF n
    <3> QED  BY <1>1, <3>1, <3>2, <3>3
  <2>4. /\ r \in FileReq /\ r.at = "fill" /\ r.op = s.op /\ r.path = s.path /\ r.inode = n
    BY <1>1, <2>3 DEF FileReq
  <2> HIDE DEF n, r
  <2>5. fileReq'[c] = r
    BY <1>1, <2>1
  <2>6. Holding(c)'
    BY <1>1, <2>1, <2>2, <2>3, <2>4, <2>5 DEF Holding, Locked
  <2>7. \A q \in Paths : Locks(r, q) <=> Locks(s, q)
    BY <2>1, <2>4 DEF Locks
  <2>8. Timed' /\ Ids \subseteq Ids'
    BY <1>1, <2>1, <2>3, StaysTimed DEF Renewed
  <2> QED  BY <2>1, <2>3, <2>4, <2>6, <2>7, <2>8, ServeStep, RequestStep
<1>10. CASE Fill(c)
  <2>1. PICK t \in {s.text} \union IF inodes[s.inode].mtime = s.mtime THEN {} ELSE {Torn} : Overwritten(s.inode, t)
    BY <1>10 DEF Fill
  <2> DEFINE r == [s EXCEPT !.at = "end", !.mtime = mtimes']
  <2>2. /\ UNCHANGED <<fileMix, filesLeft, pending, wake, lastSeen, writeLock>> /\ s.at = "fill"
        /\ fileReq' = [fileReq EXCEPT ![c] = r]
    BY <1>10 DEF Fill, FileStep, FileTo
  <2>3. s.op \in Locked \union {"upload"} /\ s.path \in Paths /\ s.inode \in Ids /\ t \in FileText
    BY <1>1, <1>3, <2>2 DEF Holding
  <2>4. DiskOK' /\ Renewed /\ Ids' = Ids /\ mtimes' = mtimes + 1
    BY <1>1, <2>1, <2>3, OverwrittenDisk
  <2>5. /\ r \in FileReq /\ r.at = "end" /\ r.op = s.op /\ r.path = s.path /\ r.inode = s.inode
    <3>1. mtimes' \in Nat
      BY <1>1, <2>4
    <3> QED  BY <1>1, <3>1 DEF FileReq
  <2> HIDE DEF r
  <2>6. fileReq'[c] = r
    BY <1>1, <2>2
  <2>7. Holding(c)'
    BY <1>1, <2>2, <2>3, <2>4, <2>5, <2>6 DEF Holding, Locked
  <2>8. \A q \in Paths : Locks(r, q) <=> Locks(s, q)
    BY <2>2, <2>5 DEF Locks
  <2>9. Timed' /\ mtimes <= mtimes'
    BY <1>1, <2>2, <2>4, StaysTimed
  <2> QED  BY <2>2, <2>4, <2>5, <2>7, <2>8, <2>9, ServeStep, RequestStep
<1>11. CASE CopyText(c)
  <2> DEFINE r == [s EXCEPT !.at = "end"]
             t == inodes[s.version].text
             m == s.mtime
  <2>1. /\ UNCHANGED <<fileMix, filesLeft, pending, wake, lastSeen, writeLock, tree, mtimes>> /\ s.at = "copy"
        /\ fileReq' = [fileReq EXCEPT ![c] = r]
        /\ inodes' = [inodes EXCEPT ![s.inode] = [text |-> t, mtime |-> m]]
    BY <1>11 DEF CopyText, FileStep, FileAt, FileTo
  <2>2. s.op = "copy" /\ s.path \in Paths /\ s.inode \in Ids /\ t \in FileText /\ m \in 1 .. mtimes /\ "copy" \in fileMix
    BY <1>1, <1>2, <2>1 DEF Holding
  <2>3. /\ r \in FileReq /\ r.at = "end" /\ r.op = s.op /\ r.path = s.path /\ fileReq'[c] = r
    BY <1>1, <2>1 DEF FileReq
  <2> HIDE DEF r, t, m
  <2>4. DiskOK' /\ Ids' = Ids
    BY <1>1, <2>1, <2>2, Copied
  <2>5. Holding(c)'
    BY <1>1, <2>1, <2>2, <2>3 DEF Holding, Locked
  <2>6. \A q \in Paths : ~Locks(r, q) /\ ~Locks(s, q)
    BY <2>2, <2>3 DEF Locks, Locked
  <2>7. Timed' /\ mtimes <= mtimes'
    BY <1>1, <2>1, <2>2 DEF Timed
  <2> QED  BY <2>1, <2>2, <2>3, <2>4, <2>5, <2>6, <2>7, ServeStep, RequestStep
<1>12. CASE EndFileReq(c)
  <2>1. /\ UNCHANGED <<diskVars, fileMix, filesLeft>> /\ s.at = "end" /\ wake' = TRUE
        /\ fileReq' = [fileReq EXCEPT ![c] = NoFileReq] /\ writeLock' = Released(c)
        /\ pending' = pending \union {s.path} \union IF s.op = "move" THEN {s.to} ELSE {}
        /\ lastSeen' = IF s.op \in Locked
                       THEN [lastSeen EXCEPT ![c] = [path |-> s.path, version |-> s.mtime, text |-> s.text]]
                       ELSE lastSeen
    BY <1>12 DEF EndFileReq, FileStep, FileTo
  <2>2. [path |-> s.path, version |-> s.mtime, text |-> s.text] \in Told
    BY <1>1 DEF Told, FileReq
  <2>3. s.path \in Paths /\ (s.op = "move" => s.to \in Paths)
    BY <1>1, <2>1 DEF Holding
  <2>4. QueueOK'
    BY <1>1, <2>1, <2>2, <2>3 DEF QueueOK
  <2> QED  BY <1>4, <1>5, <2>1, <2>4
<1>13. CASE AbortPut(c)
  <2>1. /\ UNCHANGED <<fileMix, filesLeft, pending, wake, lastSeen>> /\ s.at = "fill"
        /\ fileReq' = [fileReq EXCEPT ![c] = NoFileReq] /\ writeLock' = Released(c)
        /\ UNCHANGED diskVars \/ Overwritten(s.inode, Torn)
    BY <1>13 DEF AbortPut, FileStep, FileTo
  <2>2. s.inode \in Ids /\ QueueOK'
    BY <1>1, <2>1, ServeStep DEF Holding
  <2>3. CASE UNCHANGED diskVars
    BY <1>4, <1>5, <2>1, <2>2, <2>3
  <2>4. CASE Overwritten(s.inode, Torn)
    <3>1. DiskOK' /\ Renewed /\ Ids' = Ids /\ mtimes' = mtimes + 1
      BY <1>1, <1>3, <2>2, <2>4, OverwrittenDisk
    <3>2. Timed' /\ mtimes <= mtimes'
      BY <1>1, <2>1, <3>1, StaysTimed
    <3> QED  BY <1>5, <2>1, <2>2, <3>1, <3>2
  <2> QED  BY <2>1, <2>3, <2>4
<1> QED
  BY <1>6, <1>7, <1>8, <1>9, <1>10, <1>11, <1>12, <1>13 DEF ServeFile

LEMMA RunCodeInv ==
    ASSUME FilesInv, NEW p \in Paths, NEW t \in Texts, RunCode(p, t)
    PROVE  FilesInv' /\ Renewed
<1>1. /\ DiskOK /\ Timed /\ QueueOK /\ LocksOK /\ t \in FileText /\ mtimes \in Nat
      /\ fileReq \in [FileClients -> FileReq]
      /\ UNCHANGED <<writeLock, fileReq, lastSeen, pending, wake, fileMix>> /\ filesLeft' = filesLeft - 1 /\ filesLeft > 0
      /\ tree[p] # 0 => tree[p] \in Ids
  BY DiskTypes DEF FilesInv, RunCode, UsesFile, FileText
<1>2. DiskOK' /\ Renewed
  <2>1. CASE There(p) /\ Overwritten(tree[p], t)
    BY <1>1, <2>1, OverwrittenDisk DEF There
  <2>2. CASE tree' = [tree EXCEPT ![p] = 0] /\ UNCHANGED <<inodes, mtimes>>
    BY <1>1, <2>2, Relinked
  <2>3. CASE /\ ~There(p) /\ mtimes' = mtimes + 1 /\ tree' = [tree EXCEPT ![p] = Len(inodes) + 1]
             /\ inodes' = Append(inodes, [text |-> t, mtime |-> mtimes'])
    <3>1. Len(inodes') = Len(inodes) + 1
      BY <1>1, <2>3 DEF DiskOK
    <3> QED  BY <1>1, <2>3, <3>1, Created
  <2> QED  BY <2>1, <2>2, <2>3 DEF RunCode
<1>3. Timed' /\ Ids \subseteq Ids' /\ mtimes <= mtimes' /\ mtimes' \in Nat
  BY <1>1, <1>2, StaysTimed DEF Renewed, DiskOK
<1>4. \A x \in FileClients : Holding(x)'
  <2>1. ASSUME NEW x \in FileClients
        PROVE  Holding(x)'
    <3>1. Holding(x)
      BY DEF FilesInv
    <3> QED  BY <1>1, <1>3, <3>1 DEF Holding
  <2> QED  BY <2>1
<1> QED  BY <1>1, <1>2, <1>3, <1>4, FilesAssumption DEF FilesInv, QueueOK, LocksOK

-----------------------------------------------------------------------------
(* The index and its task.                                                 *)

\* What the index, the app and the task are, besides the files.
IndexOK ==
    /\ rows \in [Rows -> [text : FileText, stamp : Nat]] /\ install \in [live : BOOLEAN, decl : Decls]
    /\ untold \in BOOLEAN /\ appPending \in BOOLEAN
    /\ indexed \in [Docs -> Chunk] /\ storedDecl \in Decls
    /\ \A r \in Rows : indexed[r].stamp # 0 => storedDecl # NoDecl
    /\ indexer \in Indexer /\ served \in 0 .. 2 /\ label \in 0 .. 2 /\ unseen \subseteq Docs

LEMMA TypesAgain ==
    ASSUME FilesInv, IndexOK
    PROVE  SearchTypeOK
<1>1. SpaceFilesTypeOK
  BY DEF FilesInv, DiskOK, LocksOK, QueueOK, Locks, Told, SpaceFilesTypeOK
<1> QED  BY <1>1 DEF IndexOK, SearchTypeOK

LEMMA Constants ==
    /\ Empty \in FileText /\ NoText \in DocText /\ NoVector \in Vector /\ Absent \in Chunk /\ NoDecl \in Decls
    /\ NoRows \in [Rows -> [text : FileText, stamp : Nat]] /\ Asleep \in Indexer
    /\ Paths \subseteq Docs /\ Rows \subseteq Docs /\ Paths \intersect Rows = {}
    /\ Absent.stamp = 0 /\ Absent.text = NoText /\ Absent.model = 0 /\ Absent.of = NoVector
    /\ Asleep.at = "idle" /\ Asleep.stamp = 0 /\ Asleep.model = 0 /\ Asleep.vector = NoVector
    /\ Asleep.found = [p \in Paths |-> 0] /\ \A r \in Rows : NoRows[r].stamp = 0 /\ Asleep.read[r].stamp = 0
<1>1. Empty \in FileText /\ NoDecl \in Decls
  BY DEF FileText, Decls
<1>2. NoText \in DocText
  BY <1>1 DEF NoText, DocText
<1>3. NoVector \in Vector
  BY <1>2 DEF NoVector, Vector
<1>4. Absent \in Chunk /\ Absent.stamp = 0 /\ Absent.text = NoText /\ Absent.model = 0 /\ Absent.of = NoVector
  BY <1>2, <1>3 DEF Absent, Chunk
<1>5. NoRows \in [Rows -> [text : FileText, stamp : Nat]] /\ \A r \in Rows : NoRows[r].stamp = 0
  BY <1>1 DEF NoRows
<1>6. Asleep \in Indexer
  BY <1>1, <1>2, <1>3, <1>5 DEF Asleep, Indexer
<1> QED  BY <1>1, <1>2, <1>3, <1>4, <1>5, <1>6, SearchAssumption DEF Docs, Asleep

LEMMA IndexTypes ==
    ASSUME IndexOK
    PROVE  /\ \A d \in Docs : /\ indexed[d] \in Chunk /\ indexed[d].stamp \in Nat /\ indexed[d].text \in DocText
                              /\ indexed[d].model \in 0 .. 2 /\ indexed[d].of \in Vector
           /\ indexer \in Indexer /\ indexer.scan \in BOOLEAN /\ indexer.embedding \in BOOLEAN
           /\ indexer.under \subseteq Paths /\ indexer.found \in [Paths -> Nat] /\ indexer.todo \subseteq Paths
           /\ indexer.doc \in Docs \union {NoPath} /\ indexer.inode \in Nat /\ indexer.stamp \in Nat
           /\ indexer.text \in DocText /\ indexer.decl \in Decls
           /\ indexer.read \in [Rows -> [text : FileText, stamp : Nat]] /\ indexer.model \in 0 .. 2
           /\ indexer.batch \subseteq Docs \X DocText /\ indexer.vector \in Vector
<1>1. /\ \A d \in Docs : indexed[d] \in Chunk
      /\ indexer \in Indexer
  BY DEF IndexOK
<1>2. \A x \in Chunk : x.stamp \in Nat /\ x.text \in DocText /\ x.model \in 0 .. 2 /\ x.of \in Vector
  BY DEF Chunk
<1> QED  BY <1>1, <1>2 DEF Indexer

LEMMA EntryType ==
    ASSUME IndexOK, NEW d \in Docs, NEW stamp \in Nat, NEW text \in DocText
    PROVE  /\ Entry(d, stamp, text) \in Chunk /\ Entry(d, stamp, text).stamp = stamp
           /\ Entry(d, stamp, text).text = text
           /\ \/ /\ indexed[d].text = text /\ Entry(d, stamp, text).model = indexed[d].model
                 /\ Entry(d, stamp, text).of = indexed[d].of
              \/ Entry(d, stamp, text).model = 0 /\ Entry(d, stamp, text).of = NoVector
<1>1. indexed[d] \in Chunk /\ Absent \in Chunk /\ Absent.model = 0 /\ Absent.of = NoVector
  BY IndexTypes, Constants
<1>2. \A x \in Chunk : /\ [x EXCEPT !.stamp = stamp] \in Chunk /\ [x EXCEPT !.stamp = stamp].stamp = stamp
                       /\ [x EXCEPT !.stamp = stamp].text = x.text /\ [x EXCEPT !.stamp = stamp].model = x.model
                       /\ [x EXCEPT !.stamp = stamp].of = x.of
                       /\ [x EXCEPT !.stamp = stamp, !.text = text] \in Chunk
                       /\ [x EXCEPT !.stamp = stamp, !.text = text].stamp = stamp
                       /\ [x EXCEPT !.stamp = stamp, !.text = text].text = text
                       /\ [x EXCEPT !.stamp = stamp, !.text = text].model = x.model
                       /\ [x EXCEPT !.stamp = stamp, !.text = text].of = x.of
  BY DEF Chunk
<1> QED  BY <1>1, <1>2 DEF Entry

\* The rows that are dropped.
LEMMA DroppedRows ==
    ASSUME IndexOK, indexed' = RowsDropped, storedDecl' = NoDecl
    PROVE  /\ indexed' \in [Docs -> Chunk] /\ storedDecl' \in Decls
           /\ \A r \in Rows : indexed'[r] = Absent
           /\ \A p \in Paths : indexed'[p] = indexed[p]
<1>1. \A d \in Docs : indexed[d] \in Chunk
  BY IndexTypes
<1> QED  BY <1>1, Constants DEF RowsDropped

\* A step of the task that leaves the files alone keeps what is known of them.
LEMMA FilesStay ==
    ASSUME FilesInv, UNCHANGED requestVars, pending' \subseteq Paths, wake' \in BOOLEAN
    PROVE  FilesInv' /\ Ids' = Ids
<1>1. UNCHANGED <<tree, inodes, mtimes, writeLock, fileReq, lastSeen, fileMix, filesLeft>>
  BY DEF requestVars, diskVars
<1>2. DiskOK' /\ LocksOK' /\ Timed' /\ Ids' = Ids
  BY <1>1 DEF FilesInv, DiskOK, LocksOK, Locks, Timed, Ids
<1>3. QueueOK'
  BY <1>1 DEF FilesInv, QueueOK
<1>4. \A c \in FileClients : Holding(c)'
  BY <1>1, <1>2 DEF FilesInv, Holding
<1> QED  BY <1>1, <1>2, <1>3, <1>4 DEF FilesInv

LEMMA InIndexes ==
    ASSUME FilesInv, IndexOK, NEW s, In(s)
    PROVE  /\ FilesInv' /\ Ids' = Ids /\ UNCHANGED <<fileVars, appVars, served>> /\ indexer.at = s
           /\ (IndexOK' <=> /\ indexed' \in [Docs -> Chunk] /\ storedDecl' \in Decls
                            /\ \A r \in Rows : indexed'[r].stamp # 0 => storedDecl' # NoDecl
                            /\ indexer' \in Indexer /\ label' \in 0 .. 2 /\ unseen' \subseteq Docs)
<1>1. UNCHANGED <<fileVars, appVars, served>> /\ indexer.at = s
  BY DEF In
<1>2. UNCHANGED requestVars /\ pending' \subseteq Paths /\ wake' \in BOOLEAN
  BY <1>1 DEF FilesInv, QueueOK, requestVars, fileVars, diskVars
<1>3. FilesInv' /\ Ids' = Ids
  BY <1>2, FilesStay
<1> QED  BY <1>1, <1>3 DEF IndexOK, appVars

Typed == FilesInv /\ IndexOK /\ Task

LEMMA BeginTyped ==
    ASSUME Typed, BeginIndexing
    PROVE  Typed'
<1>1. /\ FilesInv /\ IndexOK /\ UNCHANGED <<requestVars, pending, appVars, served, label, unseen>> /\ wake' = FALSE
      /\ pending' = pending
  BY DEF Typed, BeginIndexing
<1>2. FilesInv'
  BY <1>1, FilesStay DEF FilesInv, QueueOK
<1>3. indexer' \in Indexer /\ indexer'.at \in {"pop", "stat"}
  <2>1. Asleep \in Indexer
    BY Constants
  <2>2. [Asleep EXCEPT !.at = "pop"] \in Indexer /\ [Asleep EXCEPT !.at = "pop"].at = "pop"
    BY <2>1 DEF Indexer
  <2>3. /\ [Asleep EXCEPT !.at = "stat", !.scan = TRUE, !.under = Paths] \in Indexer
        /\ [Asleep EXCEPT !.at = "stat", !.scan = TRUE, !.under = Paths].at = "stat"
    BY <2>1 DEF Indexer
  <2> QED  BY <2>2, <2>3 DEF BeginIndexing
<1>4. /\ indexed' \in [Docs -> Chunk] /\ storedDecl' \in Decls
      /\ \A r \in Rows : indexed'[r].stamp # 0 => storedDecl' # NoDecl
  <2>1. CASE UNCHANGED storeVars
    BY <1>1, <2>1 DEF storeVars, IndexOK
  <2>2. CASE indexed' = RowsDropped /\ storedDecl' = NoDecl
    BY <1>1, <2>2, DroppedRows, Constants
  <2> QED  BY <2>1, <2>2 DEF BeginIndexing
<1> QED  BY <1>1, <1>2, <1>3, <1>4 DEF Typed, IndexOK, Task, appVars

LEMMA PopTyped ==
    ASSUME Typed, Pop
    PROVE  Typed'
<1>1. /\ FilesInv /\ IndexOK /\ UNCHANGED <<requestVars, wake, rows, install, untold, storeVars, served, label, unseen>>
      /\ pending \subseteq Paths /\ wake \in BOOLEAN
  BY DEF Typed, Pop, FilesInv, QueueOK
<1>2. pending' \subseteq Paths /\ appPending' \in BOOLEAN
  BY <1>1 DEF Pop, IndexOK
<1>3. FilesInv'
  BY <1>1, <1>2, FilesStay
<1>4. indexer' \in Indexer /\ indexer'.at \in {"stat", "app_known", "model", "select", "embed"}
  <2>1. indexer \in Indexer
    BY <1>1 DEF IndexOK
  <2>2. ASSUME NEW p \in Paths
        PROVE  /\ [indexer EXCEPT !.at = "stat", !.scan = FALSE, !.under = {p}] \in Indexer
               /\ [indexer EXCEPT !.at = "stat", !.scan = FALSE, !.under = {p}].at = "stat"
    BY <2>1 DEF Indexer
  <2>3. \A a \in {"app_known", "model", "select", "embed"} :
            [indexer EXCEPT !.at = a] \in Indexer /\ [indexer EXCEPT !.at = a].at = a
    BY <2>1 DEF Indexer
  <2>4. \/ \E p \in Paths : indexer' = [indexer EXCEPT !.at = "stat", !.scan = FALSE, !.under = {p}]
        \/ \E a \in {"app_known", "model", "select", "embed"} : indexer' = [indexer EXCEPT !.at = a]
    <3>1. CASE pending = {} /\ ~appPending
      BY <3>1 DEF Pop, Goes
    <3>2. CASE ~(pending = {} /\ ~appPending)
      BY <1>1, <3>2 DEF Pop, Goes
    <3> QED  BY <3>1, <3>2
  <2> QED  BY <2>2, <2>3, <2>4
<1> QED  BY <1>1, <1>2, <1>3, <1>4 DEF Typed, IndexOK, Task, storeVars

LEMMA StatTyped ==
    ASSUME Typed, StatTree
    PROVE  Typed'
<1>1. FilesInv /\ IndexOK /\ In("stat") /\ UNCHANGED <<storeVars, label>>
  BY DEF Typed, StatTree
<1> DEFINE f == [p \in Paths |-> IF p \in indexer.under \ {} /\ There(p) THEN File(p).mtime ELSE 0]
<1>2. f \in [Paths -> Nat]
  <2>1. DiskOK
    BY <1>1 DEF FilesInv
  <2>2. \A p \in Paths : There(p) => File(p).mtime \in Nat
    BY <2>1, DiskTypes DEF There, File
  <2> QED  BY <2>2
<1>3. indexer' = [indexer EXCEPT !.at = "compare", !.found = f]
  BY DEF StatTree, StatBut
<1> HIDE DEF f
<1>4. indexer' \in Indexer /\ indexer'.at = "compare"
  BY <1>1, <1>2, <1>3 DEF IndexOK, Indexer
<1>5. unseen' \subseteq Docs
  BY <1>1 DEF StatTree, StatBut, IndexOK
<1>6. IndexOK' /\ FilesInv'
  BY <1>1, <1>4, <1>5, InIndexes DEF IndexOK, storeVars
<1> QED  BY <1>4, <1>6 DEF Typed, Task

LEMMA CompareTyped ==
    ASSUME Typed, Compare
    PROVE  Typed'
<1> DEFINE todo == {p \in indexer.under : indexer.found[p] \notin {0, indexed[p].stamp}}
<1>1. /\ FilesInv /\ IndexOK /\ In("compare") /\ UNCHANGED <<storedDecl, label, unseen>>
      /\ indexed' = [d \in Docs |-> IF d \in indexer.under /\ indexer.found[d] = 0 THEN Absent ELSE indexed[d]]
      /\ indexer' = [indexer EXCEPT !.at = AfterFile(todo), !.todo = todo, !.found = Asleep.found]
  BY DEF Typed, Compare
<1>2. todo \subseteq Paths /\ Asleep.found \in [Paths -> Nat] /\ AfterFile(todo) \in {"read", "app_known", "pop"}
      /\ (AfterFile(todo) = "read" => todo # {})
  BY <1>1, IndexTypes, Constants DEF AfterFile
<1> HIDE DEF todo
<1>3. indexer' \in Indexer /\ indexer'.at = AfterFile(todo) /\ indexer'.todo = todo
  BY <1>1, <1>2 DEF IndexOK, Indexer
<1>4. /\ indexed' \in [Docs -> Chunk] /\ \A r \in Rows : indexed'[r] = indexed[r]
  BY <1>1, IndexTypes, Constants
<1>5. IndexOK' /\ FilesInv'
  BY <1>1, <1>3, <1>4, InIndexes DEF IndexOK
<1> QED  BY <1>2, <1>3, <1>5 DEF Typed, Task

LEMMA OpenTextTyped ==
    ASSUME Typed, OpenText
    PROVE  Typed'
<1>1. FilesInv /\ IndexOK /\ In("read") /\ UNCHANGED <<storeVars, label, unseen>> /\ DiskOK
  BY DEF Typed, OpenText, FilesInv
<1>2. PICK p \in indexer.todo :
          indexer' = [indexer EXCEPT !.at = IF There(p) THEN "text" ELSE "store", !.todo = @ \ {p}, !.doc = p,
                                     !.inode = tree[p], !.stamp = IF There(p) THEN File(p).mtime ELSE 0]
  BY DEF OpenText
<1> DEFINE a == IF There(p) THEN "text" ELSE "store"
           m == IF There(p) THEN File(p).mtime ELSE 0
<1>3. /\ p \in Paths /\ p \in Docs /\ tree[p] \in Nat /\ m \in Nat /\ a \in {"text", "store"}
      /\ (a = "text" => tree[p] \in Ids) /\ indexer.todo \subseteq Paths
  BY <1>1, IndexTypes, DiskTypes, Constants DEF There, File
<1> HIDE DEF a, m
<1>4. indexer' = [indexer EXCEPT !.at = a, !.todo = @ \ {p}, !.doc = p, !.inode = tree[p], !.stamp = m]
  BY <1>2 DEF a, m
<1>5. indexer' \in Indexer /\ indexer'.at = a /\ indexer'.doc = p /\ indexer'.inode = tree[p]
  BY <1>1, <1>3, <1>4 DEF IndexOK, Indexer
<1>6. IndexOK' /\ FilesInv' /\ Ids' = Ids
  BY <1>1, <1>5, InIndexes DEF IndexOK, storeVars
<1> QED  BY <1>3, <1>5, <1>6 DEF Typed, Task

LEMMA ReadTextTyped ==
    ASSUME Typed, ReadText
    PROVE  Typed'
<1> DEFINE t == [decl |-> NoDecl, text |-> inodes[indexer.inode].text]
<1>1. /\ FilesInv /\ IndexOK /\ Task /\ In("text") /\ UNCHANGED <<storeVars, label, unseen>> /\ DiskOK
      /\ indexer' = [indexer EXCEPT !.at = "store", !.inode = 0, !.text = t] /\ indexer.at = "text"
  BY DEF Typed, ReadText, FilesInv, In
<1>2. t \in DocText /\ indexer.doc \in Paths
  BY <1>1, DiskTypes, Constants DEF Task, DocText
<1> HIDE DEF t
<1>3. indexer' \in Indexer /\ indexer'.at = "store" /\ indexer'.doc = indexer.doc
  BY <1>1, <1>2 DEF IndexOK, Indexer
<1>4. IndexOK' /\ FilesInv'
  BY <1>1, <1>3, InIndexes DEF IndexOK, storeVars
<1> QED  BY <1>2, <1>3, <1>4 DEF Typed, Task

LEMMA StoreTextTyped ==
    ASSUME Typed, StoreText
    PROVE  Typed'
<1> DEFINE i == indexer
           e == IF i.stamp = 0 THEN Absent ELSE Entry(i.doc, i.stamp, i.text)
           a == AfterFile(i.todo)
<1>1. /\ FilesInv /\ IndexOK /\ Task /\ In("store") /\ UNCHANGED <<storedDecl, label, unseen>>
      /\ indexed' = [indexed EXCEPT ![i.doc] = e] /\ i.at = "store"
      /\ i' = [i EXCEPT !.at = a, !.doc = NoPath, !.stamp = 0, !.text = NoText]
  BY DEF Typed, StoreText, In
<1>2. /\ i.doc \in Paths /\ i.doc \in Docs /\ a \in {"read", "app_known", "pop"} /\ (a = "read" => i.todo # {})
      /\ i \in Indexer /\ NoText \in DocText /\ i.stamp \in Nat /\ i.text \in DocText
  BY <1>1, IndexTypes, Constants DEF Task, AfterFile
<1>3. e \in Chunk
  BY <1>1, <1>2, EntryType, Constants
<1> HIDE DEF e, a, i
<1>4. i' \in Indexer /\ i'.at = a /\ i'.todo = i.todo
  BY <1>1, <1>2 DEF Indexer
<1>5. indexed' \in [Docs -> Chunk] /\ \A r \in Rows : indexed'[r] = indexed[r]
  BY <1>1, <1>2, <1>3, Constants DEF IndexOK
<1>6. IndexOK' /\ FilesInv'
  BY <1>1, <1>4, <1>5, InIndexes DEF IndexOK, i
<1> QED  BY <1>2, <1>4, <1>6 DEF Typed, Task, i

LEMMA AppKnownTyped ==
    ASSUME Typed, AppKnown
    PROVE  Typed'
<1> DEFINE d == IF install.live THEN install.decl ELSE NoDecl
           a == IF d = NoDecl THEN "pop" ELSE "app_read"
<1>1. /\ FilesInv /\ IndexOK /\ In("app_known") /\ unseen' = unseen \ Rows /\ UNCHANGED label
      /\ indexer' = [indexer EXCEPT !.at = a, !.decl = d]
  BY DEF Typed, AppKnown
<1>2. d \in Decls /\ a \in {"pop", "app_read"} /\ (a = "app_read" => d # NoDecl)
  BY <1>1 DEF IndexOK, Decls
<1>3. \/ UNCHANGED storeVars
      \/ indexed' = RowsDropped /\ storedDecl' = NoDecl
  BY DEF AppKnown
<1> HIDE DEF a, d
<1>4. indexer' \in Indexer /\ indexer'.at = a /\ indexer'.decl = d
  BY <1>1, <1>2 DEF IndexOK, Indexer
<1>5. /\ indexed' \in [Docs -> Chunk] /\ storedDecl' \in Decls
      /\ \A r \in Rows : indexed'[r].stamp # 0 => storedDecl' # NoDecl
  <2>1. CASE UNCHANGED storeVars
    BY <1>1, <2>1 DEF storeVars, IndexOK
  <2>2. CASE indexed' = RowsDropped /\ storedDecl' = NoDecl
    BY <1>1, <2>2, DroppedRows, Constants
  <2> QED  BY <1>3, <2>1, <2>2
<1>6. IndexOK' /\ FilesInv'
  BY <1>1, <1>4, <1>5, InIndexes DEF IndexOK
<1> QED  BY <1>2, <1>4, <1>6 DEF Typed, Task

LEMMA ReadInstanceTyped ==
    ASSUME Typed, ReadInstance
    PROVE  Typed'
<1>1. /\ FilesInv /\ IndexOK /\ In("app_read") /\ UNCHANGED <<storeVars, label, unseen>>
      /\ indexer' = [indexer EXCEPT !.at = "app_store", !.read = rows] /\ indexer.decl # NoDecl
  BY DEF Typed, ReadInstance, Task, In
<1>2. indexer' \in Indexer /\ indexer'.at = "app_store" /\ indexer'.decl = indexer.decl
  BY <1>1 DEF IndexOK, Indexer
<1>3. IndexOK' /\ FilesInv'
  BY <1>1, <1>2, InIndexes DEF IndexOK, storeVars
<1> QED  BY <1>1, <1>2, <1>3 DEF Typed, Task

LEMMA RowEntryType ==
    ASSUME IndexOK, NEW r \in Rows
    PROVE  RowEntry(r) \in Chunk
<1> DEFINE t == [decl |-> indexer.decl, text |-> indexer.read[r].text]
<1>1. t \in DocText /\ indexer.read[r].stamp \in Nat /\ r \in Docs
  BY IndexTypes, Constants DEF DocText
<1> HIDE DEF t
<1>2. Entry(r, indexer.read[r].stamp, t) \in Chunk
  BY <1>1, EntryType
<1> QED  BY <1>1, <1>2, IndexTypes, Constants DEF RowEntry, t

LEMMA StoreInstanceTyped ==
    ASSUME Typed, StoreInstance
    PROVE  Typed'
<1>1. /\ FilesInv /\ IndexOK /\ In("app_store") /\ storedDecl' = indexer.decl
      /\ indexed' = [d \in Docs |-> IF d \in Rows THEN RowEntry(d) ELSE indexed[d]]
      /\ indexer' = [indexer EXCEPT !.at = "pop", !.decl = NoDecl, !.read = NoRows] /\ UNCHANGED <<label, unseen>>
      /\ indexer.decl # NoDecl
  BY DEF Typed, StoreInstance, Task, In
<1>2. indexer' \in Indexer /\ indexer'.at = "pop"
  <2>1. NoRows \in [Rows -> [text : FileText, stamp : Nat]] /\ NoDecl \in Decls
    BY Constants
  <2> HIDE DEF NoRows
  <2> QED  BY <1>1, <2>1 DEF IndexOK, Indexer
<1>3. indexed' \in [Docs -> Chunk] /\ storedDecl' \in Decls
  BY <1>1, RowEntryType, IndexTypes
<1>4. IndexOK' /\ FilesInv'
  BY <1>1, <1>2, <1>3, InIndexes DEF IndexOK
<1> QED  BY <1>2, <1>4 DEF Typed, Task

LEMMA AskModelTyped ==
    ASSUME Typed, AskModel
    PROVE  Typed'
<1>1. /\ FilesInv /\ IndexOK /\ In("model") /\ UNCHANGED <<storeVars, unseen>>
  BY DEF Typed, AskModel
<1>2. /\ label' \in 0 .. 2 /\ indexer' \in Indexer /\ indexer'.at \in {"idle", "select"}
  <2>1. ASSUME NEW m \in Believed, label' = m,
               indexer' = [indexer EXCEPT !.at = "select", !.embedding = TRUE, !.model = m]
        PROVE  <1>2
    <3>1. m \in 0 .. 2
      BY <1>1 DEF Believed, IndexOK
    <3>2. indexer \in Indexer
      BY <1>1 DEF IndexOK
    <3> QED  BY <2>1, <3>1, <3>2 DEF Indexer
  <2>2. CASE indexer' = Asleep /\ UNCHANGED label
    BY <1>1, <2>2, Constants DEF IndexOK
  <2> QED  BY <2>1, <2>2 DEF AskModel
<1>3. IndexOK' /\ FilesInv'
  BY <1>1, <1>2, InIndexes DEF IndexOK, storeVars
<1> QED  BY <1>2, <1>3 DEF Typed, Task

LEMMA SelectTyped ==
    ASSUME Typed, Select
    PROVE  Typed'
<1>1. /\ FilesInv /\ IndexOK /\ In("select") /\ UNCHANGED <<storeVars, label, unseen>>
  BY DEF Typed, Select
<1> DEFINE b == {<<d, indexed[d].text>> : d \in ToEmbed}
<1>2. b \subseteq Docs \X DocText
  BY <1>1, IndexTypes DEF ToEmbed
<1>3. indexer' = Asleep \/ indexer' = [indexer EXCEPT !.at = "embed", !.batch = b]
  BY DEF Select
<1> HIDE DEF b
<1>4. indexer' \in Indexer /\ indexer'.at \in {"idle", "embed"}
  <2>1. CASE indexer' = Asleep
    BY <2>1, Constants
  <2>2. CASE indexer' = [indexer EXCEPT !.at = "embed", !.batch = b]
    BY <1>1, <1>2, <2>2 DEF IndexOK, Indexer
  <2> QED  BY <1>3, <2>1, <2>2
<1>5. IndexOK' /\ FilesInv'
  BY <1>1, <1>4, InIndexes DEF IndexOK, storeVars
<1> QED  BY <1>4, <1>5 DEF Typed, Task

LEMMA EmbedTyped ==
    ASSUME Typed, Embed
    PROVE  Typed'
<1>1. FilesInv /\ IndexOK /\ In("embed") /\ UNCHANGED <<storeVars, unseen>>
  BY DEF Typed, Embed
<1> PICK b \in indexer.batch, m \in Believed :
         /\ label' = m
         /\ \E v \in {[text |-> b[2], model |-> served], NoVector} :
               indexer' = [indexer EXCEPT !.at = "update", !.batch = @ \ {b}, !.doc = b[1], !.text = b[2], !.vector = v]
  BY DEF Embed
<1> PICK v \in {[text |-> b[2], model |-> served], NoVector} :
         indexer' = [indexer EXCEPT !.at = "update", !.batch = @ \ {b}, !.doc = b[1], !.text = b[2], !.vector = v]
  OBVIOUS
<1>2. label' = m
  OBVIOUS
<1>3. b[1] \in Docs /\ b[2] \in DocText /\ m \in 0 .. 2 /\ served \in 0 .. 2
  BY <1>1, IndexTypes DEF Believed, IndexOK
<1>4. v \in Vector
  BY <1>3, Constants DEF Vector
<1>5. indexer' \in Indexer /\ indexer'.at = "update" /\ indexer'.doc = b[1]
  BY <1>1, <1>2, <1>3, <1>4 DEF IndexOK, Indexer
<1>6. IndexOK' /\ FilesInv'
  BY <1>1, <1>2, <1>3, <1>5, InIndexes DEF IndexOK, storeVars
<1> QED  BY <1>3, <1>5, <1>6 DEF Typed, Task

LEMMA UpdateChunkTyped ==
    ASSUME Typed, UpdateChunk
    PROVE  Typed'
<1> DEFINE i == indexer
           e == [indexed[i.doc] EXCEPT !.model = i.model, !.of = i.vector]
<1>1. /\ FilesInv /\ IndexOK /\ Task /\ In("update") /\ UNCHANGED <<storedDecl, label, unseen>> /\ i.at = "update"
      /\ i' = [i EXCEPT !.at = "pop", !.doc = NoPath, !.text = NoText, !.vector = NoVector]
      /\ indexed' = IF SameText THEN [indexed EXCEPT ![i.doc].model = i.model, ![i.doc].of = i.vector] ELSE indexed
  BY DEF Typed, UpdateChunk, In
<1>2. i \in Indexer /\ NoText \in DocText /\ NoVector \in Vector /\ i.doc \in Docs /\ i.model \in 0 .. 2 /\ i.vector \in Vector
  BY <1>1, IndexTypes, Constants DEF Task
<1>3. i' \in Indexer /\ i'.at = "pop"
  BY <1>1, <1>2 DEF Indexer
<1>4. /\ indexed' \in [Docs -> Chunk] /\ \A d \in Docs : indexed'[d].stamp = indexed[d].stamp
  <2>1. e \in Chunk /\ e.stamp = indexed[i.doc].stamp
    BY <1>1, <1>2, IndexTypes DEF Chunk
  <2>2. SameText => indexed' = [indexed EXCEPT ![i.doc] = e]
    BY <1>1, <1>2 DEF IndexOK
  <2> HIDE DEF e
  <2>3. indexed \in [Docs -> Chunk]
    BY <1>1 DEF IndexOK
  <2> QED  BY <1>1, <1>2, <2>1, <2>2, <2>3
<1>5. IndexOK' /\ FilesInv'
  BY <1>1, <1>3, <1>4, InIndexes, Constants DEF IndexOK
<1> QED  BY <1>3, <1>5 DEF Typed, Task

\* The steps that are not the task's.
LEMMA EmbedFailsTyped ==
    ASSUME Typed, EmbedFails
    PROVE  Typed'
<1>1. FilesInv /\ IndexOK /\ In("embed") /\ indexer' = Asleep /\ UNCHANGED <<storeVars, label, unseen>>
  BY DEF Typed, EmbedFails
<1>2. IndexOK' /\ FilesInv'
  BY <1>1, InIndexes, Constants DEF IndexOK, storeVars
<1> QED  BY <1>1, <1>2, Constants DEF Typed, Task

\* A fault leaves the disk, the requests and the queue.
LEMMA FaultStays ==
    ASSUME FilesInv, UNCHANGED <<diskVars, writeLock, fileReq, lastSeen, pending, wake, fileMix>>,
           filesLeft' = filesLeft - 1, filesLeft > 0
    PROVE  FilesInv' /\ Ids' = Ids
<1>1. DiskOK' /\ LocksOK' /\ Timed' /\ Ids' = Ids
  BY DEF FilesInv, DiskOK, LocksOK, Locks, Timed, diskVars, Ids
<1>2. QueueOK'
  BY FilesAssumption DEF FilesInv, QueueOK
<1>3. \A c \in FileClients : Holding(c)'
  BY DEF FilesInv, Holding, diskVars, Ids
<1> QED  BY <1>1, <1>2, <1>3 DEF FilesInv

LEMMA IndexFailsTyped ==
    ASSUME Typed, IndexFails
    PROVE  Typed'
<1>1. /\ FilesInv /\ IndexOK /\ indexer' = Asleep /\ unseen' = unseen \union InHand
      /\ UNCHANGED <<diskVars, writeLock, fileReq, lastSeen, pending, wake, appVars, storeVars, served, label, fileMix>>
      /\ filesLeft' = filesLeft - 1 /\ filesLeft > 0
  BY DEF Typed, IndexFails, UsesFile
<1>2. InHand \subseteq Docs
  BY <1>1, IndexTypes, Constants DEF InHand, FilesInv, QueueOK
<1>3. IndexOK'
  BY <1>1, <1>2, Constants DEF IndexOK, appVars, storeVars
<1>4. FilesInv'
  BY <1>1, FaultStays
<1> QED  BY <1>1, <1>3, <1>4, Constants DEF Typed, Task

\* Of a file that is to be looked at the task has the time, or it is unseen.
FoundIts(p) == p \in unseen' \/ indexer'.found[p] = IF There(p) THEN File(p).mtime ELSE 0

\* What a failing read does to what the task has in hand.
LEMMA ReadFailsStep ==
    ASSUME Typed, ReadFails
    PROVE  /\ UNCHANGED <<diskVars, writeLock, fileReq, lastSeen, pending, wake, appVars, storeVars, served, label,
                          fileMix>>
           /\ filesLeft' = filesLeft - 1 /\ filesLeft > 0
           /\ indexer' \in Indexer /\ indexer'.stamp \in {0, indexer.stamp}
           /\ indexer'.batch = indexer.batch /\ indexer'.model = indexer.model /\ indexer'.read = indexer.read
           /\ indexer'.under = indexer.under /\ indexer'.scan = indexer.scan /\ indexer'.todo = indexer.todo
           /\ indexer'.doc = indexer.doc
           /\ \/ /\ indexer.at = "stat" /\ indexer'.at = "compare" /\ (indexer.scan \/ unseen \subseteq unseen')
                 /\ unseen \ Paths \subseteq unseen' /\ unseen' \subseteq Docs
                 /\ \A p \in indexer.under : FoundIts(p)
              \/ /\ indexer.at = "stat" /\ indexer'.at = (IF indexer.scan THEN "app_known" ELSE "pop")
                 /\ unseen' = unseen \union indexer.under
              \/ /\ indexer.at = "text" /\ indexer'.at = "store" /\ indexer'.stamp = 0
                 /\ unseen' = unseen \union {indexer.doc}
              \/ indexer.at = "app_read" /\ indexer'.at = "pop" /\ unseen' = unseen \union Rows
<1>1. /\ UNCHANGED <<diskVars, writeLock, fileReq, lastSeen, pending, wake, appVars, storeVars, served, label, fileMix>>
      /\ filesLeft' = filesLeft - 1 /\ filesLeft > 0
      /\ indexer \in Indexer /\ FilesInv /\ unseen \subseteq Docs
  BY DEF ReadFails, UsesFile, Typed, IndexOK
<1>2. ASSUME NEW x \in indexer.under, indexer.at = "stat", StatBut({x})
      PROVE  /\ indexer' \in Indexer /\ indexer'.stamp = indexer.stamp
             /\ indexer'.batch = indexer.batch /\ indexer'.model = indexer.model /\ indexer'.read = indexer.read
             /\ indexer'.under = indexer.under /\ indexer'.scan = indexer.scan /\ indexer'.todo = indexer.todo
             /\ indexer'.doc = indexer.doc
             /\ indexer'.at = "compare" /\ (indexer.scan \/ unseen \subseteq unseen')
             /\ unseen \ Paths \subseteq unseen' /\ unseen' \subseteq Docs
             /\ \A p \in indexer.under : FoundIts(p)
  <2> DEFINE f == [p \in Paths |-> IF p \in indexer.under \ {x} /\ There(p) THEN File(p).mtime ELSE 0]
  <2>1. f \in [Paths -> Nat]
    <3>1. DiskOK
      BY <1>1 DEF FilesInv
    <3>2. \A p \in Paths : There(p) => File(p).mtime \in Nat
      BY <3>1, DiskTypes DEF There, File
    <3> QED  BY <3>2
  <2>2. indexer' = [indexer EXCEPT !.at = "compare", !.found = f] /\ indexer.under \subseteq Paths
    BY <1>1, <1>2 DEF StatBut, Indexer
  <2>3. \A p \in indexer.under : p # x => f[p] = IF There(p) THEN File(p).mtime ELSE 0
    BY <2>2
  <2> HIDE DEF f
  <2>4. unseen' = {x} \union (IF indexer.scan THEN unseen \ Paths ELSE unseen) /\ x \in Docs
    BY <1>2, <2>2, Constants DEF StatBut
  <2>5. indexer'.found = f
    BY <1>1, <2>2 DEF Indexer
  <2> QED  BY <1>1, <2>1, <2>2, <2>3, <2>4, <2>5 DEF Indexer, FoundIts
<1>3. ASSUME indexer.at = "stat", NoFilesRoot
      PROVE  /\ indexer' \in Indexer /\ indexer'.stamp = indexer.stamp
             /\ indexer'.batch = indexer.batch /\ indexer'.model = indexer.model /\ indexer'.read = indexer.read
             /\ indexer'.under = indexer.under /\ indexer'.scan = indexer.scan /\ indexer'.todo = indexer.todo
             /\ indexer'.doc = indexer.doc
             /\ indexer'.at = (IF indexer.scan THEN "app_known" ELSE "pop") /\ unseen' = unseen \union indexer.under
  <2> DEFINE a == AfterFile({})
  <2>1. a = (IF indexer.scan THEN "app_known" ELSE "pop")
    BY DEF AfterFile
  <2>2. indexer' = [indexer EXCEPT !.at = a] /\ unseen' = unseen \union indexer.under
    BY <1>3 DEF NoFilesRoot
  <2> HIDE DEF a
  <2> QED  BY <1>1, <2>1, <2>2 DEF Indexer
<1>4. ASSUME indexer.at = "text", indexer' = [indexer EXCEPT !.at = "store", !.inode = 0, !.stamp = 0]
      PROVE  /\ indexer' \in Indexer /\ indexer'.stamp = 0
             /\ indexer'.batch = indexer.batch /\ indexer'.model = indexer.model /\ indexer'.read = indexer.read
             /\ indexer'.under = indexer.under /\ indexer'.scan = indexer.scan /\ indexer'.todo = indexer.todo
             /\ indexer'.doc = indexer.doc /\ indexer'.at = "store"
  BY <1>1, <1>4 DEF Indexer
<1>5. ASSUME indexer.at = "app_read", indexer' = [indexer EXCEPT !.at = "pop", !.decl = NoDecl]
      PROVE  /\ indexer' \in Indexer /\ indexer'.stamp = indexer.stamp
             /\ indexer'.batch = indexer.batch /\ indexer'.model = indexer.model /\ indexer'.read = indexer.read
             /\ indexer'.under = indexer.under /\ indexer'.scan = indexer.scan /\ indexer'.todo = indexer.todo
             /\ indexer'.doc = indexer.doc /\ indexer'.at = "pop"
  BY <1>1, <1>5 DEF Indexer, Decls
<1>6. CASE indexer.at = "stat" /\ \E p \in indexer.under : StatBut({p})
  BY <1>1, <1>2, <1>6
<1>7. CASE indexer.at = "stat" /\ NoFilesRoot
  BY <1>1, <1>3, <1>7
<1>8. CASE indexer.at = "text" /\ indexer' = [indexer EXCEPT !.at = "store", !.inode = 0, !.stamp = 0]
           /\ unseen' = unseen \union {indexer.doc}
  BY <1>1, <1>4, <1>8
<1>9. CASE indexer.at = "app_read" /\ indexer' = [indexer EXCEPT !.at = "pop", !.decl = NoDecl]
           /\ unseen' = unseen \union Rows
  BY <1>1, <1>5, <1>9
<1> QED  BY <1>6, <1>7, <1>8, <1>9 DEF ReadFails

LEMMA ReadFailsTyped ==
    ASSUME Typed, ReadFails
    PROVE  Typed'
<1>1. FilesInv' /\ Ids' = Ids
  BY ReadFailsStep, FaultStays DEF Typed
<1>2. unseen' \subseteq Docs
  <2>1. unseen \subseteq Docs /\ indexer.under \subseteq Paths /\ (indexer.at = "text" => indexer.doc \in Paths)
    BY DEF Typed, IndexOK, Task, Indexer
  <2> QED  BY <2>1, ReadFailsStep, Constants
<1>3. IndexOK'
  BY <1>2, ReadFailsStep DEF Typed, IndexOK, appVars, storeVars
<1>4. Task'
  BY ReadFailsStep DEF Typed, Task
<1> QED  BY <1>1, <1>3, <1>4 DEF Typed

LEMMA TellTyped ==
    ASSUME Typed, TellIndex \/ SwapModel
    PROVE  Typed'
<1>1. FilesInv /\ IndexOK /\ Task
  BY DEF Typed
<1>2. CASE TellIndex
  <2>1. /\ untold' = FALSE /\ appPending' = TRUE /\ wake' = TRUE
        /\ UNCHANGED <<requestVars, pending, rows, install, storeVars, indexer, served, label, unseen>> /\ pending' = pending
    BY <1>2 DEF TellIndex
  <2>2. FilesInv' /\ Ids' = Ids
    BY <1>1, <2>1, FilesStay DEF FilesInv, QueueOK
  <2> QED  BY <1>1, <2>1, <2>2 DEF Typed, IndexOK, Task, storeVars
<1>3. CASE SwapModel
  <2>1. /\ served <= MaxSwaps /\ served' = served + 1
        /\ UNCHANGED <<fileVars, appVars, storeVars, indexer, label, unseen>>
    BY <1>3 DEF SwapModel
  <2>2. UNCHANGED requestVars /\ pending' \subseteq Paths /\ wake' \in BOOLEAN
    BY <1>1, <2>1 DEF FilesInv, QueueOK, requestVars, fileVars, diskVars
  <2>3. FilesInv' /\ Ids' = Ids
    BY <1>1, <2>2, FilesStay
  <2>4. served' \in 0 .. 2
    BY <1>1, <2>1, SearchAssumption DEF IndexOK
  <2> QED  BY <1>1, <2>1, <2>3, <2>4 DEF Typed, IndexOK, Task, storeVars, appVars
<1> QED  BY <1>2, <1>3

LEMMA AppChangesTyped ==
    ASSUME Typed, AppChanges
    PROVE  Typed'
<1>1. /\ FilesInv /\ IndexOK /\ Task /\ untold' = TRUE
      /\ UNCHANGED <<diskVars, writeLock, fileReq, lastSeen, pending, wake, appPending, storeVars, indexer, served,
                     label, unseen, fileMix>>
      /\ filesLeft' = filesLeft - 1 /\ filesLeft > 0
  BY DEF Typed, AppChanges, UsesFile
<1>2. FilesInv' /\ Ids' = Ids
  <2>1. DiskOK' /\ LocksOK' /\ Timed' /\ Ids' = Ids
    BY <1>1 DEF FilesInv, DiskOK, LocksOK, Locks, Timed, diskVars, Ids
  <2>2. QueueOK'
    BY <1>1, FilesAssumption DEF FilesInv, QueueOK
  <2>3. \A c \in FileClients : Holding(c)'
    BY <1>1 DEF FilesInv, Holding, diskVars, Ids
  <2> QED  BY <1>1, <2>1, <2>2, <2>3 DEF FilesInv
<1>3. rows' \in [Rows -> [text : FileText, stamp : Nat]] /\ install' \in [live : BOOLEAN, decl : Decls]
  <2>1. rows \in [Rows -> [text : FileText, stamp : Nat]] /\ install \in [live : BOOLEAN, decl : Decls]
    BY <1>1 DEF IndexOK
  <2>2. ASSUME NEW r \in Rows, NEW t \in Texts \union {Empty}, UsesFile("rows"), UNCHANGED install,
               rows' = [rows EXCEPT ![r] = IF t = Empty THEN NoRows[r]
                                           ELSE [text |-> t, stamp |-> MaxIndexed + 1 - filesLeft]]
        PROVE  <1>3
    <3>1. MaxIndexed + 1 - filesLeft \in Nat
      BY <1>1, <2>2, FilesAssumption DEF FilesInv, QueueOK, UsesFile
    <3>2. t \in FileText /\ NoRows[r] \in [text : FileText, stamp : Nat]
      BY Constants DEF FileText
    <3> QED  BY <2>1, <2>2, <3>1, <3>2
  <2>3. CASE UNCHANGED rows /\ \E d \in Decls : install' = [install EXCEPT !.decl = d]
    BY <2>1, <2>3
  <2>4. CASE rows' = NoRows /\ install' = [install EXCEPT !.live = FALSE]
    BY <2>1, <2>4, Constants
  <2> QED  BY <2>2, <2>3, <2>4 DEF AppChanges
<1> QED  BY <1>1, <1>2, <1>3 DEF Typed, IndexOK, Task, storeVars

LEMMA RestartTyped ==
    ASSUME Typed, SearchRestart
    PROVE  Typed'
<1>1. /\ FilesInv /\ IndexOK /\ UNCHANGED <<diskVars, lastSeen, rows, install, storeVars, served, fileMix>>
      /\ fileReq' = [c \in FileClients |-> NoFileReq] /\ writeLock' = [p \in Paths |-> NoClient]
      /\ pending' = {} /\ wake' = FALSE /\ appPending' = FALSE /\ untold' = FALSE
      /\ indexer' = Asleep /\ label' = 0 /\ unseen' = Docs /\ filesLeft' = filesLeft - 1 /\ filesLeft > 0
  BY DEF Typed, SearchRestart, UsesFile
<1>2. DiskOK' /\ Timed' /\ Ids' = Ids
  BY <1>1 DEF FilesInv, DiskOK, Timed, diskVars, Ids
<1>3. QueueOK'
  <2>1. QueueOK
    BY <1>1 DEF FilesInv
  <2>2. filesLeft' \in Nat /\ (filesLeft <= MaxIndexed => filesLeft' <= MaxIndexed)
    BY <1>1, <2>1, FilesAssumption DEF QueueOK
  <2> QED  BY <1>1, <2>1, <2>2 DEF QueueOK
<1>4. LocksOK' /\ fileReq' \in [FileClients -> FileReq]
  BY <1>1, NoRequest, FilesAssumption DEF LocksOK
<1>5. \A c \in FileClients : Holding(c)'
  BY <1>1 DEF Holding, NoFileReq, Locked
<1>6. IndexOK'
  <2>1. Asleep \in Indexer
    BY Constants
  <2>2. 0 \in 0 .. 2
    OBVIOUS
  <2> QED  BY <1>1, <2>1, <2>2, Zenon DEF IndexOK, storeVars
<1> QED  BY <1>1, <1>2, <1>3, <1>4, <1>5, <1>6, Constants DEF Typed, FilesInv, Task

LEMMA FileChangeTyped ==
    ASSUME Typed, FileChange
    PROVE  Typed' /\ Ids \subseteq Ids' /\ (Renewed \/ "copy" \in fileMix)
<1>1. FilesInv /\ IndexOK /\ Task /\ UNCHANGED <<appVars, storeVars, indexer, served, label>>
  BY DEF Typed, FileChange
<1>2. FilesInv' /\ (Renewed \/ ("copy" \in fileMix /\ Ids' = Ids))
  BY <1>1, AskFileInv, ServeFileInv, RunCodeInv DEF FileChange
<1>3. Ids \subseteq Ids'
  BY <1>2 DEF Renewed
<1>4. unseen' \subseteq Docs
  <2>1. ASSUME NEW c \in FileClients
        PROVE  Renamed(c) \subseteq Docs
    BY Constants DEF Renamed
  <2>2. ASSUME NEW c \in FileClients, AbortPut(c)
        PROVE  fileReq[c].path \in Docs
    <3>1. fileReq[c].at = "fill" /\ Holding(c)
      BY <1>1, <2>2 DEF FilesInv, AbortPut, FileStep
    <3> QED  BY <3>1, Constants DEF Holding
  <2> QED  BY <1>1, <2>1, <2>2, Constants DEF FileChange, IndexOK
<1> QED  BY <1>1, <1>2, <1>3, <1>4 DEF Typed, IndexOK, Task, appVars, storeVars

-----------------------------------------------------------------------------
(* What the index has of files is true.                                    *)

LEMMA TextStays ==
    ASSUME DiskOK, DiskOK', Renewed, NEW stamp \in Nat, NEW text, stamp <= mtimes, TextOf(stamp, text)
    PROVE  TextOf(stamp, text)' /\ mtimes \in Nat /\ mtimes' >= mtimes /\ mtimes' >= stamp
<1>1. mtimes \in Nat /\ mtimes' \in Nat /\ mtimes <= mtimes'
  BY DEF DiskOK, Renewed
<1>2. ASSUME NEW i \in Ids', inodes'[i].mtime = stamp
      PROVE  i \in Ids /\ inodes'[i] = inodes[i]
  BY <1>1, <1>2 DEF Renewed
<1>3. TextOf(stamp, text)'
  BY <1>2 DEF TextOf
<1> QED  BY <1>1, <1>3

LEMMA NoTime ==
    ASSUME DiskOK, NEW text
    PROVE  TextOf(0, text)
BY DiskTypes DEF TextOf

\* A step that stores no text leaves what is stored true.
LEMMA FilesStayTrue ==
    ASSUME Typed, FilesTrue, UNCHANGED <<diskVars, fileMix>>,
           \A p \in Paths : \/ indexed'[p].stamp = 0
                            \/ indexed'[p].stamp = indexed[p].stamp /\ indexed'[p].text = indexed[p].text,
           indexer'.stamp \in {0, indexer.stamp}, indexer'.at \notin {"text", "store"}
    PROVE  FilesTrue'
<1>1. SUFFICES ASSUME "copy" \notin fileMix
               PROVE  FilesTrue'
  BY DEF FilesTrue
<1>2. DiskOK /\ mtimes \in Nat /\ UNCHANGED <<tree, inodes, mtimes>> /\ Ids' = Ids
  BY DEF Typed, FilesInv, DiskOK, diskVars, Ids
<1>5. ASSUME NEW p \in Paths
      PROVE  (indexed[p].stamp <= mtimes /\ TextOf(indexed[p].stamp, indexed[p].text.text))'
  <2>1. indexed[p].stamp <= mtimes /\ TextOf(indexed[p].stamp, indexed[p].text.text)
    BY <1>1 DEF FilesTrue
  <2>2. \A i \in Ids : inodes[i].mtime # 0
    BY <1>2, DiskTypes
  <2> QED  BY <1>2, <2>1, <2>2 DEF TextOf
<1>6. indexer'.stamp <= mtimes'
  BY <1>1, <1>2 DEF FilesTrue
<1>7. indexer'.at # "text" /\ indexer'.at # "store"
  OBVIOUS
<1> QED  BY <1>5, <1>6, <1>7 DEF FilesTrue

LEMMA SearchNextTyped ==
    ASSUME Typed, SearchNext
    PROVE  Typed'
BY FileChangeTyped, BeginTyped, PopTyped, StatTyped, CompareTyped, OpenTextTyped, ReadTextTyped, StoreTextTyped,
   AppKnownTyped, ReadInstanceTyped, StoreInstanceTyped, AskModelTyped, SelectTyped, EmbedTyped, EmbedFailsTyped,
   UpdateChunkTyped, IndexFailsTyped, ReadFailsTyped, AppChangesTyped, TellTyped, RestartTyped DEF SearchNext, Indexing

\* What each step of the task does to the index, the model's name, and what it has in hand.
LEMMA ChunkUpdated ==
    ASSUME Typed, UpdateChunk
    PROVE  /\ \A d \in Docs : indexed'[d].stamp = indexed[d].stamp /\ indexed'[d].text = indexed[d].text
           /\ indexer.doc \in Docs
           /\ \A d \in Docs : \/ indexed'[d] = indexed[d]
                              \/ /\ d = indexer.doc /\ indexed[d].text = indexer.text
                                 /\ indexed'[d].model = indexer.model /\ indexed'[d].of = indexer.vector
<1> DEFINE i == indexer
           e == [indexed[i.doc] EXCEPT !.model = i.model, !.of = i.vector]
<1>1. /\ IndexOK /\ Task /\ In("update") /\ i.at = "update"
      /\ indexed' = IF SameText THEN [indexed EXCEPT ![i.doc].model = i.model, ![i.doc].of = i.vector] ELSE indexed
  BY DEF Typed, UpdateChunk, In
<1>2. i.doc \in Docs /\ indexed \in [Docs -> Chunk]
  BY <1>1 DEF Task, IndexOK
<1>3. /\ e.stamp = indexed[i.doc].stamp /\ e.text = indexed[i.doc].text
      /\ e.model = i.model /\ e.of = i.vector
  BY <1>1, <1>2, IndexTypes DEF Chunk
<1>4. SameText => indexed' = [indexed EXCEPT ![i.doc] = e]
  BY <1>1, <1>2
<1> HIDE DEF e
<1> QED  BY <1>1, <1>2, <1>3, <1>4 DEF SameText

LEMMA TaskIndexer ==
    ASSUME Typed
    PROVE  /\ \A a : /\ [indexer EXCEPT !.at = a].at = a /\ [indexer EXCEPT !.at = a].stamp = indexer.stamp
           /\ indexer.stamp \in Nat /\ indexer.todo \subseteq Paths /\ indexer \in Indexer
BY IndexTypes DEF Typed, Indexer

LEMMA FilesTrueTask ==
    ASSUME Typed, FilesTrue, Indexing, Typed'
    PROVE  FilesTrue'
<1>1. indexer \in Indexer /\ IndexOK /\ DiskOK /\ DiskOK' /\ Task /\ Timed
  BY DEF Typed, IndexOK, FilesInv
<1>2. UNCHANGED <<diskVars, fileMix, tree, inodes, mtimes>> /\ Ids' = Ids
  <2>1. UNCHANGED <<diskVars, fileMix>>
    BY DEF Indexing, BeginIndexing, Pop, StatTree, Compare, OpenText, ReadText, StoreText, AppKnown, ReadInstance,
           StoreInstance, AskModel, Select, Embed, EmbedFails, UpdateChunk, In, requestVars, fileVars
  <2> QED  BY <2>1 DEF diskVars, Ids
<1> DEFINE Stored == \A p \in Paths : \/ indexed'[p].stamp = 0
                                      \/ indexed'[p].stamp = indexed[p].stamp /\ indexed'[p].text = indexed[p].text
           Held   == indexer'.stamp \in {0, indexer.stamp} /\ indexer'.at \notin {"text", "store"}
<1>3. Stored /\ Held => FilesTrue'
  BY <1>2, FilesStayTrue
<1>4. UNCHANGED storeVars => Stored
  BY DEF storeVars
<1>5. indexer' = Asleep => Held
  BY Constants
<1>6. indexed' = RowsDropped /\ storedDecl' = NoDecl => Stored
  BY <1>1, DroppedRows
<1> HIDE DEF Stored, Held
<1>7. CASE BeginIndexing
  <2>1. Stored
    BY <1>4, <1>6, <1>7 DEF BeginIndexing
  <2>2. Asleep \in Indexer /\ Asleep.stamp = 0
    BY Constants
  <2>3. indexer' = [Asleep EXCEPT !.at = "pop"] \/ indexer' = [Asleep EXCEPT !.at = "stat", !.scan = TRUE, !.under = Paths]
    BY <1>7 DEF BeginIndexing
  <2>4. Held
    BY <2>2, <2>3 DEF Indexer, Held
  <2> QED  BY <1>3, <2>1, <2>4
<1>8. CASE Pop
  <2>1. Stored
    BY <1>4, <1>8 DEF Pop
  <2>2. \/ \E p \in Paths : indexer' = [indexer EXCEPT !.at = "stat", !.scan = FALSE, !.under = {p}]
        \/ \E a \in {"app_known", "model", "select", "embed"} : indexer' = [indexer EXCEPT !.at = a]
    <3>1. CASE pending = {} /\ ~appPending
      BY <1>8, <3>1 DEF Pop, Goes
    <3>2. CASE ~(pending = {} /\ ~appPending)
      BY <1>8, <3>2 DEF Pop, Goes, Typed, FilesInv, QueueOK
    <3> QED  BY <3>1, <3>2
  <2>3. Held
    BY <1>1, <2>2 DEF Indexer, Held
  <2> QED  BY <1>3, <2>1, <2>3
<1>9. CASE StatTree
  <2>1. Stored
    BY <1>4, <1>9 DEF StatTree
  <2>2. PICK f : indexer' = [indexer EXCEPT !.at = "compare", !.found = f]
    BY <1>9 DEF StatTree, StatBut
  <2>3. Held
    BY <1>1, <2>2 DEF Indexer, Held
  <2> QED  BY <1>3, <2>1, <2>3
<1>10. CASE Compare
  <2>1. indexed' = [d \in Docs |-> IF d \in indexer.under /\ indexer.found[d] = 0 THEN Absent ELSE indexed[d]]
    BY <1>10 DEF Compare
  <2>2. Stored
    BY <2>1, Constants DEF Stored
  <2>3. PICK t, a : indexer' = [indexer EXCEPT !.at = AfterFile(t), !.todo = t, !.found = a]
    BY <1>10 DEF Compare
  <2>4. AfterFile(t) \in {"read", "app_known", "pop"}
    BY DEF AfterFile
  <2>5. Held
    BY <1>1, <2>3, <2>4 DEF Indexer, Held
  <2> QED  BY <1>3, <2>2, <2>5
<1>11. CASE OpenText
  <2> SUFFICES ASSUME "copy" \notin fileMix
               PROVE  FilesTrue'
    BY <1>2 DEF FilesTrue
  <2>1. UNCHANGED storeVars
    BY <1>11 DEF OpenText
  <2>2. PICK p \in indexer.todo :
          indexer' = [indexer EXCEPT !.at = IF There(p) THEN "text" ELSE "store", !.todo = @ \ {p}, !.doc = p,
                                     !.inode = tree[p], !.stamp = IF There(p) THEN File(p).mtime ELSE 0]
    BY <1>11 DEF OpenText
  <2>3. p \in Paths
    BY TaskIndexer
  <2>4. /\ indexer'.inode = tree[p] /\ indexer'.stamp = (IF There(p) THEN File(p).mtime ELSE 0)
        /\ indexer'.at = (IF There(p) THEN "text" ELSE "store")
    BY <1>1, <2>2 DEF Indexer
  <2>5. indexer'.at = "text" => indexer'.inode \in Ids' /\ \A i \in Ids' : inodes'[i].mtime = indexer'.stamp => i = indexer'.inode
    BY <1>1, <1>2, <2>3, <2>4, DiskTypes DEF There, File, Timed
  <2>6. indexer'.stamp <= mtimes'
    BY <1>1, <1>2, <2>3, <2>4, DiskTypes DEF There, File
  <2>7. indexer'.at = "store" => TextOf(indexer.stamp, indexer.text.text)'
    <3>1. indexer'.at = "store" => indexer'.stamp = 0
      BY <2>4
    <3>2. \A i \in Ids' : inodes'[i].mtime # 0
      BY <1>1, <1>2, DiskTypes
    <3> QED  BY <3>1, <3>2 DEF TextOf
  <2>8. ASSUME NEW x \in Paths
        PROVE  (indexed[x].stamp <= mtimes /\ TextOf(indexed[x].stamp, indexed[x].text.text))'
    BY <1>2, <2>1 DEF FilesTrue, TextOf, storeVars
  <2> QED  BY <2>5, <2>6, <2>7, <2>8 DEF FilesTrue
<1>12. CASE ReadText
  <2> SUFFICES ASSUME "copy" \notin fileMix
               PROVE  FilesTrue'
    BY <1>2 DEF FilesTrue
  <2> DEFINE t == [decl |-> NoDecl, text |-> inodes[indexer.inode].text]
  <2>1. UNCHANGED storeVars /\ indexer.at = "text" /\ indexer' = [indexer EXCEPT !.at = "store", !.inode = 0, !.text = t]
    BY <1>12 DEF ReadText, In
  <2>2. t.text = inodes[indexer.inode].text
    OBVIOUS
  <2> HIDE DEF t
  <2>3. indexer'.at = "store" /\ indexer'.stamp = indexer.stamp /\ indexer'.text = t
    BY <1>1, <2>1 DEF Indexer
  <2>4. TextOf(indexer.stamp, indexer.text.text)'
    BY <1>2, <2>1, <2>2, <2>3 DEF FilesTrue, TextOf
  <2>5. ASSUME NEW x \in Paths
        PROVE  (indexed[x].stamp <= mtimes /\ TextOf(indexed[x].stamp, indexed[x].text.text))'
    BY <1>2, <2>1 DEF FilesTrue, TextOf, storeVars
  <2>6. indexer'.stamp <= mtimes'
    BY <1>2, <2>3 DEF FilesTrue
  <2> QED  BY <2>3, <2>4, <2>5, <2>6 DEF FilesTrue
<1>13. CASE StoreText
  <2> SUFFICES ASSUME "copy" \notin fileMix
               PROVE  FilesTrue'
    BY <1>2 DEF FilesTrue
  <2> DEFINE i == indexer
             e == IF i.stamp = 0 THEN Absent ELSE Entry(i.doc, i.stamp, i.text)
             a == AfterFile(i.todo)
  <2>1. /\ indexed' = [indexed EXCEPT ![i.doc] = e] /\ i.at = "store"
        /\ i' = [i EXCEPT !.at = a, !.doc = NoPath, !.stamp = 0, !.text = NoText]
    BY <1>13 DEF StoreText, In
  <2>2. i.doc \in Paths /\ i.stamp \in Nat /\ i.text \in DocText /\ a \in {"read", "app_known", "pop"}
    BY <1>1, <2>1, IndexTypes DEF Task, AfterFile
  <2>3. e.stamp = 0 \/ (e.stamp = i.stamp /\ e.text = i.text)
    BY <1>1, <2>2, EntryType, Constants
  <2>4. i.doc \in Docs /\ indexed \in [Docs -> Chunk] /\ Paths \subseteq Docs
    BY <1>1, <2>2, Constants DEF IndexOK
  <2> HIDE DEF e, a
  <2>5. indexer'.stamp = 0 /\ indexer'.at = a
    BY <1>1, <2>1 DEF Indexer
  <2>6. \A x \in Paths : \/ indexed'[x] = indexed[x] \/ indexed'[x].stamp = 0
                         \/ indexed'[x].stamp = indexer.stamp /\ indexed'[x].text = indexer.text
    BY <2>1, <2>3, <2>4
  <2>7. ASSUME NEW x \in Paths
        PROVE  (indexed[x].stamp <= mtimes /\ TextOf(indexed[x].stamp, indexed[x].text.text))'
    <3>1. CASE indexed'[x] = indexed[x]
      BY <1>2, <3>1 DEF FilesTrue, TextOf
    <3>2. CASE indexed'[x].stamp = 0
      BY <1>1, <1>2, <3>2, DiskTypes DEF TextOf
    <3>3. CASE indexed'[x].stamp = indexer.stamp /\ indexed'[x].text = indexer.text
      BY <1>2, <2>1, <3>3 DEF FilesTrue, TextOf
    <3> QED  BY <2>6, <3>1, <3>2, <3>3
  <2>8. indexer'.stamp <= mtimes'
    BY <1>1, <2>5, DiskTypes, <1>2
  <2> QED  BY <2>2, <2>5, <2>7, <2>8 DEF FilesTrue
<1>14. CASE AppKnown
  <2>1. Stored
    BY <1>4, <1>6, <1>14 DEF AppKnown
  <2> DEFINE d == IF install.live THEN install.decl ELSE NoDecl
             a == IF d = NoDecl THEN "pop" ELSE "app_read"
  <2>2. indexer' = [indexer EXCEPT !.at = a, !.decl = d] /\ a \in {"pop", "app_read"}
    BY <1>14 DEF AppKnown
  <2> HIDE DEF a, d
  <2>3. Held
    BY <1>1, <2>2 DEF Indexer, Held
  <2> QED  BY <1>3, <2>1, <2>3
<1>15. CASE ReadInstance
  <2>1. Stored
    BY <1>4, <1>15 DEF ReadInstance
  <2>2. indexer' = [indexer EXCEPT !.at = "app_store", !.read = rows]
    BY <1>15 DEF ReadInstance
  <2>3. Held
    BY <1>1, <2>2 DEF Indexer, Held
  <2> QED  BY <1>3, <2>1, <2>3
<1>16. CASE StoreInstance
  <2>1. indexed' = [d \in Docs |-> IF d \in Rows THEN RowEntry(d) ELSE indexed[d]]
    BY <1>16 DEF StoreInstance
  <2>2. Stored
    BY <2>1, Constants DEF Stored
  <2>3. PICK x : indexer' = [indexer EXCEPT !.at = "pop", !.decl = NoDecl, !.read = x]
    BY <1>16 DEF StoreInstance
  <2>4. Held
    BY <1>1, <2>3 DEF Indexer, Held
  <2> QED  BY <1>3, <2>2, <2>4
<1>17. CASE AskModel
  <2>1. Stored
    BY <1>4, <1>17 DEF AskModel
  <2>2. indexer' = Asleep \/ \E m : indexer' = [indexer EXCEPT !.at = "select", !.embedding = TRUE, !.model = m]
    BY <1>17 DEF AskModel
  <2>3. Held
    BY <1>1, <1>5, <2>2 DEF Indexer, Held
  <2> QED  BY <1>3, <2>1, <2>3
<1>18. CASE Select
  <2>1. Stored
    BY <1>4, <1>18 DEF Select
  <2>2. indexer' = Asleep \/ \E b : indexer' = [indexer EXCEPT !.at = "embed", !.batch = b]
    BY <1>18 DEF Select
  <2>3. Held
    BY <1>1, <1>5, <2>2 DEF Indexer, Held
  <2> QED  BY <1>3, <2>1, <2>3
<1>19. CASE Embed
  <2>1. Stored
    BY <1>4, <1>19 DEF Embed
  <2> PICK b \in indexer.batch, m \in Believed :
           \E v \in {[text |-> b[2], model |-> served], NoVector} :
               indexer' = [indexer EXCEPT !.at = "update", !.batch = @ \ {b}, !.doc = b[1], !.text = b[2], !.vector = v]
    BY <1>19 DEF Embed
  <2>2. PICK v : indexer' = [indexer EXCEPT !.at = "update", !.batch = @ \ {b}, !.doc = b[1], !.text = b[2], !.vector = v]
    OBVIOUS
  <2>3. Held
    BY <1>1, <2>2 DEF Indexer, Held
  <2> QED  BY <1>3, <2>1, <2>3
<1>20. CASE EmbedFails
  BY <1>3, <1>4, <1>5, <1>20 DEF EmbedFails
<1>21. CASE UpdateChunk
  <2>1. Stored
    BY <1>21, ChunkUpdated, Constants DEF Stored
  <2>2. indexer' = [indexer EXCEPT !.at = "pop", !.doc = NoPath, !.text = NoText, !.vector = NoVector]
    BY <1>21 DEF UpdateChunk
  <2>3. Held
    BY <1>1, <2>2 DEF Indexer, Held
  <2> QED  BY <1>3, <2>1, <2>3
<1> QED
  BY <1>7, <1>8, <1>9, <1>10, <1>11, <1>12, <1>13, <1>14, <1>15, <1>16, <1>17, <1>18, <1>19, <1>20, <1>21 DEF Indexing

LEMMA MixStays ==
    ASSUME FileChange
    PROVE  fileMix' = fileMix
<1>1. ASSUME NEW c \in FileClients, AskFile(c)
      PROVE  fileMix' = fileMix
  <2>1. \A r : AskForFile(c, r) => fileMix' = fileMix
    BY DEF AskForFile, UsesFile
  <2> QED  BY <1>1, <2>1 DEF AskFile, OpenRead, DeleteFile, AskWrite, AskEdit, Upload, MoveFile, OpenCopy
<1>2. ASSUME NEW c \in FileClients, ServeFile(c) \/ AbortPut(c)
      PROVE  fileMix' = fileMix
  <2>1. \A s : FileStep(c, s) => fileMix' = fileMix
    BY DEF FileStep
  <2> QED  BY <1>2, <2>1 DEF ServeFile, AbortPut, FinishRead, TakeWriteLock, CheckVersion, TruncateFile, Fill, CopyText,
                             EndFileReq
<1> QED  BY <1>1, <1>2 DEF FileChange, RunCode, UsesFile

LEMMA FilesTrueNext ==
    ASSUME Typed, FilesTrue, SearchNext, Typed'
    PROVE  FilesTrue'
<1>1. IndexOK /\ DiskOK /\ DiskOK' /\ Task
  BY DEF Typed, FilesInv
<1>2. CASE FileChange
  <2>1. /\ UNCHANGED <<storeVars, indexer>> /\ (Renewed \/ "copy" \in fileMix) /\ Ids \subseteq Ids'
    BY <1>2, FileChangeTyped DEF FileChange
  <2>2. fileMix' = fileMix
    BY <1>2, MixStays
  <2> SUFFICES ASSUME "copy" \notin fileMix
               PROVE  FilesTrue'
    BY <2>2 DEF FilesTrue
  <2>3. mtimes \in Nat /\ mtimes' \in Nat /\ mtimes <= mtimes' /\ Renewed /\ UNCHANGED <<indexed, indexer>>
    BY <1>1, <2>1 DEF Renewed, DiskOK, storeVars
  <2>4. ASSUME NEW i \in Ids', ~(inodes'[i].mtime > mtimes)
        PROVE  i \in Ids /\ inodes'[i] = inodes[i]
    BY <2>3, <2>4 DEF Renewed
  <2>5. ASSUME NEW x \in Paths
        PROVE  (indexed[x].stamp <= mtimes /\ TextOf(indexed[x].stamp, indexed[x].text.text))'
    <3>1. indexed[x].stamp <= mtimes /\ indexed[x].stamp \in Nat
      BY <1>1, IndexTypes, Constants DEF FilesTrue
    <3>2. (TextOf(indexed[x].stamp, indexed[x].text.text))'
      BY <2>3, <2>4, <3>1 DEF FilesTrue, TextOf
    <3> QED  BY <2>3, <3>1, <3>2
  <2>6. indexer.stamp <= mtimes /\ indexer.stamp \in Nat
    BY <1>1, IndexTypes DEF FilesTrue
  <2>7. indexer'.at = "text" => /\ indexer'.inode \in Ids'
                                /\ \A i \in Ids' : inodes'[i].mtime = indexer'.stamp => i = indexer'.inode
    BY <2>1, <2>3, <2>4, <2>6 DEF FilesTrue
  <2>8. indexer'.at = "store" => TextOf(indexer.stamp, indexer.text.text)'
    BY <2>3, <2>4, <2>6 DEF FilesTrue, TextOf
  <2>9. indexer'.stamp <= mtimes'
    BY <2>3, <2>6
  <2> QED  BY <2>5, <2>7, <2>8, <2>9 DEF FilesTrue
<1>3. CASE Indexing
  BY <1>3, FilesTrueTask
<1>4. CASE IndexFails \/ AppChanges \/ TellIndex \/ SwapModel \/ SearchRestart
  <2>1. UNCHANGED <<diskVars, fileMix, storeVars>> /\ (UNCHANGED indexer \/ indexer' = Asleep)
    BY <1>4 DEF IndexFails, AppChanges, TellIndex, SwapModel, SearchRestart, UsesFile, requestVars, fileVars
  <2>2. \A p \in Paths : indexed'[p].stamp = indexed[p].stamp /\ indexed'[p].text = indexed[p].text
    BY <2>1 DEF storeVars
  <2>3. CASE indexer' = Asleep
    BY <2>1, <2>2, <2>3, FilesStayTrue, Constants
  <2>4. CASE UNCHANGED indexer
    <3>1. UNCHANGED <<inodes, mtimes, fileMix, indexed, indexer>> /\ Ids' = Ids
      BY <2>1, <2>4 DEF diskVars, storeVars, Ids
    <3> QED  BY <3>1 DEF FilesTrue, TextOf
  <2> QED  BY <2>1, <2>3, <2>4
<1>5. CASE ReadFails
  <2>1. /\ UNCHANGED <<diskVars, fileMix, indexed>> /\ indexer'.stamp \in {0, indexer.stamp}
        /\ \/ indexer'.at \in {"compare", "app_known", "pop"}
           \/ indexer'.at = "store" /\ indexer'.stamp = 0
    BY <1>5, ReadFailsStep DEF storeVars
  <2>2. CASE indexer'.at \in {"compare", "app_known", "pop"}
    BY <2>1, <2>2, FilesStayTrue
  <2>3. CASE indexer'.at = "store" /\ indexer'.stamp = 0
    <3>1. UNCHANGED <<inodes, mtimes, fileMix, indexed>> /\ Ids' = Ids /\ mtimes \in Nat
      BY <1>1, <2>1 DEF diskVars, Ids, DiskOK
    <3>2. \A i \in Ids : inodes[i].mtime # 0
      BY <1>1, DiskTypes
    <3>3. TextOf(indexer.stamp, indexer.text.text)'
      BY <2>3, <3>1, <3>2 DEF TextOf
    <3>4. "copy" \notin fileMix =>
             (\A x \in Paths : indexed[x].stamp <= mtimes /\ TextOf(indexed[x].stamp, indexed[x].text.text))'
      BY <3>1 DEF FilesTrue, TextOf
    <3>5. indexer'.stamp <= mtimes'
      BY <2>3, <3>1
    <3> QED  BY <2>3, <3>1, <3>3, <3>4, <3>5 DEF FilesTrue
  <2> QED  BY <2>1, <2>2, <2>3
<1> QED  BY <1>2, <1>3, <1>4, <1>5 DEF SearchNext

-----------------------------------------------------------------------------
(* The vectors that are ranked are true.                                   *)

\* A step that makes no vector keeps them so.
LEMMA VectorsStay ==
    ASSUME Typed, VectorsTrue, UNCHANGED served, label' <= served, indexer'.model <= served,
           indexer'.at # "update",
           \A d \in Docs : \/ indexed'[d].model = 0
                           \/ /\ indexed'[d].model = indexed[d].model /\ indexed'[d].of = indexed[d].of
                              /\ indexed'[d].text = indexed[d].text
    PROVE  VectorsTrue'
<1>1. served \in 1 .. 2 /\ served' = served
  BY DEF VectorsTrue
<1>2. ASSUME NEW d \in Docs
      PROVE  /\ indexed'[d].model <= served'
             /\ indexed'[d].model = served' /\ indexed'[d].of # NoVector
                => indexed'[d].of = [text |-> indexed'[d].text, model |-> served']
  BY <1>1 DEF VectorsTrue
<1> QED  BY <1>1, <1>2 DEF VectorsTrue

LEMMA VectorsTask ==
    ASSUME Typed, VectorsTrue, Indexing
    PROVE  VectorsTrue'
<1>1. /\ indexer \in Indexer /\ IndexOK /\ Task /\ served \in 1 .. 2 /\ label <= served /\ indexer.model <= served
      /\ label \in Nat /\ indexer.model \in Nat
  BY IndexTypes DEF Typed, IndexOK, VectorsTrue
<1> DEFINE Chunks == \A d \in Docs : \/ indexed'[d].model = 0
                                     \/ /\ indexed'[d].model = indexed[d].model /\ indexed'[d].of = indexed[d].of
                                        /\ indexed'[d].text = indexed[d].text
           Quiet == indexer'.model <= served /\ indexer'.at # "update"
<1>2. Chunks /\ Quiet /\ UNCHANGED <<served, label>> => VectorsTrue'
  BY <1>1, VectorsStay
<1>3. UNCHANGED storeVars => Chunks
  BY DEF storeVars
<1>4. indexer' = Asleep => Quiet
  BY <1>1, Constants
<1>5. indexed' = RowsDropped /\ storedDecl' = NoDecl => Chunks
  BY <1>1, DroppedRows, Constants DEF Docs
<1>6. Chunks /\ Quiet /\ UNCHANGED served /\ label' <= served => VectorsTrue'
  BY VectorsStay
<1> HIDE DEF Chunks, Quiet
<1>7. CASE BeginIndexing
  <2>1. Chunks
    BY <1>3, <1>5, <1>7 DEF BeginIndexing
  <2>2. Asleep \in Indexer /\ Asleep.model = 0
    BY Constants
  <2>3. indexer' = [Asleep EXCEPT !.at = "pop"] \/ indexer' = [Asleep EXCEPT !.at = "stat", !.scan = TRUE, !.under = Paths]
    BY <1>7 DEF BeginIndexing
  <2>4. Quiet
    <3>1. \A i \in Indexer : /\ [i EXCEPT !.at = "pop"].model = i.model /\ [i EXCEPT !.at = "pop"].at = "pop"
                             /\ [i EXCEPT !.at = "stat", !.scan = TRUE, !.under = Paths].model = i.model
                             /\ [i EXCEPT !.at = "stat", !.scan = TRUE, !.under = Paths].at = "stat"
      BY DEF Indexer
    <3>2. indexer'.model = 0 /\ indexer'.at \in {"pop", "stat"}
      BY <2>2, <2>3, <3>1
    <3> QED  BY <1>1, <3>2 DEF Quiet
  <2> QED  BY <1>2, <1>7, <2>1, <2>4 DEF BeginIndexing
<1>8. CASE Pop
  <2>1. Chunks
    BY <1>3, <1>8 DEF Pop
  <2>2. \/ \E p \in Paths : indexer' = [indexer EXCEPT !.at = "stat", !.scan = FALSE, !.under = {p}]
        \/ \E a \in {"app_known", "model", "select", "embed"} : indexer' = [indexer EXCEPT !.at = a]
    <3>1. CASE pending = {} /\ ~appPending
      BY <1>8, <3>1 DEF Pop, Goes
    <3>2. CASE ~(pending = {} /\ ~appPending)
      BY <1>8, <3>2 DEF Pop, Goes, Typed, FilesInv, QueueOK
    <3> QED  BY <3>1, <3>2
  <2>3. Quiet
    BY <1>1, <2>2 DEF Indexer, Quiet
  <2> QED  BY <1>2, <1>8, <2>1, <2>3 DEF Pop
<1>9. CASE StatTree
  <2>1. Chunks
    BY <1>3, <1>9 DEF StatTree
  <2>2. PICK f : indexer' = [indexer EXCEPT !.at = "compare", !.found = f]
    BY <1>9 DEF StatTree, StatBut
  <2>3. Quiet
    BY <1>1, <2>2 DEF Indexer, Quiet
  <2> QED  BY <1>2, <1>9, <2>1, <2>3 DEF StatTree, In
<1>10. CASE Compare
  <2>1. indexed' = [d \in Docs |-> IF d \in indexer.under /\ indexer.found[d] = 0 THEN Absent ELSE indexed[d]]
    BY <1>10 DEF Compare
  <2>2. Chunks
    BY <2>1, Constants DEF Chunks
  <2>3. PICK t, a : indexer' = [indexer EXCEPT !.at = AfterFile(t), !.todo = t, !.found = a]
    BY <1>10 DEF Compare
  <2>4. AfterFile(t) \in {"read", "app_known", "pop"}
    BY DEF AfterFile
  <2>5. Quiet
    BY <1>1, <2>3, <2>4 DEF Indexer, Quiet
  <2> QED  BY <1>2, <1>10, <2>2, <2>5 DEF Compare, In
<1>11. CASE OpenText
  <2>1. Chunks
    BY <1>3, <1>11 DEF OpenText
  <2> PICK p \in indexer.todo :
          indexer' = [indexer EXCEPT !.at = IF There(p) THEN "text" ELSE "store", !.todo = @ \ {p}, !.doc = p,
                                     !.inode = tree[p], !.stamp = IF There(p) THEN File(p).mtime ELSE 0]
    BY <1>11 DEF OpenText
  <2> DEFINE a == IF There(p) THEN "text" ELSE "store"
             m == IF There(p) THEN File(p).mtime ELSE 0
  <2>2. /\ indexer' = [indexer EXCEPT !.at = a, !.todo = @ \ {p}, !.doc = p, !.inode = tree[p], !.stamp = m]
        /\ a \in {"text", "store"}
    OBVIOUS
  <2> HIDE DEF a, m
  <2>3. Quiet
    BY <1>1, <2>2 DEF Indexer, Quiet
  <2> QED  BY <1>2, <1>11, <2>1, <2>3 DEF OpenText, In
<1>12. CASE ReadText
  <2>1. Chunks
    BY <1>3, <1>12 DEF ReadText
  <2>2. PICK t : indexer' = [indexer EXCEPT !.at = "store", !.inode = 0, !.text = t]
    BY <1>12 DEF ReadText
  <2>3. Quiet
    BY <1>1, <2>2 DEF Indexer, Quiet
  <2> QED  BY <1>2, <1>12, <2>1, <2>3 DEF ReadText, In
<1>13. CASE StoreText
  <2> DEFINE i == indexer
             e == IF i.stamp = 0 THEN Absent ELSE Entry(i.doc, i.stamp, i.text)
             a == AfterFile(i.todo)
  <2>1. /\ indexed' = [indexed EXCEPT ![i.doc] = e] /\ i.at = "store"
        /\ i' = [i EXCEPT !.at = a, !.doc = NoPath, !.stamp = 0, !.text = NoText]
    BY <1>13 DEF StoreText, In
  <2>2. i.doc \in Docs /\ i.stamp \in Nat /\ i.text \in DocText /\ a \in {"read", "app_known", "pop"}
        /\ indexed \in [Docs -> Chunk]
    BY <1>1, <2>1, IndexTypes, Constants DEF Task, AfterFile, IndexOK
  <2>3. e.model = 0 \/ (e.model = indexed[i.doc].model /\ e.of = indexed[i.doc].of /\ e.text = indexed[i.doc].text)
    BY <1>1, <2>2, EntryType, Constants
  <2> HIDE DEF e, a
  <2>4. Quiet
    BY <1>1, <2>1, <2>2 DEF Indexer, Quiet
  <2>5. Chunks
    BY <2>1, <2>2, <2>3 DEF Chunks
  <2> QED  BY <1>2, <1>13, <2>4, <2>5 DEF StoreText, In
<1>14. CASE AppKnown
  <2>1. Chunks
    BY <1>3, <1>5, <1>14 DEF AppKnown
  <2> DEFINE d == IF install.live THEN install.decl ELSE NoDecl
             a == IF d = NoDecl THEN "pop" ELSE "app_read"
  <2>2. indexer' = [indexer EXCEPT !.at = a, !.decl = d] /\ a \in {"pop", "app_read"}
    BY <1>14 DEF AppKnown
  <2> HIDE DEF a, d
  <2>3. Quiet
    BY <1>1, <2>2 DEF Indexer, Quiet
  <2> QED  BY <1>2, <1>14, <2>1, <2>3 DEF AppKnown, In
<1>15. CASE ReadInstance
  <2>1. Chunks
    BY <1>3, <1>15 DEF ReadInstance
  <2>2. indexer' = [indexer EXCEPT !.at = "app_store", !.read = rows]
    BY <1>15 DEF ReadInstance
  <2>3. Quiet
    BY <1>1, <2>2 DEF Indexer, Quiet
  <2> QED  BY <1>2, <1>15, <2>1, <2>3 DEF ReadInstance, In
<1>16. CASE StoreInstance
  <2>1. indexed' = [d \in Docs |-> IF d \in Rows THEN RowEntry(d) ELSE indexed[d]]
    BY <1>16 DEF StoreInstance
  <2>2. ASSUME NEW r \in Rows
        PROVE  \/ RowEntry(r).model = 0
               \/ /\ RowEntry(r).model = indexed[r].model /\ RowEntry(r).of = indexed[r].of
                  /\ RowEntry(r).text = indexed[r].text
    <3> DEFINE t == [decl |-> indexer.decl, text |-> indexer.read[r].text]
    <3>1. t \in DocText /\ indexer.read[r].stamp \in Nat /\ r \in Docs
      BY <1>1, IndexTypes, Constants DEF DocText
    <3> HIDE DEF t
    <3>2. \/ /\ indexed[r].text = t /\ Entry(r, indexer.read[r].stamp, t).model = indexed[r].model
             /\ Entry(r, indexer.read[r].stamp, t).of = indexed[r].of
          \/ Entry(r, indexer.read[r].stamp, t).model = 0
      BY <1>1, <3>1, EntryType
    <3>3. Entry(r, indexer.read[r].stamp, t).text = t
      BY <1>1, <3>1, EntryType
    <3> QED  BY <3>2, <3>3, Constants DEF RowEntry, t
  <2>3. Chunks
    BY <2>1, <2>2 DEF Chunks
  <2>4. PICK x : indexer' = [indexer EXCEPT !.at = "pop", !.decl = NoDecl, !.read = x]
    BY <1>16 DEF StoreInstance
  <2>5. Quiet
    BY <1>1, <2>4 DEF Indexer, Quiet
  <2> QED  BY <1>2, <1>16, <2>3, <2>5 DEF StoreInstance, In
<1>17. CASE AskModel
  <2>1. Chunks
    BY <1>3, <1>17 DEF AskModel
  <2>2. CASE indexer' = Asleep /\ UNCHANGED label
    BY <1>2, <1>4, <1>17, <2>1, <2>2 DEF AskModel, In
  <2>3. ASSUME NEW m \in Believed, label' = m,
               indexer' = [indexer EXCEPT !.at = "select", !.embedding = TRUE, !.model = m]
        PROVE  VectorsTrue'
    <3>1. m <= served
      BY <1>1 DEF Believed
    <3>2. Quiet
      BY <1>1, <2>3, <3>1 DEF Indexer, Quiet
    <3> QED  BY <1>6, <1>17, <2>1, <2>3, <3>1, <3>2 DEF AskModel, In
  <2> QED  BY <1>17, <2>2, <2>3 DEF AskModel
<1>18. CASE Select
  <2>1. Chunks
    BY <1>3, <1>18 DEF Select
  <2>2. indexer' = Asleep \/ \E b : indexer' = [indexer EXCEPT !.at = "embed", !.batch = b]
    BY <1>18 DEF Select
  <2>3. Quiet
    BY <1>1, <1>4, <2>2 DEF Indexer, Quiet
  <2> QED  BY <1>2, <1>18, <2>1, <2>3 DEF Select, In
<1>19. CASE Embed
  <2> PICK b \in indexer.batch, m \in Believed :
           /\ label' = m
           /\ \E v \in {[text |-> b[2], model |-> served], NoVector} :
               indexer' = [indexer EXCEPT !.at = "update", !.batch = @ \ {b}, !.doc = b[1], !.text = b[2], !.vector = v]
    BY <1>19 DEF Embed
  <2>1. PICK v \in {[text |-> b[2], model |-> served], NoVector} :
             indexer' = [indexer EXCEPT !.at = "update", !.batch = @ \ {b}, !.doc = b[1], !.text = b[2], !.vector = v]
    OBVIOUS
  <2>2. m <= served /\ UNCHANGED <<indexed, served>>
    BY <1>1, <1>19 DEF Believed, Embed, In, storeVars
  <2>3. v # NoVector => v.text = b[2] /\ v.model = served
    OBVIOUS
  <2>4. /\ indexer'.model = indexer.model /\ indexer'.vector = v /\ indexer'.text = b[2]
    BY <1>1, <2>1 DEF Indexer
  <2> QED  BY <1>1, <2>2, <2>3, <2>4 DEF VectorsTrue
<1>20. CASE EmbedFails
  BY <1>2, <1>3, <1>4, <1>20 DEF EmbedFails, In
<1>21. CASE UpdateChunk
  <2>1. /\ \A d \in Docs : indexed'[d].stamp = indexed[d].stamp /\ indexed'[d].text = indexed[d].text
        /\ \A d \in Docs : \/ indexed'[d] = indexed[d]
                           \/ /\ d = indexer.doc /\ indexed[d].text = indexer.text
                              /\ indexed'[d].model = indexer.model /\ indexed'[d].of = indexer.vector
    BY <1>21, ChunkUpdated
  <2>2. indexer.at = "update" /\ UNCHANGED <<served, label>> /\ indexer.vector \in Vector
    BY <1>1, <1>21, IndexTypes DEF UpdateChunk, In
  <2>3. indexer' = [indexer EXCEPT !.at = "pop", !.doc = NoPath, !.text = NoText, !.vector = NoVector]
    BY <1>21 DEF UpdateChunk
  <2>4. indexer'.model = indexer.model /\ indexer'.at = "pop"
    BY <1>1, <2>3 DEF Indexer
  <2>5. indexer.vector = [text |-> indexer.vector.text, model |-> indexer.vector.model]
    BY <2>2 DEF Vector
  <2>6. ASSUME NEW d \in Docs
        PROVE  /\ indexed'[d].model <= served'
               /\ indexed'[d].model = served' /\ indexed'[d].of # NoVector
                  => indexed'[d].of = [text |-> indexed'[d].text, model |-> served']
    <3>1. CASE indexed'[d] = indexed[d]
      BY <2>2, <3>1 DEF VectorsTrue
    <3>2. CASE /\ d = indexer.doc /\ indexed[d].text = indexer.text
               /\ indexed'[d].model = indexer.model /\ indexed'[d].of = indexer.vector
      BY <1>1, <2>1, <2>2, <2>5, <3>2 DEF VectorsTrue
    <3> QED  BY <2>1, <3>1, <3>2
  <2> QED  BY <1>1, <2>2, <2>4, <2>6 DEF VectorsTrue
<1> QED
  BY <1>7, <1>8, <1>9, <1>10, <1>11, <1>12, <1>13, <1>14, <1>15, <1>16, <1>17, <1>18, <1>19, <1>20, <1>21 DEF Indexing

LEMMA VectorsTrueNext ==
    ASSUME Typed, VectorsTrue, SearchNext
    PROVE  VectorsTrue'
<1>1. /\ IndexOK /\ served \in 1 .. 2 /\ label <= served /\ indexer.model <= served /\ label \in Nat /\ indexer.model \in Nat
      /\ \A d \in Docs : indexed[d].model \in Nat /\ indexed[d].model <= served
  <2>1. IndexOK /\ label \in Nat
    BY DEF Typed, IndexOK
  <2>2. indexer.model \in 0 .. 2 /\ \A d \in Docs : indexed[d].model \in 0 .. 2
    BY <2>1, IndexTypes
  <2>3. indexer.model \in Nat /\ \A d \in Docs : indexed[d].model \in Nat
    BY <2>2
  <2>4. served \in 1 .. 2 /\ label <= served /\ indexer.model <= served /\ \A d \in Docs : indexed[d].model <= served
    BY DEF VectorsTrue
  <2> QED  BY <2>1, <2>3, <2>4
<1>2. CASE FileChange \/ AppChanges \/ TellIndex
  <2>1. UNCHANGED <<indexed, indexer, served, label>>
    BY <1>2 DEF FileChange, AppChanges, TellIndex, storeVars
  <2> QED  BY <2>1 DEF VectorsTrue
<1>3. CASE Indexing
  BY <1>3, VectorsTask
<1>4. CASE IndexFails \/ SearchRestart
  <2>1. UNCHANGED <<indexed, served>> /\ indexer' = Asleep /\ label' \in {0, label}
    BY <1>4 DEF IndexFails, SearchRestart, storeVars
  <2> QED  BY <1>1, <2>1, VectorsStay, Constants
<1>6. CASE ReadFails
  <2>1. UNCHANGED <<indexed, served, label>> /\ indexer'.model = indexer.model /\ indexer'.at # "update"
    BY <1>6, ReadFailsStep DEF storeVars
  <2> QED  BY <1>1, <2>1, VectorsStay
<1>5. CASE SwapModel
  <2>1. UNCHANGED <<indexed, indexer, label>> /\ served' = served + 1 /\ served <= MaxSwaps
    BY <1>5 DEF SwapModel, storeVars
  <2>2. served' \in 1 .. 2
    BY <1>1, <2>1, SearchAssumption
  <2>3. indexer.model < served' /\ label <= served' /\ \A d \in Docs : indexed[d].model < served'
    BY <1>1, <2>1
  <2>4. indexer'.at = "update" /\ indexer'.vector # NoVector => indexer'.vector.text = indexer'.text
    BY <2>1 DEF VectorsTrue
  <2>5. indexer.model # served' /\ \A d \in Docs : indexed[d].model # served' /\ indexed[d].model <= served'
    BY <1>1, <2>1
  <2>6. indexer'.model <= served'
    BY <1>1, <2>1
  <2> QED  BY <2>1, <2>2, <2>3, <2>4, <2>5, <2>6 DEF VectorsTrue
<1> QED  BY <1>2, <1>3, <1>4, <1>5, <1>6 DEF SearchNext

-----------------------------------------------------------------------------
(* What the index has of rows is true.                                     *)

\* A time that is past stays so.
LEMMA PastStays ==
    ASSUME NEW l \in Nat, NEW m \in Nat, m <= l, NEW s \in Nat, s = 0 \/ s + l <= MaxIndexed
    PROVE  s = 0 \/ s + m <= MaxIndexed
BY FilesAssumption

\* A step that neither reads nor stores nor changes rows leaves what is known of them true.
LEMMA RowsStay ==
    ASSUME Typed, Typed', RowsTrue, UNCHANGED rows, filesLeft' <= filesLeft,
           \A r \in Rows : \/ indexed'[r].stamp = 0
                           \/ /\ indexed'[r].stamp = indexed[r].stamp /\ indexed'[r].text = indexed[r].text
                              /\ storedDecl' = storedDecl,
           \A r \in Rows : indexer'.read[r].stamp \in {0, indexer.read[r].stamp},
           indexer'.at \notin {"app_read", "app_store"}
    PROVE  RowsTrue'
<1>1. /\ filesLeft \in Nat /\ filesLeft' \in Nat
      /\ \A r \in Rows : rows[r].stamp \in Nat /\ indexed[r].stamp \in Nat /\ indexer.read[r].stamp \in Nat
  BY IndexTypes, Constants DEF Typed, FilesInv, QueueOK, IndexOK
<1>2. ASSUME NEW r \in Rows
      PROVE  /\ Past(rows[r].stamp)' /\ Past(indexed[r].stamp)' /\ Past(indexer.read[r].stamp)'
  <2>1. Past(rows[r].stamp) /\ Past(indexed[r].stamp) /\ Past(indexer.read[r].stamp)
    BY DEF RowsTrue
  <2>2. rows'[r].stamp = 0 \/ rows'[r].stamp + filesLeft' <= MaxIndexed
    BY <1>1, <2>1, PastStays DEF Past
  <2>3. indexed'[r].stamp = 0 \/ indexed'[r].stamp + filesLeft' <= MaxIndexed
    BY <1>1, <2>1, PastStays DEF Past
  <2>4. indexer'.read[r].stamp = 0 \/ indexer'.read[r].stamp + filesLeft' <= MaxIndexed
    BY <1>1, <2>1, PastStays DEF Past
  <2> QED  BY <2>2, <2>3, <2>4 DEF Past
<1>3. ASSUME NEW r \in Rows
      PROVE  /\ indexed'[r].stamp # 0 => indexed'[r].text.decl = storedDecl'
             /\ rows'[r].stamp # 0 /\ indexed'[r].stamp = rows'[r].stamp => indexed'[r].text.text = rows'[r].text
  BY DEF RowsTrue
<1> QED  BY <1>2, <1>3 DEF RowsTrue

LEMMA RowsTask ==
    ASSUME Typed, Typed', RowsTrue, Indexing
    PROVE  RowsTrue'
<1>1. /\ indexer \in Indexer /\ IndexOK /\ Task /\ filesLeft \in Nat
      /\ \A r \in Rows : /\ rows[r].stamp \in Nat /\ indexed[r].stamp \in Nat /\ indexer.read[r].stamp \in Nat
                         /\ rows[r].text \in FileText
      /\ rows \in [Rows -> [text : FileText, stamp : Nat]]
  BY IndexTypes, Constants DEF Typed, FilesInv, QueueOK, IndexOK
<1>2. UNCHANGED <<rows, filesLeft>>
  BY DEF Indexing, BeginIndexing, Pop, StatTree, Compare, OpenText, ReadText, StoreText, AppKnown, ReadInstance,
         StoreInstance, AskModel, Select, Embed, EmbedFails, UpdateChunk, In, requestVars, fileVars, appVars
<1> DEFINE Stored == \A r \in Rows : \/ indexed'[r].stamp = 0
                                     \/ /\ indexed'[r].stamp = indexed[r].stamp /\ indexed'[r].text = indexed[r].text
                                        /\ storedDecl' = storedDecl
           Held == /\ \A r \in Rows : indexer'.read[r].stamp \in {0, indexer.read[r].stamp}
                   /\ indexer'.at \notin {"app_read", "app_store"}
<1>3. Stored /\ Held => RowsTrue'
  BY <1>1, <1>2, RowsStay
<1>4. UNCHANGED storeVars => Stored
  BY DEF storeVars
<1>5. indexer' = Asleep => Held
  BY Constants
<1>6. indexed' = RowsDropped /\ storedDecl' = NoDecl => Stored
  BY <1>1, DroppedRows, Constants
<1> HIDE DEF Stored, Held
<1>7. CASE BeginIndexing
  <2>1. Stored
    BY <1>4, <1>6, <1>7 DEF BeginIndexing
  <2>2. Asleep \in Indexer /\ \A r \in Rows : Asleep.read[r].stamp = 0
    BY Constants
  <2>3. indexer' = [Asleep EXCEPT !.at = "pop"] \/ indexer' = [Asleep EXCEPT !.at = "stat", !.scan = TRUE, !.under = Paths]
    BY <1>7 DEF BeginIndexing
  <2>4. \A i \in Indexer : /\ [i EXCEPT !.at = "pop"].read = i.read /\ [i EXCEPT !.at = "pop"].at = "pop"
                           /\ [i EXCEPT !.at = "stat", !.scan = TRUE, !.under = Paths].read = i.read
                           /\ [i EXCEPT !.at = "stat", !.scan = TRUE, !.under = Paths].at = "stat"
    BY DEF Indexer
  <2>5. indexer'.read = Asleep.read /\ indexer'.at \in {"pop", "stat"}
    BY <2>2, <2>3, <2>4
  <2> QED  BY <1>3, <2>1, <2>2, <2>5 DEF Held
<1>8. CASE Pop
  <2>1. Stored
    BY <1>4, <1>8 DEF Pop
  <2>2. CASE \E a \in {"model", "select", "embed"} : indexer' = [indexer EXCEPT !.at = a]
    <3>1. Held
      BY <1>1, <2>2 DEF Indexer, Held
    <3> QED  BY <1>3, <2>1, <3>1
  <2>3. CASE \E p \in Paths : indexer' = [indexer EXCEPT !.at = "stat", !.scan = FALSE, !.under = {p}]
    <3>1. Held
      BY <1>1, <2>3 DEF Indexer, Held
    <3> QED  BY <1>3, <2>1, <3>1
  <2>4. CASE indexer' = [indexer EXCEPT !.at = "app_known"]
    <3>1. Held
      BY <1>1, <2>4 DEF Indexer, Held
    <3> QED  BY <1>3, <2>1, <3>1
  <2>5. CASE pending = {} /\ ~appPending
    BY <1>8, <2>2, <2>5 DEF Pop, Goes
  <2>6. CASE ~(pending = {} /\ ~appPending)
    BY <1>8, <2>3, <2>4, <2>6 DEF Pop, Goes, Typed, FilesInv, QueueOK
  <2> QED  BY <2>5, <2>6
<1>9. CASE StatTree
  <2>1. Stored
    BY <1>4, <1>9 DEF StatTree
  <2>2. PICK f : indexer' = [indexer EXCEPT !.at = "compare", !.found = f]
    BY <1>9 DEF StatTree, StatBut
  <2>3. Held
    BY <1>1, <2>2 DEF Indexer, Held
  <2> QED  BY <1>3, <2>1, <2>3
<1>10. CASE Compare
  <2>1. /\ indexed' = [d \in Docs |-> IF d \in indexer.under /\ indexer.found[d] = 0 THEN Absent ELSE indexed[d]]
        /\ storedDecl' = storedDecl
    BY <1>10 DEF Compare
  <2>2. Stored
    BY <2>1, Constants DEF Stored
  <2>3. PICK t, a : indexer' = [indexer EXCEPT !.at = AfterFile(t), !.todo = t, !.found = a]
    BY <1>10 DEF Compare
  <2>4. AfterFile(t) \in {"read", "app_known", "pop"}
    BY DEF AfterFile
  <2>5. Held
    BY <1>1, <2>3, <2>4 DEF Indexer, Held
  <2> QED  BY <1>3, <2>2, <2>5
<1>11. CASE OpenText
  <2>1. Stored
    BY <1>4, <1>11 DEF OpenText
  <2> PICK p \in indexer.todo :
          indexer' = [indexer EXCEPT !.at = IF There(p) THEN "text" ELSE "store", !.todo = @ \ {p}, !.doc = p,
                                     !.inode = tree[p], !.stamp = IF There(p) THEN File(p).mtime ELSE 0]
    BY <1>11 DEF OpenText
  <2> DEFINE a == IF There(p) THEN "text" ELSE "store"
             m == IF There(p) THEN File(p).mtime ELSE 0
  <2>2. /\ indexer' = [indexer EXCEPT !.at = a, !.todo = @ \ {p}, !.doc = p, !.inode = tree[p], !.stamp = m]
        /\ a \in {"text", "store"}
    OBVIOUS
  <2> HIDE DEF a, m
  <2>3. Held
    BY <1>1, <2>2 DEF Indexer, Held
  <2> QED  BY <1>3, <2>1, <2>3
<1>12. CASE ReadText
  <2>1. Stored
    BY <1>4, <1>12 DEF ReadText
  <2>2. PICK t : indexer' = [indexer EXCEPT !.at = "store", !.inode = 0, !.text = t]
    BY <1>12 DEF ReadText
  <2>3. Held
    BY <1>1, <2>2 DEF Indexer, Held
  <2> QED  BY <1>3, <2>1, <2>3
<1>13. CASE StoreText
  <2> DEFINE i == indexer
             e == IF i.stamp = 0 THEN Absent ELSE Entry(i.doc, i.stamp, i.text)
             a == AfterFile(i.todo)
  <2>1. /\ indexed' = [indexed EXCEPT ![i.doc] = e] /\ i.at = "store" /\ storedDecl' = storedDecl
        /\ i' = [i EXCEPT !.at = a, !.doc = NoPath, !.stamp = 0, !.text = NoText]
    BY <1>13 DEF StoreText, In
  <2>2. i.doc \in Paths /\ a \in {"read", "app_known", "pop"} /\ indexed \in [Docs -> Chunk]
        /\ Rows \subseteq Docs /\ Paths \intersect Rows = {}
    BY <1>1, <2>1, Constants DEF Task, AfterFile, IndexOK
  <2> HIDE DEF e, a
  <2>3. Held
    BY <1>1, <2>1, <2>2 DEF Indexer, Held
  <2>4. Stored
    BY <2>1, <2>2 DEF Stored
  <2> QED  BY <1>3, <2>3, <2>4
<1>14. CASE AppKnown
  <2>1. Stored
    BY <1>4, <1>6, <1>14 DEF AppKnown
  <2> DEFINE d == IF install.live THEN install.decl ELSE NoDecl
             a == IF d = NoDecl THEN "pop" ELSE "app_read"
  <2>2. /\ indexer' = [indexer EXCEPT !.at = a, !.decl = d] /\ a \in {"pop", "app_read"}
        /\ (storedDecl' = NoDecl \/ storedDecl' = d)
    BY <1>14 DEF AppKnown, storeVars
  <2> HIDE DEF a, d
  <2>3. indexer'.at = a /\ indexer'.decl = d /\ indexer'.read = indexer.read
    BY <1>1, <2>2 DEF Indexer
  <2>4. ASSUME NEW r \in Rows
        PROVE  /\ Past(rows[r].stamp)' /\ Past(indexed[r].stamp)' /\ Past(indexer.read[r].stamp)'
               /\ indexed'[r].stamp # 0 => indexed'[r].text.decl = storedDecl'
               /\ rows'[r].stamp # 0 /\ indexed'[r].stamp = rows'[r].stamp => indexed'[r].text.text = rows'[r].text
    BY <1>2, <2>1, <2>3 DEF Stored, RowsTrue, Past
  <2> QED  BY <2>2, <2>3, <2>4 DEF RowsTrue
<1>15. CASE ReadInstance
  <2>1. UNCHANGED <<indexed, storedDecl>> /\ indexer.at = "app_read"
        /\ indexer' = [indexer EXCEPT !.at = "app_store", !.read = rows]
    BY <1>15 DEF ReadInstance, storeVars, In
  <2>2. indexer'.at = "app_store" /\ indexer'.decl = indexer.decl /\ indexer'.read = rows
    BY <1>1, <2>1 DEF Indexer
  <2> QED  BY <1>2, <2>1, <2>2 DEF RowsTrue, Past
<1>16. CASE StoreInstance
  <2>1. /\ indexed' = [d \in Docs |-> IF d \in Rows THEN RowEntry(d) ELSE indexed[d]] /\ storedDecl' = indexer.decl
        /\ indexer' = [indexer EXCEPT !.at = "pop", !.decl = NoDecl, !.read = NoRows] /\ indexer.at = "app_store"
    BY <1>16 DEF StoreInstance, In
  <2>2. indexer'.at = "pop" /\ indexer'.read = NoRows
    <3> HIDE DEF NoRows
    <3> QED  BY <1>1, <2>1 DEF Indexer
  <2>3. ASSUME NEW r \in Rows
        PROVE  /\ Past(rows[r].stamp)' /\ Past(indexed[r].stamp)' /\ Past(indexer.read[r].stamp)'
               /\ indexed'[r].stamp # 0 => indexed'[r].text.decl = storedDecl'
               /\ rows'[r].stamp # 0 /\ indexed'[r].stamp = rows'[r].stamp => indexed'[r].text.text = rows'[r].text
    <3> DEFINE new == indexer.read[r]
               t == [decl |-> indexer.decl, text |-> new.text]
               e == Entry(r, new.stamp, t)
    <3>1. t \in DocText /\ new.stamp \in Nat /\ r \in Docs
      BY <1>1, IndexTypes, Constants DEF DocText
    <3>2. t.decl = indexer.decl /\ t.text = new.text
      OBVIOUS
    <3> HIDE DEF t
    <3>3. e.stamp = new.stamp /\ e.text = t
      BY <1>1, <3>1, EntryType
    <3>4. indexed'[r] = IF new.stamp = 0 THEN Absent ELSE IF new.stamp = indexed[r].stamp THEN indexed[r] ELSE e
      BY <2>1, <3>1 DEF RowEntry, t
    <3> HIDE DEF e, new
    <3>5. /\ Past(rows[r].stamp) /\ Past(indexed[r].stamp) /\ Past(new.stamp)
          /\ indexed[r].stamp # 0 => indexed[r].text.decl = storedDecl /\ storedDecl # NoDecl
          /\ rows[r].stamp # 0 /\ indexed[r].stamp = rows[r].stamp => indexed[r].text.text = rows[r].text
          /\ rows[r].stamp # 0 /\ new.stamp = rows[r].stamp => new.text = rows[r].text
          /\ storedDecl \in {indexer.decl, NoDecl}
      BY <1>1, <2>1 DEF RowsTrue, IndexOK, new
    <3>6. CASE new.stamp = 0
      <4>1. indexed'[r].stamp = 0
        BY <3>4, <3>6, Constants
      <4> QED  BY <1>2, <2>2, <3>5, <4>1, Constants DEF Past
    <3>7. CASE new.stamp # 0 /\ new.stamp = indexed[r].stamp
      <4>1. indexed'[r] = indexed[r] /\ storedDecl' = storedDecl
        BY <2>1, <3>4, <3>5, <3>7
      <4> QED  BY <1>2, <2>2, <3>5, <4>1, Constants DEF Past
    <3>8. CASE new.stamp # 0 /\ new.stamp # indexed[r].stamp
      <4>1. indexed'[r] = e
        BY <3>4, <3>8
      <4> QED  BY <1>2, <2>1, <2>2, <3>2, <3>3, <3>5, <4>1, Constants DEF Past
    <3> QED  BY <3>6, <3>7, <3>8
  <2> QED  BY <2>2, <2>3 DEF RowsTrue
<1>17. CASE AskModel
  <2>1. Stored
    BY <1>4, <1>17 DEF AskModel
  <2>2. indexer' = Asleep \/ \E m : indexer' = [indexer EXCEPT !.at = "select", !.embedding = TRUE, !.model = m]
    BY <1>17 DEF AskModel
  <2>3. Held
    BY <1>1, <1>5, <2>2 DEF Indexer, Held
  <2> QED  BY <1>3, <2>1, <2>3
<1>18. CASE Select
  <2>1. Stored
    BY <1>4, <1>18 DEF Select
  <2>2. indexer' = Asleep \/ \E b : indexer' = [indexer EXCEPT !.at = "embed", !.batch = b]
    BY <1>18 DEF Select
  <2>3. Held
    BY <1>1, <1>5, <2>2 DEF Indexer, Held
  <2> QED  BY <1>3, <2>1, <2>3
<1>19. CASE Embed
  <2>1. Stored
    BY <1>4, <1>19 DEF Embed
  <2> PICK b \in indexer.batch, m \in Believed :
           \E v \in {[text |-> b[2], model |-> served], NoVector} :
               indexer' = [indexer EXCEPT !.at = "update", !.batch = @ \ {b}, !.doc = b[1], !.text = b[2], !.vector = v]
    BY <1>19 DEF Embed
  <2>2. PICK v : indexer' = [indexer EXCEPT !.at = "update", !.batch = @ \ {b}, !.doc = b[1], !.text = b[2], !.vector = v]
    OBVIOUS
  <2>3. Held
    BY <1>1, <2>2 DEF Indexer, Held
  <2> QED  BY <1>3, <2>1, <2>3
<1>20. CASE EmbedFails
  BY <1>3, <1>4, <1>5, <1>20 DEF EmbedFails
<1>21. CASE UpdateChunk
  <2>1. Stored
    BY <1>21, ChunkUpdated, Constants DEF Stored, UpdateChunk
  <2>2. indexer' = [indexer EXCEPT !.at = "pop", !.doc = NoPath, !.text = NoText, !.vector = NoVector]
    BY <1>21 DEF UpdateChunk
  <2>3. Held
    BY <1>1, <2>2 DEF Indexer, Held
  <2> QED  BY <1>3, <2>1, <2>3
<1> QED
  BY <1>7, <1>8, <1>9, <1>10, <1>11, <1>12, <1>13, <1>14, <1>15, <1>16, <1>17, <1>18, <1>19, <1>20, <1>21 DEF Indexing

\* Steps that leave the index and its task alone, but may use up an event.
LEMMA RowsWait ==
    ASSUME Typed, Typed', RowsTrue, UNCHANGED <<rows, indexed, storedDecl, indexer>>, filesLeft' <= filesLeft
    PROVE  RowsTrue'
<1>1. /\ filesLeft \in Nat /\ filesLeft' \in Nat
      /\ \A r \in Rows : rows[r].stamp \in Nat /\ indexed[r].stamp \in Nat /\ indexer.read[r].stamp \in Nat
  BY IndexTypes, Constants DEF Typed, FilesInv, QueueOK, IndexOK
<1>2. ASSUME NEW r \in Rows
      PROVE  /\ Past(rows[r].stamp)' /\ Past(indexed[r].stamp)' /\ Past(indexer.read[r].stamp)'
  <2>1. Past(rows[r].stamp) /\ Past(indexed[r].stamp) /\ Past(indexer.read[r].stamp)
    BY DEF RowsTrue
  <2>2. rows[r].stamp = 0 \/ rows[r].stamp + filesLeft' <= MaxIndexed
    BY <1>1, <2>1, PastStays DEF Past
  <2>3. indexed[r].stamp = 0 \/ indexed[r].stamp + filesLeft' <= MaxIndexed
    BY <1>1, <2>1, PastStays DEF Past
  <2>4. indexer.read[r].stamp = 0 \/ indexer.read[r].stamp + filesLeft' <= MaxIndexed
    BY <1>1, <2>1, PastStays DEF Past
  <2> QED  BY <2>2, <2>3, <2>4 DEF Past
<1> QED  BY <1>2 DEF RowsTrue

LEMMA LeftFalls ==
    ASSUME Typed, FileChange
    PROVE  filesLeft' <= filesLeft
<1>0. filesLeft \in Nat
  BY DEF Typed, FilesInv, QueueOK
<1>1. ASSUME NEW c \in FileClients, AskFile(c)
      PROVE  filesLeft' <= filesLeft
  <2>1. \A r : AskForFile(c, r) => filesLeft' <= filesLeft
    BY <1>0 DEF AskForFile, UsesFile
  <2> QED  BY <1>1, <2>1 DEF AskFile, OpenRead, DeleteFile, AskWrite, AskEdit, Upload, MoveFile, OpenCopy
<1>2. ASSUME NEW c \in FileClients, ServeFile(c) \/ AbortPut(c)
      PROVE  filesLeft' <= filesLeft
  <2>1. \A s : FileStep(c, s) => filesLeft' <= filesLeft
    BY <1>0 DEF FileStep
  <2> QED  BY <1>2, <2>1 DEF ServeFile, AbortPut, FinishRead, TakeWriteLock, CheckVersion, TruncateFile, Fill, CopyText,
                             EndFileReq
<1>3. ASSUME NEW p \in Paths, NEW t \in Texts, RunCode(p, t)
      PROVE  filesLeft' <= filesLeft
  BY <1>0, <1>3 DEF RunCode, UsesFile
<1> QED  BY <1>1, <1>2, <1>3 DEF FileChange

LEMMA RowsTrueNext ==
    ASSUME Typed, Typed', RowsTrue, SearchNext
    PROVE  RowsTrue'
<1>1. /\ IndexOK /\ filesLeft \in Nat /\ filesLeft' \in Nat /\ MaxIndexed \in Nat
      /\ \A r \in Rows : rows[r].stamp \in Nat /\ indexed[r].stamp \in Nat /\ indexer.read[r].stamp \in Nat
      /\ rows \in [Rows -> [text : FileText, stamp : Nat]]
  BY IndexTypes, Constants, FilesAssumption DEF Typed, FilesInv, QueueOK, IndexOK
<1>2. CASE FileChange
  <2>1. UNCHANGED <<rows, indexed, storedDecl, indexer>>
    BY <1>2 DEF FileChange, appVars, storeVars
  <2> QED  BY <1>2, <2>1, LeftFalls, RowsWait
<1>3. CASE Indexing
  BY <1>3, RowsTask
<1>4. CASE IndexFails \/ SearchRestart
  <2>1. /\ UNCHANGED <<rows, indexed, storedDecl>> /\ indexer' = Asleep /\ filesLeft' <= filesLeft
    BY <1>1, <1>4 DEF IndexFails, SearchRestart, storeVars, appVars, UsesFile
  <2> QED  BY <2>1, RowsStay, Constants
<1>7. CASE ReadFails
  <2>1. /\ UNCHANGED <<rows, indexed, storedDecl>> /\ indexer'.read = indexer.read /\ filesLeft' <= filesLeft
        /\ indexer'.at \notin {"app_read", "app_store"}
    BY <1>1, <1>7, ReadFailsStep DEF storeVars, appVars
  <2> QED  BY <2>1, RowsStay
<1>5. CASE TellIndex \/ SwapModel
  <2>1. UNCHANGED <<rows, indexed, storedDecl, indexer, filesLeft>>
    BY <1>5 DEF TellIndex, SwapModel, storeVars, appVars, fileVars, requestVars
  <2> QED  BY <1>1, <2>1, RowsWait
<1>6. CASE AppChanges
  <2>1. UNCHANGED <<indexed, storedDecl, indexer>> /\ filesLeft' = filesLeft - 1 /\ filesLeft > 0 /\ filesLeft' <= filesLeft
    BY <1>1, <1>6 DEF AppChanges, storeVars, UsesFile
  <2>2. CASE UNCHANGED rows
    BY <2>1, <2>2, RowsWait
  <2>3. CASE rows' = NoRows
    <3>1. ASSUME NEW r \in Rows
          PROVE  /\ Past(rows[r].stamp)' /\ Past(indexed[r].stamp)' /\ Past(indexer.read[r].stamp)' /\ rows'[r].stamp = 0
      <4>1. Past(indexed[r].stamp) /\ Past(indexer.read[r].stamp) /\ NoRows[r].stamp = 0
        BY Constants DEF RowsTrue
      <4>2. indexed[r].stamp = 0 \/ indexed[r].stamp + filesLeft' <= MaxIndexed
        BY <1>1, <2>1, <4>1, PastStays DEF Past
      <4>3. indexer.read[r].stamp = 0 \/ indexer.read[r].stamp + filesLeft' <= MaxIndexed
        BY <1>1, <2>1, <4>1, PastStays DEF Past
      <4> QED  BY <2>1, <2>3, <4>1, <4>2, <4>3 DEF Past
    <3> QED  BY <2>1, <3>1 DEF RowsTrue
  <2>4. ASSUME NEW x \in Rows, NEW t \in Texts \union {Empty},
               rows' = [rows EXCEPT ![x] = IF t = Empty THEN NoRows[x]
                                           ELSE [text |-> t, stamp |-> MaxIndexed + 1 - filesLeft]]
        PROVE  RowsTrue'
    <3> DEFINE n == MaxIndexed + 1 - filesLeft
               e == IF t = Empty THEN NoRows[x] ELSE [text |-> t, stamp |-> n]
    <3>1. n \in Int /\ n + filesLeft' <= MaxIndexed
      BY <1>1, <2>1
    <3>2. e.stamp \in {0, n}
      BY Constants
    <3> HIDE DEF n
    <3>3. /\ rows'[x] = e /\ \A r \in Rows \ {x} : rows'[r] = rows[r]
      BY <1>1, <2>4 DEF n
    <3> HIDE DEF e
    <3>4. ASSUME NEW s \in Nat, s = 0 \/ s + filesLeft <= MaxIndexed
          PROVE  (s # 0 => s # n) /\ (s = 0 \/ s + filesLeft' <= MaxIndexed)
      BY <1>1, <2>1, <3>4 DEF n
    <3>5. ASSUME NEW r \in Rows
          PROVE  /\ Past(rows[r].stamp)' /\ Past(indexed[r].stamp)' /\ Past(indexer.read[r].stamp)'
                 /\ r = x => rows'[r].stamp \in {0, n} /\ (rows'[r].stamp # 0 =>
                                 indexed[r].stamp # rows'[r].stamp /\ indexer.read[r].stamp # rows'[r].stamp)
      <4>1. Past(rows[r].stamp) /\ Past(indexed[r].stamp) /\ Past(indexer.read[r].stamp)
        BY DEF RowsTrue
      <4>2. /\ (indexed[r].stamp # 0 => indexed[r].stamp # n)
            /\ (indexed[r].stamp = 0 \/ indexed[r].stamp + filesLeft' <= MaxIndexed)
        BY <1>1, <3>4, <4>1 DEF Past
      <4>3. /\ (indexer.read[r].stamp # 0 => indexer.read[r].stamp # n)
            /\ (indexer.read[r].stamp = 0 \/ indexer.read[r].stamp + filesLeft' <= MaxIndexed)
        BY <1>1, <3>4, <4>1 DEF Past
      <4>4. rows[r].stamp = 0 \/ rows[r].stamp + filesLeft' <= MaxIndexed
        BY <1>1, <3>4, <4>1 DEF Past
      <4> QED  BY <2>1, <3>1, <3>2, <3>3, <4>2, <4>3, <4>4 DEF Past
    <3> QED  BY <2>1, <3>3, <3>5 DEF RowsTrue
  <2> QED  BY <1>6, <2>2, <2>3, <2>4 DEF AppChanges
<1> QED  BY <1>2, <1>3, <1>4, <1>5, <1>6, <1>7 DEF SearchNext

-----------------------------------------------------------------------------
(* What clients saw of the files.                                          *)

LEMMA OnlyLocked ==
    ASSUME FilesInv, Conditional, NEW c \in FileClients
    PROVE  LET r == fileReq[c] IN
           /\ r.op \in Locked \union {"read", "none"} /\ (r.at = "idle" <=> r.op = "none") /\ r.at # "copy"
           /\ r.at # "idle" => r.path \in Paths
           /\ r.at \in {"lock", "check", "truncate", "fill", "end"} => r.op \in Locked
           /\ r.at = "read" <=> r.op = "read"
           /\ r.at \in {"read", "fill"} \/ r.op = "edit" => r.inode \in Ids
BY DEF FilesInv, Holding, Conditional, Locked

LEMMA LocksApart ==
    ASSUME FilesInv, Conditional, NEW c \in FileClients, NEW x \in FileClients, c # x,
           fileReq[c].at \in {"check", "truncate", "fill", "end"}, fileReq[x].at \in {"check", "truncate", "fill", "end"}
    PROVE  fileReq[c].path # fileReq[x].path
<1>1. /\ fileReq[c].op \in Locked /\ fileReq[x].op \in Locked /\ fileReq[c].path \in Paths /\ fileReq[x].path \in Paths
  BY OnlyLocked
<1>2. writeLock[fileReq[c].path] = c /\ writeLock[fileReq[x].path] = x
  BY <1>1 DEF FilesInv, LocksOK, Locks
<1> QED  BY <1>2

\* The file of a path is written to, or made.
Writes(p) ==
    /\ mtimes' = mtimes + 1
    /\ \A q \in Paths \ {p} : tree'[q] = tree[q] /\ (tree[q] # 0 => inodes'[tree[q]] = inodes[tree[q]])
    /\ tree[p] # 0 => tree'[p] = tree[p]
    /\ tree'[p] # 0 /\ inodes'[tree'[p]].mtime = mtimes'

\* The holder of a path's lock writes, and the others know what they knew.
LEMMA OthersSaw ==
    ASSUME FilesInv, Conditional, SeenInv, NEW c \in FileClients, NEW p \in Paths, Writes(p), p = fileReq[c].path,
           fileReq[c].at \in {"check", "truncate", "fill", "end"},
           NEW x \in FileClients, lastSeen'[x] = lastSeen[x]
    PROVE  Seen(x)' /\ (x # c /\ fileReq'[x] = fileReq[x] => Found(x)')
<1>1. /\ Seen(x) /\ Found(x) /\ DiskOK /\ QueueOK /\ mtimes \in Nat /\ mtimes' = mtimes + 1
      /\ lastSeen[x].version \in Nat /\ fileReq[x].mtime \in Nat
  <2>1. DiskOK /\ QueueOK /\ fileReq[x].mtime \in Nat
    BY FilesTypes
  <2>2. lastSeen[x].version \in Nat
    <3>1. lastSeen[x] \in Told
      BY <2>1 DEF QueueOK
    <3> QED  BY <3>1 DEF Told
  <2>3. mtimes \in Nat /\ mtimes' = mtimes + 1
    BY <2>1 DEF DiskOK, Writes
  <2> QED  BY <2>1, <2>2, <2>3 DEF SeenInv
<1>2. Seen(x)'
  <2> DEFINE s == lastSeen[x]
  <2>1. s.version <= mtimes'
    BY <1>1 DEF Seen
  <2>2. ASSUME s.path \in Paths, tree'[s.path] # 0, inodes'[tree'[s.path]].mtime = s.version
        PROVE  inodes'[tree'[s.path]].text = s.text
    <3>1. s.path # p
      BY <1>1, <2>2 DEF Writes, Seen
    <3>2. tree'[s.path] = tree[s.path] /\ inodes'[tree[s.path]] = inodes[tree[s.path]]
      BY <2>2, <3>1 DEF Writes
    <3> QED  BY <1>1, <2>2, <3>2 DEF Seen
  <2> QED  BY <2>1, <2>2 DEF Seen
<1>3. ASSUME x # c, fileReq'[x] = fileReq[x]
      PROVE  Found(x)'
  <2> DEFINE r == fileReq[x]
  <2>1. /\ r.at # "idle" => r.path \in Paths
        /\ r.at \in {"lock", "check", "truncate", "fill", "end"} => r.op \in Locked
        /\ (r.op = "edit" => r.at # "idle")
    BY OnlyLocked DEF Locked
  <2>2. r.at \in {"truncate", "fill", "end"} => r.path # p
    BY <1>3, LocksApart
  <2>3. r.at \in {"read", "fill", "end"} \/ r.op = "edit" => tree'[r.path] = r.inode /\ r.inode # 0
    <3>1. ASSUME r.at \in {"read", "fill", "end"} \/ r.op = "edit"
          PROVE  tree'[r.path] = r.inode /\ r.inode # 0
      <4>1. tree[r.path] = r.inode /\ r.inode # 0 /\ r.path \in Paths
        BY <1>1, <2>1, <3>1 DEF Found
      <4> QED  BY <4>1 DEF Writes
    <3> QED  BY <3>1
  <2>4. r.at = "read" => r.mtime <= mtimes'
    BY <1>1 DEF Found
  <2>5. r.at \in {"fill", "end"} => inodes'[r.inode] = inodes[r.inode]
    BY <1>1, <2>1, <2>2 DEF Found, Writes
  <2>6. r.at = "truncate" => /\ tree'[r.path] = tree[r.path]
                             /\ tree[r.path] # 0 => inodes'[tree[r.path]] = inodes[tree[r.path]]
    BY <2>1, <2>2 DEF Writes
  <2>7. r.at = "truncate" /\ r.op = "edit" => inodes'[r.inode] = inodes[r.inode]
    BY <1>1, <2>6 DEF Found
  <2> HIDE DEF r
  <2>8. fileReq'[x] = r /\ fileReq[x] = r
    BY <1>3 DEF r
  <2> QED  BY <1>1, <2>3, <2>4, <2>5, <2>6, <2>7, <2>8 DEF Found
<1> QED  BY <1>2, <1>3

\* Nothing is written, and a client goes on.
LEMMA SawTheSame ==
    ASSUME FilesInv, SeenInv, Conditional, UNCHANGED <<tree, inodes, mtimes>>, NEW x \in FileClients, lastSeen'[x] = lastSeen[x]
    PROVE  Seen(x)' /\ (fileReq'[x] = fileReq[x] => Found(x)')
BY DEF SeenInv, Seen, Found

\* Who writes, writes to the path whose lock it holds.
LEMMA WritesIts ==
    ASSUME FilesInv, NEW p \in Paths, NEW i \in {0} \union Ids, tree[p] = i, i = 0 => Opened(i, p),
           Opened(i, p) \/ \E t \in FileText : Overwritten(i, t)
    PROVE  Writes(p)
<1>1. DiskOK /\ mtimes \in Nat /\ Len(inodes) \in Nat /\ tree \in [Paths -> 0 .. Len(inodes)]
  BY DiskTypes DEF FilesInv, DiskOK
<1>2. \A q \in Paths \ {p} : tree[q] # 0 => tree[q] \in Ids \ {i}
  BY <1>1, DiskTypes DEF DiskOK
<1>3. CASE i = 0
  <2>1. /\ tree' = [tree EXCEPT ![p] = Len(inodes')] /\ Len(inodes') # 0 /\ inodes'[Len(inodes')].mtime = mtimes'
        /\ \A j \in Ids : inodes'[j] = inodes[j]
    BY <1>1, <1>3, OpenedDisk
  <2>2. mtimes' = mtimes + 1
    BY <1>3 DEF Opened
  <2> QED  BY <1>1, <1>2, <1>3, <2>1, <2>2 DEF Writes
<1>4. CASE i # 0
  <2>1. /\ UNCHANGED tree /\ inodes'[i].mtime = mtimes' /\ mtimes' = mtimes + 1
        /\ \A j \in Ids \ {i} : inodes'[j] = inodes[j]
    <3>1. CASE Opened(i, p)
      BY <1>1, <1>4, <3>1, OpenedDisk
    <3>2. CASE \E t \in FileText : Overwritten(i, t)
      BY <1>1, <1>4, <3>2, OverwrittenDisk
    <3> QED  BY <3>1, <3>2
  <2> QED  BY <1>2, <1>4, <2>1 DEF Writes
<1> QED  BY <1>3, <1>4

\* A request of one client is asked, or goes on, and nothing is written.
LEMMA SeenWhenNothingIsWritten ==
    ASSUME FilesInv, Conditional, SeenInv, NEW c \in FileClients, NEW r, fileReq' = [fileReq EXCEPT ![c] = r],
           UNCHANGED <<tree, inodes, mtimes, fileMix>>,
           \A x \in FileClients \ {c} : lastSeen'[x] = lastSeen[x],
           Seen(c)', Found(c)'
    PROVE  SeenInv'
<1>1. \A x \in FileClients \ {c} : fileReq'[x] = fileReq[x]
  BY DEF FilesInv
<1>2. \A x \in FileClients \ {c} : Seen(x)' /\ Found(x)'
  BY <1>1, SawTheSame
<1> QED  BY <1>2 DEF SeenInv

\* The lock's holder writes.
LEMMA SeenWhenWritten ==
    ASSUME FilesInv, Conditional, SeenInv, NEW c \in FileClients, NEW r, fileReq' = [fileReq EXCEPT ![c] = r],
           fileReq[c].at \in {"check", "truncate", "fill", "end"}, NEW p \in Paths, p = fileReq[c].path, Writes(p),
           UNCHANGED <<lastSeen, fileMix>>, Found(c)'
    PROVE  SeenInv'
<1>1. \A x \in FileClients \ {c} : fileReq'[x] = fileReq[x]
  BY DEF FilesInv
<1>2. \A x \in FileClients : Seen(x)' /\ (x # c => Found(x)')
  BY <1>1, OthersSaw
<1> QED  BY <1>2 DEF SeenInv

LEMMA SeenAskFile ==
    ASSUME FilesInv, Conditional, SeenInv, NEW c \in FileClients, AskFile(c)
    PROVE  SeenInv'
<1>1. DiskOK /\ mtimes \in Nat /\ Seen(c) /\ Found(c) /\ NoPath \notin Paths /\ fileReq[c] \in FileReq
  BY FilesTypes, FilesAssumption DEF FilesInv, DiskOK, SeenInv
<1>2. \A p \in Paths : tree[p] # 0 => tree[p] \in Ids /\ File(p).mtime \in 1 .. mtimes
  BY <1>1, DiskTypes DEF File
<1>3. \A r : AskForFile(c, r) =>
          /\ fileReq' = [fileReq EXCEPT ![c] = r] /\ fileReq'[c] = r /\ r.op \in Locked \union {"read"}
          /\ UNCHANGED <<fileMix, lastSeen>>
  BY DEF FilesInv, AskForFile, UsesFile, FileTo, Conditional
<1>4. ASSUME NEW p \in Paths, OpenRead(c, p)
      PROVE  SeenInv'
  <2> DEFINE r == [NoFileReq EXCEPT !.op = "read", !.at = "read", !.path = p, !.inode = tree[p], !.mtime = File(p).mtime]
  <2>1. r.at = "read" /\ r.op = "read" /\ r.path = p /\ r.inode = tree[p] /\ r.mtime = File(p).mtime
    BY DEF NoFileReq
  <2>2. AskForFile(c, r) /\ tree[p] # 0 /\ UNCHANGED <<tree, inodes, mtimes>>
    BY <1>4 DEF OpenRead, There, diskVars
  <2> HIDE DEF r
  <2>3. Seen(c)'
    BY <1>1, <1>3, <2>2, SawTheSame
  <2>4. r.mtime <= mtimes
    BY <1>1, <1>2, <2>1, <2>2
  <2>5. Found(c)'
    BY <1>3, <2>1, <2>2, <2>4 DEF Found
  <2> QED  BY <1>3, <2>2, <2>3, <2>5, SeenWhenNothingIsWritten
<1>5. ASSUME NEW p \in Paths, NEW t \in Texts, NEW op \in {"write", "put"}, AskWrite(c, op, p, t)
      PROVE  SeenInv'
  <2> PICK v \in Conditions(c, p) :
             AskForFile(c, [NoFileReq EXCEPT !.op = op, !.at = "lock", !.path = p, !.text = t, !.version = v])
    BY <1>5 DEF AskWrite
  <2> DEFINE r == [NoFileReq EXCEPT !.op = op, !.at = "lock", !.path = p, !.text = t, !.version = v]
  <2>1. r.at = "lock" /\ r.op = op /\ r.path = p /\ r.version = v
    BY DEF NoFileReq
  <2> HIDE DEF r
  <2>2. AskForFile(c, r) /\ UNCHANGED <<tree, inodes, mtimes>>
    BY <1>5 DEF r, AskWrite, diskVars
  <2>3. Seen(c)'
    BY <1>1, <1>3, <2>2, SawTheSame
  <2>4. v # 0 => lastSeen[c].path = p /\ lastSeen[c].version = v
    BY DEF Conditions
  <2>5. Found(c)'
    BY <1>3, <2>1, <2>2, <2>4 DEF Found
  <2> QED  BY <1>3, <2>2, <2>3, <2>5, SeenWhenNothingIsWritten
<1>6. ASSUME NEW p \in Paths, NEW t \in Texts, AskEdit(c, p, t)
      PROVE  SeenInv'
  <2> PICK v \in Conditions(c, p) :
             AskForFile(c, [NoFileReq EXCEPT !.op = "edit", !.at = "lock", !.path = p, !.text = t, !.version = v,
                                             !.inode = tree[p]])
    BY <1>6 DEF AskEdit
  <2> DEFINE r == [NoFileReq EXCEPT !.op = "edit", !.at = "lock", !.path = p, !.text = t, !.version = v,
                                    !.inode = tree[p]]
  <2>1. r.at = "lock" /\ r.op = "edit" /\ r.path = p /\ r.version = v /\ r.inode = tree[p]
    BY DEF NoFileReq
  <2> HIDE DEF r
  <2>2. AskForFile(c, r) /\ UNCHANGED <<tree, inodes, mtimes>> /\ tree[p] # 0
    BY <1>6 DEF r, AskEdit, There, diskVars
  <2>3. Seen(c)'
    BY <1>1, <1>3, <2>2, SawTheSame
  <2>4. v # 0 => lastSeen[c].path = p /\ lastSeen[c].version = v
    BY DEF Conditions
  <2>5. Found(c)'
    BY <1>3, <2>1, <2>2, <2>4 DEF Found
  <2> QED  BY <1>3, <2>2, <2>3, <2>5, SeenWhenNothingIsWritten
<1>7. ASSUME NEW p \in Paths, NEW t \in Texts, Upload(c, p, t)
      PROVE  FALSE
  <2> DEFINE r == [NoFileReq EXCEPT !.op = "upload", !.at = "truncate", !.path = p, !.text = t]
  <2>1. AskForFile(c, r) /\ r.op = "upload"
    BY <1>7 DEF Upload, NoFileReq
  <2> HIDE DEF r
  <2> QED  BY <1>3, <2>1 DEF Locked
<1>8. ASSUME NEW p \in Paths, DeleteFile(c, p)
      PROVE  FALSE
  <2> DEFINE r == [NoFileReq EXCEPT !.op = "delete", !.at = "end", !.path = p]
  <2>1. AskForFile(c, r) /\ r.op = "delete"
    BY <1>8 DEF DeleteFile, NoFileReq
  <2> HIDE DEF r
  <2> QED  BY <1>3, <2>1 DEF Locked
<1>9. ASSUME NEW p \in Paths, NEW q \in Paths, MoveFile(c, p, q)
      PROVE  FALSE
  <2> DEFINE r == [NoFileReq EXCEPT !.op = "move", !.at = "end", !.path = p, !.to = q]
  <2>1. AskForFile(c, r) /\ r.op = "move"
    BY <1>9 DEF MoveFile, NoFileReq
  <2> HIDE DEF r
  <2> QED  BY <1>3, <2>1 DEF Locked
<1>10. ASSUME NEW p \in Paths, NEW q \in Paths, OpenCopy(c, p, q)
       PROVE  FALSE
  <2> DEFINE r == [NoFileReq EXCEPT !.op = "copy", !.at = "copy", !.path = q, !.inode = Len(inodes'),
                                    !.version = tree[p], !.mtime = File(p).mtime]
  <2>1. AskForFile(c, r) /\ r.op = "copy"
    BY <1>10 DEF OpenCopy, NoFileReq
  <2> HIDE DEF r
  <2> QED  BY <1>3, <2>1 DEF Locked
<1> QED
  BY <1>4, <1>5, <1>6, <1>7, <1>8, <1>9, <1>10 DEF AskFile

LEMMA SeenServeFile ==
    ASSUME FilesInv, Conditional, SeenInv, NEW c \in FileClients, ServeFile(c) \/ AbortPut(c)
    PROVE  SeenInv'
<1> DEFINE s == fileReq[c]
<1>1. /\ DiskOK /\ mtimes \in Nat /\ Seen(c) /\ Found(c) /\ s \in FileReq /\ s.text \in FileText
      /\ s.at # "idle" => s.path \in Paths
      /\ s.at \in {"lock", "check", "truncate", "fill", "end"} => s.op \in Locked
      /\ s.at \in {"read", "fill"} \/ s.op = "edit" => s.inode \in Ids
      /\ s.at # "copy" /\ (s.at = "read" <=> s.op = "read") /\ (s.at = "idle" <=> s.op = "none")
      /\ s.op \in Locked \union {"read", "none"}
  <2>1. DiskOK /\ s \in FileReq /\ s.text \in FileText
    BY FilesTypes
  <2> QED  BY <2>1, OnlyLocked DEF DiskOK, SeenInv
<1>2. \A p \in Paths : tree[p] # 0 => tree[p] \in Ids
  BY <1>1, DiskTypes
<1>3. \A i \in Ids : inodes[i].mtime \in 1 .. mtimes
  BY <1>1, DiskTypes
<1>4. fileReq \in [FileClients -> FileReq] /\ lastSeen \in [FileClients -> Told] /\ Torn \in FileText
  BY DEF FilesInv, QueueOK, FileText
<1>5. \A x \in FileReq : FileTo(c, x) => fileReq' = [fileReq EXCEPT ![c] = x] /\ fileReq'[c] = x
  BY <1>4 DEF FileTo
<1>6. NoFileReq \in FileReq /\ NoFileReq.op = "none" /\ NoFileReq.at = "idle" /\ NoFileReq.version = 0
  BY NoRequest DEF NoFileReq
<1>7. FileTo(c, NoFileReq) => Found(c)'
  BY <1>5, <1>6 DEF Found
<1>8. ASSUME FinishRead(c)
      PROVE  SeenInv'
  <2> DEFINE e == [path |-> s.path, version |-> s.mtime, text |-> inodes[s.inode].text]
  <2>1. /\ s.at = "read" /\ FileTo(c, NoFileReq) /\ UNCHANGED <<tree, inodes, mtimes, fileMix>>
        /\ lastSeen' = [lastSeen EXCEPT ![c] = e]
    BY <1>8 DEF FinishRead, FileStep, diskVars
  <2>2. e.path = s.path /\ e.version = s.mtime /\ e.text = inodes[s.inode].text
    OBVIOUS
  <2>3. tree[s.path] = s.inode /\ s.mtime <= mtimes
    BY <1>1, <2>1 DEF Found
  <2> HIDE DEF e, s
  <2>4. lastSeen'[c] = e /\ \A x \in FileClients \ {c} : lastSeen'[x] = lastSeen[x]
    BY <1>4, <2>1
  <2>5. Seen(c)'
    BY <2>1, <2>2, <2>3, <2>4 DEF Seen
  <2> QED  BY <1>5, <1>6, <1>7, <2>1, <2>4, <2>5, SeenWhenNothingIsWritten
<1>9. ASSUME NEW at \in {"check", "truncate"}, FileAt(c, at)
      PROVE  /\ fileReq' = [fileReq EXCEPT ![c] = [s EXCEPT !.at = at]] /\ fileReq'[c] = [s EXCEPT !.at = at]
             /\ fileReq'[c].at = at /\ fileReq'[c].op = s.op /\ fileReq'[c].path = s.path
             /\ fileReq'[c].version = s.version /\ fileReq'[c].inode = s.inode
  BY <1>1, <1>4, <1>9 DEF FileAt, FileTo, FileReq
<1>10. ASSUME TakeWriteLock(c)
       PROVE  SeenInv'
  <2>1. FileAt(c, "check") /\ UNCHANGED <<tree, inodes, mtimes, fileMix, lastSeen>>
    BY <1>10 DEF TakeWriteLock, FileStep, diskVars
  <2>2. Found(c)'
    BY <1>1, <1>9, <2>1 DEF Found
  <2>3. Seen(c)'
    BY <1>1, <2>1 DEF Seen
  <2>4. \A x \in FileClients \ {c} : lastSeen'[x] = lastSeen[x]
    BY <2>1
  <2> HIDE DEF s
  <2>5. fileReq' = [fileReq EXCEPT ![c] = [s EXCEPT !.at = "check"]]
    BY <1>9, <2>1
  <2> QED  BY <2>1, <2>2, <2>3, <2>4, <2>5, SeenWhenNothingIsWritten
<1>11. ASSUME CheckVersion(c)
       PROVE  SeenInv'
  <2>1. UNCHANGED <<tree, inodes, mtimes, fileMix, lastSeen>> /\ s.at = "check"
    BY <1>11 DEF CheckVersion, FileStep, diskVars
  <2>2. Seen(c)'
    BY <1>1, <2>1 DEF Seen
  <2>3. \A x \in FileClients \ {c} : lastSeen'[x] = lastSeen[x]
    BY <2>1
  <2>4. CASE Acceptable(c) /\ FileAt(c, "truncate")
    <3>1. Found(c)'
      BY <1>1, <1>9, <2>1, <2>4 DEF Found, Acceptable, There, File
    <3> HIDE DEF s
    <3>2. fileReq' = [fileReq EXCEPT ![c] = [s EXCEPT !.at = "truncate"]]
      BY <1>9, <2>4
    <3> QED  BY <2>1, <2>2, <2>3, <3>1, <3>2, SeenWhenNothingIsWritten
  <2>5. CASE FileTo(c, NoFileReq)
    BY <1>5, <1>6, <1>7, <2>1, <2>2, <2>3, <2>5, SeenWhenNothingIsWritten
  <2> QED  BY <1>11, <2>4, <2>5 DEF CheckVersion
<1>12. ASSUME TruncateFile(c)
       PROVE  SeenInv'
  <2> DEFINE i == IF s.op = "edit" THEN s.inode ELSE tree[s.path]
             j == IF i = 0 THEN Len(inodes') ELSE i
             r == [s EXCEPT !.at = "fill", !.mtime = mtimes', !.inode = j]
  <2>1. /\ s.at = "truncate" /\ Opened(i, s.path) /\ FileTo(c, r)
        /\ UNCHANGED <<lastSeen, fileMix>>
    BY <1>12 DEF TruncateFile, FileStep
  <2>2. s.path \in Paths /\ tree[s.path] = i /\ i \in {0} \union Ids /\ s.op \in Locked
    BY <1>1, <1>2, <2>1 DEF Found
  <2>3. Writes(s.path)
    BY <2>1, <2>2, WritesIts
  <2>4. j # 0 /\ tree'[s.path] = j /\ inodes'[j].mtime = mtimes'
    <3>1. CASE i = 0
      <4>1. tree' = [tree EXCEPT ![s.path] = Len(inodes')] /\ Len(inodes') # 0 /\ inodes'[Len(inodes')].mtime = mtimes'
        BY <1>1, <2>1, <2>2, <3>1, OpenedDisk
      <4> QED  BY <1>1, <2>2, <3>1, <4>1 DEF DiskOK
    <3>2. CASE i # 0
      <4>1. UNCHANGED tree /\ inodes'[i].mtime = mtimes'
        BY <1>1, <2>1, <2>2, <3>2, OpenedDisk
      <4> QED  BY <2>2, <3>2, <4>1
    <3> QED  BY <3>1, <3>2
  <2> HIDE DEF i, j
  <2>5. /\ r.at = "fill" /\ r.mtime = mtimes' /\ r.inode = j /\ r.op = s.op /\ r.path = s.path
        /\ r.version = s.version
    BY <1>1 DEF FileReq
  <2> HIDE DEF r
  <2>6. fileReq' = [fileReq EXCEPT ![c] = r] /\ fileReq'[c] = r
    BY <1>4, <2>1 DEF FileTo
  <2>7. Found(c)'
    <3>1. s.version # 0 => lastSeen'[c].path = s.path /\ lastSeen'[c].version = s.version
      BY <1>1, <2>1, <2>2 DEF Found, Locked
    <3> QED  BY <2>4, <2>5, <2>6, <3>1 DEF Found
  <2>8. s.path \in Paths /\ s.path = fileReq[c].path /\ s.at \in {"check", "truncate", "fill", "end"}
    BY <2>1, <2>2
  <2> QED  BY <2>1, <2>3, <2>6, <2>7, <2>8, SeenWhenWritten
<1>13. ASSUME Fill(c)
       PROVE  SeenInv'
  <2> DEFINE r == [s EXCEPT !.at = "end", !.mtime = mtimes']
  <2>1. /\ s.at = "fill" /\ FileTo(c, r) /\ UNCHANGED <<lastSeen, fileMix>>
        /\ inodes[s.inode].mtime = s.mtime /\ tree[s.path] = s.inode /\ s.inode # 0
    BY <1>1, <1>13 DEF Fill, FileStep, Found
  <2>2. Overwritten(s.inode, s.text)
    BY <1>13, <2>1 DEF Fill
  <2>3. s.path \in Paths /\ s.inode \in Ids /\ s.op \in Locked
    BY <1>1, <2>1
  <2>4. Writes(s.path)
    BY <1>1, <2>1, <2>2, <2>3, WritesIts
  <2>5. UNCHANGED tree /\ inodes'[s.inode].mtime = mtimes' /\ inodes'[s.inode].text = s.text
    BY <1>1, <2>2, <2>3, OverwrittenDisk
  <2>6. /\ r.at = "end" /\ r.mtime = mtimes' /\ r.inode = s.inode /\ r.op = s.op /\ r.path = s.path
        /\ r.version = s.version /\ r.text = s.text
    BY <1>1 DEF FileReq
  <2> HIDE DEF r
  <2>7. fileReq' = [fileReq EXCEPT ![c] = r] /\ fileReq'[c] = r
    BY <1>4, <2>1 DEF FileTo
  <2>8. Found(c)'
    <3>1. s.version # 0 => lastSeen'[c].path = s.path /\ lastSeen'[c].version = s.version
      BY <1>1, <2>1, <2>3 DEF Found, Locked
    <3> QED  BY <2>1, <2>5, <2>6, <2>7, <3>1 DEF Found
  <2>9. s.path \in Paths /\ s.path = fileReq[c].path /\ s.at \in {"check", "truncate", "fill", "end"}
    BY <2>1, <2>3
  <2> QED  BY <2>1, <2>4, <2>7, <2>8, <2>9, SeenWhenWritten
<1>14. ASSUME EndFileReq(c)
       PROVE  SeenInv'
  <2> DEFINE e == [path |-> s.path, version |-> s.mtime, text |-> s.text]
  <2>1. /\ s.at = "end" /\ FileTo(c, NoFileReq) /\ UNCHANGED <<tree, inodes, mtimes, fileMix>>
        /\ lastSeen' = [lastSeen EXCEPT ![c] = e]
    BY <1>1, <1>14 DEF EndFileReq, FileStep, diskVars
  <2>2. e.path = s.path /\ e.version = s.mtime /\ e.text = s.text
    OBVIOUS
  <2>3. /\ s.path \in Paths /\ tree[s.path] = s.inode /\ s.inode # 0
        /\ inodes[s.inode].mtime = s.mtime /\ inodes[s.inode].text = s.text
    BY <1>1, <2>1 DEF Found
  <2> HIDE DEF e, s
  <2>4. lastSeen'[c] = e /\ \A x \in FileClients \ {c} : lastSeen'[x] = lastSeen[x]
    BY <1>4, <2>1
  <2>5. s.mtime <= mtimes
    BY <1>2, <1>3, <2>3
  <2>6. Seen(c)'
    BY <2>1, <2>2, <2>3, <2>4, <2>5 DEF Seen
  <2> QED  BY <1>5, <1>6, <1>7, <2>1, <2>4, <2>6, SeenWhenNothingIsWritten
<1>15. ASSUME AbortPut(c)
       PROVE  SeenInv'
  <2>1. /\ s.at = "fill" /\ FileTo(c, NoFileReq) /\ UNCHANGED <<lastSeen, fileMix>>
        /\ UNCHANGED <<tree, inodes, mtimes>> \/ Overwritten(s.inode, Torn)
    BY <1>15 DEF AbortPut, FileStep, diskVars
  <2>2. /\ s.path \in Paths /\ s.inode \in Ids /\ tree[s.path] = s.inode /\ s.inode # 0
        /\ s.path = fileReq[c].path /\ s.at \in {"check", "truncate", "fill", "end"}
    BY <1>1, <2>1 DEF Found
  <2>3. fileReq' = [fileReq EXCEPT ![c] = NoFileReq] /\ Found(c)'
    BY <1>5, <1>6, <1>7, <2>1
  <2>4. CASE UNCHANGED <<tree, inodes, mtimes>>
    <3>1. Seen(c)' /\ \A x \in FileClients \ {c} : lastSeen'[x] = lastSeen[x]
      BY <1>1, <2>1, <2>4 DEF Seen
    <3> QED  BY <2>1, <2>3, <2>4, <3>1, SeenWhenNothingIsWritten
  <2>5. CASE Overwritten(s.inode, Torn)
    <3>1. Writes(s.path)
      BY <1>4, <2>2, <2>5, WritesIts
    <3> QED  BY <2>1, <2>2, <2>3, <3>1, SeenWhenWritten
  <2> QED  BY <2>1, <2>4, <2>5
<1>16. ~CopyText(c)
  BY <1>1 DEF CopyText, FileStep
<1> QED
  BY <1>8, <1>10, <1>11, <1>12, <1>13, <1>14, <1>15, <1>16 DEF ServeFile

\* What clients saw is kept by whatever the platform does.
LEMMA SeenNext ==
    ASSUME FilesInv, SeenInv, SearchNext
    PROVE  SeenInv'
<1>1. CASE FileChange
  <2>1. fileMix' = fileMix
    BY <1>1, MixStays
  <2> SUFFICES ASSUME Conditional PROVE SeenInv'
    BY <2>1 DEF SeenInv, Conditional
  <2>2. ASSUME NEW p \in Paths, NEW t \in Texts, RunCode(p, t)
        PROVE  FALSE
    BY <2>2 DEF RunCode, UsesFile, Conditional, Locked
  <2> QED  BY <1>1, <2>2, SeenAskFile, SeenServeFile DEF FileChange
<1>2. CASE UNCHANGED <<diskVars, fileReq, lastSeen, fileMix>>
  BY <1>2 DEF diskVars, SeenInv, Seen, Found, Conditional
<1>3. CASE Indexing \/ TellIndex \/ SwapModel
  <2>1. UNCHANGED <<diskVars, fileReq, lastSeen, fileMix>>
    <3>1. UNCHANGED requestVars \/ UNCHANGED fileVars => UNCHANGED <<diskVars, fileReq, lastSeen, fileMix>>
      BY DEF requestVars, fileVars
    <3>2. \A s : In(s) => UNCHANGED fileVars
      BY DEF In
    <3> QED  BY <1>3, <3>1, <3>2 DEF Indexing, BeginIndexing, Pop, StatTree, Compare, OpenText, ReadText, StoreText,
                 AppKnown, ReadInstance, StoreInstance, AskModel, Select, Embed, EmbedFails, UpdateChunk, TellIndex, SwapModel
  <2> QED  BY <1>2, <2>1
<1>4. ASSUME IndexFails \/ ReadFails \/ AppChanges \/ SearchRestart, Conditional
      PROVE  FALSE
  BY <1>4 DEF IndexFails, ReadFails, AppChanges, SearchRestart, UsesFile, Conditional, Locked
<1>5. CASE IndexFails \/ ReadFails \/ AppChanges \/ SearchRestart
  <2>1. fileMix' = fileMix
    BY <1>5 DEF IndexFails, ReadFails, AppChanges, SearchRestart, UsesFile
  <2> QED  BY <1>4, <1>5, <2>1 DEF SeenInv, Conditional
<1> QED
  BY <1>1, <1>3, <1>5 DEF SearchNext

-----------------------------------------------------------------------------
(* The first state.                                                        *)

\* No file, or one.
FirstFiles ==
    /\ DiskOK /\ Timed
    /\ \A p \in Paths : tree[p] # 0 => Ids = {tree[p]} /\ File(p).mtime \in Nat /\ File(p).mtime <= mtimes

LEMMA FirstDisk ==
    ASSUME SearchInit
    PROVE  FirstFiles
<1>1. CASE tree = [p \in Paths |-> 0] /\ inodes = << >> /\ mtimes = 0
  <2>1. inodes \in Seq([text : FileText, mtime : 1 .. mtimes]) /\ Len(inodes) = 0
    BY <1>1
  <2>2. Ids = {}
    BY <2>1 DEF Ids
  <2> QED  BY <1>1, <2>1, <2>2 DEF DiskOK, Timed, FirstFiles
<1>2. ASSUME NEW p \in Paths, NEW t \in Texts, tree = [[q \in Paths |-> 0] EXCEPT ![p] = 1],
             inodes = <<[text |-> t, mtime |-> 1]>>, mtimes = 1
      PROVE  FirstFiles
  <2> DEFINE F == [text : FileText, mtime : 1 .. mtimes]
             e == [text |-> t, mtime |-> 1]
  <2>1. e \in F /\ e.mtime = 1 /\ e.text = t /\ t \in FileText
    BY <1>2 DEF FileText
  <2> HIDE DEF e
  <2>2. inodes = <<e>>
    BY <1>2 DEF e
  <2> HIDE DEF F
  <2>3. inodes \in Seq(F) /\ Len(inodes) = 1 /\ inodes[1] = e
    BY <2>1, <2>2
  <2>4. Ids = {1}
    BY <2>3 DEF Ids
  <2>5. \A q \in Paths : tree[q] = IF q = p THEN 1 ELSE 0
    BY <1>2
  <2>6. tree \in [Paths -> 0 .. 1]
    BY <1>2
  <2>7. DiskOK
    BY <1>2, <2>3, <2>5, <2>6 DEF DiskOK, F
  <2>8. Timed
    BY <2>4 DEF Timed
  <2> QED  BY <1>2, <2>1, <2>3, <2>4, <2>5, <2>6, <2>7, <2>8 DEF File, FirstFiles
<1> QED  BY <1>1, <1>2 DEF SearchInit, SpaceFilesInit

LEMMA FirstTyped ==
    ASSUME SearchInit
    PROVE  Typed /\ SeenInv
<1>1. /\ writeLock = [p \in Paths |-> NoClient]
      /\ fileReq = [c \in FileClients |-> NoFileReq] /\ lastSeen = [c \in FileClients |-> NothingSeen]
      /\ pending = {} /\ wake = FALSE
      /\ fileMix \in FileMixes /\ filesLeft = IF "index" \in fileMix THEN MaxIndexed ELSE MaxFileRequests
  BY DEF SearchInit, SpaceFilesInit
<1>2. FirstFiles /\ NoFileReq \in FileReq /\ NoClient \notin FileClients /\ NoPath \notin Paths
  BY FirstDisk, NoRequest, FilesAssumption
<1>3. DiskOK /\ Timed
  BY <1>2 DEF FirstFiles
<1>4. LocksOK /\ fileReq \in [FileClients -> FileReq]
  BY <1>1, <1>2, NoRequest DEF LocksOK
<1>5. QueueOK
  <2>1. NothingSeen \in Told
    BY DEF NothingSeen, Told, FileText
  <2>2. filesLeft \in Nat /\ ("rows" \in fileMix => filesLeft <= MaxIndexed)
    BY <1>1, FilesAssumption, SearchAssumption
  <2> QED  BY <1>1, <2>1, <2>2 DEF QueueOK
<1>6. \A c \in FileClients : Holding(c)
  BY <1>1 DEF Holding, NoFileReq, Locked
<1>7. IndexOK
  <2>1. \A p \in Paths : There(p) => Fresh(File(p)) \in Chunk
    <3>1. ASSUME NEW p \in Paths, There(p)
          PROVE  Fresh(File(p)) \in Chunk
      <4>1. File(p).mtime \in Nat /\ File(p).text \in FileText
        BY <1>2, <1>3, <3>1, DiskTypes DEF FirstFiles, There, File
      <4>2. [decl |-> NoDecl, text |-> File(p).text] \in DocText
        BY <4>1, Constants DEF DocText
      <4> QED  BY <4>1, <4>2, Constants DEF Fresh, Chunk
    <3> QED  BY <3>1
  <2>2. indexed \in [Docs -> Chunk] /\ \A r \in Rows : indexed[r] = Absent
    BY <2>1, Constants DEF SearchInit
  <2>3. install \in [live : BOOLEAN, decl : Decls] /\ storedDecl \in Decls
    BY DEF SearchInit
  <2>4. served \in 0 .. 2 /\ label \in 0 .. 2
    BY DEF SearchInit
  <2>5. /\ rows \in [Rows -> [text : FileText, stamp : Nat]] /\ indexer \in Indexer
        /\ untold \in BOOLEAN /\ appPending \in BOOLEAN /\ unseen \subseteq Docs
    BY Constants DEF SearchInit
  <2>6. \A r \in Rows : indexed[r].stamp = 0
    BY <2>2, Constants
  <2> QED  BY <2>2, <2>3, <2>4, <2>5, <2>6, Zenon DEF IndexOK
<1>8. Task
  BY Constants DEF SearchInit, Task
<1>9. SeenInv
  <2>1. \A c \in FileClients : lastSeen[c].path = NoPath /\ lastSeen[c].version = 0
    BY <1>1 DEF NothingSeen
  <2>2. \A c \in FileClients : /\ fileReq[c].at = "idle" /\ fileReq[c].op = "none"
    BY <1>1 DEF NoFileReq
  <2>3. mtimes \in Nat
    BY <1>3 DEF DiskOK
  <2> QED  BY <1>2, <2>1, <2>2, <2>3 DEF SeenInv, Seen, Found
<1> QED  BY <1>3, <1>4, <1>5, <1>6, <1>7, <1>8, <1>9 DEF Typed, FilesInv

LEMMA FirstIndex ==
    ASSUME SearchInit
    PROVE  FilesTrue /\ RowsTrue /\ VectorsTrue
<1>1. FirstFiles /\ Typed /\ mtimes \in Nat
  BY FirstDisk, FirstTyped DEF Typed, FilesInv, DiskOK
<1>2. /\ rows = NoRows /\ storedDecl = install.decl /\ indexer = Asleep /\ served = 1 /\ label = 0
      /\ \A d \in Docs : indexed[d] = IF d \in Paths /\ There(d) THEN Fresh(File(d)) ELSE Absent
  BY DEF SearchInit
<1>3. \A f : Fresh(f).stamp = f.mtime /\ Fresh(f).text.text = f.text /\ Fresh(f).model = 0 /\ Fresh(f).of = NoVector
  BY DEF Fresh, Absent
<1>4. FilesTrue
  <2>1. ASSUME NEW p \in Paths
        PROVE  indexed[p].stamp <= mtimes /\ TextOf(indexed[p].stamp, indexed[p].text.text)
    <3>1. CASE There(p)
      <4>1. indexed[p].stamp = File(p).mtime /\ indexed[p].text.text = File(p).text
        BY <1>2, <1>3, <3>1, Constants
      <4>2. Ids = {tree[p]} /\ File(p).mtime <= mtimes
        BY <1>1, <3>1 DEF FirstFiles, There
      <4> QED  BY <4>1, <4>2 DEF TextOf, File
    <3>2. CASE ~There(p)
      <4>1. indexed[p].stamp = 0
        BY <1>2, <3>2, Constants
      <4>2. TextOf(0, indexed[p].text.text)
        BY <1>1, NoTime DEF FirstFiles
      <4> QED  BY <1>1, <4>1, <4>2
    <3> QED  BY <3>1, <3>2
  <2> QED  BY <1>1, <1>2, <2>1, Constants DEF FilesTrue
<1>5. RowsTrue
  <2>1. \A r \in Rows : indexed[r] = Absent
    BY <1>2, Constants
  <2> QED  BY <1>2, <2>1, Constants DEF RowsTrue, Past
<1>6. VectorsTrue
  <2>1. \A d \in Docs : indexed[d].model = 0
    BY <1>2, <1>3, Constants
  <2> QED  BY <1>2, <2>1, Constants DEF VectorsTrue
<1> QED  BY <1>4, <1>5, <1>6

-----------------------------------------------------------------------------
(* The theorems.                                                           *)

SearchInv == Typed /\ SeenInv /\ FilesTrue /\ RowsTrue /\ VectorsTrue

LEMMA SearchInvStep ==
    ASSUME SearchInv, [SearchNext]_<<fileVars, searchVars>>
    PROVE  SearchInv'
<1>1. CASE SearchNext
  <2>1. Typed'
    BY <1>1, SearchNextTyped DEF SearchInv
  <2> QED
    BY <1>1, <2>1, SeenNext, FilesTrueNext, RowsTrueNext, VectorsTrueNext DEF SearchInv, Typed
<1>2. CASE UNCHANGED <<fileVars, searchVars>>
  <2>1. UNCHANGED <<tree, inodes, mtimes, writeLock, fileReq, lastSeen, pending, wake, fileMix, filesLeft>>
    BY <1>2 DEF fileVars, diskVars
  <2>2. UNCHANGED <<rows, install, untold, appPending, indexed, storedDecl, indexer, served, label, unseen>>
    BY <1>2 DEF searchVars, appVars, storeVars
  <2>3. FilesInv' /\ Ids' = Ids
    BY <2>1, FilesStay DEF SearchInv, Typed, requestVars, diskVars, FilesInv, QueueOK
  <2>4. IndexOK' /\ Task'
    BY <2>2, <2>3 DEF SearchInv, Typed, IndexOK, Task
  <2>5. SeenInv'
    BY <2>1 DEF SearchInv, SeenInv, Conditional, Seen, Found
  <2>6. FilesTrue'
    BY <2>1, <2>2, <2>3 DEF SearchInv, FilesTrue, TextOf
  <2>7. RowsTrue' /\ VectorsTrue'
    BY <2>1, <2>2 DEF SearchInv, RowsTrue, Past, VectorsTrue
  <2> QED  BY <2>3, <2>4, <2>5, <2>6, <2>7 DEF SearchInv, Typed
<1> QED  BY <1>1, <1>2

LEMMA SearchInvHolds == SearchSpec => []SearchInv
<1>1. SearchInit => SearchInv
  BY FirstTyped, FirstIndex DEF SearchInv
<1> QED  BY <1>1, SearchInvStep, PTL DEF SearchSpec

\* The types of the disk, the requests, the locks, the index and its task; a path's lock is held by
\* the request that is past it, and no two names are of one file (fsops.py, agentfs.py, fileindex.py).
THEOREM SearchTypesCorrect == SearchSpec => []SearchTypeOK
<1>1. SearchInv => SearchTypeOK
  BY TypesAgain DEF SearchInv, Typed
<1> QED  BY <1>1, SearchInvHolds, PTL

LEMMA TrueIndex ==
    ASSUME SearchInv
    PROVE  IndexIsTrue
<1>1. /\ FilesInv /\ IndexOK /\ DiskOK
      /\ \A d \in Docs : indexed[d].text \in DocText
  BY IndexTypes DEF SearchInv, Typed, FilesInv
<1>2. ASSUME NEW p \in Paths, "copy" \notin fileMix, There(p), indexed[p].stamp = File(p).mtime
      PROVE  indexed[p].text.text = File(p).text
  <2>1. tree[p] \in Ids
    BY <1>1, <1>2, DiskTypes DEF There
  <2> QED  BY <1>2, <2>1 DEF SearchInv, FilesTrue, TextOf, File
<1>3. ASSUME NEW r \in Rows, storedDecl = install.decl, rows[r].stamp # 0, indexed[r].stamp = rows[r].stamp
      PROVE  indexed[r].text = RowText(r)
  <2>1. indexed[r].text.decl = install.decl /\ indexed[r].text.text = rows[r].text
    BY <1>3 DEF SearchInv, RowsTrue
  <2>2. indexed[r].text \in DocText
    BY <1>1, Constants
  <2>3. \A t \in DocText : t = [decl |-> t.decl, text |-> t.text]
    BY DEF DocText
  <2> QED  BY <2>1, <2>2, <2>3 DEF RowText
<1>4. VectorsMatch
  BY DEF SearchInv, VectorsTrue, VectorsMatch, Ranked
<1> QED  BY <1>2, <1>3, <1>4 DEF IndexIsTrue, NeverFooled

\* What the index takes for current is: whatever was written, by whom and in which order, while it
\* read, a text it has under a file's or a row's present time is the present text, and a vector of
\* the served model is of the chunk's present text (fileindex.py, appindex.py).
THEOREM IndexTrue == SearchSpec => []IndexIsTrue
<1> QED  BY TrueIndex, SearchInvHolds, PTL

\* With the types: a path's write lock is its holder's, and what the index takes for current is (`_process_pending`).
THEOREM IndexKept == SearchSpec => []IndexIsKept
<1>1. SearchTypeOK /\ IndexIsTrue => IndexIsKept
  BY DEF IndexIsKept
<1> QED  BY <1>1, SearchTypesCorrect, IndexTrue, PTL

LEMMA ReplacesStep ==
    ASSUME SearchInv, SearchNext, NEW c \in FileClients, Conditional,
           fileReq[c].version # 0 \/ fileReq[c].op = "edit",
           fileReq[c].at = "truncate", fileReq'[c].at = "fill"
    PROVE  inodes[fileReq'[c].inode].text = lastSeen[c].text
<1> DEFINE s == fileReq[c]
<1>1. /\ FilesInv /\ DiskOK /\ Found(c) /\ Seen(c) /\ fileReq \in [FileClients -> FileReq]
      /\ s.op \in Locked /\ s.path \in Paths /\ s \in FileReq
  <2>1. FilesInv /\ SeenInv
    BY DEF SearchInv, Typed
  <2> QED  BY <2>1, OnlyLocked DEF SeenInv, FilesInv
<1>2. TruncateFile(c)
  <2>1. \A x : UNCHANGED fileReq => fileReq'[c].at = "truncate"
    OBVIOUS
  <2>2. fileReq' # fileReq
    BY <2>1
  <2>3. ASSUME NEW x \in FileClients, AskFile(x) \/ ServeFile(x) \/ AbortPut(x)
        PROVE  x = c
    <3>1. \A r : FileTo(x, r) => (x # c => fileReq'[c] = fileReq[c])
      BY <1>1 DEF FileTo
    <3>2. \A r : AskForFile(x, r) => (x # c => fileReq'[c] = fileReq[c])
      BY <3>1 DEF AskForFile
    <3>3. AskFile(x) => (x # c => fileReq'[c] = fileReq[c])
      BY <3>2 DEF AskFile, OpenRead, DeleteFile, AskWrite, AskEdit, Upload, MoveFile, OpenCopy
    <3>4. \A at : FileAt(x, at) => (x # c => fileReq'[c] = fileReq[c])
      BY <3>1 DEF FileAt
    <3>5. ServeFile(x) \/ AbortPut(x) => (x # c => fileReq'[c] = fileReq[c])
      BY <3>1, <3>4 DEF ServeFile, AbortPut, FinishRead, TakeWriteLock, CheckVersion, TruncateFile, Fill, CopyText,
                        EndFileReq
    <3> QED  BY <2>3, <3>3, <3>5
  <2>4. ~AskFile(c)
    BY DEF AskFile, OpenRead, DeleteFile, AskWrite, AskEdit, Upload, MoveFile, OpenCopy, AskForFile
  <2>5. ServeFile(c) \/ AbortPut(c) => TruncateFile(c)
    BY DEF ServeFile, AbortPut, FinishRead, TakeWriteLock, CheckVersion, Fill, CopyText, EndFileReq, FileStep
  <2>6. FileChange
    <3>1. \A at : In(at) => UNCHANGED fileReq
      BY DEF In, fileVars
    <3>2. Indexing \/ IndexFails \/ ReadFails \/ AppChanges \/ TellIndex \/ SwapModel => UNCHANGED fileReq
      BY <3>1 DEF Indexing, BeginIndexing, Pop, StatTree, Compare, OpenText, ReadText, StoreText,
                  AppKnown, ReadInstance, StoreInstance, AskModel, Select, Embed, EmbedFails, UpdateChunk, TellIndex,
                  SwapModel, IndexFails, ReadFails, AppChanges, requestVars, fileVars
    <3>3. SearchRestart => fileReq'[c].at = "idle"
      BY DEF SearchRestart, NoFileReq
    <3> QED  BY <2>2, <3>2, <3>3 DEF SearchNext
  <2>7. ASSUME NEW p \in Paths, NEW t \in Texts, RunCode(p, t)
        PROVE  FALSE
    BY <2>2, <2>7 DEF RunCode
  <2> QED  BY <2>3, <2>4, <2>5, <2>6, <2>7 DEF FileChange
<1> DEFINE i == IF s.op = "edit" THEN s.inode ELSE tree[s.path]
           j == IF i = 0 THEN Len(inodes') ELSE i
           r == [s EXCEPT !.at = "fill", !.mtime = mtimes', !.inode = j]
<1>3. FileTo(c, r)
  BY <1>2 DEF TruncateFile
<1> HIDE DEF i, j
<1>4. r.inode = j
  BY <1>1 DEF FileReq
<1> HIDE DEF r
<1>5. fileReq'[c].inode = j
  BY <1>1, <1>3, <1>4 DEF FileTo
<1>6. CASE s.op = "edit"
  BY <1>1, <1>5, <1>6 DEF Found, i, j
<1>7. CASE s.op # "edit"
  <2>1. /\ tree[s.path] # 0 /\ inodes[tree[s.path]].mtime = s.version
        /\ lastSeen[c].path = s.path /\ lastSeen[c].version = s.version
    BY <1>1, <1>7 DEF Found, Locked
  <2>2. inodes[tree[s.path]].text = lastSeen[c].text
    BY <1>1, <2>1 DEF Seen
  <2> QED  BY <1>5, <1>7, <2>1, <2>2 DEF i, j
<1> QED  BY <1>6, <1>7

\* `if_version`: where reads, writes, puts and edits come together, one with a version overwrites only
\* the text its client was told with that version, and an edit only the text it looked for, whoever
\* wrote in between (fsops.py's _check_version under _write_locks).
THEOREM ReplacesOnlyWhatItSaw == SearchSpec => ReplacesWhatItSaw
<1>1. SearchInv /\ [SearchNext]_<<fileVars, searchVars>> =>
          [\A c \in FileClients :
             LET r == fileReq[c] IN
             /\ fileMix \subseteq Locked \union {"read"} /\ (r.version # 0 \/ r.op = "edit")
             /\ r.at = "truncate" /\ fileReq'[c].at = "fill"
             => inodes[fileReq'[c].inode].text = lastSeen[c].text]_fileVars
  <2>1. CASE SearchNext
    BY <2>1, ReplacesStep DEF Conditional
  <2>2. CASE UNCHANGED <<fileVars, searchVars>>
    BY <2>2
  <2> QED  BY <2>1, <2>2
<1> QED  BY <1>1, SearchInvHolds, PTL DEF SearchSpec, ReplacesWhatItSaw

-----------------------------------------------------------------------------
(* What has changed is followed.                                           *)

TimeOf(p) == IF There(p) THEN File(p).mtime ELSE 0

\* A request that changes files has not queued this path yet.
ToQueue(c, p) ==
    LET r == fileReq[c] IN
    /\ r.at \in {"fill", "end"}
    /\ p = r.path \/ (r.op = "move" /\ p = r.to) \/ (There(p) /\ tree[p] = r.inode)

\* The task comes to what is queued before it sleeps.
Awake == wake \/ indexer.at \in {"pop", "stat", "compare", "read", "text", "store", "app_known", "app_read", "app_store"}

\* The task holds a time of this path.
Looked(p) ==
    \/ indexer.at = "compare" /\ p \in indexer.under
    \/ indexer.at \in {"text", "store"} /\ p = indexer.doc

LookedTime(p) == IF indexer.at = "compare" THEN indexer.found[p] ELSE indexer.stamp

\* Something will still look at this path.
ToLook(p) ==
    \/ p \in pending /\ Awake
    \/ \E c \in FileClients : ToQueue(c, p)
    \/ indexer.at = "stat" /\ p \in indexer.under
    \/ indexer.at \in {"read", "text", "store"} /\ p \in indexer.todo

FileFollowed(p) ==
    ToLook(p) \/ TimeOf(p) = (IF Looked(p) THEN LookedTime(p) ELSE indexed[p].stamp)

FilesFollowed == "copy" \notin fileMix => \A p \in Paths \ unseen : FileFollowed(p)

\* What is to be indexed of the rows, and whether it is.
Declared == IF install.live THEN install.decl ELSE NoDecl

RowCurrent(r) ==
    IF Declared = NoDecl THEN indexed[r].stamp = 0
                         ELSE storedDecl = Declared /\ indexed[r].stamp = rows[r].stamp

RowsToLook ==
    \/ untold \/ (appPending /\ Awake) \/ indexer.at = "app_known"
    \/ indexer.scan /\ indexer.at \in {"stat", "compare", "read", "text", "store"}

RowFollowed(r) ==
    \/ RowsToLook
    \/ IF indexer.at \in {"app_read", "app_store"}
       THEN /\ indexer.decl = Declared
            /\ indexer.at = "app_store" => indexer.read[r].stamp = rows[r].stamp
       ELSE RowCurrent(r)

RowsFollowed == \A r \in Rows \ unseen : RowFollowed(r)

\* What is not indexed has no chunk, and no time is kept of it.
Stamped ==
    /\ \A d \in Docs : indexed[d].stamp = 0 => indexed[d] = Absent
    /\ \A b \in indexer.batch : b[2].text # Empty
    /\ indexer.at = "update" => indexer.text.text # Empty

\* What the task goes through is of what it began with.
Within ==
    /\ indexer.at = "stat" /\ indexer.scan => indexer.under = Paths
    /\ indexer.at \in {"read", "text", "store"} => indexer.todo \subseteq indexer.under
    /\ indexer.at \in {"text", "store"} => indexer.doc \in indexer.under

FollowInv == FilesFollowed /\ RowsFollowed /\ Stamped /\ Within

LEMMA Aside ==
    ASSUME NEW q \in Paths, tree'[q] = tree[q], tree[q] # 0 => inodes'[tree[q]] = inodes[tree[q]]
    PROVE  /\ TimeOf(q)' = TimeOf(q)
           /\ \A x \in FileClients : fileReq'[x] = fileReq[x] => (ToQueue(x, q)' <=> ToQueue(x, q))
<1>1. TimeOf(q)' = TimeOf(q)
  BY DEF TimeOf, There, File
<1>2. ASSUME NEW x \in FileClients, fileReq'[x] = fileReq[x]
      PROVE  ToQueue(x, q)' <=> ToQueue(x, q)
  BY <1>2 DEF ToQueue, There
<1> QED  BY <1>1, <1>2

\* What a change by a request or by code leaves to be known of a path.
Heard(p) ==
    \/ p \in unseen' \/ (\E c \in FileClients : ToQueue(c, p)') \/ (p \in pending' /\ wake')
    \/ TimeOf(p)' = TimeOf(p) /\ \A c \in FileClients : ~ToQueue(c, p)

\* A request goes on, and the paths it touches are its own.
LEMMA RequestHeard ==
    ASSUME FilesInv, NEW c \in FileClients, NEW r, fileReq' = [fileReq EXCEPT ![c] = r], NEW p \in Paths,
           \/ ToQueue(c, p)'
           \/ p \in unseen' \/ (p \in pending' /\ wake')
           \/ ~ToQueue(c, p) /\ tree'[p] = tree[p] /\ (tree[p] # 0 => inodes'[tree[p]] = inodes[tree[p]])
    PROVE  Heard(p)
<1>1. \A x \in FileClients \ {c} : fileReq'[x] = fileReq[x]
  BY DEF FilesInv
<1>2. CASE ~ToQueue(c, p) /\ tree'[p] = tree[p] /\ (tree[p] # 0 => inodes'[tree[p]] = inodes[tree[p]])
  <2>1. TimeOf(p)' = TimeOf(p) /\ \A x \in FileClients : fileReq'[x] = fileReq[x] => (ToQueue(x, p)' <=> ToQueue(x, p))
    BY <1>2, Aside
  <2>2. CASE \E x \in FileClients \ {c} : ToQueue(x, p)
    BY <1>1, <2>1, <2>2 DEF Heard
  <2>3. CASE \A x \in FileClients \ {c} : ~ToQueue(x, p)
    BY <1>2, <2>1, <2>3 DEF Heard
  <2> QED  BY <2>2, <2>3
<1> QED  BY <1>2 DEF Heard

LEMMA AskHeard ==
    ASSUME FilesInv, "copy" \notin fileMix, NEW c \in FileClients, AskFile(c), NEW p \in Paths
    PROVE  Heard(p)
<1>1. ASSUME NEW r, AskForFile(c, r)
      PROVE  /\ fileReq' = [fileReq EXCEPT ![c] = r] /\ fileReq'[c] = r /\ UNCHANGED <<pending, wake>>
             /\ fileReq[c].at = "idle" /\ ~ToQueue(c, p) /\ r.op \in fileMix
  BY <1>1 DEF AskForFile, FileTo, UsesFile, FilesInv, ToQueue
<1>2. ASSUME NEW r, AskForFile(c, r), UNCHANGED diskVars
      PROVE  Heard(p)
  <2>1. UNCHANGED <<tree, inodes>>
    BY <1>2 DEF diskVars
  <2> QED  BY <1>1, <1>2, <2>1, RequestHeard
<1>3. tree \in [Paths -> 0 .. Len(inodes)]
  BY DEF FilesInv, DiskOK
<1>4. ASSUME NEW q \in Paths, DeleteFile(c, q)
      PROVE  \E r : AskForFile(c, r) /\ Heard(p)
  <2> DEFINE r == [NoFileReq EXCEPT !.op = "delete", !.at = "end", !.path = q]
  <2>1. AskForFile(c, r) /\ tree' = [tree EXCEPT ![q] = 0] /\ UNCHANGED inodes
    BY <1>4 DEF DeleteFile
  <2>2. r.at = "end" /\ r.path = q /\ r.op = "delete"
    BY DEF NoFileReq
  <2> HIDE DEF r
  <2>3. CASE p = q
    <3>1. ToQueue(c, p)'
      BY <1>1, <2>1, <2>2, <2>3 DEF ToQueue
    <3> QED  BY <1>1, <2>1, <3>1, RequestHeard
  <2>4. CASE p # q
    <3>1. tree'[p] = tree[p]
      BY <1>3, <2>1, <2>4
    <3> QED  BY <1>1, <2>1, <3>1, RequestHeard
  <2> QED  BY <2>1, <2>3, <2>4
<1>5. ASSUME NEW x \in Paths, NEW q \in Paths, MoveFile(c, x, q)
      PROVE  \E r : AskForFile(c, r) /\ Heard(p)
  <2> DEFINE r == [NoFileReq EXCEPT !.op = "move", !.at = "end", !.path = x, !.to = q]
  <2>1. AskForFile(c, r) /\ tree' = [tree EXCEPT ![x] = 0, ![q] = tree[x]] /\ UNCHANGED inodes
    BY <1>5 DEF MoveFile
  <2>2. r.at = "end" /\ r.path = x /\ r.op = "move" /\ r.to = q
    BY DEF NoFileReq
  <2> HIDE DEF r
  <2>3. CASE p \in {x, q}
    <3>1. ToQueue(c, p)'
      BY <1>1, <2>1, <2>2, <2>3 DEF ToQueue
    <3> QED  BY <1>1, <2>1, <3>1, RequestHeard
  <2>4. CASE p \notin {x, q}
    <3>1. tree'[p] = tree[p]
      BY <1>3, <2>1, <2>4
    <3> QED  BY <1>1, <2>1, <3>1, RequestHeard
  <2> QED  BY <2>1, <2>3, <2>4
<1>6. ASSUME NEW x \in Paths, NEW q \in Paths, OpenCopy(c, x, q)
      PROVE  FALSE
  <2> DEFINE r == [NoFileReq EXCEPT !.op = "copy", !.at = "copy", !.path = q, !.inode = Len(inodes'), !.version = tree[x],
                                    !.mtime = File(x).mtime]
  <2>1. AskForFile(c, r)
    BY <1>6 DEF OpenCopy
  <2>2. r.op = "copy"
    BY DEF NoFileReq
  <2> HIDE DEF r
  <2> QED  BY <1>1, <2>1, <2>2
<1>7. ASSUME NEW x \in Paths, OpenRead(c, x)
      PROVE  \E r : AskForFile(c, r) /\ UNCHANGED diskVars
  BY <1>7 DEF OpenRead
<1>8. ASSUME NEW x \in Paths, NEW t \in Texts,
             (\E op \in {"write", "put"} : AskWrite(c, op, x, t)) \/ AskEdit(c, x, t) \/ Upload(c, x, t)
      PROVE  \E r : AskForFile(c, r) /\ UNCHANGED diskVars
  <2>1. ASSUME NEW op \in {"write", "put"}, AskWrite(c, op, x, t)
        PROVE  \E r : AskForFile(c, r) /\ UNCHANGED diskVars
    BY <2>1 DEF AskWrite
  <2>2. ASSUME AskEdit(c, x, t)
        PROVE  \E r : AskForFile(c, r) /\ UNCHANGED diskVars
    BY <2>2 DEF AskEdit
  <2>3. ASSUME Upload(c, x, t)
        PROVE  \E r : AskForFile(c, r) /\ UNCHANGED diskVars
    BY <2>3 DEF Upload
  <2> QED  BY <1>8, <2>1, <2>2, <2>3
<1>9. \E r : AskForFile(c, r) /\ (UNCHANGED diskVars \/ Heard(p))
  BY <1>4, <1>5, <1>6, <1>7, <1>8 DEF AskFile
<1> QED  BY <1>1, <1>2, <1>9

LEMMA ServeHeard ==
    ASSUME FilesInv, "copy" \notin fileMix, NEW c \in FileClients, NEW p \in Paths,
           ServeFile(c), unseen' = unseen \union IF fileReq[c].at = "end" THEN Renamed(c) ELSE {}
    PROVE  Heard(p)
<1> DEFINE s == fileReq[c]
<1>1. /\ DiskOK /\ s \in FileReq /\ Holding(c) /\ mtimes \in Nat /\ Len(inodes) \in Nat
      /\ s.text \in FileText /\ s.path \in Paths \union {NoPath} /\ s.inode \in Nat
      /\ fileReq \in [FileClients -> FileReq] /\ wake \in BOOLEAN
      /\ tree[p] \in 0 .. Len(inodes) /\ (tree[p] # 0 => tree[p] \in Ids)
  BY FilesTypes, DiskTypes DEF FileReq, QueueOK
<1>2. \A r : FileTo(c, r) => fileReq' = [fileReq EXCEPT ![c] = r] /\ fileReq'[c] = r
  BY <1>1 DEF FileTo
<1>3. ASSUME NEW r, FileTo(c, r), UNCHANGED <<diskVars, pending, wake>>, s.at \notin {"fill", "end"}
      PROVE  Heard(p)
  <2>1. UNCHANGED <<tree, inodes, pending, wake>> /\ ~ToQueue(c, p)
    BY <1>3 DEF diskVars, ToQueue
  <2> QED  BY <1>2, <1>3, <2>1, RequestHeard
<1>4. CASE FinishRead(c)
  BY <1>3, <1>4 DEF FinishRead, FileStep
<1>5. CASE TakeWriteLock(c)
  BY <1>3, <1>5 DEF TakeWriteLock, FileStep, FileAt
<1>6. CASE CheckVersion(c)
  <2>1. s.at = "check" /\ UNCHANGED <<diskVars, pending, wake>> /\ \E r : FileTo(c, r)
    BY <1>6 DEF CheckVersion, FileStep, FileAt
  <2> QED  BY <1>3, <2>1
<1>7. CASE TruncateFile(c)
  <2> DEFINE i == IF s.op = "edit" THEN s.inode ELSE tree[s.path]
             n == IF i = 0 THEN Len(inodes') ELSE i
             r == [s EXCEPT !.at = "fill", !.mtime = mtimes', !.inode = n]
  <2>1. s.at = "truncate" /\ Opened(i, s.path) /\ FileTo(c, r) /\ UNCHANGED <<pending, wake>>
    BY <1>7 DEF TruncateFile, FileStep
  <2>2. s.path \in Paths /\ i \in {0} \union Ids
    BY <1>1, <2>1, DiskTypes DEF Holding
  <2> HIDE DEF i, n
  <2>3. r.at = "fill" /\ r.path = s.path /\ r.inode = n
    BY <1>1 DEF FileReq
  <2>4. fileReq' = [fileReq EXCEPT ![c] = r] /\ fileReq'[c] = r
    BY <1>2, <2>1
  <2> HIDE DEF r
  <2>5. ~ToQueue(c, p)
    BY <2>1 DEF ToQueue
  <2>6. CASE p = s.path
    <3>1. ToQueue(c, p)'
      BY <2>3, <2>4, <2>6 DEF ToQueue
    <3> QED  BY <2>1, <2>4, <3>1, RequestHeard
  <2>7. CASE p # s.path /\ i = 0
    <3>1. /\ tree' = [tree EXCEPT ![s.path] = Len(inodes')] /\ \A j \in Ids : inodes'[j] = inodes[j]
      BY <1>1, <2>1, <2>2, <2>7, OpenedDisk
    <3>2. tree'[p] = tree[p]
      BY <1>1, <2>7, <3>1 DEF DiskOK
    <3> QED  BY <1>1, <2>1, <2>4, <2>5, <3>1, <3>2, RequestHeard
  <2>8. CASE i # 0
    <3>1. UNCHANGED tree /\ \A j \in Ids \ {i} : inodes'[j] = inodes[j]
      BY <1>1, <2>1, <2>2, <2>8, OpenedDisk
    <3>2. CASE tree[p] = i
      <4>1. ToQueue(c, p)'
        BY <2>3, <2>4, <2>8, <3>1, <3>2 DEF ToQueue, There, n
      <4> QED  BY <2>1, <2>4, <4>1, RequestHeard
    <3>3. CASE tree[p] # i
      BY <1>1, <2>1, <2>4, <2>5, <3>1, <3>3, RequestHeard
    <3> QED  BY <3>2, <3>3
  <2> QED  BY <2>6, <2>7, <2>8
<1>8. CASE Fill(c)
  <2> DEFINE r == [s EXCEPT !.at = "end", !.mtime = mtimes']
  <2>1. s.at = "fill" /\ FileTo(c, r) /\ UNCHANGED <<pending, wake>>
    BY <1>8 DEF Fill, FileStep
  <2>2. PICK t \in FileText : Overwritten(s.inode, t)
    BY <1>1, <1>8, FilesAssumption DEF Fill, FileText
  <2>3. s.inode \in Ids /\ s.op # "move"
    BY <1>1, <2>1 DEF Holding, Locked
  <2>4. UNCHANGED tree /\ \A j \in Ids \ {s.inode} : inodes'[j] = inodes[j]
    BY <1>1, <2>2, <2>3, OverwrittenDisk
  <2>5. r.at = "end" /\ r.path = s.path /\ r.inode = s.inode
    BY <1>1 DEF FileReq
  <2>6. fileReq' = [fileReq EXCEPT ![c] = r] /\ fileReq'[c] = r
    BY <1>2, <2>1
  <2> HIDE DEF r
  <2>7. CASE p = s.path \/ (There(p) /\ tree[p] = s.inode)
    <3>1. ToQueue(c, p)'
      BY <2>4, <2>5, <2>6, <2>7 DEF ToQueue, There
    <3> QED  BY <2>1, <2>6, <3>1, RequestHeard
  <2>8. CASE ~(p = s.path \/ (There(p) /\ tree[p] = s.inode))
    <3>1. ~ToQueue(c, p) /\ (tree[p] # 0 => inodes'[tree[p]] = inodes[tree[p]])
      BY <1>1, <2>3, <2>4, <2>8 DEF ToQueue, There
    <3> QED  BY <2>1, <2>4, <2>6, <3>1, RequestHeard
  <2> QED  BY <2>7, <2>8
<1>9. CASE CopyText(c)
  BY <1>1, <1>9 DEF CopyText, FileStep, Holding
<1>10. CASE EndFileReq(c)
  <2>1. /\ s.at = "end" /\ FileTo(c, NoFileReq) /\ wake' = TRUE /\ UNCHANGED diskVars
        /\ pending' = pending \union {s.path} \union IF s.op = "move" THEN {s.to} ELSE {}
        /\ Renamed(c) \subseteq unseen'
    BY <1>10 DEF EndFileReq, FileStep, ServeFile, AbortPut
  <2>2. UNCHANGED <<tree, inodes>>
    BY <2>1 DEF diskVars
  <2>3. ToQueue(c, p) => p \in pending' \/ p \in unseen'
    BY <2>1 DEF ToQueue, Renamed
  <2> QED  BY <1>2, <2>1, <2>2, <2>3, RequestHeard
<1> QED  BY <1>4, <1>5, <1>6, <1>7, <1>8, <1>9, <1>10 DEF ServeFile

LEMMA AbortHeard ==
    ASSUME FilesInv, NEW c \in FileClients, AbortPut(c), NEW p \in Paths,
           unseen' = unseen \union {fileReq[c].path} \union Renamed(c)
    PROVE  Heard(p)
<1> DEFINE s == fileReq[c]
<1>1. /\ DiskOK /\ Holding(c) /\ fileReq \in [FileClients -> FileReq] /\ (tree[p] # 0 => tree[p] \in Ids)
  BY FilesTypes, DiskTypes
<1>2. /\ s.at = "fill" /\ fileReq' = [fileReq EXCEPT ![c] = NoFileReq] /\ UNCHANGED <<pending, wake>> /\ s.op = "put"
      /\ UNCHANGED diskVars \/ Overwritten(s.inode, Torn)
      /\ s.path \in unseen' /\ Renamed(c) \subseteq unseen'
  BY DEF AbortPut, FileStep, FileTo
<1>3. s.inode \in Ids /\ Torn \in FileText
  BY <1>1, <1>2 DEF Holding, FileText
<1>4. UNCHANGED tree /\ \A j \in Ids \ {s.inode} : inodes'[j] = inodes[j]
  <2>1. CASE UNCHANGED diskVars
    BY <2>1 DEF diskVars
  <2>2. CASE Overwritten(s.inode, Torn)
    BY <1>1, <1>3, <2>2, OverwrittenDisk
  <2> QED  BY <1>2, <2>1, <2>2
<1>5. CASE p = s.path \/ (There(p) /\ tree[p] = s.inode)
  <2>1. p \in unseen'
    BY <1>2, <1>5 DEF Renamed
  <2> QED  BY <1>1, <1>2, <2>1, RequestHeard
<1>6. CASE ~(p = s.path \/ (There(p) /\ tree[p] = s.inode))
  <2>1. ~ToQueue(c, p) /\ (tree[p] # 0 => inodes'[tree[p]] = inodes[tree[p]])
    BY <1>1, <1>2, <1>3, <1>4, <1>6 DEF ToQueue, There
  <2> QED  BY <1>1, <1>2, <1>4, <2>1, RequestHeard
<1> QED  BY <1>5, <1>6

LEMMA CodeHeard ==
    ASSUME FilesInv, NEW x \in Paths, NEW t \in Texts, RunCode(x, t), unseen' = unseen \union {x}, NEW p \in Paths
    PROVE  Heard(p)
<1>1. /\ DiskOK /\ UNCHANGED <<fileReq, pending, wake>> /\ tree \in [Paths -> 0 .. Len(inodes)]
      /\ tree[p] # 0 => tree[p] \in Ids
      /\ tree[x] # 0 => tree[x] \in Ids
      /\ tree[p] = tree[x] /\ tree[x] # 0 => p = x
  BY DiskTypes DEF FilesInv, RunCode, DiskOK
<1>2. CASE p = x
  BY <1>1, <1>2 DEF Heard
<1>3. CASE p # x
  <2>1. tree'[p] = tree[p] /\ (tree[p] # 0 => inodes'[tree[p]] = inodes[tree[p]])
    <3>1. CASE There(x) /\ Overwritten(tree[x], t)
      <4>1. UNCHANGED tree /\ \A j \in Ids \ {tree[x]} : inodes'[j] = inodes[j]
        BY <1>1, <3>1, OverwrittenDisk DEF There, FileText
      <4> QED  BY <1>1, <1>3, <3>1, <4>1 DEF There
    <3>2. CASE tree' = [tree EXCEPT ![x] = 0] /\ UNCHANGED inodes
      BY <1>1, <1>3, <3>2
    <3>3. CASE /\ mtimes' = mtimes + 1 /\ tree' = [tree EXCEPT ![x] = Len(inodes) + 1]
               /\ inodes' = Append(inodes, [text |-> t, mtime |-> mtimes'])
      <4>1. Len(inodes') = Len(inodes) + 1
        BY <1>1, <3>3 DEF DiskOK
      <4>2. \A j \in Ids : inodes'[j] = inodes[j]
        BY <1>1, <3>3, <4>1, Created DEF FileText
      <4> QED  BY <1>1, <1>3, <3>3, <4>2
    <3> QED  BY <3>1, <3>2, <3>3 DEF RunCode
  <2>2. /\ TimeOf(p)' = TimeOf(p)
        /\ \A c \in FileClients : fileReq'[c] = fileReq[c] => (ToQueue(c, p)' <=> ToQueue(c, p))
    BY <2>1, Aside
  <2> QED  BY <1>1, <2>2 DEF Heard
<1> QED  BY <1>1, <1>2, <1>3

LEMMA QueueGrows ==
    ASSUME FileChange
    PROVE  pending \subseteq pending' /\ (wake => wake') /\ unseen \subseteq unseen'
<1>1. ASSUME NEW c \in FileClients, AskFile(c)
      PROVE  UNCHANGED <<pending, wake>>
  BY <1>1 DEF AskFile, OpenRead, DeleteFile, AskWrite, AskEdit, Upload, MoveFile, OpenCopy, AskForFile
<1>2. ASSUME NEW c \in FileClients, ServeFile(c) \/ AbortPut(c)
      PROVE  pending \subseteq pending' /\ (wake => wake')
  BY <1>2 DEF ServeFile, AbortPut, FinishRead, TakeWriteLock, CheckVersion, TruncateFile, Fill, CopyText, EndFileReq
<1>3. ASSUME NEW p \in Paths, NEW t \in Texts, RunCode(p, t)
      PROVE  UNCHANGED <<pending, wake>>
  BY <1>3 DEF RunCode
<1> QED  BY <1>1, <1>2, <1>3 DEF FileChange

LEMMA FilesHeard ==
    ASSUME FilesInv, "copy" \notin fileMix, FileChange, NEW p \in Paths
    PROVE  Heard(p)
BY AskHeard, ServeHeard, AbortHeard, CodeHeard DEF FileChange

FileStages == {"stat", "compare", "read", "text", "store"}

\* A step that leaves the paths alone.
LEMMA PathsAside ==
    ASSUME FilesFollowed, UNCHANGED <<tree, inodes, fileReq, fileMix, pending>>, Paths \intersect unseen \subseteq unseen',
           \A p \in Paths : indexed'[p].stamp = indexed[p].stamp,
           {indexer.at, indexer'.at} \intersect FileStages = {},
           pending # {} /\ Awake => Awake'
    PROVE  FilesFollowed'
<1> SUFFICES ASSUME "copy" \notin fileMix, NEW p \in Paths \ unseen'
             PROVE  FileFollowed(p)'
  BY DEF FilesFollowed
<1>1. FileFollowed(p) /\ ~Looked(p) /\ ~Looked(p)'
  BY DEF FilesFollowed, Looked, FileStages
<1>2. TimeOf(p)' = TimeOf(p) /\ \A c \in FileClients : ToQueue(c, p)' <=> ToQueue(c, p)
  BY DEF TimeOf, There, File, ToQueue
<1>3. ToLook(p) => ToLook(p)'
  BY <1>2 DEF ToLook, FileStages
<1> QED  BY <1>1, <1>2, <1>3 DEF FileFollowed

\* A step that leaves the rows alone.
LEMMA RowsAside ==
    ASSUME RowsFollowed, UNCHANGED <<rows, install, untold, appPending, storedDecl>>, Rows \intersect unseen \subseteq unseen',
           \A r \in Rows : indexed'[r].stamp = indexed[r].stamp,
           indexer.at \notin {"app_known", "app_read", "app_store"}, indexer'.at \notin {"app_read", "app_store"},
           indexer.scan /\ indexer.at \in FileStages =>
               indexer'.at = "app_known" \/ (indexer'.scan /\ indexer'.at \in FileStages),
           appPending /\ Awake => Awake'
    PROVE  RowsFollowed'
<1> SUFFICES ASSUME NEW r \in Rows \ unseen'
             PROVE  RowFollowed(r)'
  BY DEF RowsFollowed
<1>1. RowFollowed(r)
  BY DEF RowsFollowed
<1>2. RowCurrent(r)' <=> RowCurrent(r)
  BY DEF RowCurrent, Declared
<1>3. RowsToLook => RowsToLook'
  BY DEF RowsToLook, FileStages
<1> QED  BY <1>1, <1>2, <1>3 DEF RowFollowed

\* A step that only drops what is indexed, or indexes it.
LEMMA StampedStays ==
    ASSUME Stamped, indexer'.batch \subseteq indexer.batch, indexer'.at # "update",
           \A d \in Docs : indexed'[d] \in {Absent, indexed[d]} \/ indexed'[d].stamp # 0
    PROVE  Stamped'
BY DEF Stamped

\* A step of the task that is not about files, nor about rows.
LEMMA TaskAside ==
    ASSUME FollowInv, UNCHANGED <<fileVars, appVars, unseen, storedDecl>>,
           \A d \in Docs : indexed'[d].stamp = indexed[d].stamp,
           {indexer.at, indexer'.at} \subseteq {"idle", "model", "select", "embed", "update", "pop"},
           indexer.at # "pop", Stamped'
    PROVE  FollowInv'
<1>1. UNCHANGED <<tree, inodes, fileReq, fileMix, pending, wake, rows, install, untold, appPending>>
  BY DEF fileVars, diskVars, appVars
<1>2. Awake => Awake'
  BY <1>1 DEF Awake
<1>3. FilesFollowed'
  BY <1>1, <1>2, PathsAside, Constants DEF FollowInv, FileStages
<1>4. RowsFollowed'
  BY <1>1, <1>2, RowsAside, Constants DEF FollowInv, FileStages
<1>5. Within'
  BY DEF Within
<1> QED  BY <1>3, <1>4, <1>5 DEF FollowInv

LEMMA AskModelFollows ==
    ASSUME Typed, FollowInv, AskModel
    PROVE  FollowInv'
<1>1. /\ UNCHANGED <<fileVars, appVars, unseen, indexed, storedDecl>> /\ indexer.at = "model" /\ indexer \in Indexer
      /\ \/ indexer' = Asleep
         \/ \E m : indexer' = [indexer EXCEPT !.at = "select", !.embedding = TRUE, !.model = m]
  BY DEF AskModel, In, storeVars, Typed, IndexOK
<1>2. indexer'.at \in {"idle", "select"} /\ indexer'.batch \subseteq indexer.batch
  <2>1. CASE indexer' = Asleep
    BY <2>1 DEF Asleep
  <2>2. CASE \E m : indexer' = [indexer EXCEPT !.at = "select", !.embedding = TRUE, !.model = m]
    BY <1>1, <2>2 DEF Indexer
  <2> QED  BY <1>1, <2>1, <2>2
<1>3. Stamped'
  BY <1>1, <1>2, StampedStays DEF FollowInv
<1> QED  BY <1>1, <1>2, <1>3, TaskAside

LEMMA SelectFollows ==
    ASSUME Typed, FollowInv, Select
    PROVE  FollowInv'
<1> DEFINE b == {<<d, indexed[d].text>> : d \in ToEmbed}
<1>1. /\ UNCHANGED <<fileVars, appVars, unseen, indexed, storedDecl>> /\ indexer.at = "select" /\ indexer \in Indexer
      /\ indexer' = Asleep \/ indexer' = [indexer EXCEPT !.at = "embed", !.batch = b]
  BY DEF Select, In, storeVars, Typed, IndexOK
<1>2. \A x \in b : x[2].text # Empty
  BY DEF ToEmbed
<1> HIDE DEF b
<1>3. indexer'.at \in {"idle", "embed"} /\ indexer'.batch \in {{}, b}
  <2>1. CASE indexer' = Asleep
    BY <2>1 DEF Asleep
  <2>2. CASE indexer' = [indexer EXCEPT !.at = "embed", !.batch = b]
    BY <1>1, <2>2 DEF Indexer
  <2> QED  BY <1>1, <2>1, <2>2
<1>4. Stamped'
  BY <1>1, <1>2, <1>3 DEF FollowInv, Stamped
<1> QED  BY <1>1, <1>3, <1>4, TaskAside

LEMMA EmbedFollows ==
    ASSUME Typed, FollowInv, Embed
    PROVE  FollowInv'
<1>1. /\ UNCHANGED <<fileVars, appVars, unseen, indexed, storedDecl>> /\ indexer.at = "embed" /\ indexer \in Indexer
  BY DEF Embed, In, storeVars, Typed, IndexOK
<1> PICK b \in indexer.batch, m \in Believed :
         \E v \in {[text |-> b[2], model |-> served], NoVector} :
             indexer' = [indexer EXCEPT !.at = "update", !.batch = @ \ {b}, !.doc = b[1], !.text = b[2], !.vector = v]
  BY DEF Embed
<1>2. PICK v : indexer' = [indexer EXCEPT !.at = "update", !.batch = @ \ {b}, !.doc = b[1], !.text = b[2], !.vector = v]
  OBVIOUS
<1>3. indexer'.at = "update" /\ indexer'.batch \subseteq indexer.batch /\ indexer'.text = b[2]
  BY <1>1, <1>2 DEF Indexer
<1>4. Stamped'
  BY <1>1, <1>3 DEF FollowInv, Stamped
<1> QED  BY <1>1, <1>3, <1>4, TaskAside

LEMMA UpdateFollows ==
    ASSUME Typed, FollowInv, UpdateChunk
    PROVE  FollowInv'
<1>1. /\ UNCHANGED <<fileVars, appVars, unseen, storedDecl>> /\ indexer.at = "update" /\ indexer \in Indexer
      /\ indexer' = [indexer EXCEPT !.at = "pop", !.doc = NoPath, !.text = NoText, !.vector = NoVector]
  BY DEF UpdateChunk, In, Typed, IndexOK
<1>2. indexer'.at = "pop" /\ indexer'.batch = indexer.batch
  BY <1>1 DEF Indexer
<1>3. \A d \in Docs : indexed'[d].stamp = indexed[d].stamp /\ indexed'[d].text = indexed[d].text
  BY ChunkUpdated
<1>4. Stamped'
  <2>1. ASSUME NEW d \in Docs, indexed'[d].stamp = 0
        PROVE  indexed'[d] = Absent
    <3>1. indexed[d] = Absent
      BY <1>3, <2>1 DEF FollowInv, Stamped
    <3>2. indexed[d].text # indexer.text
      BY <1>1, <3>1, Constants DEF FollowInv, Stamped, NoText
    <3> QED  BY <3>1, <3>2, ChunkUpdated
  <2> QED  BY <1>2, <2>1 DEF FollowInv, Stamped
<1> QED  BY <1>1, <1>2, <1>3, <1>4, TaskAside

LEMMA EmbedFailsFollows ==
    ASSUME Typed, FollowInv, EmbedFails
    PROVE  FollowInv'
<1>1. UNCHANGED <<fileVars, appVars, unseen, indexed, storedDecl>> /\ indexer.at = "embed" /\ indexer' = Asleep
  BY DEF EmbedFails, In, storeVars
<1>2. indexer'.at = "idle" /\ indexer'.batch = {}
  BY <1>1 DEF Asleep
<1>3. Stamped'
  BY <1>1, <1>2, StampedStays DEF FollowInv
<1> QED  BY <1>1, <1>2, <1>3, TaskAside

\* What the steps of the task do not change of the paths.
LEMMA PathsStay ==
    ASSUME UNCHANGED <<tree, inodes, fileReq>>
    PROVE  \A p \in Paths : /\ TimeOf(p)' = TimeOf(p)
                            /\ (\E c \in FileClients : ToQueue(c, p))' <=> \E c \in FileClients : ToQueue(c, p)
BY DEF TimeOf, There, File, ToQueue

LEMMA BeginFollows ==
    ASSUME Typed, FollowInv, BeginIndexing
    PROVE  FollowInv'
<1>1. UNCHANGED <<tree, inodes, fileReq, fileMix, pending, rows, install, untold, appPending, unseen>> /\ indexer.at = "idle"
  BY DEF BeginIndexing, requestVars, diskVars, appVars
<1>2. Asleep \in Indexer /\ Asleep.batch = {} /\ IndexOK
  BY Constants DEF Asleep, Typed
<1>3. CASE indexer' = [Asleep EXCEPT !.at = "pop"] /\ UNCHANGED storeVars
  <2>1. indexer'.at = "pop" /\ indexer'.batch = {} /\ UNCHANGED <<indexed, storedDecl>>
    BY <1>2, <1>3 DEF Indexer, storeVars
  <2>2. Awake'
    BY <2>1 DEF Awake
  <2>3. FilesFollowed'
    BY <1>1, <2>1, <2>2, PathsAside DEF FollowInv, FileStages
  <2>4. RowsFollowed'
    BY <1>1, <2>1, <2>2, RowsAside DEF FollowInv, FileStages
  <2>5. Stamped'
    BY <2>1, StampedStays DEF FollowInv
  <2> QED  BY <2>1, <2>3, <2>4, <2>5 DEF FollowInv, Within
<1>4. CASE indexer' = [Asleep EXCEPT !.at = "stat", !.scan = TRUE, !.under = Paths]
  <2>1. indexer'.at = "stat" /\ indexer'.batch = {} /\ indexer'.scan /\ indexer'.under = Paths
    BY <1>2, <1>4 DEF Indexer
  <2>2. UNCHANGED storeVars \/ (indexed' = RowsDropped /\ storedDecl' = NoDecl)
    BY DEF BeginIndexing
  <2>3. FilesFollowed'
    BY <2>1 DEF FilesFollowed, FileFollowed, ToLook
  <2>4. RowsFollowed'
    BY <2>1 DEF RowsFollowed, RowFollowed, RowsToLook
  <2>5. \A d \in Docs : indexed'[d] \in {Absent, indexed[d]}
    BY <2>2 DEF storeVars, RowsDropped
  <2>6. Stamped'
    BY <2>1, <2>5, StampedStays DEF FollowInv
  <2> QED  BY <2>1, <2>3, <2>4, <2>6 DEF FollowInv, Within
<1> QED  BY <1>3, <1>4 DEF BeginIndexing

LEMMA PopFollows ==
    ASSUME Typed, FollowInv, Pop
    PROVE  FollowInv'
<1>1. /\ UNCHANGED <<tree, inodes, fileReq, fileMix, wake, rows, install, untold, unseen, indexed, storedDecl>>
      /\ indexer.at = "pop" /\ indexer \in Indexer
  BY DEF Pop, requestVars, diskVars, storeVars, Typed, IndexOK
<1>2. ASSUME NEW p \in pending, pending' = pending \ {p}, UNCHANGED appPending,
             indexer' = [indexer EXCEPT !.at = "stat", !.scan = FALSE, !.under = {p}]
      PROVE  FollowInv'
  <2>1. indexer'.at = "stat" /\ ~indexer'.scan /\ indexer'.under = {p} /\ indexer'.batch = indexer.batch
    BY <1>1, <1>2 DEF Indexer
  <2>2. Awake'
    BY <2>1 DEF Awake
  <2>3. ASSUME NEW q \in Paths \ unseen', "copy" \notin fileMix
        PROVE  FileFollowed(q)'
    <3>1. CASE q = p
      BY <2>1, <3>1 DEF FileFollowed, ToLook
    <3>2. CASE q # p
      <4>1. FileFollowed(q) /\ ~Looked(q) /\ ~Looked(q)'
        BY <1>1, <2>1, <2>3 DEF FollowInv, FilesFollowed, Looked
      <4>2. ToLook(q) => ToLook(q)'
        BY <1>1, <1>2, <2>2, <3>2, PathsStay DEF ToLook
      <4> QED  BY <1>1, <4>1, <4>2, PathsStay DEF FileFollowed
    <3> QED  BY <3>1, <3>2
  <2>4. FilesFollowed'
    BY <1>1, <2>3 DEF FilesFollowed
  <2>5. RowsFollowed'
    BY <1>1, <1>2, <2>1, <2>2, RowsAside DEF FollowInv, FileStages
  <2>6. Stamped'
    BY <1>1, <2>1, StampedStays DEF FollowInv
  <2> QED  BY <2>1, <2>4, <2>5, <2>6 DEF FollowInv, Within
<1>3. ASSUME pending = {}, pending' = pending, NEW a \in {"app_known", "model", "select", "embed"}, Goes(a),
             a # "app_known" => ~appPending /\ UNCHANGED appPending
      PROVE  FollowInv'
  <2>1. indexer'.at = a /\ indexer'.batch = indexer.batch
    BY <1>1, <1>3 DEF Indexer, Goes
  <2>2. FilesFollowed'
    BY <1>1, <1>3, <2>1, PathsAside, Constants DEF FollowInv, FileStages
  <2>3. CASE a = "app_known"
    <3>1. RowsFollowed'
      BY <2>1, <2>3 DEF RowsFollowed, RowFollowed, RowsToLook
    <3>2. Stamped'
      BY <1>1, <2>1, <2>3, StampedStays DEF FollowInv
    <3> QED  BY <2>1, <2>2, <2>3, <3>1, <3>2 DEF FollowInv, Within
  <2>4. CASE a # "app_known" /\ ~appPending
    <3>1. RowsFollowed'
      BY <1>1, <1>3, <2>1, <2>4, RowsAside, Constants DEF FollowInv, FileStages
    <3>2. Stamped'
      BY <1>1, <2>1, <2>4, StampedStays DEF FollowInv
    <3> QED  BY <2>1, <2>2, <3>1, <3>2 DEF FollowInv, Within
  <2> QED  BY <1>3, <2>3, <2>4
<1>4. \/ \E p \in pending : /\ pending' = pending \ {p} /\ UNCHANGED appPending
                            /\ indexer' = [indexer EXCEPT !.at = "stat", !.scan = FALSE, !.under = {p}]
      \/ pending = {} /\ pending' = pending /\ Goes("app_known")
      \/ /\ pending = {} /\ pending' = pending /\ ~appPending /\ UNCHANGED appPending
         /\ \E a \in {"model", "select", "embed"} : Goes(a)
  BY DEF Pop
<1> QED  BY <1>2, <1>3, <1>4

LEMMA StatFollows ==
    ASSUME Typed, FollowInv, StatTree
    PROVE  FollowInv'
<1> DEFINE f == [p \in Paths |-> IF p \in indexer.under \ {} /\ There(p) THEN File(p).mtime ELSE 0]
<1>1. /\ UNCHANGED <<tree, inodes, fileReq, fileMix, wake, pending, rows, install, untold, appPending, indexed, storedDecl>>
      /\ indexer.at = "stat" /\ indexer \in Indexer /\ indexer' = [indexer EXCEPT !.at = "compare", !.found = f]
      /\ unseen' = IF indexer.scan THEN unseen \ Paths ELSE unseen
  BY DEF StatTree, StatBut, In, fileVars, diskVars, appVars, storeVars, Typed, IndexOK
<1>2. \A p \in indexer.under : p \in Paths => f[p] = TimeOf(p)
  BY DEF TimeOf
<1> HIDE DEF f
<1>3. /\ indexer'.at = "compare" /\ indexer'.found = f /\ indexer'.under = indexer.under
      /\ indexer'.scan = indexer.scan /\ indexer'.batch = indexer.batch
  BY <1>1 DEF Indexer
<1>4. Awake'
  BY <1>3 DEF Awake
<1>5. ASSUME NEW p \in Paths \ unseen', "copy" \notin fileMix
      PROVE  FileFollowed(p)'
  <2>1. CASE p \in indexer.under
    BY <1>1, <1>2, <1>3, <2>1, PathsStay DEF FileFollowed, Looked, LookedTime
  <2>2. CASE p \notin indexer.under
    <3>1. p \notin unseen
      BY <1>1, <1>5, <2>2 DEF FollowInv, Within
    <3>2. FileFollowed(p) /\ ~Looked(p) /\ ~Looked(p)'
      BY <1>1, <1>3, <1>5, <2>2, <3>1 DEF FollowInv, FilesFollowed, Looked
    <3>3. ToLook(p) => ToLook(p)'
      BY <1>1, <1>4, <2>2, PathsStay DEF ToLook
    <3> QED  BY <1>1, <3>2, <3>3, PathsStay DEF FileFollowed
  <2> QED  BY <2>1, <2>2
<1>6. FilesFollowed'
  BY <1>1, <1>5 DEF FilesFollowed
<1>7. RowsFollowed'
  <2>1. Rows \intersect unseen \subseteq unseen'
    BY <1>1, Constants
  <2> QED  BY <1>1, <1>3, <1>4, <2>1, RowsAside DEF FollowInv, FileStages
<1>8. Stamped'
  BY <1>1, <1>3, StampedStays DEF FollowInv
<1> QED  BY <1>3, <1>6, <1>7, <1>8 DEF FollowInv, Within

LEMMA Stages == \A todo : /\ AfterFile(todo) \in {"read", "app_known", "pop"} /\ (todo # {} => AfterFile(todo) = "read")
                          /\ indexer.scan => AfterFile(todo) \in {"read", "app_known"}
BY DEF AfterFile

LEMMA CompareFollows ==
    ASSUME Typed, FollowInv, Compare
    PROVE  FollowInv'
<1> DEFINE t == {p \in indexer.under : indexer.found[p] \notin {0, indexed[p].stamp}}
           a == AfterFile(t)
           f == Asleep.found
<1>1. /\ UNCHANGED <<tree, inodes, fileReq, fileMix, wake, pending, rows, install, untold, appPending, unseen, storedDecl>>
      /\ indexer.at = "compare" /\ indexer \in Indexer /\ indexer' = [indexer EXCEPT !.at = a, !.todo = t, !.found = f]
      /\ indexed' = [d \in Docs |-> IF d \in indexer.under /\ indexer.found[d] = 0 THEN Absent ELSE indexed[d]]
      /\ indexer.under \subseteq Paths /\ IndexOK
  BY IndexTypes DEF Compare, In, fileVars, diskVars, appVars, Typed, IndexOK
<1>2. t \subseteq indexer.under
  OBVIOUS
<1>3. \A p \in indexer.under \ t : indexer.found[p] \in {0, indexed[p].stamp}
  OBVIOUS
<1>4. a \in {"read", "app_known", "pop"} /\ (t # {} => a = "read") /\ (indexer.scan => a \in {"read", "app_known"})
  BY Stages
<1> HIDE DEF t, a, f
<1>5. /\ indexer'.at = a /\ indexer'.todo = t /\ indexer'.under = indexer.under /\ indexer'.scan = indexer.scan
      /\ indexer'.batch = indexer.batch
  BY <1>1 DEF Indexer
<1>6. Awake'
  BY <1>4, <1>5 DEF Awake
<1>7. ASSUME NEW p \in Paths \ unseen', "copy" \notin fileMix
      PROVE  FileFollowed(p)'
  <2>1. FileFollowed(p) /\ ~Looked(p)' /\ p \in Docs
    BY <1>1, <1>4, <1>5, <1>7, Constants DEF FollowInv, FilesFollowed, Looked
  <2>2. ToLook(p) => ToLook(p)'
    BY <1>1, <1>6, PathsStay DEF ToLook
  <2>3. CASE p \in t
    BY <1>4, <1>5, <2>3 DEF FileFollowed, ToLook
  <2>4. CASE p \in indexer.under \ t
    <3>1. indexed'[p].stamp = indexer.found[p]
      BY <1>1, <1>3, <2>1, <2>4, Constants
    <3> QED  BY <1>1, <2>1, <2>2, <2>4, <3>1, PathsStay DEF FileFollowed, Looked, LookedTime
  <2>5. CASE p \notin indexer.under
    <3>1. indexed'[p] = indexed[p] /\ ~Looked(p)
      BY <1>1, <2>1, <2>5 DEF Looked
    <3> QED  BY <1>1, <2>1, <2>2, <3>1, PathsStay DEF FileFollowed
  <2> QED  BY <1>2, <2>3, <2>4, <2>5
<1>8. FilesFollowed'
  BY <1>1, <1>7 DEF FilesFollowed
<1>9. RowsFollowed'
  <2>1. \A r \in Rows : indexed'[r] = indexed[r]
    BY <1>1, Constants
  <2> QED  BY <1>1, <1>4, <1>5, <1>6, <2>1, RowsAside DEF FollowInv, FileStages
<1>10. Stamped'
  <2>1. \A d \in Docs : indexed'[d] \in {Absent, indexed[d]}
    BY <1>1
  <2> QED  BY <1>4, <1>5, <2>1, StampedStays DEF FollowInv
<1> QED  BY <1>2, <1>4, <1>5, <1>8, <1>9, <1>10 DEF FollowInv, Within

LEMMA OpenFollows ==
    ASSUME Typed, FollowInv, OpenText
    PROVE  FollowInv'
<1>1. /\ UNCHANGED <<tree, inodes, fileReq, fileMix, wake, pending, rows, install, untold, appPending, unseen, indexed,
                      storedDecl>>
      /\ indexer.at = "read" /\ indexer \in Indexer /\ indexer.todo \subseteq indexer.under
  BY DEF OpenText, In, fileVars, diskVars, appVars, storeVars, Typed, IndexOK, FollowInv, Within
<1> PICK p \in indexer.todo :
          indexer' = [indexer EXCEPT !.at = IF There(p) THEN "text" ELSE "store", !.todo = @ \ {p}, !.doc = p,
                                     !.inode = tree[p], !.stamp = IF There(p) THEN File(p).mtime ELSE 0]
  BY DEF OpenText
<1> DEFINE a == IF There(p) THEN "text" ELSE "store"
           m == IF There(p) THEN File(p).mtime ELSE 0
<1>2. /\ indexer' = [indexer EXCEPT !.at = a, !.todo = @ \ {p}, !.doc = p, !.inode = tree[p], !.stamp = m]
      /\ a \in {"text", "store"} /\ m = TimeOf(p)
  BY DEF TimeOf
<1> HIDE DEF a, m
<1>3. /\ indexer'.at = a /\ indexer'.todo = indexer.todo \ {p} /\ indexer'.doc = p /\ indexer'.stamp = m
      /\ indexer'.under = indexer.under /\ indexer'.scan = indexer.scan /\ indexer'.batch = indexer.batch
  BY <1>1, <1>2 DEF Indexer
<1>4. Awake'
  BY <1>2, <1>3 DEF Awake
<1>5. ASSUME NEW q \in Paths \ unseen', "copy" \notin fileMix
      PROVE  FileFollowed(q)'
  <2>1. CASE q = p
    BY <1>1, <1>2, <1>3, <2>1, PathsStay DEF FileFollowed, Looked, LookedTime
  <2>2. CASE q # p
    <3>1. FileFollowed(q) /\ ~Looked(q) /\ ~Looked(q)'
      BY <1>1, <1>2, <1>3, <1>5, <2>2 DEF FollowInv, FilesFollowed, Looked
    <3>2. ToLook(q) => ToLook(q)'
      BY <1>1, <1>2, <1>3, <1>4, <2>2, PathsStay DEF ToLook
    <3> QED  BY <1>1, <3>1, <3>2, PathsStay DEF FileFollowed
  <2> QED  BY <2>1, <2>2
<1>6. FilesFollowed'
  BY <1>1, <1>5 DEF FilesFollowed
<1>7. RowsFollowed'
  BY <1>1, <1>2, <1>3, <1>4, RowsAside DEF FollowInv, FileStages
<1>8. Stamped'
  BY <1>1, <1>2, <1>3, StampedStays DEF FollowInv
<1> QED  BY <1>1, <1>2, <1>3, <1>6, <1>7, <1>8 DEF FollowInv, Within

LEMMA ReadFollows ==
    ASSUME Typed, FollowInv, ReadText
    PROVE  FollowInv'
<1>1. /\ UNCHANGED <<tree, inodes, fileReq, fileMix, wake, pending, rows, install, untold, appPending, unseen, indexed,
                      storedDecl>>
      /\ indexer.at = "text" /\ indexer \in Indexer
  BY DEF ReadText, In, fileVars, diskVars, appVars, storeVars, Typed, IndexOK
<1>2. PICK t : indexer' = [indexer EXCEPT !.at = "store", !.inode = 0, !.text = t]
  BY DEF ReadText
<1>3. /\ indexer'.at = "store" /\ indexer'.todo = indexer.todo /\ indexer'.doc = indexer.doc /\ indexer'.stamp = indexer.stamp
      /\ indexer'.under = indexer.under /\ indexer'.scan = indexer.scan /\ indexer'.batch = indexer.batch
  BY <1>1, <1>2 DEF Indexer
<1>4. Awake'
  BY <1>3 DEF Awake
<1>5. ASSUME NEW q \in Paths \ unseen', "copy" \notin fileMix
      PROVE  FileFollowed(q)'
  <2>1. FileFollowed(q) /\ (Looked(q)' <=> Looked(q)) /\ LookedTime(q)' = LookedTime(q)
    BY <1>1, <1>3, <1>5 DEF FollowInv, FilesFollowed, Looked, LookedTime
  <2>2. ToLook(q) => ToLook(q)'
    BY <1>1, <1>3, <1>4, PathsStay DEF ToLook
  <2> QED  BY <1>1, <2>1, <2>2, PathsStay DEF FileFollowed
<1>6. FilesFollowed'
  BY <1>1, <1>5 DEF FilesFollowed
<1>7. RowsFollowed'
  BY <1>1, <1>3, <1>4, RowsAside DEF FollowInv, FileStages
<1>8. Stamped'
  BY <1>1, <1>3, StampedStays DEF FollowInv
<1> QED  BY <1>1, <1>3, <1>6, <1>7, <1>8 DEF FollowInv, Within

LEMMA StoreFollows ==
    ASSUME Typed, FollowInv, StoreText
    PROVE  FollowInv'
<1> DEFINE p == indexer.doc
           e == IF indexer.stamp = 0 THEN Absent ELSE Entry(p, indexer.stamp, indexer.text)
           a == AfterFile(indexer.todo)
<1>1. /\ UNCHANGED <<tree, inodes, fileReq, fileMix, wake, pending, rows, install, untold, appPending, unseen, storedDecl>>
      /\ indexer.at = "store" /\ indexer \in Indexer /\ indexed' = [indexed EXCEPT ![p] = e] /\ p \in Paths
      /\ indexer' = [indexer EXCEPT !.at = a, !.doc = NoPath, !.stamp = 0, !.text = NoText]
      /\ indexed \in [Docs -> Chunk] /\ IndexOK
  BY DEF StoreText, In, fileVars, diskVars, appVars, Typed, IndexOK, Task
<1>2. e.stamp = indexer.stamp /\ (e = Absent \/ e.stamp # 0)
  <2>1. p \in Docs /\ indexer.stamp \in Nat /\ indexer.text \in DocText
    BY <1>1, Constants, IndexTypes
  <2> QED  BY <1>1, <2>1, EntryType, Constants
<1>3. /\ a \in {"read", "app_known", "pop"} /\ (indexer.todo # {} => a = "read")
      /\ (indexer.scan => a \in {"read", "app_known"})
  BY Stages
<1> HIDE DEF p, e, a
<1>4. /\ indexer'.at = a /\ indexer'.todo = indexer.todo /\ indexer'.under = indexer.under /\ indexer'.scan = indexer.scan
      /\ indexer'.batch = indexer.batch
  BY <1>1 DEF Indexer
<1>5. indexed'[p] = e /\ \A d \in Docs \ {p} : indexed'[d] = indexed[d]
  BY <1>1, Constants
<1>6. Awake'
  BY <1>3, <1>4 DEF Awake
<1>7. ASSUME NEW q \in Paths \ unseen', "copy" \notin fileMix
      PROVE  FileFollowed(q)'
  <2>1. FileFollowed(q) /\ ~Looked(q)' /\ q \in Docs
    BY <1>1, <1>3, <1>4, <1>7, Constants DEF FollowInv, FilesFollowed, Looked
  <2>2. ToLook(q) => ToLook(q)'
    BY <1>1, <1>3, <1>4, <1>6, PathsStay DEF ToLook
  <2>3. indexed'[q].stamp = IF Looked(q) THEN LookedTime(q) ELSE indexed[q].stamp
    BY <1>1, <1>2, <1>5, <2>1 DEF Looked, LookedTime, p
  <2> QED  BY <1>1, <2>1, <2>2, <2>3, PathsStay DEF FileFollowed
<1>8. FilesFollowed'
  BY <1>1, <1>7 DEF FilesFollowed
<1>9. RowsFollowed'
  <2>1. \A r \in Rows : indexed'[r] = indexed[r]
    BY <1>1, <1>5, Constants
  <2> QED  BY <1>1, <1>3, <1>4, <1>6, <2>1, RowsAside DEF FollowInv, FileStages
<1>10. Stamped'
  <2>1. \A d \in Docs : indexed'[d] \in {Absent, indexed[d]} \/ indexed'[d].stamp # 0
    BY <1>2, <1>5
  <2> QED  BY <1>3, <1>4, <2>1, StampedStays DEF FollowInv
<1> QED  BY <1>1, <1>3, <1>4, <1>8, <1>9, <1>10 DEF FollowInv, Within

LEMMA KnownFollows ==
    ASSUME Typed, FollowInv, AppKnown
    PROVE  FollowInv'
<1> DEFINE d == IF install.live THEN install.decl ELSE NoDecl
           a == IF d = NoDecl THEN "pop" ELSE "app_read"
<1>1. /\ UNCHANGED <<tree, inodes, fileReq, fileMix, wake, pending, rows, install, untold, appPending>>
      /\ indexer.at = "app_known" /\ indexer \in Indexer /\ indexer' = [indexer EXCEPT !.at = a, !.decl = d]
      /\ unseen' = unseen \ Rows
      /\ IF storedDecl # d THEN indexed' = RowsDropped /\ storedDecl' = NoDecl ELSE UNCHANGED <<indexed, storedDecl>>
      /\ IndexOK
  BY DEF AppKnown, In, fileVars, diskVars, appVars, storeVars, Typed, IndexOK
<1>2. d = Declared /\ Declared' = Declared /\ a \in {"pop", "app_read"} /\ (a = "pop" <=> d = NoDecl)
  BY <1>1 DEF Declared
<1> HIDE DEF d, a
<1>3. indexer'.at = a /\ indexer'.decl = d /\ indexer'.batch = indexer.batch
  BY <1>1 DEF Indexer
<1>4. Awake'
  BY <1>2, <1>3 DEF Awake
<1>5. /\ \A x \in Docs : indexed'[x] \in {Absent, indexed[x]}
      /\ \A p \in Paths : indexed'[p] = indexed[p]
      /\ d = NoDecl => \A r \in Rows : indexed'[r].stamp = 0
  <2>1. CASE storedDecl # d
    BY <1>1, <2>1, DroppedRows, Constants DEF RowsDropped
  <2>2. CASE storedDecl = d
    BY <1>1, <2>2 DEF IndexOK
  <2> QED  BY <2>1, <2>2
<1>6. FilesFollowed'
  <2>1. Paths \intersect unseen \subseteq unseen'
    BY <1>1, Constants
  <2> QED  BY <1>1, <1>2, <1>3, <1>4, <1>5, <2>1, PathsAside DEF FollowInv, FileStages
<1>7. RowsFollowed'
  BY <1>2, <1>3, <1>5 DEF RowsFollowed, RowFollowed, RowCurrent
<1>8. Stamped'
  BY <1>2, <1>3, <1>5, StampedStays DEF FollowInv
<1> QED  BY <1>2, <1>3, <1>6, <1>7, <1>8 DEF FollowInv, Within

LEMMA InstanceReadFollows ==
    ASSUME Typed, FollowInv, ReadInstance
    PROVE  FollowInv'
<1>1. /\ UNCHANGED <<tree, inodes, fileReq, fileMix, wake, pending, rows, install, untold, appPending, unseen, indexed,
                      storedDecl>>
      /\ indexer.at = "app_read" /\ indexer \in Indexer /\ indexer' = [indexer EXCEPT !.at = "app_store", !.read = rows]
  BY DEF ReadInstance, In, fileVars, diskVars, appVars, storeVars, Typed, IndexOK
<1>2. indexer'.at = "app_store" /\ indexer'.decl = indexer.decl /\ indexer'.read = rows /\ indexer'.batch = indexer.batch
  BY <1>1 DEF Indexer
<1>3. Awake'
  BY <1>2 DEF Awake
<1>4. FilesFollowed'
  BY <1>1, <1>2, <1>3, PathsAside DEF FollowInv, FileStages
<1>5. ASSUME NEW r \in Rows \ unseen'
      PROVE  RowFollowed(r)'
  <2>1. RowFollowed(r) /\ Declared' = Declared
    BY <1>1, <1>5 DEF FollowInv, RowsFollowed, Declared
  <2>2. RowsToLook => RowsToLook'
    BY <1>1, <1>2, <1>3 DEF RowsToLook
  <2> QED  BY <1>1, <1>2, <2>1, <2>2 DEF RowFollowed
<1>6. RowsFollowed'
  BY <1>5 DEF RowsFollowed
<1>7. Stamped'
  BY <1>1, <1>2, StampedStays DEF FollowInv
<1> QED  BY <1>2, <1>4, <1>6, <1>7 DEF FollowInv, Within

LEMMA InstanceFollows ==
    ASSUME Typed, FollowInv, StoreInstance
    PROVE  FollowInv'
<1>1. /\ UNCHANGED <<tree, inodes, fileReq, fileMix, wake, pending, rows, install, untold, appPending, unseen>>
      /\ indexer.at = "app_store" /\ indexer \in Indexer /\ storedDecl' = indexer.decl /\ indexer.decl # NoDecl
      /\ indexer' = [indexer EXCEPT !.at = "pop", !.decl = NoDecl, !.read = NoRows]
      /\ indexed' = [d \in Docs |-> IF d \in Rows THEN RowEntry(d) ELSE indexed[d]] /\ IndexOK
  BY DEF StoreInstance, In, fileVars, diskVars, appVars, Typed, IndexOK, Task
<1> HIDE DEF NoRows
<1>2. indexer'.at = "pop" /\ indexer'.batch = indexer.batch
  BY <1>1 DEF Indexer
<1>3. Awake'
  BY <1>2 DEF Awake
<1>4. ASSUME NEW r \in Rows
      PROVE  /\ indexed'[r].stamp = indexer.read[r].stamp
             /\ indexed'[r] \in {Absent, indexed[r]} \/ indexed'[r].stamp # 0
  <2> DEFINE new == indexer.read[r]
             t   == [decl |-> indexer.decl, text |-> new.text]
             e   == Entry(r, new.stamp, t)
  <2>1. t \in DocText /\ new.stamp \in Nat /\ r \in Docs
    BY <1>1, IndexTypes, Constants DEF DocText
  <2>2. indexed'[r] = IF new.stamp = 0 THEN Absent ELSE IF new.stamp = indexed[r].stamp THEN indexed[r] ELSE e
    BY <1>1, <2>1 DEF RowEntry
  <2> HIDE DEF t
  <2>3. e.stamp = new.stamp
    BY <1>1, <2>1, EntryType
  <2> HIDE DEF e, new
  <2>4. indexed'[r].stamp = new.stamp /\ (indexed'[r] \in {Absent, indexed[r]} \/ indexed'[r].stamp # 0)
    BY <2>2, <2>3, Constants
  <2> QED  BY <2>4 DEF new
<1>5. \A p \in Paths : indexed'[p] = indexed[p]
  BY <1>1, Constants
<1>6. FilesFollowed'
  BY <1>1, <1>2, <1>3, <1>5, PathsAside DEF FollowInv, FileStages
<1>7. ASSUME NEW r \in Rows \ unseen'
      PROVE  RowFollowed(r)'
  <2>1. RowFollowed(r) /\ Declared' = Declared
    BY <1>1, <1>7 DEF FollowInv, RowsFollowed, Declared
  <2>2. RowsToLook => RowsToLook'
    BY <1>1, <1>2, <1>3 DEF RowsToLook
  <2>3. CASE ~RowsToLook
    <3>1. indexer.decl = Declared /\ indexer.read[r].stamp = rows[r].stamp
      BY <1>1, <2>1, <2>3 DEF RowFollowed
    <3>2. RowCurrent(r)'
      BY <1>1, <1>4, <2>1, <3>1 DEF RowCurrent
    <3> QED  BY <1>2, <3>2 DEF RowFollowed
  <2> QED  BY <2>2, <2>3 DEF RowFollowed
<1>8. RowsFollowed'
  BY <1>7 DEF RowsFollowed
<1>9. Stamped'
  <2>1. \A d \in Docs : indexed'[d] \in {Absent, indexed[d]} \/ indexed'[d].stamp # 0
    BY <1>4, <1>5 DEF Docs
  <2> QED  BY <1>2, <2>1, StampedStays DEF FollowInv
<1> QED  BY <1>2, <1>6, <1>8, <1>9 DEF FollowInv, Within

LEMMA TaskFollows ==
    ASSUME Typed, FollowInv, Indexing
    PROVE  FollowInv'
BY BeginFollows, PopFollows, StatFollows, CompareFollows, OpenFollows, ReadFollows, StoreFollows, KnownFollows,
   InstanceReadFollows, InstanceFollows, AskModelFollows, SelectFollows, EmbedFollows, EmbedFailsFollows, UpdateFollows
DEF Indexing

\* Requests, code in a sandbox.
LEMMA FileChangeFollows ==
    ASSUME Typed, FollowInv, FileChange
    PROVE  FollowInv'
<1>1. UNCHANGED <<rows, install, untold, appPending, indexed, storedDecl, indexer, fileMix>> /\ FilesInv
  BY MixStays DEF FileChange, appVars, storeVars, Typed
<1>2. pending \subseteq pending' /\ (wake => wake') /\ unseen \subseteq unseen'
  BY QueueGrows
<1>3. Awake => Awake'
  BY <1>1, <1>2 DEF Awake
<1>4. ASSUME NEW p \in Paths \ unseen', "copy" \notin fileMix
      PROVE  FileFollowed(p)'
  <2>1. Heard(p) /\ FileFollowed(p)
    BY <1>1, <1>2, <1>4, FilesHeard DEF FollowInv, FilesFollowed
  <2>2. CASE TimeOf(p)' = TimeOf(p) /\ \A c \in FileClients : ~ToQueue(c, p)
    <3>1. ToLook(p) => ToLook(p)'
      BY <1>1, <1>2, <1>3, <2>2 DEF ToLook
    <3>2. (Looked(p)' <=> Looked(p)) /\ LookedTime(p)' = LookedTime(p)
      BY <1>1 DEF Looked, LookedTime
    <3> QED  BY <1>1, <2>1, <2>2, <3>1, <3>2 DEF FileFollowed
  <2>3. CASE p \in pending' /\ wake'
    BY <2>3 DEF FileFollowed, ToLook, Awake
  <2>4. CASE \E c \in FileClients : ToQueue(c, p)'
    BY <2>4 DEF FileFollowed, ToLook
  <2> QED  BY <1>4, <2>1, <2>2, <2>3, <2>4 DEF Heard
<1>5. FilesFollowed'
  BY <1>1, <1>4 DEF FilesFollowed
<1>6. ASSUME NEW r \in Rows \ unseen'
      PROVE  RowFollowed(r)'
  <2>1. RowFollowed(r) /\ (RowCurrent(r)' <=> RowCurrent(r)) /\ Declared' = Declared
    BY <1>1, <1>2, <1>6 DEF FollowInv, RowsFollowed, RowCurrent, Declared
  <2>2. RowsToLook => RowsToLook'
    BY <1>1, <1>3 DEF RowsToLook
  <2> QED  BY <1>1, <2>1, <2>2 DEF RowFollowed
<1>7. RowsFollowed'
  BY <1>6 DEF RowsFollowed
<1> QED  BY <1>1, <1>5, <1>7 DEF FollowInv, Stamped, Within

LEMMA FailsFollows ==
    ASSUME Typed, FollowInv, IndexFails
    PROVE  FollowInv'
<1>1. /\ UNCHANGED <<tree, inodes, fileReq, fileMix, wake, pending, rows, install, untold, appPending, indexed, storedDecl>>
      /\ indexer.at \in {"compare", "store", "app_known", "app_store", "select", "update"} /\ indexer' = Asleep
      /\ unseen' = unseen \union InHand
  BY DEF IndexFails, UsesFile, diskVars, appVars, storeVars
<1>2. indexer'.at = "idle" /\ indexer'.batch = {}
  BY <1>1 DEF Asleep
<1>3. ASSUME NEW p \in Paths \ unseen', "copy" \notin fileMix
      PROVE  FileFollowed(p)'
  <2>1. p \notin pending /\ (indexer.at \in {"compare", "store"} => p \notin indexer.under)
    BY <1>1, <1>3 DEF InHand
  <2>2. FileFollowed(p) /\ ~Looked(p) /\ ~Looked(p)'
    BY <1>1, <1>2, <1>3, <2>1 DEF FollowInv, FilesFollowed, Looked, Within
  <2>3. ToLook(p) => ToLook(p)'
    BY <1>1, <2>1, PathsStay DEF ToLook, FollowInv, Within
  <2> QED  BY <1>1, <2>2, <2>3, PathsStay DEF FileFollowed
<1>4. FilesFollowed'
  BY <1>1, <1>3 DEF FilesFollowed
<1>5. ASSUME NEW r \in Rows \ unseen'
      PROVE  RowFollowed(r)'
  <2>1. ~appPending /\ ~indexer.scan /\ indexer.at \notin {"app_known", "app_store"}
    BY <1>1, <1>5 DEF InHand
  <2>2. RowFollowed(r) /\ (RowCurrent(r)' <=> RowCurrent(r))
    BY <1>1, <1>5 DEF FollowInv, RowsFollowed, RowCurrent, Declared
  <2> QED  BY <1>1, <1>2, <2>1, <2>2 DEF RowFollowed, RowsToLook
<1>6. RowsFollowed'
  BY <1>5 DEF RowsFollowed
<1>7. Stamped'
  BY <1>1, <1>2, StampedStays DEF FollowInv
<1> QED  BY <1>2, <1>4, <1>6, <1>7 DEF FollowInv, Within

LEMMA ReadFailsFollows ==
    ASSUME Typed, FollowInv, ReadFails
    PROVE  FollowInv'
<1>1. /\ UNCHANGED <<tree, inodes, fileReq, fileMix, wake, pending, rows, install, untold, appPending, indexed, storedDecl>>
      /\ indexer'.batch = indexer.batch /\ indexer'.under = indexer.under /\ indexer'.scan = indexer.scan
      /\ indexer'.todo = indexer.todo /\ indexer'.doc = indexer.doc
  BY ReadFailsStep DEF diskVars, appVars, storeVars
<1>2. indexer.at \in {"stat", "text", "app_read"} /\ indexer'.at \in {"compare", "app_known", "pop", "store"}
  BY ReadFailsStep
<1>3. Awake'
  BY <1>2 DEF Awake
<1>4. Stamped'
  BY <1>1, <1>2, StampedStays DEF FollowInv
<1>5. Within'
  BY <1>1, ReadFailsStep DEF FollowInv, Within
<1>6. CASE indexer.at = "app_read"
  <2>1. indexer'.at = "pop" /\ unseen' = unseen \union Rows
    BY <1>6, ReadFailsStep
  <2>2. FilesFollowed'
    BY <1>1, <1>3, <1>6, <2>1, PathsAside DEF FollowInv, FileStages
  <2>3. RowsFollowed'
    BY <2>1 DEF RowsFollowed
  <2> QED  BY <1>4, <1>5, <2>2, <2>3 DEF FollowInv
<1>7. CASE indexer.at \in {"stat", "text"}
  <2>1. /\ unseen \ Paths \subseteq unseen' /\ indexer'.at \in {"compare", "app_known", "pop", "store"}
        /\ indexer.scan => indexer'.at \in {"compare", "app_known", "store"}
    BY <1>7, ReadFailsStep
  <2>2. RowsFollowed'
    <3>1. Rows \intersect unseen \subseteq unseen'
      BY <2>1, Constants
    <3> QED  BY <1>1, <1>3, <1>7, <2>1, <3>1, RowsAside DEF FollowInv, FileStages
  <2>3. ASSUME NEW p \in Paths \ unseen', "copy" \notin fileMix
        PROVE  FileFollowed(p)'
    <3>1. CASE indexer.at = "stat" /\ p \in indexer.under
      <4>1. indexer'.at = "compare" /\ FoundIts(p)
        BY <2>3, <3>1, ReadFailsStep
      <4>2. indexer'.found[p] = TimeOf(p)
        BY <2>3, <4>1 DEF FoundIts, TimeOf
      <4> QED  BY <1>1, <3>1, <4>1, <4>2, PathsStay DEF FileFollowed, Looked, LookedTime
    <3>2. CASE indexer.at = "stat" /\ p \notin indexer.under
      <4>1. p \notin unseen /\ indexer'.at \in {"compare", "app_known", "pop"}
        BY <2>3, <3>2, ReadFailsStep DEF FollowInv, Within
      <4>2. FileFollowed(p) /\ ~Looked(p) /\ ~Looked(p)'
        BY <1>1, <2>3, <3>2, <4>1 DEF FollowInv, FilesFollowed, Looked
      <4>3. ToLook(p) => ToLook(p)'
        BY <1>1, <1>3, <3>2, PathsStay DEF ToLook
      <4> QED  BY <1>1, <4>2, <4>3, PathsStay DEF FileFollowed
    <3>3. CASE indexer.at = "text"
      <4>1. p \notin unseen /\ p # indexer.doc /\ indexer'.at = "store"
        BY <2>3, <3>3, ReadFailsStep
      <4>2. FileFollowed(p) /\ ~Looked(p) /\ ~Looked(p)'
        BY <1>1, <2>3, <3>3, <4>1 DEF FollowInv, FilesFollowed, Looked
      <4>3. ToLook(p) => ToLook(p)'
        BY <1>1, <1>3, <3>3, <4>1, PathsStay DEF ToLook
      <4> QED  BY <1>1, <4>2, <4>3, PathsStay DEF FileFollowed
    <3> QED  BY <1>7, <3>1, <3>2, <3>3
  <2>4. FilesFollowed'
    BY <1>1, <2>3 DEF FilesFollowed
  <2> QED  BY <1>4, <1>5, <2>2, <2>4 DEF FollowInv
<1> QED  BY <1>2, <1>6, <1>7

LEMMA OthersFollow ==
    ASSUME Typed, FollowInv, AppChanges \/ TellIndex \/ SwapModel \/ UNCHANGED <<fileVars, searchVars>>
    PROVE  FollowInv'
<1>1. UNCHANGED <<tree, inodes, fileReq, fileMix, pending, indexed, storedDecl, indexer, unseen>> /\ (wake => wake')
  BY DEF AppChanges, TellIndex, SwapModel, UsesFile, fileVars, requestVars, diskVars, searchVars, storeVars
<1>2. Awake => Awake'
  BY <1>1 DEF Awake
<1>3. ASSUME NEW p \in Paths \ unseen', "copy" \notin fileMix
      PROVE  FileFollowed(p)'
  <2>1. FileFollowed(p) /\ (Looked(p)' <=> Looked(p)) /\ LookedTime(p)' = LookedTime(p)
    BY <1>1, <1>3 DEF FollowInv, FilesFollowed, Looked, LookedTime
  <2>2. ToLook(p) => ToLook(p)'
    BY <1>1, <1>2, PathsStay DEF ToLook
  <2> QED  BY <1>1, <2>1, <2>2, PathsStay DEF FileFollowed
<1>4. FilesFollowed'
  BY <1>1, <1>3 DEF FilesFollowed
<1>5. RowsFollowed'
  <2>1. CASE AppChanges \/ TellIndex
    <3>1. RowsToLook'
      BY <2>1 DEF AppChanges, TellIndex, RowsToLook, Awake
    <3> QED  BY <3>1 DEF RowsFollowed, RowFollowed
  <2>2. CASE SwapModel \/ UNCHANGED <<fileVars, searchVars>>
    <3>1. UNCHANGED <<rows, install, untold, appPending>>
      BY <2>2 DEF SwapModel, appVars, searchVars
    <3>2. \A r \in Rows : RowCurrent(r)' <=> RowCurrent(r)
      BY <1>1, <3>1 DEF RowCurrent, Declared
    <3>3. Declared' = Declared /\ (RowsToLook => RowsToLook')
      BY <1>1, <1>2, <3>1 DEF RowsToLook, Declared
    <3> QED  BY <1>1, <3>1, <3>2, <3>3 DEF FollowInv, RowsFollowed, RowFollowed
  <2> QED  BY <2>1, <2>2
<1> QED  BY <1>1, <1>4, <1>5 DEF FollowInv, Stamped, Within

LEMMA RestartFollows ==
    ASSUME Typed, FollowInv, SearchRestart
    PROVE  FollowInv'
<1>1. indexer' = Asleep /\ unseen' = Docs /\ UNCHANGED indexed
  BY DEF SearchRestart, storeVars
<1>2. indexer'.at = "idle" /\ indexer'.batch = {}
  BY <1>1 DEF Asleep
<1>3. FilesFollowed' /\ RowsFollowed'
  BY <1>1, Constants DEF FilesFollowed, RowsFollowed
<1>4. Stamped'
  BY <1>1, <1>2, StampedStays DEF FollowInv
<1> QED  BY <1>2, <1>3, <1>4 DEF FollowInv, Within

LEMMA FollowStep ==
    ASSUME SearchInv, FollowInv, [SearchNext]_<<fileVars, searchVars>>
    PROVE  FollowInv'
BY TaskFollows, FileChangeFollows, FailsFollows, ReadFailsFollows, OthersFollow, RestartFollows DEF SearchInv, SearchNext

LEMMA FirstFollows ==
    ASSUME SearchInit
    PROVE  FollowInv
<1>1. /\ rows = NoRows /\ storedDecl = install.decl /\ install.live /\ indexer = Asleep
      /\ \A d \in Docs : indexed[d] = IF d \in Paths /\ There(d) THEN Fresh(File(d)) ELSE Absent
  BY DEF SearchInit
<1>2. indexer.at = "idle" /\ indexer.batch = {}
  BY <1>1 DEF Asleep
<1>3. \A f : Fresh(f).stamp = f.mtime
  BY DEF Fresh, Absent
<1>4. FilesFollowed
  <2>1. \A p \in Paths : TimeOf(p) = indexed[p].stamp /\ ~Looked(p)
    BY <1>1, <1>2, <1>3, Constants DEF TimeOf, Looked
  <2> QED  BY <2>1 DEF FilesFollowed, FileFollowed
<1>5. RowsFollowed
  <2>1. \A r \in Rows : indexed[r].stamp = 0 /\ rows[r].stamp = 0
    BY <1>1, Constants
  <2>2. \A r \in Rows : RowCurrent(r)
    BY <1>1, <2>1 DEF RowCurrent, Declared
  <2> QED  BY <1>2, <2>2 DEF RowsFollowed, RowFollowed
<1>6. Stamped
  <2>1. DiskOK /\ \A p \in Paths : There(p) => File(p).mtime # 0
    BY FirstTyped, DiskTypes DEF Typed, FilesInv, There, File
  <2> QED  BY <1>1, <1>2, <1>3, <2>1 DEF Stamped
<1> QED  BY <1>2, <1>4, <1>5, <1>6 DEF FollowInv, Within

LEMMA FollowInvHolds == SearchSpec => [](SearchInv /\ FollowInv)
<1>1. SearchInit => FollowInv
  BY FirstFollows
<1> QED  BY <1>1, FollowStep, SearchInvHolds, PTL DEF SearchSpec

LEMMA IndexedWhenSettled ==
    ASSUME SearchInv, FollowInv
    PROVE  SettledIsIndexed
<1> SUFFICES ASSUME Settled, "copy" \notin fileMix
             PROVE  /\ \A p \in Paths \ unseen :
                          IF There(p) THEN indexed[p].stamp = File(p).mtime /\ indexed[p].text.text = File(p).text
                                      ELSE indexed[p] = Absent
                    /\ \A r \in Rows \ unseen :
                          IF install.live /\ install.decl # NoDecl /\ rows[r].stamp # 0
                          THEN indexed[r].stamp = rows[r].stamp /\ indexed[r].text = RowText(r)
                          ELSE indexed[r] = Absent
  BY DEF SettledIsIndexed
<1>1. IndexIsTrue /\ DiskOK /\ Stamped
  BY TrueIndex DEF SearchInv, Typed, FilesInv, FollowInv
<1>2. indexer.at = "idle" /\ ~wake /\ ~untold /\ ~Awake /\ ~RowsToLook
  BY DEF Settled, Awake, RowsToLook
<1>3. ASSUME NEW p \in Paths \ unseen
      PROVE  IF There(p) THEN indexed[p].stamp = File(p).mtime /\ indexed[p].text.text = File(p).text
                         ELSE indexed[p] = Absent
  <2>1. ~ToLook(p) /\ ~Looked(p)
    BY <1>2 DEF Settled, ToLook, Looked, ToQueue
  <2>2. TimeOf(p) = indexed[p].stamp /\ p \in Docs
    BY <1>3, <2>1, Constants DEF FollowInv, FilesFollowed, FileFollowed
  <2> QED  BY <1>1, <2>2 DEF TimeOf, IndexIsTrue, NeverFooled, Stamped
<1>4. ASSUME NEW r \in Rows \ unseen
      PROVE  IF install.live /\ install.decl # NoDecl /\ rows[r].stamp # 0
             THEN indexed[r].stamp = rows[r].stamp /\ indexed[r].text = RowText(r)
             ELSE indexed[r] = Absent
  <2>1. RowCurrent(r) /\ r \in Docs
    BY <1>2, <1>4, Constants DEF FollowInv, RowsFollowed, RowFollowed
  <2>2. CASE install.live /\ install.decl # NoDecl /\ rows[r].stamp # 0
    <3>1. storedDecl = install.decl /\ indexed[r].stamp = rows[r].stamp
      BY <2>1, <2>2 DEF RowCurrent, Declared
    <3> QED  BY <1>1, <2>2, <3>1 DEF IndexIsTrue, NeverFooled
  <2>3. CASE ~(install.live /\ install.decl # NoDecl /\ rows[r].stamp # 0)
    <3>1. indexed[r].stamp = 0
      BY <2>1, <2>3 DEF RowCurrent, Declared
    <3> QED  BY <1>1, <2>1, <2>3, <3>1 DEF Stamped
  <2> QED  BY <2>2, <2>3
<1> QED  BY <1>3, <1>4

\* Nothing is forgotten: whoever changes a file or a row, and whatever the task is doing by then, once the
\* requests have ended and the task sleeps with no wake-up left the index is of what is there now, but for
\* what the history calls unseen: what sandboxed code wrote, and what a failing read or statement or a restart
\* made the task forget (fileindex.py's wake, _pending and _apps_pending, appindex.reconcile).
THEOREM NothingForgotten == SearchSpec => []SettledIsIndexed
<1> QED  BY IndexedWhenSettled, FollowInvHolds, PTL
==============================================================================
