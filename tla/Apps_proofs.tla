------------------------------ MODULE Apps_proofs ------------------------------
(***************************************************************************)
(* Proofs about AppBuilds, for any clients, contents and bounds: its type  *)
(* invariant, where the bundles are, and the order of the commits; and     *)
(* about AppData, for any instances, clients, columns, schemas and bounds: *)
(* its type invariant, that a column with data is dropped only by the      *)
(* migration a person approved, that an instance's files are moved away    *)
(* only when nothing uses them, and that its read-only copy follows its    *)
(* database.  And about EventHub: that a page at rest shows the latest     *)
(* rows and bundle.                                                        *)
(***************************************************************************)
EXTENDS AppBuilds, AppData, EventHub, SequenceTheorems, TLAPS

-----------------------------------------------------------------------------
(* Types.                                                                  *)

\* A request that has ended, and the bundles' and readers' empty values.
LEMMA BlankTypes ==
    /\ Idle \in Request /\ [Idle EXCEPT !.at = "begin"] \in Request
    /\ NoBundle \in Maybe /\ NoReader \in Reading /\ NoRow \in Row
<1>1. NoBundle \in Maybe /\ NoRow \in Row
  BY DEF Maybe, NoRow, Row, NoBundle
<1>2. << >> \in Seq(Release) /\ << >> \in Seq(Maybe)
  OBVIOUS
<1>3. Idle \in Fields
  BY <1>1, <1>2 DEF Idle, Fields, Steps
<1> QED  BY <1>1, <1>2, <1>3 DEF Idle, Fields, Request, Steps, Early, NoReader, Reading

\* A client whose request is replaced by another one has one still.
LEMMA PutType ==
    ASSUME TypeOK, NEW c \in Clients, NEW r \in Request, req' = [req EXCEPT ![c] = r]
    PROVE  req' \in [Clients -> Request]
BY DEF TypeOK

\* Moving a request on keeps it one, if its step's package is there.
LEMMA GotoType ==
    ASSUME TypeOK, NEW c \in Clients, NEW s \in Steps, Goto(c, s),
           s \in Early \/ req[c].doc \in Package
    PROVE  req' \in [Clients -> Request]
<1>1. req[c] \in Fields
  BY DEF TypeOK, Request
<1>2. [req[c] EXCEPT !.at = s] \in Request
  BY <1>1 DEF Request, Fields
<1> QED  BY <1>2, PutType DEF Goto

\* A request that ends leaves a request.
LEMMA EndType ==
    ASSUME TypeOK, NEW c \in Clients, End(c)
    PROVE  req' \in [Clients -> Request]
BY BlankTypes, PutType DEF End

\* Past the early steps a request has its package.
LEMMA HasPackage ==
    ASSUME TypeOK, NEW c \in Clients, req[c].at \notin Early
    PROVE  req[c].doc \in Package
BY DEF TypeOK, Request

\* A commit leaves the history one of packages.
LEMMA CommittedType ==
    ASSUME TypeOK, NEW tree \in Package
    PROVE  Committed(tree) \in Seq(Package)
BY DEF TypeOK, Committed

\* Taking from a bound leaves one.
LEMMA UsesType ==
    ASSUME TypeOK, NEW what \in {"requests", "edits", "calls", "restarts"}, Uses(what)
    PROVE  left' \in Bounds
BY DEF TypeOK, Uses, Bounds

\* The versions a build may get are numbers.
LEMMA BumpedType ==
    ASSUME NEW doc \in Package, NEW same \in BOOLEAN, NEW seen \in Seq(Release),
           NEW n \in Bumped(doc, same, seen)
    PROVE  n \in Nat
<1>1. doc.version \in Nat
  BY DEF Package
<1>2. \A i \in DOMAIN seen : seen[i] \in Release
  OBVIOUS
<1>3. \A i \in DOMAIN seen : seen[i].version + 1 \in Nat
  BY <1>2 DEF Release
<1> QED  BY <1>1, <1>3 DEF Bumped

\* A package, a row and a release stay what they are in what the steps set.
LEMMA RecordTypes ==
    /\ \A doc \in Package, n \in Nat : [doc EXCEPT !.version = n] \in Package
    /\ \A row \in Row, n \in Nat : [row EXCEPT !.version = n] \in Row
    /\ \A row \in Row : [row EXCEPT !.bundle = NoBundle] \in Row
BY BlankTypes DEF Package, Row

\* What a request's steps make of it: a build that begins, a package that was
\* read, the row a publish read,
LEMMA ReadTypes ==
    /\ \A r \in Request, releases \in Seq(Release) :
           [r EXCEPT !.at = "stage", !.seen = releases] \in Request
    /\ \A r \in Request, doc \in Package, n \in Nat :
           [r EXCEPT !.at = "build", !.doc = doc, !.was = n] \in Request
    /\ \A r \in Request, doc \in Package, s \in {"revert", "validate"} :
           [r EXCEPT !.at = s, !.doc = doc] \in Request
    /\ \A r \in Request, row \in Row : [r EXCEPT !.at = "publish", !.row = row] \in Request
BY DEF Request, Fields, Steps, Early

\* ... what it built,
LEMMA BuiltType ==
    ASSUME NEW r \in Request, r.doc \in Package, NEW b \in Maybe, NEW t \in BOOLEAN, NEW n \in Nat
    PROVE  [r EXCEPT !.at = "record", !.own = b, !.tracked = t, !.doc.version = n,
                     !.seen = << >>] \in Request
<1>1. r \in Fields /\ << >> \in Seq(Release)
  BY DEF Request
<1>2. [r.doc EXCEPT !.version = n] \in Package
  BY RecordTypes
<1> QED  BY <1>1, <1>2 DEF Request, Fields, Steps, Early

\* ... its commit, and the bundle it replaces.
LEMMA RecordedTypes ==
    /\ \A r \in Request, n \in Nat :
           r.doc \in Package => [r EXCEPT !.at = "update", !.commit = n] \in Request
    /\ \A r \in Request, b \in Maybe :
           r.doc \in Package => [r EXCEPT !.at = "drop", !.own = NoBundle, !.prev = b] \in Request
    /\ \A r \in Request :
           r.doc \in Package => [r EXCEPT !.at = "writeBack", !.prev = NoBundle] \in Request
BY BlankTypes DEF Request, Fields, Steps, Early

\* A build keeps the types.
LEMMA BuildStepType ==
    ASSUME TypeOK, NEW c \in Clients, BuildStep(c)
    PROVE  TypeOK'
<1> USE DEF rowVars
<1>1. req[c] \in Request /\ req[c].own \in Maybe /\ req[c].prev \in Maybe
  BY DEF TypeOK, Request, Fields
<1>2. CASE Begin(c)
  <2>1. req' \in [Clients -> Request]
    <3>1. [req[c] EXCEPT !.at = "stage", !.seen = published] \in Request
      BY <1>1, ReadTypes DEF TypeOK
    <3>2. CASE req' = [req EXCEPT ![c].at = "stage", ![c].seen = published]
      BY <3>1, <3>2 DEF TypeOK
    <3> QED  BY <1>2, <3>2, EndType DEF Begin
  <2> QED  BY <1>2, <2>1 DEF Begin, TypeOK
<1>3. CASE Stage(c)
  <2>1. folder \in Package /\ folder.version \in Nat
    BY DEF TypeOK, Package
  <2>2. [req[c] EXCEPT !.at = "build", !.doc = folder, !.was = folder.version] \in Request
    BY <1>1, <2>1, ReadTypes
  <2> QED  BY <1>3, <2>2 DEF Stage, TypeOK
<1>4. CASE BuildFails(c)
  BY <1>4, EndType DEF BuildFails, TypeOK
<1>5. CASE Built(c)
  <2> DEFINE new == [build |-> made', content |-> req[c].doc.content]
  <2>1. made' \in Nat \ {0} /\ req[c].doc \in Package /\ req[c].seen \in Seq(Release)
    BY <1>1, <1>5, HasPackage DEF Built, At, Early, TypeOK, Request, Fields
  <2>2. new \in Bundle
    BY <2>1 DEF Bundle, Package
  <2>3. PICK same \in BOOLEAN : \E number \in Bumped(req[c].doc, same, req[c].seen) :
            req' = [req EXCEPT ![c].at = "record", ![c].own = new, ![c].tracked = same,
                               ![c].doc.version = number, ![c].seen = << >>]
    BY <1>5 DEF Built
  <2>4. PICK number \in Bumped(req[c].doc, same, req[c].seen) :
            req' = [req EXCEPT ![c].at = "record", ![c].own = new, ![c].tracked = same,
                               ![c].doc.version = number, ![c].seen = << >>]
    BY <2>3
  <2>5. [req[c] EXCEPT !.at = "record", !.own = new, !.tracked = same,
                       !.doc.version = number, !.seen = << >>] \in Request
    <3>1. number \in Nat
      BY <2>1, <2>4, BumpedType
    <3> QED  BY <1>1, <2>1, <2>2, <3>1, BuiltType DEF Maybe
  <2>6. req' \in [Clients -> Request]
    BY <2>4, <2>5 DEF TypeOK
  <2>7. bundles' \in SUBSET Bundle
    BY <1>5, <2>2 DEF Built, TypeOK
  <2> QED  BY <1>5, <2>1, <2>6, <2>7 DEF Built, TypeOK
<1>6. CASE Lock(c)
  <2>1. req' \in [Clients -> Request]
    <3>1. CASE Goto(c, "commit")
      BY <1>6, <3>1, GotoType, HasPackage DEF Lock, At, Early, Steps
    <3> QED  BY <1>6, <3>1, EndType DEF Lock, Rollback
  <2>2. bundles' \in SUBSET Bundle /\ rowLock' \in Clients \union {NoOne}
    BY <1>6 DEF Lock, Rollback, Drop, TypeOK
  <2> QED  BY <1>6, <2>1, <2>2 DEF Lock, TypeOK
<1>7. CASE CommitTree(c)
  <2>1. req[c].doc \in Package
    BY <1>7, HasPackage DEF CommitTree, At, Early
  <2>2. history' \in Seq(Package)
    BY <1>7, <2>1, CommittedType DEF CommitTree, TypeOK
  <2>3. req' \in [Clients -> Request]
    <3>1. [req[c] EXCEPT !.at = "update", !.commit = Len(history')] \in Request
      <4>1. Len(history') \in Nat
        BY <2>2
      <4> QED  BY <1>1, <2>1, <4>1, RecordedTypes
    <3>2. CASE req' = [req EXCEPT ![c].at = "update", ![c].commit = Len(history')]
      BY <3>1, <3>2 DEF TypeOK
    <3>3. CASE Goto(c, "update")
      BY <2>1, <3>3, GotoType DEF Steps
    <3> QED  BY <1>7, <3>2, <3>3 DEF CommitTree
  <2> QED  BY <1>7, <2>2, <2>3 DEF CommitTree, TypeOK
<1>8. CASE Record(c)
  <2>1. req[c].doc \in Package
    BY <1>8, HasPackage DEF Record, At, Early
  <2>2. working' \in Row
    BY <1>1, <1>8, <2>1 DEF Record, Row, Package, Request, Fields
  <2>3. Previous(c) \in Maybe
    BY BlankTypes DEF Previous, TypeOK, Row
  <2>4. [req[c] EXCEPT !.at = "drop", !.own = NoBundle, !.prev = Previous(c)] \in Request
    BY <1>1, <2>1, <2>3, RecordedTypes
  <2> QED  BY <1>8, <2>2, <2>4 DEF Record, TypeOK
<1>9. CASE RecordFails(c)
  BY <1>9, EndType DEF RecordFails, Rollback, Drop, TypeOK
<1>10. CASE DropPrevious(c)
  <2>1. [req[c] EXCEPT !.at = "writeBack", !.prev = NoBundle] \in Request
    BY <1>1, <1>10, HasPackage, RecordedTypes DEF DropPrevious, At, Early
  <2> QED  BY <1>10, <2>1 DEF DropPrevious, Drop, TypeOK
<1>11. CASE WriteBack(c)
  <2>1. req[c].doc.version \in Nat
    BY <1>11, HasPackage DEF WriteBack, At, Early, Package
  <2>2. folder' \in Package
    BY <1>11, <2>1, RecordTypes DEF WriteBack, TypeOK
  <2> QED  BY <1>11, <2>2, EndType DEF WriteBack, TypeOK
<1> QED  BY <1>2, <1>3, <1>4, <1>5, <1>6, <1>7, <1>8, <1>9, <1>10, <1>11 DEF BuildStep

\* So do reverts, validations and publishes,
LEMMA OtherStepType ==
    ASSUME TypeOK, NEW c \in Clients, Ask(c) \/ OtherStep(c)
    PROVE  TypeOK'
<1> USE DEF rowVars
<1>1. req[c] \in Request /\ folder \in Package /\ working \in Row
  BY DEF TypeOK
<1>2. CASE Build(c)
  BY <1>2, GotoType, UsesType DEF Build, Steps, Early, TypeOK
<1>3. CASE Revert(c)
  <2>1. PICK k \in DOMAIN history :
            req' = [req EXCEPT ![c].at = "revert", ![c].doc = history[k]]
    BY <1>3 DEF Revert
  <2>2. history[k] \in Package
    BY DEF TypeOK
  <2>3. [req[c] EXCEPT !.at = "revert", !.doc = history[k]] \in Request
    BY <1>1, <2>2, ReadTypes
  <2> QED  BY <1>3, <2>1, <2>3, UsesType DEF Revert, TypeOK
<1>4. CASE Validate(c)
  <2>1. [req[c] EXCEPT !.at = "validate", !.doc = folder] \in Request
    BY <1>1, ReadTypes
  <2> QED  BY <1>4, <2>1, UsesType DEF Validate, TypeOK
<1>5. CASE ReadWorking(c)
  <2>1. [req[c] EXCEPT !.at = "publish", !.row = working] \in Request
    BY <1>1, ReadTypes
  <2> QED  BY <1>5, <2>1, UsesType DEF ReadWorking, TypeOK
<1>6. CASE CommitRevert(c)
  <2>1. req[c].doc \in Package
    BY <1>6, HasPackage DEF CommitRevert, At, Early
  <2>2. req' \in [Clients -> Request]
    BY <1>6, <2>1, EndType, GotoType DEF CommitRevert, Steps
  <2> QED  BY <1>6, <2>1, <2>2, CommittedType DEF CommitRevert, TypeOK
<1>7. CASE WriteSource(c)
  <2>1. req[c].doc \in Package
    BY <1>7, HasPackage DEF WriteSource, At, Early
  <2> QED  BY <1>7, <2>1, BlankTypes, PutType DEF WriteSource, TypeOK
<1>8. CASE Validated(c)
  <2>1. req[c].doc.version \in Nat
    BY <1>8, HasPackage DEF Validated, At, Early, Package
  <2> QED  BY <1>1, <1>8, <2>1, EndType, RecordTypes DEF Validated, TypeOK
<1>9. CASE Publish(c)
  <2> DEFINE row == req[c].row
             new == [version |-> row.version, bundle |-> row.bundle,
                     commit |-> row.commit, snapshot |-> folder]
  <2>1. row \in Row
    BY <1>1 DEF Request, Fields
  <2>2. new \in Release
    BY <1>1, <2>1 DEF Row, Release
  <2>3. published' \in Seq(Release)
    BY <1>9, <2>2 DEF Publish, TypeOK
  <2> QED  BY <1>9, <2>3, EndType DEF Publish, TypeOK
<1>10. CASE PublishFails(c)
  BY <1>10, EndType DEF PublishFails, TypeOK
<1> QED  BY <1>2, <1>3, <1>4, <1>5, <1>6, <1>7, <1>8, <1>9, <1>10 DEF Ask, OtherStep

\* The initial states are of these types.
LEMMA InitType ==
    ASSUME Init
    PROVE  TypeOK
<1>1. folder \in Package
  BY ValuesAssumption DEF Init, Package
<1>2. working \in Row
  BY <1>1, BlankTypes, RecordTypes DEF Init, Package
<1>3. req \in [Clients -> Request] /\ reader \in Reading
  BY BlankTypes DEF Init
<1>4. archive \in Archival /\ left \in Bounds
  BY BlankTypes, BoundsAssumption DEF Init, Archival, Bounds
<1> QED  BY <1>1, <1>2, <1>3, <1>4 DEF Init, TypeOK

\* Every variable keeps to its set, whatever the requests do between one
\* another's statements (appbuild.py, apps.py): past a build's first steps, in
\* particular, its package is there.
THEOREM TypeCorrect == Spec => []TypeOK
<1>1. Init => TypeOK
  BY InitType
<1>2. TypeOK /\ [Next]_vars => TypeOK'
  <2> SUFFICES ASSUME TypeOK, [Next]_vars PROVE TypeOK'
    OBVIOUS
  <2> USE DEF rowVars
  <2>1. CASE \E c \in Clients : Ask(c) \/ BuildStep(c) \/ OtherStep(c)
    BY <2>1, BuildStepType, OtherStepType
  <2>2. CASE Archive
    BY <2>2 DEF Archive, TypeOK, Archival
  <2>3. CASE ReleaseBundles
    BY <2>3, RecordTypes DEF ReleaseBundles, TypeOK, Archival, Row
  <2>4. CASE DropBundles
    BY <2>4, BlankTypes DEF DropBundles, Drop, TypeOK, Archival
  <2>5. CASE ReadRow
    <3>1. [reader EXCEPT !.at = "file", !.path = working.bundle] \in Reading
      BY DEF TypeOK, Reading, Row
    <3> QED  BY <2>5, <3>1, BlankTypes DEF ReadRow, TypeOK
  <2>6. CASE ReadFile
    <3>1. Append(reader.missed, reader.path) \in Seq(Maybe)
      BY DEF TypeOK, Reading
    <3>2. reader' \in Reading
      BY <2>6, <3>1, BlankTypes DEF ReadFile, Reading
    <3> QED  BY <2>6, <3>2 DEF ReadFile, TypeOK
  <2>7. CASE Refuse
    BY <2>7, BlankTypes DEF Refuse, TypeOK
  <2>8. CASE Edit
    <3>1. folder' \in Package
      BY <2>8, ValuesAssumption DEF Edit, Package
    <3> QED  BY <2>8, <3>1, UsesType DEF Edit, TypeOK
  <2>9. CASE Restart
    <3>1. InHand \ {NoBundle} \in SUBSET Bundle
      <4>1. archive.drop \in Maybe /\ \A c \in Clients : req[c].own \in Maybe /\ req[c].prev \in Maybe
        BY DEF TypeOK, Request, Fields, Archival
      <4>2. ASSUME NEW b \in InHand PROVE b \in Maybe
        BY <4>1 DEF InHand
      <4> QED  BY <4>2 DEF Maybe
    <3>2. archive' \in Archival
      BY <2>9, BlankTypes DEF Restart, TypeOK, Archival
    <3> QED  BY <2>9, <3>1, <3>2, BlankTypes, UsesType DEF Restart, TypeOK
  <2>10. CASE UNCHANGED vars
    BY <2>10 DEF vars, TypeOK
  <2> QED  BY <2>1, <2>2, <2>3, <2>4, <2>5, <2>6, <2>7, <2>8, <2>9, <2>10 DEF Next
<1> QED  BY <1>1, <1>2, PTL DEF Spec

-----------------------------------------------------------------------------
(* The bundles: what the rows and the requests hold are apart.             *)

Holding == {"record", "commit", "update"}

\* What the working version and an unrecorded build point to is on disk,
Stored ==
    /\ WorkingIsStored
    /\ \A c \in Clients : req[c].own # NoBundle => req[c].own \in bundles /\ req[c].at \in Holding

\* ... what a build made is its own until it is recorded,
OwnApart(c) ==
    req[c].own # NoBundle =>
        /\ req[c].own # working.bundle /\ req[c].own # archive.drop
        /\ \A d \in Clients : req[d].prev # req[c].own /\ (d # c => req[d].own # req[c].own)

\* ... what is about to be removed is no longer the working version's,
Apart ==
    /\ \A c \in Clients : OwnApart(c)
    /\ \A c \in Clients : req[c].prev # NoBundle =>
           req[c].prev # working.bundle /\ req[c].at = "drop"
    /\ archive.drop # NoBundle => archive.drop # working.bundle /\ archive.at = "released"

\* ... and all of it was made so far.
Numbered ==
    /\ working.bundle.build <= made /\ archive.drop.build <= made
    /\ \A c \in Clients : req[c].own.build <= made /\ req[c].prev.build <= made

BundleInv == TypeOK /\ Stored /\ Apart /\ Numbered

\* A step of a request that makes no bundle, removes at most one of its own and
\* keeps the others.
OnlyDrops(c, gone) ==
    /\ gone \in {NoBundle, req[c].own, req[c].prev}
    /\ req[c].own = NoBundle \/ req[c].own = gone \/ req'[c].own = req[c].own
    /\ req[c].prev = NoBundle \/ req[c].prev = gone \/ req'[c].prev = req[c].prev
    /\ bundles' = bundles \ {gone}
    /\ working'.bundle = working.bundle /\ UNCHANGED <<made, archive>>
    /\ \A d \in Clients \ {c} : req'[d] = req[d]
    /\ req'[c].own # NoBundle => /\ req'[c].own = req[c].own /\ req[c].own # gone
                                 /\ req'[c].at \in Holding
    /\ req'[c].prev # NoBundle => req'[c].prev = req[c].prev /\ req'[c].at = "drop"

\* Such a step leaves the rest of the bundles where they are.
LEMMA OnlyDropsKeeps ==
    ASSUME BundleInv, TypeOK', NEW c \in Clients, NEW gone, OnlyDrops(c, gone)
    PROVE  BundleInv'
<1>1. \A d \in Clients : req'[d].own # NoBundle => req'[d].own = req[d].own /\ req'[d].own # gone
  <2>1. gone = NoBundle \/ \A d \in Clients \ {c} : req[d].own # NoBundle => req[d].own # gone
    BY DEF OnlyDrops, BundleInv, Apart, OwnApart
  <2> QED  BY <2>1 DEF OnlyDrops
<1>2. \A d \in Clients : req'[d].prev # NoBundle => req'[d].prev = req[d].prev
  BY DEF OnlyDrops
<1>3. Stored'
  <2>1. WorkingIsStored'
    BY DEF OnlyDrops, BundleInv, Stored, WorkingIsStored, Apart, OwnApart
  <2>2. ASSUME NEW d \in Clients, req'[d].own # NoBundle
        PROVE  req'[d].own \in bundles' /\ req'[d].at \in Holding
    BY <1>1, <2>2 DEF OnlyDrops, BundleInv, Stored
  <2> QED  BY <2>1, <2>2 DEF Stored
<1>4. Apart'
  <2>1. ASSUME NEW d \in Clients PROVE OwnApart(d)'
    BY <1>1, <1>2, <2>1 DEF OnlyDrops, BundleInv, Apart, OwnApart
  <2>2. ASSUME NEW d \in Clients, req'[d].prev # NoBundle
        PROVE  req'[d].prev # working'.bundle /\ req'[d].at = "drop"
    BY <1>2, <2>2 DEF OnlyDrops, BundleInv, Apart
  <2>3. archive'.drop # NoBundle => archive'.drop # working'.bundle /\ archive'.at = "released"
    BY DEF OnlyDrops, BundleInv, Apart
  <2> QED  BY <2>1, <2>2, <2>3 DEF Apart
<1>5. Numbered'
  <2>1. ASSUME NEW d \in Clients PROVE req'[d].own.build <= made' /\ req'[d].prev.build <= made'
    <3>1. NoBundle.build = 0 /\ made \in Nat /\ made' = made
      BY DEF NoBundle, OnlyDrops, BundleInv, TypeOK
    <3>2. req'[d].own = NoBundle \/ req'[d].own = req[d].own
      BY <1>1
    <3>3. req'[d].prev = NoBundle \/ req'[d].prev = req[d].prev
      BY <1>2
    <3> QED  BY <3>1, <3>2, <3>3 DEF BundleInv, Numbered
  <2> QED  BY <2>1 DEF Numbered, OnlyDrops, BundleInv
<1> QED  BY <1>3, <1>4, <1>5 DEF BundleInv

\* A request that ends holds nothing, and the others what they held.
LEMMA EndHands ==
    ASSUME TypeOK, NEW c \in Clients, End(c)
    PROVE  /\ req'[c].own = NoBundle /\ req'[c].prev = NoBundle
           /\ \A d \in Clients \ {c} : req'[d] = req[d]
BY DEF End, Idle, TypeOK

\* A request that moves on holds what it held.
LEMMA GotoHands ==
    ASSUME TypeOK, NEW c \in Clients, NEW s, Goto(c, s)
    PROVE  /\ req'[c].own = req[c].own /\ req'[c].prev = req[c].prev /\ req'[c].at = s
           /\ \A d \in Clients \ {c} : req'[d] = req[d]
<1>1. req[c] \in Fields /\ req \in [Clients -> Request]
  BY DEF TypeOK, Request
<1> QED  BY <1>1 DEF Goto, Fields

\* Outside of its last steps a build has nothing in its hands.
LEMMA EmptyHands ==
    ASSUME BundleInv, NEW c \in Clients
    PROVE  /\ req[c].at \notin Holding => req[c].own = NoBundle
           /\ req[c].at # "drop" => req[c].prev = NoBundle
           /\ bundles \ {NoBundle} = bundles
BY DEF BundleInv, Stored, Apart, TypeOK, Bundle, NoBundle

\* The steps of a build but the making of a bundle and its recording.
LEMMA BuildDrops ==
    ASSUME BundleInv, NEW c \in Clients, BuildStep(c), ~Built(c), ~Record(c)
    PROVE  \E gone : OnlyDrops(c, gone)
<1> USE DEF rowVars
<1>1. req[c] \in Fields /\ req \in [Clients -> Request] /\ TypeOK
  BY DEF BundleInv, TypeOK, Request
<1>2. CASE Begin(c) \/ Stage(c) \/ BuildFails(c)
  <2>1. req[c].own = NoBundle /\ req[c].prev = NoBundle
    BY <1>2, EmptyHands DEF Begin, Stage, BuildFails, At, Holding
  <2>2. /\ req'[c].own = NoBundle /\ req'[c].prev = NoBundle
        /\ \A d \in Clients \ {c} : req'[d] = req[d]
    BY <1>1, <1>2, <2>1, EndHands DEF Begin, Stage, BuildFails, Fields
  <2>3. OnlyDrops(c, NoBundle)
    BY <1>2, <2>1, <2>2, EmptyHands DEF Begin, Stage, BuildFails, OnlyDrops
  <2> QED  BY <2>3
<1>3. CASE Lock(c)
  <2>1. req[c].prev = NoBundle
    BY <1>3, EmptyHands DEF Lock, At
  <2>2. CASE Writable
    <3>1. OnlyDrops(c, NoBundle)
      BY <1>1, <1>3, <2>1, <2>2, EmptyHands, GotoHands DEF Lock, OnlyDrops, Holding
    <3> QED  BY <3>1
  <2>3. CASE ~Writable
    <3>1. OnlyDrops(c, req[c].own)
      BY <1>1, <1>3, <2>1, <2>3, EndHands DEF Lock, Rollback, Drop, OnlyDrops
    <3> QED  BY <3>1
  <2> QED  BY <2>2, <2>3
<1>4. CASE CommitTree(c)
  <2>1. req[c].prev = NoBundle
    BY <1>4, EmptyHands DEF CommitTree, At
  <2>2. /\ req'[c].own = req[c].own /\ req'[c].prev = NoBundle /\ req'[c].at = "update"
        /\ \A d \in Clients \ {c} : req'[d] = req[d]
    BY <1>1, <1>4, <2>1, GotoHands DEF CommitTree, Fields
  <2>3. OnlyDrops(c, NoBundle)
    BY <1>4, <2>1, <2>2, EmptyHands DEF CommitTree, OnlyDrops, Holding
  <2> QED  BY <2>3
<1>5. CASE RecordFails(c)
  <2>1. req[c].prev = NoBundle
    BY <1>5, EmptyHands DEF RecordFails, At
  <2>2. OnlyDrops(c, req[c].own)
    BY <1>1, <1>5, <2>1, EndHands DEF RecordFails, Rollback, Drop, OnlyDrops
  <2> QED  BY <2>2
<1>6. CASE DropPrevious(c)
  <2>1. req[c].own = NoBundle
    BY <1>6, EmptyHands DEF DropPrevious, At, Holding
  <2>2. OnlyDrops(c, req[c].prev)
    BY <1>1, <1>6, <2>1 DEF DropPrevious, Drop, OnlyDrops, Fields
  <2> QED  BY <2>2
<1>7. CASE WriteBack(c)
  <2>1. req[c].own = NoBundle /\ req[c].prev = NoBundle
    BY <1>7, EmptyHands DEF WriteBack, At, Holding
  <2>2. OnlyDrops(c, NoBundle)
    BY <1>1, <1>7, <2>1, EmptyHands, EndHands DEF WriteBack, OnlyDrops
  <2> QED  BY <2>2
<1> QED  BY <1>2, <1>3, <1>4, <1>5, <1>6, <1>7 DEF BuildStep

\* The steps of reverts, validations and publishes.
LEMMA OtherDrops ==
    ASSUME BundleInv, NEW c \in Clients, Ask(c) \/ OtherStep(c)
    PROVE  \E gone : OnlyDrops(c, gone)
<1> USE DEF rowVars
<1>1. req[c] \in Fields /\ req \in [Clients -> Request] /\ TypeOK
  BY DEF BundleInv, TypeOK, Request
<1>2. req[c].own = NoBundle /\ req[c].prev = NoBundle
  BY EmptyHands DEF Ask, OtherStep, Build, Revert, Validate, ReadWorking, CommitRevert,
                    WriteSource, Validated, Publish, PublishFails, At, Holding
<1>3. /\ req'[c].own = NoBundle /\ req'[c].prev = NoBundle
      /\ \A d \in Clients \ {c} : req'[d] = req[d]
  <2>1. CASE Ask(c)
    BY <1>1, <1>2, <2>1, GotoHands DEF Ask, Build, Revert, Validate, ReadWorking, Fields
  <2>2. CASE WriteSource(c)
    BY <1>1, <2>2 DEF WriteSource, Idle
  <2>3. CASE CommitRevert(c) \/ Validated(c) \/ Publish(c) \/ PublishFails(c)
    BY <1>1, <1>2, <2>3, EndHands, GotoHands DEF CommitRevert, Validated, Publish, PublishFails
  <2> QED  BY <2>1, <2>2, <2>3 DEF OtherStep
<1>4. UNCHANGED <<bundles, made, archive>> /\ working'.bundle = working.bundle
  BY DEF Ask, OtherStep, Build, Revert, Validate, ReadWorking, CommitRevert, WriteSource,
         Validated, Publish, PublishFails, TypeOK, Row, BundleInv
<1>5. OnlyDrops(c, NoBundle)
  BY <1>2, <1>3, <1>4, EmptyHands DEF OnlyDrops
<1> QED  BY <1>5

\* A new bundle is none of those there were.
LEMMA BuiltKeeps ==
    ASSUME BundleInv, TypeOK', NEW c \in Clients, Built(c)
    PROVE  BundleInv'
<1> USE DEF rowVars
<1> DEFINE new == req'[c].own
<1>1. made \in Nat /\ made' = made + 1 /\ req \in [Clients -> Request] /\ req[c] \in Fields
  BY DEF BundleInv, TypeOK, Request, Built
<1>2. /\ new.build = made + 1 /\ new # NoBundle /\ bundles' = bundles \union {new}
      /\ req'[c].at = "record" /\ req'[c].prev = req[c].prev
      /\ \A d \in Clients \ {c} : req'[d] = req[d]
  BY <1>1 DEF Built, Fields, NoBundle
<1>3. req[c].prev = NoBundle
  BY EmptyHands DEF Built, At
<1>4. UNCHANGED <<working, archive>>
  BY DEF Built
<1>5. /\ new # working.bundle /\ new # archive.drop
      /\ \A d \in Clients : req[d].own # new /\ req[d].prev # new
  <2>1. \A b : b.build <= made => b # new
    <3> SUFFICES ASSUME NEW b, b.build <= made, b = new PROVE FALSE
      OBVIOUS
    <3>1. b.build = made + 1
      BY <1>2
    <3> QED  BY <1>1, <3>1
  <2> QED  BY <2>1 DEF BundleInv, Numbered
<1>6. Stored'
  BY <1>2, <1>4 DEF BundleInv, Stored, WorkingIsStored, Holding
<1>7. Apart'
  <2>1. ASSUME NEW d \in Clients PROVE OwnApart(d)'
    <3>1. CASE d = c
      BY <1>2, <1>3, <1>4, <1>5, <3>1 DEF OwnApart
    <3>2. CASE d # c
      BY <1>2, <1>3, <1>4, <1>5, <3>2 DEF BundleInv, Apart, OwnApart
    <3> QED  BY <3>1, <3>2
  <2> QED  BY <1>2, <1>3, <1>4, <2>1 DEF BundleInv, Apart
<1>8. Numbered'
  <2>1. \A d \in Clients : req'[d].own.build <= made + 1 /\ req'[d].prev.build <= made + 1
    <3>1. ASSUME NEW d \in Clients \ {c}
          PROVE  req'[d].own.build <= made + 1 /\ req'[d].prev.build <= made + 1
      <4>1. req[d].own.build <= made /\ req[d].prev.build <= made
        BY DEF BundleInv, Numbered
      <4>2. req[d].own.build \in Nat /\ req[d].prev.build \in Nat
        <5>1. req[d].own \in Maybe /\ req[d].prev \in Maybe
          BY DEF BundleInv, TypeOK, Request, Fields
        <5>2. \A b \in Maybe : b.build \in Nat
          BY DEF Maybe, Bundle, NoBundle
        <5> QED  BY <5>1, <5>2
      <4> QED  BY <1>1, <1>2, <4>1, <4>2
    <3>2. new.build <= made + 1 /\ req'[c].prev.build <= made + 1
      BY <1>1, <1>2, <1>3 DEF NoBundle
    <3> QED  BY <3>1, <3>2
  <2>2. working.bundle.build <= made + 1 /\ archive.drop.build <= made + 1
    <3>1. working.bundle.build \in Nat /\ archive.drop.build \in Nat
      BY DEF BundleInv, TypeOK, Row, Archival, Maybe, Bundle, NoBundle
    <3> QED  BY <1>1, <3>1 DEF BundleInv, Numbered
  <2> QED  BY <1>1, <1>4, <2>1, <2>2 DEF Numbered
<1> QED  BY <1>6, <1>7, <1>8 DEF BundleInv

\* A recorded bundle is the working version's, and the one before the build's.
LEMMA RecordKeeps ==
    ASSUME BundleInv, TypeOK', NEW c \in Clients, Record(c)
    PROVE  BundleInv'
<1> USE DEF rowVars
<1>1. req \in [Clients -> Request] /\ req[c] \in Fields
  BY DEF BundleInv, TypeOK, Request
<1>2. /\ req'[c].own = NoBundle /\ req'[c].prev \in {NoBundle, working.bundle}
      /\ req'[c].at = "drop" /\ \A d \in Clients \ {c} : req'[d] = req[d]
  BY <1>1 DEF Record, Previous, Fields
<1>3. working'.bundle = req[c].own /\ UNCHANGED <<bundles, made, archive>>
  BY DEF Record
<1>4. OwnApart(c) /\ \A d \in Clients : OwnApart(d)
  BY DEF BundleInv, Apart
<1>5. Stored'
  BY <1>2, <1>3 DEF BundleInv, Stored, WorkingIsStored
<1>6. Apart'
  <2>1. ASSUME NEW d \in Clients PROVE OwnApart(d)'
    <3>1. CASE d = c
      BY <1>2, <3>1 DEF OwnApart
    <3>2. CASE d # c
      <4> SUFFICES ASSUME req[d].own # NoBundle
                   PROVE  /\ req[d].own # req[c].own /\ req[d].own # archive.drop
                          /\ \A e \in Clients : req'[e].prev # req[d].own
                          /\ \A e \in Clients \ {d} : req'[e].own # req[d].own
        BY <1>2, <1>3, <3>2 DEF OwnApart
      <4>1. /\ req[d].own # working.bundle /\ req[d].own # archive.drop
            /\ req[d].own # req[c].own
            /\ \A e \in Clients : req[e].prev # req[d].own /\ (e # d => req[e].own # req[d].own)
        BY <1>4, <3>2 DEF OwnApart
      <4> QED  BY <1>2, <4>1
    <3> QED  BY <3>1, <3>2
  <2>2. ASSUME NEW d \in Clients, req'[d].prev # NoBundle
        PROVE  req'[d].prev # working'.bundle /\ req'[d].at = "drop"
    <3>1. CASE d = c
      BY <1>2, <1>3, <1>4, <2>2, <3>1 DEF OwnApart
    <3>2. CASE d # c
      BY <1>2, <1>3, <1>4, <2>2, <3>2 DEF BundleInv, Apart, OwnApart
    <3> QED  BY <3>1, <3>2
  <2>3. archive'.drop # NoBundle => archive'.drop # working'.bundle /\ archive'.at = "released"
    BY <1>3, <1>4 DEF BundleInv, Apart, OwnApart
  <2> QED  BY <2>1, <2>2, <2>3 DEF Apart
<1>7. Numbered'
  <2>1. made \in Nat /\ NoBundle.build = 0
    BY DEF BundleInv, TypeOK, NoBundle
  <2> QED  BY <1>2, <1>3, <2>1 DEF BundleInv, Numbered
<1> QED  BY <1>5, <1>6, <1>7 DEF BundleInv

\* Archiving takes the working version's bundle, and then removes it.
LEMMA ArchiveKeeps ==
    ASSUME BundleInv, TypeOK', Archive \/ ReleaseBundles \/ DropBundles
    PROVE  BundleInv'
<1> USE DEF rowVars
<1>1. UNCHANGED <<req, made>> /\ made \in Nat /\ NoBundle.build = 0
  BY DEF Archive, ReleaseBundles, DropBundles, BundleInv, TypeOK, NoBundle
<1>2. archive \in Archival /\ working \in Row
  BY DEF BundleInv, TypeOK
<1>3. CASE Archive
  <2>1. archive'.drop = archive.drop /\ archive.drop = NoBundle
    BY <1>2, <1>3 DEF Archive, Archival, BundleInv, Apart
  <2>2. UNCHANGED <<working, bundles>>
    BY <1>3 DEF Archive
  <2> QED  BY <1>1, <2>1, <2>2
           DEF BundleInv, Stored, WorkingIsStored, Apart, OwnApart, Numbered
<1>4. CASE ReleaseBundles
  <2>1. /\ archive'.drop = working.bundle /\ archive'.at = "released"
        /\ working'.bundle = NoBundle /\ bundles' = bundles
    BY <1>2, <1>4 DEF ReleaseBundles, Row
  <2> QED  BY <1>1, <2>1
           DEF BundleInv, Stored, WorkingIsStored, Apart, OwnApart, Numbered
<1>5. CASE DropBundles
  <2>1. /\ archive'.drop = NoBundle /\ working' = working
        /\ bundles' = bundles \ {archive.drop}
    BY <1>5 DEF DropBundles, Drop
  <2>2. working.bundle # NoBundle => working.bundle # archive.drop
    BY <1>5 DEF BundleInv, Apart
  <2>3. \A c \in Clients : req[c].own # NoBundle => req[c].own # archive.drop
    BY DEF BundleInv, Apart, OwnApart
  <2> QED  BY <1>1, <2>1, <2>2, <2>3
           DEF BundleInv, Stored, WorkingIsStored, Apart, OwnApart, Numbered
<1> QED  BY <1>3, <1>4, <1>5

\* Every bundle is in one hand at a time.
LEMMA BundlesInHand == Spec => []BundleInv
<1>1. Init => BundleInv
  <2> SUFFICES ASSUME Init PROVE BundleInv
    OBVIOUS
  <2>1. TypeOK
    BY InitType
  <2> QED  BY <2>1 DEF Init, BundleInv, Stored, WorkingIsStored, Apart, OwnApart, Numbered,
                       Idle, NoRow, NoBundle
<1>2. BundleInv /\ TypeOK' /\ [Next]_vars => BundleInv'
  <2> SUFFICES ASSUME BundleInv, TypeOK', [Next]_vars PROVE BundleInv'
    OBVIOUS
  <2> USE DEF rowVars
  <2>1. ASSUME NEW c \in Clients, Ask(c) \/ BuildStep(c) \/ OtherStep(c) PROVE BundleInv'
    BY <2>1, BuildDrops, BuiltKeeps, OnlyDropsKeeps, OtherDrops, RecordKeeps
  <2>2. CASE Archive \/ ReleaseBundles \/ DropBundles
    BY <2>2, ArchiveKeeps
  <2>3. CASE ReadRow \/ ReadFile \/ Refuse \/ Edit \/ UNCHANGED vars
    <3>1. UNCHANGED <<working, bundles, made, req, archive>>
      BY <2>3 DEF ReadRow, ReadFile, Refuse, Edit, vars
    <3> QED  BY <3>1 DEF BundleInv, Stored, WorkingIsStored, Apart, OwnApart, Numbered
  <2>4. CASE Restart
    <3>1. /\ \A c \in Clients : req'[c].own = NoBundle /\ req'[c].prev = NoBundle
          /\ archive'.drop = NoBundle /\ UNCHANGED <<working, bundles, made>>
      BY <2>4 DEF Restart, Idle
    <3>2. made \in Nat /\ NoBundle.build = 0
      BY DEF BundleInv, TypeOK, NoBundle
    <3> QED  BY <3>1, <3>2 DEF BundleInv, Stored, WorkingIsStored, Apart, OwnApart, Numbered
  <2> QED  BY <2>1, <2>2, <2>3, <2>4 DEF Next
<1> QED  BY <1>1, <1>2, TypeCorrect, PTL DEF Spec

\* A bundle the working version points to is on disk, however builds, reverts,
\* publishes, archiving and restarts overlap (`_record`, `_drop_bundle`,
\* `release_space_bundles`).
THEOREM WorkingStored == Spec => []WorkingIsStored
<1>1. BundleInv => WorkingIsStored
  BY DEF BundleInv, Stored
<1> QED  BY <1>1, BundlesInHand, PTL

-----------------------------------------------------------------------------
(* The commits: one request at a time commits and records.                 *)

InTransaction == {"commit", "update"}

\* A version's commit is one of the history, of what its bundle was built from.
Names(row, commits) ==
    /\ row.commit <= Len(commits)
    /\ row.bundle # NoBundle /\ row.commit # 0
           => commits[row.commit].content = row.bundle.content

\* Who commits or records has the row, and nobody does once the space is
\* archived and its bundles are released,
RowLocked ==
    /\ \A c \in Clients : req[c].at \in InTransaction => rowLock = c
    /\ ~Writable => RowFree /\ working.bundle = NoBundle

\* ... a build's commit is the latest until it is recorded,
Latest(r) ==
    /\ r.commit # 0 => r.at \in {"update", "drop", "writeBack"}
    /\ r.at = "update" /\ r.commit # 0 => /\ r.commit = Len(history)
                                          /\ history[r.commit].content = r.doc.content

\* ... of the package its bundle was built from, and so is what a publish read,
Faithful(r) ==
    /\ r.own # NoBundle => r.own.content = r.doc.content
    /\ Names(r.row, history)

CommitInv ==
    /\ TypeOK /\ RowLocked
    /\ Names(working, history)
    /\ \A i \in DOMAIN published : Names(published[i], history)
    /\ \A c \in Clients : Latest(req[c]) /\ Faithful(req[c])

Extends(commits) ==
    /\ Len(history) <= Len(commits)
    /\ \A k \in 1..Len(history) : commits[k] = history[k]

\* What `AppHistory.commit` adds to: the package is the head then.
LEMMA CommittedExtends ==
    ASSUME TypeOK, NEW tree \in Package
    PROVE  /\ Extends(Committed(tree)) /\ Len(Committed(tree)) \in Nat \ {0}
           /\ Committed(tree)[Len(Committed(tree))] = tree
BY DEF TypeOK, Committed, Extends

\* What a version names is named in a longer history.
LEMMA NamesKept ==
    ASSUME TypeOK, history' \in Seq(Package), Extends(history'),
           NEW row, row.commit \in Nat, Names(row, history)
    PROVE  Names(row, history')
BY DEF Names, Extends, TypeOK

\* A request's step by what it does to the row's lock and to the requests.
LEMMA ClientLocks ==
    ASSUME CommitInv, NEW c \in Clients, Ask(c) \/ BuildStep(c) \/ OtherStep(c)
    PROVE  /\ archive' = archive /\ \A d \in Clients \ {c} : req'[d] = req[d]
           /\ req'[c].at \in InTransaction => rowLock' = c
           /\ \/ rowLock' = rowLock
              \/ rowLock = NoOne /\ rowLock' = c /\ Writable
              \/ rowLock = c /\ rowLock' = NoOne
           /\ working'.bundle = working.bundle \/ rowLock = c
<1> USE DEF rowVars
<1>1. req[c] \in Fields /\ req \in [Clients -> Request] /\ TypeOK /\ working \in Row
  BY DEF CommitInv, TypeOK, Request
<1>2. req[c].at \in InTransaction => rowLock = c
  BY DEF CommitInv, RowLocked
<1>3. CASE Ask(c)
  BY <1>1, <1>3, GotoHands
     DEF Ask, Build, Revert, Validate, ReadWorking, Fields, InTransaction
<1>4. CASE OtherStep(c)
  BY <1>1, <1>4, EndHands, GotoHands
     DEF OtherStep, CommitRevert, WriteSource, Validated, Publish, PublishFails, End, Idle,
         InTransaction, Row
<1>5. CASE Begin(c) \/ Stage(c) \/ BuildFails(c) \/ Built(c) \/ DropPrevious(c) \/ WriteBack(c)
  <2>1. UNCHANGED <<rowVars, archive>>
    BY <1>5 DEF Begin, Stage, BuildFails, Built, DropPrevious, WriteBack
  <2>2. CASE End(c)
    BY <1>1, <2>1, <2>2, EndHands DEF End, Idle, InTransaction
  <2>3. CASE ~End(c)
    <3>1. /\ req'[c].at \notin InTransaction
          /\ \A d \in Clients \ {c} : req'[d] = req[d]
      <4>1. CASE Begin(c) \/ Stage(c)
        BY <1>1, <2>3, <4>1 DEF Begin, Stage, Fields, InTransaction
      <4>2. CASE Built(c)
        BY <1>1, <4>2 DEF Built, Fields, InTransaction
      <4>3. CASE DropPrevious(c)
        BY <1>1, <4>3 DEF DropPrevious, Fields, InTransaction
      <4> QED  BY <1>5, <2>3, <4>1, <4>2, <4>3 DEF BuildFails, WriteBack
    <3> QED  BY <2>1, <3>1
  <2> QED  BY <2>2, <2>3
<1>6. CASE Lock(c)
  BY <1>1, <1>6, EndHands, GotoHands
     DEF Lock, RowFree, Rollback, End, Idle, InTransaction
<1>7. CASE CommitTree(c)
  <2>1. rowLock = c /\ UNCHANGED <<rowVars, archive>>
    BY <1>2, <1>7 DEF CommitTree, At, InTransaction
  <2>2. /\ req'[c].at = "update"
        /\ \A d \in Clients \ {c} : req'[d] = req[d]
    BY <1>1, <1>7, GotoHands DEF CommitTree, Fields
  <2> QED  BY <2>1, <2>2
<1>8. CASE Record(c)
  BY <1>1, <1>2, <1>8 DEF Record, At, Fields, InTransaction
<1>9. CASE RecordFails(c)
  BY <1>1, <1>2, <1>9, EndHands DEF RecordFails, Rollback, At, End, Idle, InTransaction
<1> QED  BY <1>3, <1>4, <1>5, <1>6, <1>7, <1>8, <1>9 DEF BuildStep

\* The history grows, and under the row's lock alone.
LEMMA ClientHistory ==
    ASSUME CommitInv, NEW c \in Clients, Ask(c) \/ BuildStep(c) \/ OtherStep(c)
    PROVE  /\ Extends(history')
           /\ history' = history \/ rowLock \in {NoOne, c}
<1>1. CASE CommitTree(c) \/ CommitRevert(c)
  <2>1. req[c].doc \in Package /\ TypeOK
    BY <1>1, HasPackage DEF CommitTree, CommitRevert, At, Early, CommitInv
  <2>2. rowLock \in {NoOne, c}
    BY <1>1 DEF CommitTree, CommitRevert, At, RowFree, CommitInv, RowLocked, InTransaction
  <2>3. history' = history \/ history' = Committed(req[c].doc)
    BY <1>1 DEF CommitTree, CommitRevert
  <2>4. Extends(history)
    BY <2>1 DEF Extends, TypeOK
  <2> QED  BY <2>1, <2>2, <2>3, <2>4, CommittedExtends
<1>2. CASE ~CommitTree(c) /\ ~CommitRevert(c)
  <2>1. history' = history
    BY <1>2 DEF Ask, BuildStep, OtherStep, Build, Revert, Validate, ReadWorking, Begin, Stage,
                BuildFails, Built, Lock, Record, RecordFails, DropPrevious, WriteBack,
                WriteSource, Validated, Publish, PublishFails
  <2>2. Extends(history)
    BY DEF Extends, CommitInv, TypeOK
  <2> QED  BY <2>1, <2>2
<1> QED  BY <1>1, <1>2

\* What a request names and made is as before, in its own steps,
LEMMA ClientNames ==
    ASSUME CommitInv, BundleInv, TypeOK', NEW c \in Clients,
           Ask(c) \/ BuildStep(c) \/ OtherStep(c)
    PROVE  /\ Latest(req[c])' /\ Faithful(req[c])'
           /\ Names(working, history)'
<1> USE DEF rowVars
<1>1. /\ req[c] \in Fields /\ req \in [Clients -> Request] /\ TypeOK
      /\ working \in Row /\ history \in Seq(Package) /\ history' \in Seq(Package)
  BY DEF CommitInv, TypeOK, Request
<1>2. Latest(req[c]) /\ Faithful(req[c]) /\ Names(working, history)
  BY DEF CommitInv
<1>3. Names(req[c].row, history') /\ Names(working, history')
  <2>1. req[c].row.commit \in Nat /\ working.commit \in Nat
    BY <1>1 DEF Fields, Row
  <2> QED  BY <1>1, <1>2, <2>1, ClientHistory, NamesKept DEF Faithful
<1>4. Names(NoRow, history')
  BY <1>1 DEF NoRow, Names, NoBundle
<1>5. req'[c] = Idle => Latest(req[c])' /\ Faithful(req[c])'
  BY <1>4 DEF Idle, Latest, Faithful
<1>6. req'[c] = [Idle EXCEPT !.at = "begin"] => Latest(req[c])' /\ Faithful(req[c])'
  BY <1>4 DEF Idle, Latest, Faithful
<1>7. ASSUME working' = working PROVE Names(working, history)'
  BY <1>3, <1>7
<1>8. CASE Ask(c)
  <2>1. req[c].own = NoBundle /\ req[c].commit = 0 /\ working' = working /\ history' = history
    BY <1>2, <1>8, EmptyHands
       DEF Ask, Build, Revert, Validate, ReadWorking, At, Holding, Latest
  <2>2. /\ req'[c].own = NoBundle /\ req'[c].commit = 0
        /\ req'[c].row = req[c].row \/ req'[c].row = working
    BY <1>1, <1>8, <2>1 DEF Ask, Build, Revert, Validate, ReadWorking, Goto, Fields
  <2> QED  BY <1>2, <1>7, <2>1, <2>2 DEF Latest, Faithful
<1>9. CASE Begin(c) \/ Stage(c) \/ BuildFails(c) \/ CommitRevert(c)
  <2>1. req[c].own = NoBundle /\ req[c].commit = 0
    BY <1>2, <1>9, EmptyHands DEF Begin, Stage, BuildFails, CommitRevert, At, Holding, Latest
  <2>2. /\ working' = working
        /\ \/ req'[c] = Idle
           \/ req'[c].own = NoBundle /\ req'[c].commit = 0 /\ req'[c].row = req[c].row
    BY <1>1, <1>9, <2>1 DEF Begin, Stage, BuildFails, CommitRevert, End, Goto, Fields
  <2>3. CASE req'[c] # Idle
    BY <1>3, <1>7, <2>2, <2>3 DEF Latest, Faithful
  <2> QED  BY <1>5, <1>7, <2>2, <2>3
<1>10. CASE Built(c)
  <2>1. req[c].commit = 0
    BY <1>2, <1>10 DEF Built, At, Latest
  <2>2. req[c].doc \in Package
    BY <1>1, <1>10, HasPackage DEF Built, At, Early
  <2>3. /\ working' = working /\ req'[c].commit = 0 /\ req'[c].row = req[c].row
        /\ req'[c].own.content = req[c].doc.content
        /\ req'[c].doc.content = req[c].doc.content
    BY <1>1, <1>10, <2>1, <2>2 DEF Built, Fields, Package
  <2> QED  BY <1>3, <1>7, <2>3 DEF Latest, Faithful
<1>11. CASE Lock(c)
  <2>1. req[c].commit = 0
    BY <1>2, <1>11 DEF Lock, At, Latest
  <2>2. /\ working' = working
        /\ \/ req'[c] = Idle
           \/ /\ req'[c].own = req[c].own /\ req'[c].doc = req[c].doc
              /\ req'[c].commit = 0 /\ req'[c].row = req[c].row
    BY <1>1, <1>11, <2>1 DEF Lock, Rollback, End, Goto, Fields
  <2>3. CASE req'[c] # Idle
    BY <1>2, <1>3, <1>7, <2>2, <2>3 DEF Latest, Faithful
  <2> QED  BY <1>5, <1>7, <2>2, <2>3
<1>12. CASE CommitTree(c)
  <2>1. req[c].commit = 0
    BY <1>2, <1>12 DEF CommitTree, At, Latest
  <2>2. req[c].doc \in Package
    BY <1>1, <1>12, HasPackage DEF CommitTree, At, Early
  <2>3. /\ working' = working /\ req'[c].at = "update"
        /\ req'[c].own = req[c].own /\ req'[c].doc = req[c].doc /\ req'[c].row = req[c].row
        /\ \/ req'[c].commit = 0
           \/ req'[c].commit = Len(history') /\ history' = Committed(req[c].doc)
    BY <1>1, <1>12, <2>1 DEF CommitTree, Goto, Fields
  <2>4. Faithful(req[c])'
    BY <1>2, <1>3, <2>3 DEF Faithful
  <2>5. Latest(req[c])'
    BY <1>1, <2>2, <2>3, CommittedExtends DEF Latest
  <2> QED  BY <1>7, <2>3, <2>4, <2>5
<1>13. CASE Record(c)
  <2>1. /\ working'.commit = req[c].commit /\ working'.bundle = req[c].own
        /\ history' = history /\ req'[c].own = NoBundle /\ req'[c].at = "drop"
        /\ req'[c].row = req[c].row
    BY <1>1, <1>13 DEF Record, Fields
  <2>2. req[c].commit \in Nat /\ Len(history) \in Nat
    BY <1>1 DEF Fields
  <2>3. Names(working, history)'
    BY <1>2, <1>13, <2>1, <2>2 DEF Record, At, Latest, Faithful, Names
  <2>4. Latest(req[c])' /\ Faithful(req[c])'
    BY <1>3, <2>1 DEF Latest, Faithful
  <2> QED  BY <2>3, <2>4
<1>14. CASE RecordFails(c) \/ WriteBack(c) \/ Publish(c) \/ PublishFails(c)
  <2>1. working' = working /\ req'[c] = Idle
    BY <1>1, <1>14 DEF RecordFails, Rollback, WriteBack, Publish, PublishFails, End
  <2> QED  BY <1>5, <1>7, <2>1
<1>15. CASE DropPrevious(c)
  <2>1. req[c].own = NoBundle
    BY <1>15, EmptyHands DEF DropPrevious, At, Holding
  <2>2. /\ working' = working /\ req'[c].own = NoBundle /\ req'[c].at = "writeBack"
        /\ req'[c].row = req[c].row
    BY <1>1, <1>15, <2>1 DEF DropPrevious, Fields
  <2> QED  BY <1>3, <1>7, <2>2 DEF Latest, Faithful
<1>16. CASE WriteSource(c)
  BY <1>1, <1>6, <1>7, <1>16 DEF WriteSource
<1>17. CASE Validated(c)
  <2>1. /\ working'.bundle = working.bundle /\ working'.commit = working.commit
        /\ req'[c] = Idle
    BY <1>1, <1>17 DEF Validated, End, Row
  <2>2. Names(working, history)'
    BY <1>3, <2>1 DEF Names
  <2> QED  BY <1>5, <2>1, <2>2
<1> QED  BY <1>8, <1>9, <1>10, <1>11, <1>12, <1>13, <1>14, <1>15, <1>16, <1>17
         DEF BuildStep, OtherStep

\* What is in a sequence that one more was appended to.
LEMMA AppendAt ==
    ASSUME NEW S, NEW s \in Seq(S), NEW x \in S, NEW t, t = Append(s, x), NEW i \in DOMAIN t
    PROVE  t[i] = x \/ (i \in DOMAIN s /\ t[i] = s[i])
<1>1. /\ t \in Seq(S) /\ Len(t) = Len(s) + 1 /\ t[Len(s) + 1] = x
      /\ \A k \in 1..Len(s) : t[k] = s[k]
  BY AppendProperties
<1>2. DOMAIN s = 1..Len(s) /\ DOMAIN t = 1..Len(t) /\ Len(s) \in Nat
  BY <1>1
<1>3. i = Len(s) + 1 \/ i \in 1..Len(s)
  BY <1>1, <1>2
<1>4. CASE i = Len(s) + 1
  BY <1>1, <1>4
<1>5. CASE i \in 1..Len(s)
  BY <1>1, <1>2, <1>5
<1> QED  BY <1>3, <1>4, <1>5

\* A request's step keeps the commits' invariant.
LEMMA ClientCommits ==
    ASSUME CommitInv, BundleInv, TypeOK', NEW c \in Clients,
           Ask(c) \/ BuildStep(c) \/ OtherStep(c)
    PROVE  CommitInv'
<1>1. /\ NoOne \notin Clients /\ TypeOK
      /\ history \in Seq(Package) /\ history' \in Seq(Package)
  BY ValuesAssumption DEF CommitInv, TypeOK
<1>2. RowLocked'
  <2>1. ASSUME NEW d \in Clients, req'[d].at \in InTransaction PROVE rowLock' = d
    BY <1>1, <2>1, ClientLocks DEF CommitInv, RowLocked
  <2>2. ~Writable' => ~Writable
    BY ClientLocks DEF Writable
  <2>3. ~Writable => RowFree' /\ working'.bundle = NoBundle
    BY <1>1, ClientLocks DEF CommitInv, RowLocked, RowFree
  <2> QED  BY <2>1, <2>2, <2>3 DEF RowLocked
<1>3. ASSUME NEW d \in Clients PROVE Latest(req[d])' /\ Faithful(req[d])'
  <2>1. CASE d = c
    BY <2>1, ClientNames
  <2>2. CASE d # c
    <3>1. req'[d] = req[d] /\ Latest(req[d]) /\ Faithful(req[d])
      BY <2>2, ClientLocks DEF CommitInv
    <3>2. Faithful(req[d])'
      <4>1. req[d].row.commit \in Nat
        BY <1>1 DEF TypeOK, Request, Fields, Row
      <4>2. Names(req[d].row, history) /\ Extends(history')
        BY <3>1, ClientHistory DEF Faithful
      <4>3. Names(req[d].row, history')
        BY <1>1, <4>1, <4>2, NamesKept
      <4> QED  BY <3>1, <4>3 DEF Faithful
    <3>3. req[d].at = "update" => history' = history
      BY <1>1, <2>2, ClientHistory DEF CommitInv, RowLocked, InTransaction
    <3> QED  BY <3>1, <3>2, <3>3 DEF Latest
  <2> QED  BY <2>1, <2>2
<1>4. ASSUME NEW i \in DOMAIN published' PROVE Names(published[i], history)'
  <2>1. \A k \in DOMAIN published : Names(published[k], history')
    <3> SUFFICES ASSUME NEW k \in DOMAIN published PROVE Names(published[k], history')
      OBVIOUS
    <3>1. published[k].commit \in Nat
      <4>1. published \in Seq(Release)
        BY <1>1 DEF TypeOK
      <4>2. published[k] \in Release
        BY <4>1
      <4> QED  BY <4>2 DEF Release
    <3>2. Names(published[k], history) /\ Extends(history')
      BY ClientHistory DEF CommitInv
    <3> QED  BY <1>1, <3>1, <3>2, NamesKept
  <2>2. CASE published' = published
    BY <1>4, <2>1, <2>2
  <2>3. CASE published' # published
    <3> DEFINE row == req[c].row
               new == [version |-> row.version, bundle |-> row.bundle,
                       commit |-> row.commit, snapshot |-> folder]
    <3>1. published' = Append(published, new) /\ history' = history
      BY <2>3 DEF Ask, BuildStep, OtherStep, Build, Revert, Validate, ReadWorking, Begin, Stage,
                  BuildFails, Built, Lock, CommitTree, Record, RecordFails, DropPrevious,
                  WriteBack, CommitRevert, WriteSource, Validated, Publish, PublishFails, rowVars
    <3>2. Names(new, history)
      BY DEF CommitInv, Faithful, Names
    <3>3. published \in Seq(Release)
      BY <1>1 DEF TypeOK
    <3>4. published'[i] = new \/ (i \in DOMAIN published /\ published'[i] = published[i])
      <4>1. new \in Release
        BY <1>1 DEF TypeOK, Request, Fields, Row, Release
      <4> QED  BY <1>4, <3>1, <3>3, <4>1, AppendAt
    <3> QED  BY <2>1, <3>1, <3>2, <3>4
  <2> QED  BY <2>2, <2>3
<1> QED  BY <1>2, <1>3, <1>4, ClientNames DEF CommitInv

\* The commits' invariant holds throughout.
LEMMA CommitsInOrder == Spec => []CommitInv
<1>1. Init => CommitInv
  <2> SUFFICES ASSUME Init PROVE CommitInv
    OBVIOUS
  <2>1. TypeOK
    BY InitType
  <2>2. Names(NoRow, history) /\ Names(working, history) /\ published = << >>
    BY DEF Init, Names, NoRow, NoBundle
  <2>3. \A c \in Clients : req[c] = Idle
    BY DEF Init
  <2>4. RowLocked
    BY <2>3 DEF Init, RowLocked, Idle, Writable, InTransaction
  <2> QED  BY <2>1, <2>2, <2>3, <2>4 DEF CommitInv, Latest, Faithful, Idle
<1>2. CommitInv /\ BundleInv /\ TypeOK' /\ [Next]_vars => CommitInv'
  <2> SUFFICES ASSUME CommitInv, BundleInv, TypeOK', [Next]_vars PROVE CommitInv'
    OBVIOUS
  <2> USE DEF rowVars
  <2>1. ASSUME NEW c \in Clients, Ask(c) \/ BuildStep(c) \/ OtherStep(c) PROVE CommitInv'
    BY <2>1, ClientCommits
  <2>2. CASE Archive \/ DropBundles \/ ReadRow \/ ReadFile \/ Refuse \/ Edit \/ UNCHANGED vars
    <3>1. UNCHANGED <<working, rowLock, published, history, req>>
      BY <2>2 DEF Archive, DropBundles, ReadRow, ReadFile, Refuse, Edit, vars
    <3>2. RowLocked'
      <4>1. Writable' <=> Writable
        <5>1. archive \in Archival
          BY DEF CommitInv, TypeOK
        <5>2. CASE Archive
          BY <5>1, <5>2 DEF Archive, Archival, Writable
        <5>3. CASE DropBundles
          BY <5>3 DEF DropBundles, Writable
        <5>4. CASE archive' = archive
          BY <5>4 DEF Writable
        <5> QED  BY <2>2, <5>2, <5>3, <5>4 DEF ReadRow, ReadFile, Refuse, Edit, vars
      <4> QED  BY <3>1, <4>1 DEF CommitInv, RowLocked, RowFree
    <3>3. /\ Names(working, history)'
          /\ \A i \in DOMAIN published' : Names(published[i], history)'
      BY <3>1 DEF CommitInv
    <3>4. \A c \in Clients : Latest(req[c])' /\ Faithful(req[c])'
      BY <3>1 DEF CommitInv, Latest, Faithful
    <3> QED  BY <3>2, <3>3, <3>4 DEF CommitInv
  <2>3. CASE ReleaseBundles
    <3>1. /\ working'.bundle = NoBundle /\ working'.commit = working.commit /\ RowFree
          /\ UNCHANGED <<rowLock, published, history, req>>
      BY <2>3 DEF ReleaseBundles, CommitInv, TypeOK, Row
    <3>2. Names(working, history)'
      BY <3>1 DEF CommitInv, Names
    <3> QED  BY <3>1, <3>2 DEF CommitInv, RowLocked, Latest, Faithful, RowFree
  <2>4. CASE Restart
    <3>1. /\ \A c \in Clients : req'[c] = Idle
          /\ rowLock' = NoOne /\ UNCHANGED <<working, published, history>>
      BY <2>4 DEF Restart
    <3>2. Writable' <=> Writable
      BY <2>4 DEF Restart, Writable
    <3>3. RowLocked'
      BY <3>1, <3>2 DEF CommitInv, RowLocked, Idle, InTransaction, RowFree
    <3>4. Names(NoRow, history)
      BY DEF Names, NoRow, NoBundle, CommitInv, TypeOK
    <3>5. \A c \in Clients : Latest(req[c])' /\ Faithful(req[c])'
      BY <3>1, <3>4 DEF Latest, Faithful, Idle
    <3> QED  BY <3>1, <3>3, <3>5 DEF CommitInv
  <2> QED  BY <2>1, <2>2, <2>3, <2>4 DEF Next
<1> QED  BY <1>1, <1>2, BundlesInHand, TypeCorrect, PTL DEF Spec

\* Once a space is archived, a build that ends later leaves the working version
\* without a bundle: `_lock_working` looks again under the row's lock, and the
\* archiving unsets the bundle when nobody has it.
THEOREM ArchivedReleased == Spec => []ArchivedIsReleased
<1>1. CommitInv => ArchivedIsReleased
  BY DEF CommitInv, RowLocked, ArchivedIsReleased
<1> QED  BY <1>1, CommitsInOrder, PTL

\* The commit a version names, a published one's too, is of the source its bundle
\* was built from, whatever builds, reverts and publishes overlap.
THEOREM CommitBuilt == Spec => []CommitIsBuilt
<1>1. CommitInv => CommitIsBuilt
  BY DEF CommitInv, CommitIsBuilt, Names
<1> QED  BY <1>1, CommitsInOrder, PTL

\* The working version never goes back to an older commit: what is recorded is
\* the head of the history, which is still locked (`_commit`, `_record`).
THEOREM CommitsForward == Spec => CommitMovesForward
<1> DEFINE Forward == working.commit # 0 /\ working'.commit # 0
                          => working'.commit >= working.commit
<1>1. CommitInv /\ [Next]_vars => [Forward]_vars
  <2> SUFFICES ASSUME CommitInv, Next PROVE Forward
    BY DEF vars, rowVars, CommitInv, TypeOK, Row
  <2> USE DEF rowVars
  <2>1. working.commit \in Nat /\ working.commit <= Len(history) /\ working \in Row
    BY DEF CommitInv, TypeOK, Row, Names
  <2>2. CASE \E c \in Clients : Record(c)
    <3>1. PICK c \in Clients : Record(c)
      BY <2>2
    <3>2. working'.commit = req[c].commit /\ Latest(req[c]) /\ req[c].at = "update"
      BY <3>1 DEF Record, At, CommitInv
    <3> QED  BY <2>1, <3>2 DEF Latest
  <2>3. CASE ~\E c \in Clients : Record(c)
    <3>1. working'.commit = working.commit
      BY <2>1, <2>3
         DEF Next, Ask, BuildStep, OtherStep, Build, Revert, Validate, ReadWorking, Begin, Stage,
             BuildFails, Built, Lock, CommitTree, RecordFails, DropPrevious, WriteBack,
             CommitRevert, WriteSource, Validated, Publish, PublishFails, Archive,
             ReleaseBundles, DropBundles, ReadRow, ReadFile, Refuse, Edit, Restart, Row
    <3> QED  BY <2>1, <3>1
  <2> QED  BY <2>2, <2>3
<1> QED  BY <1>1, CommitsInOrder, PTL DEF Spec, CommitMovesForward

-----------------------------------------------------------------------------
(* What nobody holds is removed.                                           *)

\* A request's step leaves the published versions and what a restart lost.
LEMMA ClientReleases ==
    ASSUME TypeOK, NEW c \in Clients, Ask(c) \/ BuildStep(c) \/ OtherStep(c)
    PROVE  /\ lost' = lost
           /\ \A i \in DOMAIN published : i \in DOMAIN published' /\ published'[i] = published[i]
<1> USE DEF rowVars
<1>1. lost' = lost
  BY DEF Ask, BuildStep, OtherStep, Build, Revert, Validate, ReadWorking, Begin, Stage,
         BuildFails, Built, Lock, CommitTree, Record, RecordFails, DropPrevious, WriteBack,
         CommitRevert, WriteSource, Validated, Publish, PublishFails
<1>2. published' = published \/ \E release : published' = Append(published, release)
  BY DEF Ask, BuildStep, OtherStep, Build, Revert, Validate, ReadWorking, Begin, Stage,
         BuildFails, Built, Lock, CommitTree, Record, RecordFails, DropPrevious, WriteBack,
         CommitRevert, WriteSource, Validated, Publish, PublishFails
<1>3. published \in Seq(Release)
  BY DEF TypeOK
<1>4. ASSUME NEW release, published' = Append(published, release), NEW i \in DOMAIN published
      PROVE  i \in DOMAIN published' /\ published'[i] = published[i]
  BY <1>3, <1>4
<1> QED  BY <1>1, <1>2, <1>4

\* A bundle some version, some request or a restart accounts for.
Known(b) ==
    \/ b = working.bundle
    \/ \E i \in DOMAIN published : b = published[i].bundle
    \/ \E c \in Clients : b = req[c].own \/ b = req[c].prev
    \/ b = archive.drop
    \/ b \in lost

\* NothingLeaks bundle by bundle, now
LEMMA LeakParts == NothingLeaks <=> \A b \in bundles : Known(b)
BY DEF NothingLeaks, Known, InHand

\* ... and after a step.
LEMMA LeakPartsNext == NothingLeaks' <=> \A b \in bundles' : Known(b)'
BY DEF NothingLeaks, Known, InHand

\* A request's step lets go of a bundle to a version or removes it.
LEMMA ClientLeaks ==
    ASSUME BundleInv, NothingLeaks, NEW c \in Clients, Ask(c) \/ BuildStep(c) \/ OtherStep(c)
    PROVE  NothingLeaks'
<1> SUFFICES ASSUME NEW b \in bundles' PROVE Known(b)'
  BY LeakPartsNext
<1> USE DEF rowVars
<1>1. TypeOK /\ req \in [Clients -> Request] /\ req[c] \in Fields
  BY DEF BundleInv, TypeOK, Request
<1>2. b \in bundles => b # NoBundle /\ Known(b)
  BY <1>1, LeakParts DEF TypeOK, Bundle, NoBundle
<1>3. CASE Built(c)
  <2>1. req[c].own = NoBundle /\ req[c].prev = NoBundle
    BY <1>3, EmptyHands DEF Built, At, Holding
  <2>2. /\ b \in bundles \/ b = req'[c].own
        /\ \A d \in Clients \ {c} : req'[d] = req[d]
        /\ UNCHANGED <<working, published, archive, lost>>
    BY <1>1, <1>3 DEF Built, Fields
  <2> QED  BY <1>2, <2>1, <2>2 DEF Known
<1>4. CASE Record(c)
  <2>1. req[c].prev = NoBundle
    BY <1>4, EmptyHands DEF Record, At
  <2>2. /\ b \in bundles /\ working'.bundle = req[c].own
        /\ req'[c].prev = Previous(c)
        /\ \A d \in Clients \ {c} : req'[d] = req[d]
        /\ UNCHANGED <<published, archive, lost>>
    BY <1>1, <1>4 DEF Record, Fields
  <2>3. CASE b = working.bundle
    BY <2>2, <2>3 DEF Previous, Known
  <2> QED  BY <1>2, <2>1, <2>2, <2>3 DEF Known
<1>5. CASE ~Built(c) /\ ~Record(c)
  <2>1. PICK gone : OnlyDrops(c, gone)
    BY <1>5, BuildDrops, OtherDrops
  <2>2. /\ b \in bundles /\ b # gone /\ working'.bundle = working.bundle /\ archive' = archive
        /\ \A d \in Clients \ {c} : req'[d] = req[d]
        /\ req[c].own = b => req'[c].own = b
        /\ req[c].prev = b => req'[c].prev = b
    BY <1>2, <2>1 DEF OnlyDrops
  <2> QED  BY <1>1, <1>2, <2>2, ClientReleases DEF Known
<1> QED  BY <1>3, <1>4, <1>5

\* Every bundle on disk is some version's or in the hands of a request that will
\* record or remove it, unless a restart came in between (`_record`,
\* `_drop_bundle`, the handlers that end a build).
THEOREM LeaksNothing == Spec => []NothingLeaks
<1>1. Init => NothingLeaks
  BY DEF Init, NothingLeaks
<1>2. NothingLeaks /\ BundleInv /\ [Next]_vars => NothingLeaks'
  <2> SUFFICES ASSUME NothingLeaks, BundleInv, [Next]_vars PROVE NothingLeaks'
    OBVIOUS
  <2> USE DEF rowVars
  <2>1. ASSUME NEW c \in Clients, Ask(c) \/ BuildStep(c) \/ OtherStep(c) PROVE NothingLeaks'
    BY <2>1, ClientLeaks
  <2>2. CASE Archive \/ ReadRow \/ ReadFile \/ Refuse \/ Edit \/ UNCHANGED vars
    <3>1. UNCHANGED <<working, published, bundles, req, lost>> /\ archive'.drop = archive.drop
      BY <2>2 DEF Archive, ReadRow, ReadFile, Refuse, Edit, vars, BundleInv, TypeOK, Archival
    <3> QED  BY <3>1, LeakParts, LeakPartsNext DEF Known
  <2>3. CASE ReleaseBundles
    <3>1. archive.drop = NoBundle /\ bundles' = bundles /\ NoBundle \notin bundles
      BY <2>3 DEF ReleaseBundles, BundleInv, Apart, TypeOK, Bundle, NoBundle
    <3>2. archive'.drop = working.bundle /\ UNCHANGED <<published, req, lost>>
      BY <2>3 DEF ReleaseBundles
    <3> QED  BY <3>1, <3>2, LeakParts, LeakPartsNext DEF Known
  <2>4. CASE DropBundles
    <3>1. bundles' = bundles \ {archive.drop} /\ UNCHANGED <<working, published, req, lost>>
      BY <2>4 DEF DropBundles, Drop
    <3> QED  BY <3>1, LeakParts, LeakPartsNext DEF Known
  <2>5. CASE Restart
    <3>1. lost' = lost \union (InHand \ {NoBundle}) /\ UNCHANGED <<working, published, bundles>>
      BY <2>5 DEF Restart
    <3>2. NoBundle \notin bundles
      BY DEF BundleInv, TypeOK, Bundle, NoBundle
    <3>3. \A b \in bundles : Known(b) => b \in lost' \/ b = working.bundle
                                       \/ \E i \in DOMAIN published : b = published[i].bundle
      BY <3>1, <3>2 DEF Known, InHand
    <3> QED  BY <3>1, <3>3, LeakParts, LeakPartsNext DEF Known
  <2> QED  BY <2>1, <2>2, <2>3, <2>4, <2>5 DEF Next
<1> QED  BY <1>1, <1>2, BundlesInHand, PTL DEF Spec

\* With the types: bundles are some version's or in a request's hands, and an archived space's are let go.
THEOREM BundlesKept == Spec => []BundlesAreKept
<1>1. TypeOK /\ NothingLeaks /\ ArchivedIsReleased => BundlesAreKept
  BY DEF BundlesAreKept
<1> QED  BY <1>1, TypeCorrect, LeaksNothing, ArchivedReleased, PTL

-----------------------------------------------------------------------------
(* The inductive invariant.                                                *)

USE DEF consentVars

Decides == {"approve", "reject"}

\* What a request works on exists: its instance has been installed, its migration has a row
\* and is of its instance; an agent's was agreed to, or not asked about.
RequestShape(r) ==
    /\ r.at \notin {"idle", "next"} => r.inst \in Instances
    /\ r.inst \in Instances => installed[r.inst] # "never"
    /\ \A i \in r.todo : installed[i] # "never"
    /\ r.op \in Decides => r.mig \in DOMAIN migrations /\ migrations[r.mig].inst = r.inst
    /\ r.op \notin Decides => r.mig = 0
    /\ r.agent => r.mig \in agreed \union unasked
    /\ r.at \in {"row", "replan"} => r.op \in Decides
    /\ r.at \in {"next", "plan", "hold"} => r.op \notin Decides
    /\ r.at = "replan" => r.op = "approve" /\ migrations[r.mig].status = "pending"

\* A migration about to be applied drops nothing, or is pending, approved and planned on the
\* database as it is.
AsApproved(r) ==
    /\ r.op = "approve" /\ migrations[r.mig].status = "pending"
    /\ r.add = migrations[r.mig].add /\ r.drop = migrations[r.mig].drop
    /\ r.add \intersect database[r.inst].cols = {} /\ r.add \intersect r.drop = {}
    /\ r.drop \subseteq database[r.inst].cols

ApplyShape(r) == r.at = "apply" => r.drop = {} \/ AsApproved(r)

\* Migrations are of instances that have been installed, their markers of those an agent may go on with.
RowsShape ==
    /\ \A m \in DOMAIN migrations : installed[migrations[m].inst] # "never"
    /\ markers \subseteq agreed \union unasked

\* Only columns that are there hold data; an instance that was never installed has no copies.
InstanceShape(i) ==
    /\ database[i].filled \subseteq database[i].cols
    /\ installed[i] = "never" => i \notin scheduled /\ \A k \in CopyRuns : copying[i][k] = "idle"

RequestInv ==
    /\ AppDataTypeOK /\ RowsShape
    /\ \A c \in DataClients : RequestShape(dataReq[c]) /\ ApplyShape(dataReq[c])
    /\ \A i \in Instances : InstanceShape(i)

\* A change of the database whose copy is still to be scheduled.
Unscheduled(i) == \E c \in DataClients : On(c) = i /\ dataReq[c].at \in {"commit", "record"} /\ dataReq[c].ok

\* A copy of the current state is on its way, unless nobody owes one.
CopyDue(i) ==
    \/ i \in scheduled \/ i \in uncopied \/ Unscheduled(i)
    \/ \E k \in CopyRuns : copying[i][k] = "unlink"

Vacuuming(i) == \E k \in CopyRuns : copying[i][k] = "vacuum"

CopyShape(i) ==
    /\ readOnly[i].rev <= database[i].rev
    /\ copyTmp[i] # NoCopy => readOnly[i].rev <= copyTmp[i].rev /\ copyTmp[i].rev <= database[i].rev
    /\ installed[i] # "gone" =>
         \/ CopyDue(i) \/ Vacuuming(i)
         \/ readOnly[i].rev = database[i].rev \/ copyTmp[i].rev = database[i].rev
    /\ installed[i] # "gone" /\ copyTmp[i] # NoCopy /\ Vacuuming(i) =>
         CopyDue(i) \/ copyTmp[i].rev = database[i].rev

CopyInv == \A i \in Instances : CopyShape(i)

-----------------------------------------------------------------------------
(* The types.                                                              *)

Locks == \A i \in Instances, c \in DataClients :
            dataLock[i] = c <=> dataReq[c].at \in Locked /\ dataReq[c].inst = i

LEMMA DataTypes ==
    AppDataTypeOK <=>
        /\ installed \in [Instances -> {"never", "live", "gone"}]
        /\ tracked \in [Instances -> BOOLEAN] /\ pinned \in [Instances -> SUBSET Columns]
        /\ database \in [Instances -> Database] /\ migrations \in Seq(Migration)
        /\ dataLock \in [Instances -> DataClients \union {Nobody}]
        /\ dataReq \in [DataClients -> DataReq] /\ Locks
        /\ markers \in SUBSET Nat /\ asks \in BOOLEAN /\ agreed \in SUBSET Nat /\ unasked \in SUBSET Nat
        /\ readOnly \in [Instances -> CopyFile] /\ scheduled \in SUBSET Instances
        /\ copying \in [Instances -> [CopyRuns -> CopyAt]] /\ copyTmp \in [Instances -> CopyFile]
        /\ uncopied \in SUBSET Instances /\ dataLeft \in Nat
BY DEF AppDataTypeOK, Locks

LEMMA DataTypesNext ==
    AppDataTypeOK' <=>
        /\ installed' \in [Instances -> {"never", "live", "gone"}]
        /\ tracked' \in [Instances -> BOOLEAN] /\ pinned' \in [Instances -> SUBSET Columns]
        /\ database' \in [Instances -> Database] /\ migrations' \in Seq(Migration)
        /\ dataLock' \in [Instances -> DataClients \union {Nobody}]
        /\ dataReq' \in [DataClients -> DataReq] /\ Locks'
        /\ markers' \in SUBSET Nat /\ asks' \in BOOLEAN /\ agreed' \in SUBSET Nat /\ unasked' \in SUBSET Nat
        /\ readOnly' \in [Instances -> CopyFile] /\ scheduled' \in SUBSET Instances
        /\ copying' \in [Instances -> [CopyRuns -> CopyAt]] /\ copyTmp' \in [Instances -> CopyFile]
        /\ uncopied' \in SUBSET Instances /\ dataLeft' \in Nat
BY DEF AppDataTypeOK, Locks

LEMMA NoRequestType == NoRequest \in DataReq /\ NoRequest.at = "idle" /\ NoRequest.inst = Nobody
                       /\ NoRequest.todo = {} /\ NoRequest.op = "none" /\ NoRequest.mig = 0
                       /\ NoRequest.agent = FALSE /\ NoRequest.drop = {}
BY DEF NoRequest, DataReq, DataOps, DataSteps

\* A row of the table has its fields.
LEMMA RowType ==
    ASSUME AppDataTypeOK, NEW m \in DOMAIN migrations
    PROVE  migrations[m] \in Migration /\ m \in Nat
<1>1. migrations \in Seq(Migration)
  BY DataTypes
<1> QED  BY <1>1, LenProperties, ElementOfSeq

\* A request that does not hold its lock before or after: nobody's lock changes hands.
LEMMA Outside ==
    ASSUME AppDataTypeOK, NEW c \in DataClients, NEW r \in DataReq, UNCHANGED dataLock,
           dataReq' = [dataReq EXCEPT ![c] = r], dataReq[c].at \notin Locked, r.at \notin Locked
    PROVE  /\ dataReq' \in [DataClients -> DataReq] /\ Locks' /\ dataReq'[c] = r
           /\ \A d \in DataClients \ {c} : dataReq'[d] = dataReq[d]
<1>1. dataReq \in [DataClients -> DataReq] /\ Locks
  BY DataTypes
<1> QED  BY <1>1 DEF Locks

\* ... that holds it before and after.
LEMMA Within ==
    ASSUME AppDataTypeOK, NEW c \in DataClients, NEW r \in DataReq, UNCHANGED dataLock,
           dataReq' = [dataReq EXCEPT ![c] = r], dataReq[c].at \in Locked, r.at \in Locked,
           r.inst = dataReq[c].inst
    PROVE  /\ dataReq' \in [DataClients -> DataReq] /\ Locks' /\ dataReq'[c] = r
           /\ \A d \in DataClients \ {c} : dataReq'[d] = dataReq[d]
<1>1. dataReq \in [DataClients -> DataReq] /\ Locks
  BY DataTypes
<1> QED  BY <1>1 DEF Locks

LEMMA EndedType ==
    ASSUME AppDataTypeOK, NEW c \in DataClients
    PROVE  Ended(c) \in DataReq /\ Ended(c).at \in {"idle", "next"}
           /\ (Ended(c).at = "next" => dataReq[c].op = "build" /\ Ended(c) = [dataReq[c] EXCEPT !.at = "next"])
           /\ (Ended(c).at = "idle" => Ended(c) = NoRequest)
<1>1. dataReq[c] \in DataReq
  BY DataTypes
<1>2. [dataReq[c] EXCEPT !.at = "next"] \in DataReq
  BY <1>1 DEF DataReq, DataSteps
<1> QED  BY <1>1, <1>2, NoRequestType DEF Ended, DataReq

\* ... that lets it go.
LEMMA Leaving ==
    ASSUME AppDataTypeOK, NEW c \in DataClients, Leave(c), dataReq[c].at \in Locked,
           dataReq[c].inst \in Instances
    PROVE  /\ dataReq' \in [DataClients -> DataReq] /\ Locks' /\ dataReq'[c] = Ended(c)
           /\ dataLock' \in [Instances -> DataClients \union {Nobody}]
           /\ \A d \in DataClients \ {c} : dataReq'[d] = dataReq[d]
<1>1. /\ dataReq \in [DataClients -> DataReq] /\ Locks
      /\ dataLock \in [Instances -> DataClients \union {Nobody}]
  BY DataTypes
<1>2. Ended(c) \in DataReq /\ Ended(c).at \notin Locked
  BY EndedType DEF Locked
<1>3. dataReq' = [dataReq EXCEPT ![c] = Ended(c)] /\ dataLock' = [dataLock EXCEPT ![dataReq[c].inst] = Nobody]
  BY DEF Leave, On
<1>4. dataLock[dataReq[c].inst] = c
  BY <1>1 DEF Locks
<1>5. Locks'
  <2>1. SUFFICES ASSUME NEW i \in Instances, NEW d \in DataClients
                 PROVE  dataLock'[i] = d <=> dataReq'[d].at \in Locked /\ dataReq'[d].inst = i
    BY DEF Locks
  <2>2. CASE d = c
    BY <1>1, <1>2, <1>3, <1>4, <2>2, AppDataAssumption DEF Locks
  <2>3. CASE d # c
    BY <1>1, <1>3, <1>4, <2>3, AppDataAssumption DEF Locks
  <2> QED  BY <2>2, <2>3
<1> QED  BY <1>1, <1>2, <1>3, <1>5

\* ... that takes it.
LEMMA Locking ==
    ASSUME AppDataTypeOK, NEW c \in DataClients, NEW r \in DataReq, LockFree(r.inst),
           r.inst \in Instances, dataReq[c].at \notin Locked, r.at \in Locked,
           dataReq' = [dataReq EXCEPT ![c] = r], dataLock' = [dataLock EXCEPT ![r.inst] = c]
    PROVE  /\ dataReq' \in [DataClients -> DataReq] /\ Locks' /\ dataReq'[c] = r
           /\ dataLock' \in [Instances -> DataClients \union {Nobody}]
           /\ \A d \in DataClients \ {c} : dataReq'[d] = dataReq[d]
<1>1. /\ dataReq \in [DataClients -> DataReq] /\ Locks
      /\ dataLock \in [Instances -> DataClients \union {Nobody}]
  BY DataTypes
<1>2. dataLock[r.inst] = Nobody
  BY DEF LockFree
<1>3. Locks'
  <2>1. SUFFICES ASSUME NEW i \in Instances, NEW d \in DataClients
                 PROVE  dataLock'[i] = d <=> dataReq'[d].at \in Locked /\ dataReq'[d].inst = i
    BY DEF Locks
  <2>2. CASE d = c
    BY <1>1, <1>2, <2>2 DEF Locks
  <2>3. CASE d # c
    BY <1>1, <1>2, <2>3, AppDataAssumption DEF Locks
  <2> QED  BY <2>2, <2>3
<1> QED  BY <1>1, <1>3

-----------------------------------------------------------------------------
(* What a client's step leaves to the others.                              *)

\* Rows keep what they say but for their status; a database, or a row of it, is changed only
\* by the request that holds its lock.
RowsKept(c) ==
    \A m \in DOMAIN migrations :
         /\ m \in DOMAIN migrations' /\ migrations'[m].inst = migrations[m].inst
         /\ migrations'[m].add = migrations[m].add /\ migrations'[m].drop = migrations[m].drop
         /\ migrations'[m] = migrations[m] \/ dataLock[migrations[m].inst] = c

Frame(c) ==
    /\ \A d \in DataClients \ {c} : dataReq'[d] = dataReq[d]
    /\ \A i \in Instances : installed[i] # "never" => installed'[i] # "never"
    /\ \A i \in Instances : database'[i] = database[i] \/ dataLock[i] = c
    /\ RowsKept(c)
    /\ agreed \subseteq agreed' /\ unasked \subseteq unasked'

LEMMA OthersKeep ==
    ASSUME RequestInv, NEW c \in DataClients, Frame(c), NEW d \in DataClients, d # c
    PROVE  RequestShape(dataReq[d])' /\ ApplyShape(dataReq[d])'
<1> DEFINE r == dataReq[d]
<1>1. r \in DataReq /\ Locks
  BY DataTypes DEF RequestInv
<1>2. RequestShape(r) /\ ApplyShape(r)
  BY DEF RequestInv
<1>3. dataReq'[d] = r
  BY DEF Frame
<1>4. r.todo \subseteq Instances /\ (r.at \in Locked => r.at \notin {"idle", "next"})
  BY <1>1 DEF DataReq, Locked
<1>5. r.at \in Locked => r.inst \in Instances /\ dataLock[r.inst] # c
  <2>1. r.at \in Locked => r.inst \in Instances
    BY <1>2, <1>4 DEF RequestShape
  <2>2. r.at \in Locked /\ r.inst \in Instances => dataLock[r.inst] = d
    BY <1>1 DEF Locks
  <2> QED  BY <2>1, <2>2
<1>6. r.op \in Decides /\ r.at \in Locked => migrations'[r.mig] = migrations[r.mig]
  BY <1>2, <1>5 DEF RequestShape, Frame, RowsKept
<1>7. r.at \in Locked => database'[r.inst] = database[r.inst]
  BY <1>5 DEF Frame
<1>8. RequestShape(dataReq[d])'
  <2>1. r.op \in Decides => r.mig \in DOMAIN migrations' /\ migrations'[r.mig].inst = r.inst
    BY <1>2 DEF RequestShape, Frame, RowsKept
  <2>2. r.at = "replan" => r.op = "approve" /\ migrations'[r.mig].status = "pending"
    BY <1>2, <1>6 DEF RequestShape, Locked, Decides
  <2>3. /\ r.inst \in Instances => installed'[r.inst] # "never"
        /\ \A i \in r.todo : installed'[i] # "never"
    BY <1>1, <1>2 DEF RequestShape, Frame, RowsKept, DataReq
  <2>4. r.agent => r.mig \in (agreed \union unasked)'
    BY <1>2 DEF RequestShape, Frame, RowsKept
  <2> HIDE DEF r
  <2> QED  BY <1>2, <1>3, <2>1, <2>2, <2>3, <2>4 DEF RequestShape
<1>9. ApplyShape(dataReq[d])'
  <2>1. SUFFICES ASSUME r.at = "apply", r.drop # {}
                 PROVE  AsApproved(dataReq[d])'
    BY <1>3 DEF ApplyShape
  <2>2. AsApproved(r)
    BY <1>2, <2>1 DEF ApplyShape
  <2>3. migrations'[r.mig] = migrations[r.mig] /\ database'[r.inst] = database[r.inst]
    BY <1>6, <1>7, <2>1, <2>2 DEF AsApproved, Decides, Locked
  <2> HIDE DEF r
  <2> QED  BY <1>3, <2>2, <2>3 DEF AsApproved
<1> QED  BY <1>8, <1>9

\* So the invariant is kept if the client's own request keeps its shape.
LEMMA ClientKeeps ==
    ASSUME RequestInv, NEW c \in DataClients, Frame(c), AppDataTypeOK', RowsShape',
           RequestShape(dataReq[c])', ApplyShape(dataReq[c])', \A i \in Instances : InstanceShape(i)'
    PROVE  RequestInv'
BY OthersKeep DEF RequestInv

\* A step that changes nothing but its client's request, outside the lock or inside it.
LEMMA OnlyRequest ==
    ASSUME RequestInv, NEW c \in DataClients, NEW r \in DataReq, dataReq' = [dataReq EXCEPT ![c] = r],
           \/ dataReq[c].at \notin Locked /\ r.at \notin Locked
           \/ dataReq[c].at \in Locked /\ r.at \in Locked /\ r.inst = dataReq[c].inst,
           RequestShape(r), ApplyShape(r), dataLeft' \in Nat,
           pinned' \in [Instances -> SUBSET Columns], markers' \subseteq markers,
           UNCHANGED <<installed, tracked, database, migrations, dataLock, consentVars, copyVars>>
    PROVE  RequestInv'
<1> USE DEF RequestInv, copyVars
<1>1. /\ dataReq' \in [DataClients -> DataReq] /\ Locks' /\ dataReq'[c] = r
      /\ \A d \in DataClients \ {c} : dataReq'[d] = dataReq[d]
  BY Outside, Within
<1>2. AppDataTypeOK'
  BY <1>1, DataTypes, DataTypesNext
<1>3. Frame(c)
  BY <1>1 DEF Frame, RowsKept
<1>4. RequestShape(dataReq[c])' /\ ApplyShape(dataReq[c])'
  <2>1. dataReq[c]' = r /\ UNCHANGED <<installed, database, migrations, consentVars>>
    BY <1>1
  <2>2. RequestShape(dataReq[c])'
    BY <2>1 DEF RequestShape
  <2>3. ApplyShape(dataReq[c])'
    BY <2>1 DEF ApplyShape, AsApproved
  <2> QED  BY <2>2, <2>3
<1>5. RowsShape' /\ \A i \in Instances : InstanceShape(i)'
  BY DEF RowsShape, InstanceShape
<1> QED  BY <1>2, <1>3, <1>4, <1>5, ClientKeeps

\* A request that ends, whatever came of it: its rows may have changed or one been added, a copy
\* be scheduled or not, its instance be gone.
LEMMA LeaveKeeps ==
    ASSUME RequestInv, NEW c \in DataClients, Leave(c), dataReq[c].at \in Locked,
           UNCHANGED <<tracked, pinned, database, markers, consentVars, readOnly, copying, copyTmp, dataLeft>>,
           scheduled' \subseteq scheduled \union {On(c)}, uncopied' \subseteq uncopied \union {On(c)},
           UNCHANGED installed \/ installed' = [installed EXCEPT ![On(c)] = "gone"],
           migrations' \in Seq(Migration), RowsKept(c),
           \A m \in DOMAIN migrations' \ DOMAIN migrations : migrations'[m].inst = On(c)
    PROVE  RequestInv'
<1> USE DEF RequestInv
<1>1. /\ dataReq[c].inst \in Instances /\ installed[dataReq[c].inst] # "never" /\ RequestShape(dataReq[c])
      /\ dataReq[c] \in DataReq
  BY DataTypes DEF RequestShape, Locked
<1>2. On(c) = dataReq[c].inst
  BY DEF On
<1>3. /\ dataReq' \in [DataClients -> DataReq] /\ Locks' /\ dataReq'[c] = Ended(c)
      /\ dataLock' \in [Instances -> DataClients \union {Nobody}]
      /\ \A d \in DataClients \ {c} : dataReq'[d] = dataReq[d]
  BY <1>1, Leaving
<1>4. /\ installed \in [Instances -> {"never", "live", "gone"}]
      /\ scheduled \subseteq Instances /\ uncopied \subseteq Instances
  BY DataTypes
<1>5. /\ installed' \in [Instances -> {"never", "live", "gone"}]
      /\ \A i \in Instances : installed'[i] = "never" <=> installed[i] = "never"
  BY <1>1, <1>2, <1>4
<1>6. AppDataTypeOK'
  BY <1>1, <1>2, <1>3, <1>4, <1>5, DataTypes, DataTypesNext
<1>7. Frame(c)
  BY <1>3, <1>5 DEF Frame
<1>8. Ended(c) \in DataReq /\ Ended(c).at \in {"idle", "next"}
      /\ (Ended(c).at = "next" => dataReq[c].op = "build" /\ Ended(c) = [dataReq[c] EXCEPT !.at = "next"])
      /\ (Ended(c).at = "idle" => Ended(c) = NoRequest)
  BY EndedType
<1>9. RequestShape(dataReq[c])'
  <2>1. CASE Ended(c) = NoRequest
    <3>1. dataReq[c]' = NoRequest
      BY <1>3, <2>1
    <3> QED  BY <3>1, NoRequestType, AppDataAssumption DEF RequestShape, Decides
  <2>2. CASE dataReq[c].op = "build" /\ Ended(c) = [dataReq[c] EXCEPT !.at = "next"]
    <3>1. /\ dataReq'[c].at = "next" /\ dataReq'[c].op = "build" /\ dataReq'[c].inst = dataReq[c].inst
          /\ dataReq'[c].todo = dataReq[c].todo /\ dataReq'[c].mig = dataReq[c].mig
          /\ dataReq'[c].agent = dataReq[c].agent
      BY <1>1, <1>3, <2>2 DEF DataReq
    <3>2. dataReq[c].todo \subseteq Instances /\ dataReq[c].op \notin Decides
      BY <1>1, <2>2 DEF DataReq, Decides
    <3> QED  BY <1>1, <1>5, <3>1, <3>2 DEF RequestShape, Decides
  <2> QED  BY <1>8, <2>1, <2>2
<1>10. ApplyShape(dataReq[c])'
  BY <1>3, <1>8 DEF ApplyShape
<1>11. RowsShape'
  <2>1. \A m \in DOMAIN migrations' : installed[migrations'[m].inst] # "never" /\ migrations'[m].inst \in Instances
    <3>1. SUFFICES ASSUME NEW m \in DOMAIN migrations'
                   PROVE  installed[migrations'[m].inst] # "never" /\ migrations'[m].inst \in Instances
      OBVIOUS
    <3>2. CASE m \in DOMAIN migrations
      BY <3>2, RowType DEF RowsShape, RowsKept, Migration
    <3>3. CASE m \notin DOMAIN migrations
      BY <1>1, <1>2, <3>3
    <3> QED  BY <3>2, <3>3
  <2> QED  BY <1>5, <2>1 DEF RowsShape
<1>12. \A i \in Instances : InstanceShape(i)'
  BY <1>1, <1>2, <1>5 DEF InstanceShape
<1> QED  BY <1>6, <1>7, <1>9, <1>10, <1>11, <1>12, ClientKeeps

\* ... with nothing changed but that it is over.
LEMMA LeaveOnly ==
    ASSUME RequestInv, NEW c \in DataClients, Leave(c), dataReq[c].at \in Locked,
           UNCHANGED <<installed, tracked, pinned, database, migrations, markers, consentVars, readOnly, copying,
                       copyTmp, dataLeft>>,
           scheduled' \subseteq scheduled \union {On(c)}, uncopied' \subseteq uncopied \union {On(c)}
    PROVE  RequestInv'
<1>1. migrations' \in Seq(Migration) /\ RowsKept(c)
  BY DataTypes DEF RequestInv, RowsKept
<1> QED  BY <1>1, LeaveKeeps

\* The status of a row whose instance's lock is held changes.
LEMMA StatusChange ==
    ASSUME RequestInv, NEW c \in DataClients, NEW m \in DOMAIN migrations, NEW s \in Statuses,
           migrations' = [migrations EXCEPT ![m].status = s], dataLock[migrations[m].inst] = c
    PROVE  /\ migrations' \in Seq(Migration) /\ RowsKept(c) /\ DOMAIN migrations' = DOMAIN migrations
           /\ \A n \in DOMAIN migrations : n # m => migrations'[n] = migrations[n]
<1>1. migrations \in Seq(Migration) /\ migrations[m] \in Migration
  BY RowType, DataTypes DEF RequestInv
<1>2. [migrations[m] EXCEPT !.status = s] \in Migration
  BY <1>1 DEF Migration
<1>3. /\ Len(migrations) \in Nat /\ DOMAIN migrations = 1 .. Len(migrations)
      /\ migrations \in [1 .. Len(migrations) -> Migration]
  BY <1>1, LenProperties
<1>4. migrations' = [migrations EXCEPT ![m] = [migrations[m] EXCEPT !.status = s]]
  OBVIOUS
<1>5. migrations' \in Seq(Migration) /\ DOMAIN migrations' = DOMAIN migrations
  BY <1>1, <1>2, <1>3, <1>4, ExceptSeq
<1>6. \A n \in DOMAIN migrations : migrations'[n] = IF n = m THEN [migrations[m] EXCEPT !.status = s] ELSE migrations[n]
  BY <1>3, <1>4
<1> QED  BY <1>1, <1>5, <1>6 DEF RowsKept, Migration

\* A row is added for the request's instance.
LEMMA RowAdded ==
    ASSUME RequestInv, NEW c \in DataClients, dataReq[c].at \in Locked, NEW status \in Statuses,
           NEW rows \in Seq(Migration), Len(rows) = Len(migrations),
           \A m \in DOMAIN migrations :
              /\ rows[m].inst = migrations[m].inst
              /\ rows[m].add = migrations[m].add /\ rows[m].drop = migrations[m].drop
              /\ rows[m] = migrations[m] \/ dataLock[migrations[m].inst] = c,
           migrations' = Append(rows, NewRow(c, status))
    PROVE  /\ migrations' \in Seq(Migration) /\ RowsKept(c)
           /\ \A m \in DOMAIN migrations' \ DOMAIN migrations : migrations'[m].inst = On(c)
<1>1. dataReq[c] \in DataReq /\ dataReq[c].inst \in Instances /\ migrations \in Seq(Migration)
  BY DataTypes DEF RequestInv, RequestShape, Locked
<1> DEFINE new == NewRow(c, status)
<1>2. new \in Migration /\ new.inst = On(c)
  BY <1>1 DEF NewRow, On, Migration, DataReq
<1> HIDE DEF new
<1>3. /\ Len(migrations) \in Nat /\ DOMAIN migrations = 1 .. Len(migrations)
      /\ migrations' \in Seq(Migration) /\ Len(migrations') = Len(migrations) + 1
      /\ DOMAIN migrations' = 1 .. Len(migrations) + 1
      /\ migrations'[Len(migrations) + 1] = new
      /\ \A m \in 1 .. Len(migrations) : migrations'[m] = rows[m]
  <2>1. migrations' = Append(rows, new)
    BY DEF new
  <2>2. Len(migrations) \in Nat /\ DOMAIN migrations = 1 .. Len(migrations)
    BY <1>1, LenProperties
  <2>3. /\ migrations' \in Seq(Migration) /\ Len(migrations') = Len(rows) + 1
        /\ \A m \in 1 .. Len(rows) : migrations'[m] = rows[m]
        /\ migrations'[Len(rows) + 1] = new
    BY <1>2, <2>1, AppendProperties
  <2>4. DOMAIN migrations' = 1 .. Len(migrations')
    BY <2>3, LenProperties
  <2> QED  BY <2>2, <2>3, <2>4
<1>4. \A m \in DOMAIN migrations' \ DOMAIN migrations : m = Len(migrations) + 1
  BY <1>3
<1> QED  BY <1>2, <1>3, <1>4 DEF RowsKept

-----------------------------------------------------------------------------
(* Requests begin.                                                         *)

\* Whoever is idle may ask for what exists.
LEMMA Begins ==
    ASSUME RequestInv, NEW c \in DataClients, NEW r \in DataReq, BeginRequest(c, r),
           r.at \notin Locked, RequestShape(r), markers' \subseteq markers,
           UNCHANGED <<installed, tracked, pinned, database, migrations, dataLock, consentVars, copyVars>>
    PROVE  RequestInv'
<1>1. dataReq[c].at = "idle" /\ dataReq' = [dataReq EXCEPT ![c] = r] /\ dataLeft' = dataLeft - 1 /\ dataLeft > 0
  BY DEF BeginRequest, DataAt
<1>2. dataLeft' \in Nat /\ pinned' \in [Instances -> SUBSET Columns]
  BY <1>1, DataTypes DEF RequestInv
<1>3. ApplyShape(r) /\ dataReq[c].at \notin Locked
  BY <1>1 DEF ApplyShape, Locked
<1> QED  BY <1>1, <1>2, <1>3, OnlyRequest

\* A request on an installed instance, for a schema and perhaps others to come.
LEMMA PlainRequest ==
    ASSUME RequestInv, NEW i \in Instances, installed[i] # "never", NEW op \in DataOps \ Decides,
           NEW at \in {"pin", "target", "lock"}, NEW s \in SUBSET Columns
    PROVE  LET r == [NoRequest EXCEPT !.op = op, !.at = at, !.inst = i]
               t == [NoRequest EXCEPT !.op = op, !.at = at, !.inst = i, !.schema = s]
           IN  r \in DataReq /\ RequestShape(r) /\ r.at \notin Locked
               /\ t \in DataReq /\ RequestShape(t) /\ t.at \notin Locked
BY DEF NoRequest, DataReq, DataSteps, RequestShape, Decides, Locked

LEMMA ApprovalShape ==
    ASSUME RequestInv, NEW m \in DOMAIN migrations
    PROVE  \A r \in {Approval(m), [Approval(m) EXCEPT !.op = "reject"]} :
              r \in DataReq /\ RequestShape(r) /\ r.at \notin Locked
<1>1. migrations[m] \in Migration /\ m \in Nat /\ installed[migrations[m].inst] # "never"
  BY RowType DEF RequestInv, RowsShape
<1>2. Approval(m) \in DataReq /\ RequestShape(Approval(m)) /\ Approval(m).at \notin Locked
  BY <1>1 DEF Approval, NoRequest, DataReq, DataSteps, DataOps, RequestShape, Decides, Locked, Migration
<1> DEFINE r == [Approval(m) EXCEPT !.op = "reject"]
<1>3. r \in DataReq /\ RequestShape(r) /\ r.at \notin Locked
  BY <1>1 DEF Approval, NoRequest, DataReq, DataSteps, DataOps, RequestShape, Decides, Locked, Migration
<1> HIDE DEF r
<1>4. \A q \in {Approval(m), r} : q \in DataReq /\ RequestShape(q) /\ q.at \notin Locked
  BY <1>2, <1>3
<1> QED  BY <1>4 DEF r

LEMMA AgentsApprovalShape ==
    ASSUME RequestInv, NEW m \in DOMAIN migrations, m \in agreed \union unasked
    PROVE  LET r == [Approval(m) EXCEPT !.agent = TRUE]
           IN  r \in DataReq /\ RequestShape(r) /\ r.at \notin Locked
<1>1. migrations[m] \in Migration /\ m \in Nat /\ installed[migrations[m].inst] # "never"
  BY RowType DEF RequestInv, RowsShape
<1> QED  BY <1>1 DEF Approval, NoRequest, DataReq, DataSteps, DataOps, RequestShape, Decides, Locked, Migration

LEMMA InstallInv ==
    ASSUME RequestInv, NEW c \in DataClients, NEW i \in Instances, Install(c, i)
    PROVE  RequestInv'
<1> USE DEF RequestInv
<1>1. /\ installed[i] = "never" /\ installed' = [installed EXCEPT ![i] = "live"] /\ dataReq[c].at = "idle"
      /\ UNCHANGED <<tracked, database, migrations, dataLock, markers, consentVars, copyVars>>
  BY DEF Install, BeginRequest, DataAt
<1>2. /\ installed \in [Instances -> {"never", "live", "gone"}] /\ pinned \in [Instances -> SUBSET Columns]
      /\ dataReq \in [DataClients -> DataReq] /\ dataLeft \in Nat
  BY DataTypes
<1>3. /\ installed' \in [Instances -> {"never", "live", "gone"}]
      /\ \A j \in Instances : installed'[j] = "never" => installed[j] = "never"
      /\ \A j \in Instances : installed[j] # "never" => installed'[j] = installed[j]
      /\ installed'[i] = "live"
  BY <1>1, <1>2
<1> DEFINE r == IF tracked[i] THEN dataReq[c]
                ELSE [NoRequest EXCEPT !.op = "install", !.at = "target", !.inst = i]
<1>4. r \in DataReq /\ r.at \notin Locked /\ dataReq' = [dataReq EXCEPT ![c] = r] /\ dataLeft' \in Nat
  <2>1. [NoRequest EXCEPT !.op = "install", !.at = "target", !.inst = i] \in DataReq
    BY DEF NoRequest, DataReq, DataOps, DataSteps
  <2> QED  BY <1>1, <1>2, <2>1 DEF Install, BeginRequest, Locked, NoRequest
<1>5. pinned' \in [Instances -> SUBSET Columns]
  BY <1>2, AppDataAssumption DEF Install
<1>6. RequestShape(r)' /\ r.at # "apply"
  <2>1. CASE tracked[i]
    <3>1. RequestShape(dataReq[c]) /\ dataReq[c] \in DataReq /\ r = dataReq[c]
      BY <1>2, <2>1
    <3>2. dataReq'[c] = dataReq[c]
      BY <1>2, <1>4, <3>1
    <3> HIDE DEF r
    <3>3. r' = r /\ r.todo \subseteq Instances
      BY <3>1, <3>2, <1>1, <1>4 DEF DataReq, r
    <3> QED  BY <1>1, <1>3, <3>1, <3>3 DEF RequestShape, copyVars
  <2>2. CASE ~tracked[i]
    BY <1>1, <1>3, <2>2 DEF RequestShape, NoRequest, Decides
  <2> QED  BY <2>1, <2>2
<1>7. /\ dataReq' \in [DataClients -> DataReq] /\ Locks' /\ dataReq'[c] = r
      /\ \A d \in DataClients \ {c} : dataReq'[d] = dataReq[d]
  BY <1>1, <1>4, Outside DEF Locked
<1> HIDE DEF r
<1>8. AppDataTypeOK'
  BY <1>1, <1>3, <1>4, <1>5, <1>7, DataTypes, DataTypesNext DEF copyVars
<1>9. Frame(c)
  BY <1>1, <1>3, <1>7 DEF Frame, RowsKept
<1>10. RequestShape(dataReq[c])' /\ ApplyShape(dataReq[c])'
  <2>1. dataReq'[c] = r /\ r.at # "apply"
    BY <1>6, <1>7
  <2>2. r' = r
    BY <1>1, <1>7 DEF r
  <2> QED  BY <1>6, <2>1, <2>2 DEF RequestShape, ApplyShape
<1>11. RowsShape'
  <2>1. \A m \in DOMAIN migrations : migrations[m].inst \in Instances
    BY RowType DEF Migration
  <2> QED  BY <1>1, <1>3, <2>1 DEF RowsShape
<1>12. \A j \in Instances : InstanceShape(j)'
  BY <1>1, <1>3 DEF InstanceShape, copyVars
<1> QED  BY <1>8, <1>9, <1>10, <1>11, <1>12, ClientKeeps

LEMMA DataAskInv ==
    ASSUME RequestInv, NEW c \in DataClients, DataAsk(c)
    PROVE  RequestInv'
<1>0. installed \in [Instances -> {"never", "live", "gone"}] /\ Schemas \subseteq SUBSET Columns
  BY DataTypes, AppDataAssumption DEF RequestInv
<1>1. ASSUME NEW i \in Instances, Write(c, i) \/ Migrate(c, i) \/ Uninstall(c, i)
      PROVE  RequestInv'
  <2>1. PICK op \in {"write", "migrate", "uninstall"}, at \in {"target", "lock"} :
           BeginRequest(c, [NoRequest EXCEPT !.op = op, !.at = at, !.inst = i])
    BY <1>1 DEF Write, Migrate, Uninstall
  <2>2. op \in DataOps \ Decides /\ at \in {"pin", "target", "lock"} /\ installed[i] # "never" /\ {} \in SUBSET Columns
    BY <1>1 DEF Write, Migrate, Uninstall, Live, DataOps, Decides
  <2> DEFINE r == [NoRequest EXCEPT !.op = op, !.at = at, !.inst = i]
  <2>3. r \in DataReq /\ RequestShape(r) /\ r.at \notin Locked
    BY <2>2, PlainRequest
  <2>4. BeginRequest(c, r)
    BY <2>1
  <2>5. UNCHANGED <<installed, tracked, pinned, database, migrations, dataLock, markers, consentVars, copyVars>>
    BY <1>1 DEF Write, Migrate, Uninstall
  <2> HIDE DEF r
  <2> QED  BY <2>3, <2>4, <2>5, Begins
<1>2. ASSUME NEW i \in Instances, NEW s \in Schemas, Update(c, i, s)
      PROVE  RequestInv'
  <2> DEFINE r == [NoRequest EXCEPT !.op = "update", !.at = "pin", !.inst = i, !.schema = s]
  <2>1. "update" \in DataOps \ Decides /\ installed[i] # "never" /\ s \in SUBSET Columns
    BY <1>0, <1>2 DEF Update, Live, DataOps, Decides
  <2>2. r \in DataReq /\ RequestShape(r) /\ r.at \notin Locked
    BY <2>1, PlainRequest
  <2>3. /\ BeginRequest(c, r)
        /\ UNCHANGED <<installed, tracked, pinned, database, migrations, dataLock, markers, consentVars, copyVars>>
    BY <1>2 DEF Update
  <2> HIDE DEF r
  <2> QED  BY <2>2, <2>3, Begins
<1>3. ASSUME NEW s \in Schemas, BuildApp(c, s)
      PROVE  RequestInv'
  <2> DEFINE r == [NoRequest EXCEPT !.op = "build", !.at = "next", !.schema = s,
                                    !.todo = {i \in Instances : tracked[i] /\ Live(i)}]
  <2>1. r \in DataReq /\ r.at \notin Locked /\ s \in SUBSET Columns
    BY <1>0 DEF NoRequest, DataReq, DataOps, DataSteps, Locked
  <2>2. RequestShape(r)
    BY AppDataAssumption DEF RequestShape, NoRequest, Decides, Live
  <2>3. /\ BeginRequest(c, r)
        /\ UNCHANGED <<installed, tracked, pinned, database, migrations, dataLock, markers, consentVars, copyVars>>
    BY <1>3 DEF BuildApp
  <2> HIDE DEF r
  <2> QED  BY <2>1, <2>2, <2>3, Begins
<1>4. ASSUME NEW m \in DOMAIN migrations, Approve(c, m) \/ Reject(c, m)
      PROVE  RequestInv'
  <2>1. PICK r \in {Approval(m), [Approval(m) EXCEPT !.op = "reject"]} : BeginRequest(c, r)
    BY <1>4 DEF Approve, Reject
  <2>2. r \in DataReq /\ RequestShape(r) /\ r.at \notin Locked
    BY ApprovalShape
  <2>3. UNCHANGED <<installed, tracked, pinned, database, migrations, dataLock, markers, consentVars, copyVars>>
    BY <1>4 DEF Approve, Reject
  <2> QED  BY <2>1, <2>2, <2>3, Begins
<1>5. ASSUME NEW k \in markers, NEW m \in DOMAIN migrations, ApproveAsAgent(c, k, m)
      PROVE  RequestInv'
  <2>1. /\ markers' = markers \ {k} /\ dataReq[c].at = "idle"
        /\ UNCHANGED <<installed, tracked, pinned, database, migrations, dataLock, consentVars, copyVars>>
    BY <1>5 DEF ApproveAsAgent, DataAt
  <2>2. CASE k = m /\ BeginRequest(c, [Approval(m) EXCEPT !.agent = TRUE])
    <3> DEFINE r == [Approval(m) EXCEPT !.agent = TRUE]
    <3>1. m \in agreed \union unasked
      BY <2>2 DEF RequestInv, RowsShape
    <3>2. r \in DataReq /\ RequestShape(r) /\ r.at \notin Locked
      BY <3>1, AgentsApprovalShape
    <3>3. BeginRequest(c, r)
      BY <2>2
    <3> HIDE DEF r
    <3> QED  BY <2>1, <3>2, <3>3, Begins
  <2>3. CASE UNCHANGED <<dataReq, dataLeft>>
    <3> DEFINE r == dataReq[c]
    <3>1. r \in DataReq /\ RequestShape(r) /\ ApplyShape(r) /\ dataReq' = [dataReq EXCEPT ![c] = r]
          /\ dataLeft' \in Nat /\ pinned' \in [Instances -> SUBSET Columns] /\ r.at \notin Locked
      BY <2>1, <2>3, DataTypes DEF RequestInv, Locked
    <3> HIDE DEF r
    <3>2. dataReq[c].at \notin Locked
      BY <2>1 DEF Locked
    <3> QED  BY <2>1, <3>1, <3>2, OnlyRequest
  <2> QED  BY <1>5, <2>2, <2>3 DEF ApproveAsAgent, Spends
<1> QED  BY <1>1, <1>2, <1>3, <1>4, <1>5, InstallInv DEF DataAsk

-----------------------------------------------------------------------------
(* Their steps.                                                            *)

LEMMA TakeLockInv ==
    ASSUME RequestInv, NEW c \in DataClients, TakeLock(c)
    PROVE  RequestInv'
<1> USE DEF RequestInv
<1> DEFINE at == CASE dataReq[c].op = "write" -> "statement"
                   [] dataReq[c].op \in {"approve", "reject"} -> "row"
                   [] dataReq[c].op = "uninstall" -> "remove"
                   [] OTHER -> "plan"
           r == [dataReq[c] EXCEPT !.at = at]
<1>1. /\ dataReq[c].at = "lock" /\ LockFree(dataReq[c].inst)
      /\ dataLock' = [dataLock EXCEPT ![dataReq[c].inst] = c] /\ dataReq' = [dataReq EXCEPT ![c].at = at]
      /\ UNCHANGED <<installed, tracked, pinned, database, migrations, markers, consentVars, copyVars, dataLeft>>
  BY DEF TakeLock, DataAt, DataGoto, On
<1>2. /\ at \in {"statement", "row", "remove", "plan"}
      /\ at = "row" => dataReq[c].op \in Decides
      /\ at = "plan" => dataReq[c].op \notin Decides
  BY DEF Decides
<1> HIDE DEF at
<1>3. dataReq[c] \in DataReq /\ RequestShape(dataReq[c]) /\ dataReq[c].inst \in Instances
  BY <1>1, DataTypes DEF RequestShape
<1>4. r \in DataReq /\ r.at = at /\ r.at \in Locked /\ r.inst = dataReq[c].inst /\ dataReq' = [dataReq EXCEPT ![c] = r]
  BY <1>1, <1>2, <1>3 DEF DataReq, DataSteps, Locked
<1>5. RequestShape(r)
  BY <1>2, <1>3 DEF RequestShape, DataReq
<1> HIDE DEF r
<1>6. /\ dataReq' \in [DataClients -> DataReq] /\ Locks' /\ dataReq'[c] = r
      /\ dataLock' \in [Instances -> DataClients \union {Nobody}]
      /\ \A d \in DataClients \ {c} : dataReq'[d] = dataReq[d]
  BY <1>1, <1>3, <1>4, Locking DEF Locked
<1>7. AppDataTypeOK'
  BY <1>1, <1>6, DataTypes, DataTypesNext DEF copyVars
<1>8. Frame(c)
  BY <1>1, <1>6 DEF Frame, RowsKept
<1>9. RequestShape(dataReq[c])'
  BY <1>1, <1>5, <1>6 DEF RequestShape
<1>10. ApplyShape(dataReq[c])'
  BY <1>2, <1>4, <1>6 DEF ApplyShape
<1>11. RowsShape' /\ \A i \in Instances : InstanceShape(i)'
  BY <1>1 DEF RowsShape, InstanceShape, copyVars
<1> QED  BY <1>7, <1>8, <1>9, <1>10, <1>11, ClientKeeps

\* A request with its lock, and what it says.
LEMMA HoldsItsLock ==
    ASSUME RequestInv, NEW c \in DataClients, dataReq[c].at \in Locked
    PROVE  /\ dataReq[c] \in DataReq /\ RequestShape(dataReq[c]) /\ ApplyShape(dataReq[c])
           /\ dataReq[c].inst \in Instances /\ dataLock[dataReq[c].inst] = c /\ On(c) = dataReq[c].inst
           /\ database[dataReq[c].inst] \in Database
<1>1. dataReq[c] \in DataReq /\ RequestShape(dataReq[c]) /\ ApplyShape(dataReq[c]) /\ Locks
  BY DataTypes DEF RequestInv
<1>2. dataReq[c].inst \in Instances
  BY <1>1 DEF RequestShape, Locked
<1>3. dataLock[dataReq[c].inst] = c
  BY <1>1, <1>2 DEF Locks
<1> QED  BY <1>1, <1>2, <1>3, DataTypes DEF RequestInv, On

\* The steps that change a request only, with its lock ...
LEMMA WithinInv ==
    ASSUME RequestInv, NEW c \in DataClients, Statement(c) \/ Plan(c) \/ ApplyFails(c)
    PROVE  RequestInv'
<1>1. dataReq[c].at \in {"statement", "plan", "apply"}
  BY DEF Statement, Plan, ApplyFails, DataAt
<1>2. /\ dataReq[c] \in DataReq /\ RequestShape(dataReq[c]) /\ dataReq[c].inst \in Instances
      /\ On(c) = dataReq[c].inst /\ database[On(c)] \in Database /\ dataReq[c].at \in Locked
  BY <1>1, HoldsItsLock DEF Locked
<1>3. /\ UNCHANGED <<installed, tracked, pinned, database, migrations, dataLock, markers, consentVars, copyVars, dataLeft>>
      /\ pinned \in [Instances -> SUBSET Columns] /\ dataLeft \in Nat
  BY DataTypes DEF RequestInv, Statement, Plan, ApplyFails
<1>4. SUFFICES \E r \in DataReq : /\ dataReq' = [dataReq EXCEPT ![c] = r]
                                  /\ r.at \in Locked /\ r.inst = dataReq[c].inst
                                  /\ RequestShape(r) /\ ApplyShape(r)
  BY <1>2, <1>3, OnlyRequest
<1>5. CASE Statement(c)
  <2>1. PICK col \in database[On(c)].cols : dataReq' = [dataReq EXCEPT ![c].at = "commit", ![c].add = {col}]
    BY <1>5 DEF Statement
  <2> DEFINE r == [dataReq[c] EXCEPT !.at = "commit", !.add = {col}]
  <2>2. r \in DataReq /\ r.at = "commit" /\ r.inst = dataReq[c].inst /\ RequestShape(r)
    BY <1>2 DEF DataReq, DataSteps, Database, RequestShape
  <2>3. dataReq' = [dataReq EXCEPT ![c] = r]
    BY <2>1
  <2> HIDE DEF r
  <2> QED  BY <2>2, <2>3 DEF Locked, ApplyShape
<1>6. CASE Plan(c)
  <2> DEFINE q == [dataReq[c] EXCEPT !.add = Adds(database[On(c)].cols, dataReq[c].schema),
                                     !.drop = Drops(database[On(c)].cols, dataReq[c].schema)]
             r == [q EXCEPT !.at = IF NeedsApproval(q) THEN "hold" ELSE "apply"]
  <2>1. dataReq[c].at = "plan" /\ dataReq' = [dataReq EXCEPT ![c] = r]
    BY <1>6 DEF Plan, DataAt
  <2>2. q \in DataReq /\ q.inst = dataReq[c].inst /\ q.op = dataReq[c].op /\ q.mig = dataReq[c].mig
        /\ q.agent = dataReq[c].agent /\ q.todo = dataReq[c].todo
    BY <1>2 DEF DataReq, Database, Adds, Drops
  <2> HIDE DEF q
  <2>3. r \in DataReq /\ r.at \in {"hold", "apply"} /\ (r.at = "apply" => r.drop = {}) /\ r.inst = q.inst
        /\ r.op = q.op /\ r.mig = q.mig /\ r.agent = q.agent /\ r.todo = q.todo
    BY <2>2 DEF DataReq, DataSteps, NeedsApproval
  <2> HIDE DEF r
  <2>4. RequestShape(r)
    BY <1>2, <2>1, <2>2, <2>3 DEF RequestShape
  <2> QED  BY <2>1, <2>2, <2>3, <2>4 DEF Locked, ApplyShape
<1>7. CASE ApplyFails(c)
  <2> DEFINE r == [dataReq[c] EXCEPT !.at = "record", !.ok = FALSE]
  <2>1. dataReq' = [dataReq EXCEPT ![c] = r]
    BY <1>7 DEF ApplyFails
  <2>2. r \in DataReq /\ r.at = "record" /\ r.inst = dataReq[c].inst /\ RequestShape(r)
    BY <1>2 DEF DataReq, DataSteps, RequestShape
  <2> HIDE DEF r
  <2> QED  BY <2>1, <2>2 DEF Locked, ApplyShape
<1> QED  BY <1>5, <1>6, <1>7

\* ... and without it.
LEMMA OutsideInv ==
    ASSUME RequestInv, NEW c \in DataClients, Pin(c) \/ NextInstance(c) \/ Target(c)
    PROVE  RequestInv'
<1>1. /\ dataReq[c].at \in {"pin", "next", "target"}
      /\ UNCHANGED <<installed, tracked, database, migrations, dataLock, markers, consentVars, copyVars, dataLeft>>
  BY DEF Pin, NextInstance, Target, DataAt
<1>2. /\ dataReq[c] \in DataReq /\ RequestShape(dataReq[c]) /\ On(c) = dataReq[c].inst
      /\ dataReq[c].at # "next" => dataReq[c].inst \in Instances
      /\ dataReq[c].at \notin Locked /\ dataLeft \in Nat /\ pinned \in [Instances -> SUBSET Columns]
      /\ RequestShape(NoRequest) /\ ApplyShape(NoRequest)
  BY <1>1, DataTypes, NoRequestType, AppDataAssumption DEF RequestInv, RequestShape, ApplyShape, On, Locked, Decides
<1>3. SUFFICES ASSUME pinned' \in [Instances -> SUBSET Columns]
               PROVE  \E r \in DataReq : /\ dataReq' = [dataReq EXCEPT ![c] = r]
                                         /\ r.at \in {"idle", "next", "target", "lock"}
                                         /\ RequestShape(r)
  <2>1. pinned' \in [Instances -> SUBSET Columns]
    BY <1>2 DEF Pin, NextInstance, Target, DataReq
  <2>2. PICK r \in DataReq : /\ dataReq' = [dataReq EXCEPT ![c] = r]
                             /\ r.at \in {"idle", "next", "target", "lock"} /\ RequestShape(r)
    BY <1>3, <2>1
  <2> QED  BY <1>1, <1>2, <2>1, <2>2, OnlyRequest DEF Locked, ApplyShape
<1>4. CASE Pin(c) /\ Live(On(c))
  <2> DEFINE r == [dataReq[c] EXCEPT !.at = "target"]
  <2>1. dataReq' = [dataReq EXCEPT ![c] = r] /\ dataReq[c].at = "pin"
    BY <1>4 DEF Pin, DataGoto, DataAt
  <2>2. r \in DataReq /\ r.at = "target" /\ RequestShape(r)
    BY <1>2, <2>1 DEF DataReq, DataSteps, RequestShape
  <2> QED  BY <2>1, <2>2
<1>5. CASE dataReq' = [dataReq EXCEPT ![c] = NoRequest]
  BY <1>2, <1>5, NoRequestType
<1>6. CASE NextInstance(c)
  <2>1. ASSUME NEW i \in dataReq[c].todo,
               dataReq' = [dataReq EXCEPT ![c].at = "target", ![c].inst = i, ![c].todo = @ \ {i}, ![c].ok = FALSE]
        PROVE  \E r \in DataReq : /\ dataReq' = [dataReq EXCEPT ![c] = r]
                                  /\ r.at \in {"idle", "next", "target", "lock"}
                                  /\ RequestShape(r)
    <3> DEFINE r == [dataReq[c] EXCEPT !.at = "target", !.inst = i, !.todo = @ \ {i}, !.ok = FALSE]
    <3>1. dataReq[c].op \notin Decides /\ dataReq[c].at = "next" /\ i \in Instances /\ installed[i] # "never"
      BY <1>2, <1>6 DEF RequestShape, NextInstance, DataAt, DataReq
    <3>2. r \in DataReq /\ r.at = "target" /\ r.inst = i /\ r.todo \subseteq dataReq[c].todo /\ r.op = dataReq[c].op
          /\ r.mig = dataReq[c].mig /\ r.agent = dataReq[c].agent
      BY <1>2, <3>1 DEF DataReq, DataSteps
    <3>3. dataReq' = [dataReq EXCEPT ![c] = r]
      BY <2>1
    <3> HIDE DEF r
    <3>4. RequestShape(r)
      BY <1>2, <3>1, <3>2 DEF RequestShape
    <3> QED  BY <3>2, <3>3, <3>4
  <2> QED  BY <1>5, <1>6, <2>1 DEF NextInstance
<1>7. CASE Target(c)
  <2>1. dataReq[c].at = "target" /\ dataReq[c].inst \in Instances
    BY <1>2, <1>7 DEF Target, DataAt
  <2>2. CASE dataReq' = [dataReq EXCEPT ![c] = Ended(c)]
    <3>1. CASE Ended(c) = NoRequest
      BY <1>5, <2>2, <3>1
    <3>2. CASE dataReq[c].op = "build" /\ Ended(c) = [dataReq[c] EXCEPT !.at = "next"]
      <4> DEFINE r == [dataReq[c] EXCEPT !.at = "next"]
      <4>1. r \in DataReq /\ r.at = "next" /\ RequestShape(r)
        BY <1>2, <2>1, <3>2 DEF DataReq, DataSteps, RequestShape, Decides
      <4> QED  BY <2>2, <3>2, <4>1
    <3> QED  BY <3>1, <3>2, EndedType DEF RequestInv
  <2>3. ASSUME NEW s, dataReq' = [dataReq EXCEPT ![c].at = "lock", ![c].schema = s],
               s \in SUBSET Columns
        PROVE  \E r \in DataReq : /\ dataReq' = [dataReq EXCEPT ![c] = r]
                                  /\ r.at \in {"idle", "next", "target", "lock"}
                                  /\ RequestShape(r)
    <3> DEFINE r == [dataReq[c] EXCEPT !.at = "lock", !.schema = s]
    <3>1. r \in DataReq /\ r.at = "lock" /\ RequestShape(r)
      BY <1>2, <2>1, <2>3 DEF DataReq, DataSteps, RequestShape
    <3> QED  BY <2>3, <3>1
  <2>4. \A s \in IF dataReq[c].op = "build" THEN {dataReq[c].schema}
                 ELSE IF tracked[On(c)] THEN Schemas ELSE {pinned[On(c)]} : s \in SUBSET Columns
    BY <1>2, <2>1, AppDataAssumption DEF DataReq
  <2> QED  BY <1>7, <2>2, <2>3, <2>4 DEF Target
<1> QED  BY <1>4, <1>5, <1>6, <1>7 DEF Pin

\* The database changes under the lock, and its request goes on.
LEMMA DatabaseStep ==
    ASSUME RequestInv, NEW c \in DataClients, dataReq[c].at \in Locked, NEW r \in DataReq, NEW new \in Database,
           new.filled \subseteq new.cols,
           dataReq' = [dataReq EXCEPT ![c] = r], database' = [database EXCEPT ![On(c)] = new],
           r.at \in Locked \ {"apply"}, r.inst = dataReq[c].inst, RequestShape(r),
           UNCHANGED <<installed, tracked, pinned, migrations, dataLock, markers, consentVars, copyVars, dataLeft>>
    PROVE  RequestInv'
<1>1. dataReq[c].inst \in Instances /\ dataLock[dataReq[c].inst] = c /\ On(c) = dataReq[c].inst
  BY HoldsItsLock
<1>2. /\ dataReq' \in [DataClients -> DataReq] /\ Locks' /\ dataReq'[c] = r
      /\ \A d \in DataClients \ {c} : dataReq'[d] = dataReq[d]
  BY Within DEF RequestInv
<1>3. /\ database' \in [Instances -> Database] /\ database'[On(c)] = new
      /\ \A i \in Instances \ {On(c)} : database'[i] = database[i]
  BY <1>1, DataTypes DEF RequestInv
<1>4. AppDataTypeOK'
  BY <1>2, <1>3, DataTypes, DataTypesNext DEF copyVars, RequestInv
<1>5. Frame(c)
  BY <1>1, <1>2, <1>3 DEF Frame, RowsKept
<1>6. RequestShape(dataReq[c])'
  BY <1>2 DEF RequestShape
<1>7. ApplyShape(dataReq[c])'
  BY <1>2 DEF ApplyShape
<1>8. RowsShape' /\ \A i \in Instances : InstanceShape(i)'
  BY <1>3 DEF RequestInv, RowsShape, InstanceShape, copyVars
<1> QED  BY <1>4, <1>5, <1>6, <1>7, <1>8, ClientKeeps

\* What CommitWrite and Apply make of a database.
LEMMA CommitWriteStep ==
    ASSUME RequestInv, NEW c \in DataClients, CommitWrite(c)
    PROVE  \E r \in DataReq, new \in Database :
              /\ dataReq[c].at = "commit" /\ dataReq' = [dataReq EXCEPT ![c] = r]
              /\ r.at = "commit" /\ r.inst = dataReq[c].inst /\ r.ok /\ RequestShape(r)
              /\ database' = [database EXCEPT ![On(c)] = new]
              /\ new.filled \subseteq new.cols /\ database[On(c)].filled \subseteq new.filled
              /\ new.rev = database[On(c)].rev + 1
<1>1. dataReq[c].at = "commit"
  BY DEF CommitWrite, DataAt
<1>2. dataReq[c] \in DataReq /\ RequestShape(dataReq[c]) /\ dataReq[c].inst \in Instances
      /\ database[On(c)] \in Database /\ On(c) = dataReq[c].inst
  BY <1>1, HoldsItsLock DEF Locked
<1>3. database[On(c)].filled \subseteq database[On(c)].cols
  BY <1>2 DEF RequestInv, InstanceShape
<1> DEFINE old == database[On(c)]
           new == [old EXCEPT !.filled = @ \union (dataReq[c].add \intersect old.cols), !.rev = @ + 1]
           r   == [dataReq[c] EXCEPT !.ok = TRUE]
<1>4. r \in DataReq /\ r.at = "commit" /\ r.inst = dataReq[c].inst /\ r.ok /\ RequestShape(r)
  BY <1>1, <1>2 DEF DataReq, RequestShape
<1>5. new \in Database /\ new.filled \subseteq new.cols /\ old.filled \subseteq new.filled /\ new.rev = old.rev + 1
  <2> DEFINE filled == old.filled \union (dataReq[c].add \intersect old.cols)
             rev    == old.rev + 1
  <2>1. old \in Database /\ old.filled \subseteq old.cols /\ dataReq[c] \in DataReq
    BY <1>2, <1>3
  <2>2. filled \in SUBSET Columns /\ filled \subseteq old.cols /\ old.filled \subseteq filled
    BY <2>1 DEF Database, DataReq
  <2>3. rev \in Nat /\ rev = old.rev + 1
    BY <2>1 DEF Database
  <2>4. new = [old EXCEPT !.filled = filled, !.rev = rev]
    OBVIOUS
  <2> HIDE DEF new, old, filled, rev
  <2>5. new \in Database /\ new.cols = old.cols /\ new.filled = filled /\ new.rev = rev
    BY <2>1, <2>2, <2>3, <2>4 DEF Database
  <2> QED  BY <2>2, <2>3, <2>5
<1>6. dataReq' = [dataReq EXCEPT ![c] = r] /\ database' = [database EXCEPT ![On(c)] = new]
  BY DEF CommitWrite
<1> HIDE DEF r, new
<1> QED  BY <1>1, <1>4, <1>5, <1>6

LEMMA ApplyStep ==
    ASSUME RequestInv, NEW c \in DataClients, Apply(c)
    PROVE  \E r \in DataReq, new \in Database :
              /\ dataReq[c].at = "apply" /\ dataReq' = [dataReq EXCEPT ![c] = r]
              /\ r.at = "record" /\ r.inst = dataReq[c].inst /\ r.ok /\ RequestShape(r)
              /\ database' = [database EXCEPT ![On(c)] = new]
              /\ new.cols = (database[On(c)].cols \union dataReq[c].add) \ dataReq[c].drop
              /\ new.filled = database[On(c)].filled \intersect new.cols
              /\ new.rev = database[On(c)].rev + 1
<1>1. dataReq[c].at = "apply"
  BY DEF Apply, DataAt
<1>2. dataReq[c] \in DataReq /\ RequestShape(dataReq[c]) /\ dataReq[c].inst \in Instances
      /\ database[On(c)] \in Database /\ On(c) = dataReq[c].inst
  BY <1>1, HoldsItsLock DEF Locked
<1> DEFINE old  == database[On(c)]
           cols == (old.cols \union dataReq[c].add) \ dataReq[c].drop
           new  == [old EXCEPT !.cols = cols, !.filled = @ \intersect cols, !.rev = @ + 1]
           r    == [dataReq[c] EXCEPT !.at = "record", !.ok = TRUE]
<1>3. r \in DataReq /\ r.at = "record" /\ r.inst = dataReq[c].inst /\ r.ok /\ RequestShape(r)
  BY <1>1, <1>2 DEF DataReq, DataSteps, RequestShape
<1>4. cols \in SUBSET Columns
  BY <1>2 DEF DataReq, Database
<1>5. dataReq' = [dataReq EXCEPT ![c] = r] /\ database' = [database EXCEPT ![On(c)] = new]
  BY DEF Apply
<1> HIDE DEF r, cols
<1>6. new \in Database /\ new.cols = cols /\ new.filled = old.filled \intersect cols /\ new.rev = old.rev + 1
  <2> DEFINE filled == old.filled \intersect cols
             rev    == old.rev + 1
  <2>1. old \in Database
    BY <1>2
  <2>2. filled \in SUBSET Columns
    BY <2>1 DEF Database
  <2>3. rev \in Nat /\ rev = old.rev + 1
    BY <2>1 DEF Database
  <2>4. new = [old EXCEPT !.cols = cols, !.filled = filled, !.rev = rev]
    OBVIOUS
  <2>5. filled = old.filled \intersect cols
    OBVIOUS
  <2> HIDE DEF new, old, filled, rev
  <2>6. new \in Database /\ new.cols = cols /\ new.filled = filled /\ new.rev = rev
    BY <1>4, <2>1, <2>2, <2>3, <2>4 DEF Database
  <2> QED  BY <2>3, <2>5, <2>6
<1> HIDE DEF new
<1> QED  BY <1>1, <1>3, <1>5, <1>6 DEF cols

LEMMA DatabaseInv ==
    ASSUME RequestInv, NEW c \in DataClients, CommitWrite(c) \/ Apply(c)
    PROVE  RequestInv'
<1>1. UNCHANGED <<installed, tracked, pinned, migrations, dataLock, markers, consentVars, copyVars, dataLeft>>
  BY DEF CommitWrite, Apply
<1>2. CASE CommitWrite(c)
  <2>1. PICK r \in DataReq, new \in Database :
              /\ dataReq[c].at = "commit" /\ dataReq' = [dataReq EXCEPT ![c] = r]
              /\ r.at = "commit" /\ r.inst = dataReq[c].inst /\ RequestShape(r)
              /\ database' = [database EXCEPT ![On(c)] = new] /\ new.filled \subseteq new.cols
    BY <1>2, CommitWriteStep
  <2>2. dataReq[c].at \in Locked /\ r.at \in Locked \ {"apply"}
    BY <2>1 DEF Locked
  <2> QED  BY <1>1, <2>1, <2>2, DatabaseStep
<1>3. CASE Apply(c)
  <2>1. PICK r \in DataReq, new \in Database :
              /\ dataReq[c].at = "apply" /\ dataReq' = [dataReq EXCEPT ![c] = r]
              /\ r.at = "record" /\ r.inst = dataReq[c].inst /\ RequestShape(r)
              /\ database' = [database EXCEPT ![On(c)] = new]
              /\ new.filled = database[On(c)].filled \intersect new.cols
    BY <1>3, ApplyStep
  <2>2. dataReq[c].at \in Locked /\ r.at \in Locked \ {"apply"} /\ new.filled \subseteq new.cols
    BY <2>1 DEF Locked
  <2> QED  BY <1>1, <2>1, <2>2, DatabaseStep
<1> QED  BY <1>2, <1>3

\* Requests that end and leave the rows alone.
LEMMA EndsInv ==
    ASSUME RequestInv, NEW c \in DataClients,
           \/ StatementFails(c) \/ Written(c) \/ PlanNothing(c) \/ HoldFails(c)
           \/ MigrationUnrecorded(c) \/ ReplanFails(c)
    PROVE  RequestInv'
<1>1. /\ Leave(c) /\ dataReq[c].at \in Locked
      /\ UNCHANGED <<installed, tracked, pinned, database, migrations, markers, consentVars, readOnly, copying,
                     copyTmp, dataLeft>>
  BY DEF StatementFails, Written, PlanNothing, HoldFails, MigrationUnrecorded, ReplanFails, Changed, DataAt, Locked,
         copyVars
<1>2. scheduled' \subseteq scheduled \union {On(c)} /\ uncopied' \subseteq uncopied \union {On(c)}
  BY DEF StatementFails, Written, PlanNothing, HoldFails, MigrationUnrecorded, ReplanFails, Changed, copyVars
<1> QED  BY <1>1, <1>2, LeaveOnly

LEMMA RemoveInv ==
    ASSUME RequestInv, NEW c \in DataClients, RemoveFolder(c)
    PROVE  RequestInv'
<1>1. /\ Leave(c) /\ dataReq[c].at \in Locked /\ installed' = [installed EXCEPT ![On(c)] = "gone"]
      /\ UNCHANGED <<tracked, pinned, database, migrations, markers, consentVars, copyVars, dataLeft>>
  BY DEF RemoveFolder, DataAt, Locked
<1>2. migrations' \in Seq(Migration) /\ RowsKept(c) /\ DOMAIN migrations' \ DOMAIN migrations = {}
  BY <1>1, DataTypes DEF RowsKept, RequestInv
<1> QED  BY <1>1, <1>2, LeaveKeeps DEF copyVars

\* A row's status changes, or a row is added.
LEMMA RowsInv ==
    ASSUME RequestInv, NEW c \in DataClients, Leave(c), dataReq[c].at \in Locked,
           UNCHANGED <<installed, tracked, pinned, database, markers, consentVars, readOnly, copying, copyTmp, dataLeft>>,
           scheduled' \subseteq scheduled \union {On(c)}, uncopied' \subseteq uncopied \union {On(c)},
           NEW s \in Statuses,
           \/ dataReq[c].op \in Decides /\ migrations' = [migrations EXCEPT ![dataReq[c].mig].status = s]
           \/ migrations' = Append(migrations, NewRow(c, s))
           \/ migrations' = Append(Superseded(On(c)), NewRow(c, s))
    PROVE  RequestInv'
<1>1. /\ dataReq[c].inst \in Instances /\ dataLock[dataReq[c].inst] = c /\ On(c) = dataReq[c].inst
      /\ RequestShape(dataReq[c]) /\ dataReq[c] \in DataReq
  BY HoldsItsLock
<1>2. migrations \in Seq(Migration) /\ Len(migrations) \in Nat /\ DOMAIN migrations = 1 .. Len(migrations)
      /\ migrations \in [1 .. Len(migrations) -> Migration]
  BY DataTypes, LenProperties DEF RequestInv
<1>3. CASE dataReq[c].op \in Decides /\ migrations' = [migrations EXCEPT ![dataReq[c].mig].status = s]
  <2>1. dataReq[c].mig \in DOMAIN migrations /\ dataLock[migrations[dataReq[c].mig].inst] = c
    BY <1>1, <1>3 DEF RequestShape
  <2>2. migrations' \in Seq(Migration) /\ RowsKept(c) /\ DOMAIN migrations' \ DOMAIN migrations = {}
    BY <1>3, <2>1, StatusChange
  <2> QED  BY <2>2, LeaveKeeps
<1>4. CASE migrations' = Append(migrations, NewRow(c, s))
  <2>1. /\ migrations' \in Seq(Migration) /\ RowsKept(c)
        /\ \A m \in DOMAIN migrations' \ DOMAIN migrations : migrations'[m].inst = On(c)
    BY <1>2, <1>4, RowAdded
  <2> QED  BY <2>1, LeaveKeeps
<1>5. CASE migrations' = Append(Superseded(On(c)), NewRow(c, s))
  <2> DEFINE rows == Superseded(On(c))
  <2>1. /\ DOMAIN rows = 1 .. Len(migrations)
        /\ \A m \in 1 .. Len(migrations) : rows[m] = IF m \in Pending(On(c)) THEN [migrations[m] EXCEPT !.status = "superseded"]
                                                      ELSE migrations[m]
    BY <1>2 DEF Superseded
  <2>2. \A m \in 1 .. Len(migrations) :
           /\ rows[m] \in Migration /\ rows[m].inst = migrations[m].inst
           /\ rows[m].add = migrations[m].add /\ rows[m].drop = migrations[m].drop
           /\ rows[m] = migrations[m] \/ dataLock[migrations[m].inst] = c
    BY <1>1, <1>2, <2>1 DEF Migration, Statuses, Pending
  <2>3. rows = [m \in DOMAIN rows |-> rows[m]]
    BY DEF Superseded
  <2> HIDE DEF rows
  <2>4. rows \in Seq(Migration) /\ Len(rows) = Len(migrations)
    <3>1. rows \in [1 .. Len(migrations) -> Migration]
      BY <2>1, <2>2, <2>3
    <3> QED  BY <1>2, <2>1, <3>1, IsASeq, LenProperties
  <2>5. migrations' = Append(rows, NewRow(c, s))
    BY <1>5 DEF rows
  <2>6. \A m \in DOMAIN migrations :
           /\ rows[m].inst = migrations[m].inst
           /\ rows[m].add = migrations[m].add /\ rows[m].drop = migrations[m].drop
           /\ rows[m] = migrations[m] \/ dataLock[migrations[m].inst] = c
    BY <1>2, <2>2
  <2>7. /\ migrations' \in Seq(Migration) /\ RowsKept(c)
        /\ \A m \in DOMAIN migrations' \ DOMAIN migrations : migrations'[m].inst = On(c)
    BY <2>4, <2>5, <2>6, RowAdded
  <2> QED  BY <2>7, LeaveKeeps
<1> QED  BY <1>3, <1>4, <1>5

LEMMA HoldInv ==
    ASSUME RequestInv, NEW c \in DataClients, Hold(c)
    PROVE  RequestInv'
<1>1. /\ Leave(c) /\ dataReq[c].at \in Locked /\ "pending" \in Statuses
      /\ migrations' = Append(Superseded(On(c)), NewRow(c, "pending"))
      /\ UNCHANGED <<installed, tracked, pinned, database, markers, consentVars, copyVars, dataLeft>>
  BY DEF Hold, DataAt, Locked, Statuses
<1> QED  BY <1>1, RowsInv DEF copyVars

LEMMA RecordMigrationInv ==
    ASSUME RequestInv, NEW c \in DataClients, RecordMigration(c)
    PROVE  RequestInv'
<1>1. /\ Leave(c) /\ dataReq[c].at \in Locked /\ Outcome(c) \in Statuses
      /\ UNCHANGED <<installed, tracked, pinned, database, markers, consentVars, readOnly, copying, copyTmp, dataLeft>>
      /\ scheduled' \subseteq scheduled \union {On(c)} /\ uncopied' \subseteq uncopied \union {On(c)}
  BY DEF RecordMigration, DataAt, Locked, Statuses, Outcome, Changed, copyVars
<1>2. \/ dataReq[c].op \in Decides /\ migrations' = [migrations EXCEPT ![dataReq[c].mig].status = Outcome(c)]
      \/ migrations' = Append(migrations, NewRow(c, Outcome(c)))
  <2>1. RequestShape(dataReq[c])
    BY DEF RequestInv
  <2> QED  BY <2>1 DEF RecordMigration, RequestShape
<1> QED  BY <1>1, <1>2, RowsInv

LEMMA ReadMigrationInv ==
    ASSUME RequestInv, NEW c \in DataClients, ReadMigration(c)
    PROVE  RequestInv'
<1>1. /\ dataReq[c].at = "row" /\ dataReq[c].at \in Locked
      /\ UNCHANGED <<installed, tracked, pinned, database, markers, consentVars, copyVars, dataLeft>>
  BY DEF ReadMigration, DataAt, Locked
<1>2. dataReq[c] \in DataReq /\ RequestShape(dataReq[c]) /\ dataReq[c].op \in Decides
      /\ pinned \in [Instances -> SUBSET Columns] /\ dataLeft \in Nat
  BY <1>1, HoldsItsLock, DataTypes DEF RequestShape, RequestInv
<1>3. CASE Leave(c) /\ UNCHANGED migrations
  BY <1>1, <1>3, LeaveOnly DEF copyVars
<1>4. CASE Leave(c) /\ migrations' = [migrations EXCEPT ![dataReq[c].mig].status = "rejected"]
  <2>1. "rejected" \in Statuses
    BY DEF Statuses
  <2> QED  BY <1>1, <1>2, <1>4, <2>1, RowsInv DEF copyVars
<1>5. CASE /\ Undecided(dataReq[c].mig) /\ dataReq[c].op # "reject"
           /\ DataGoto(c, "replan") /\ UNCHANGED <<migrations, dataLock>>
  <2> DEFINE r == [dataReq[c] EXCEPT !.at = "replan"]
  <2>1. r \in DataReq /\ r.at = "replan" /\ r.inst = dataReq[c].inst
    BY <1>2 DEF DataReq, DataSteps
  <2>2. dataReq' = [dataReq EXCEPT ![c] = r]
    BY <1>5 DEF DataGoto
  <2>3. RequestShape(r)
    BY <1>1, <1>2, <1>5 DEF RequestShape, DataReq, Decides, Undecided
  <2> HIDE DEF r
  <2> QED  BY <1>1, <1>2, <1>5, <2>1, <2>2, <2>3, OnlyRequest DEF Locked, ApplyShape, copyVars
<1> QED  BY <1>3, <1>4, <1>5 DEF ReadMigration

\* The plan of an approved migration, made again: what is approved is what will be applied.
LEMMA ReplanInv ==
    ASSUME RequestInv, NEW c \in DataClients, Replan(c)
    PROVE  RequestInv'
<1>1. /\ dataReq[c].at = "replan" /\ dataReq[c].at \in Locked
      /\ UNCHANGED <<installed, tracked, pinned, database, markers, consentVars, copyVars, dataLeft>>
  BY DEF Replan, DataAt, Locked
<1> DEFINE m    == dataReq[c].mig
           cols == database[On(c)].cols
<1>2. /\ dataReq[c] \in DataReq /\ RequestShape(dataReq[c]) /\ dataReq[c].op = "approve"
      /\ On(c) = dataReq[c].inst /\ m \in DOMAIN migrations /\ migrations[m].status = "pending"
      /\ migrations[m] \in Migration /\ cols \subseteq Columns
      /\ pinned \in [Instances -> SUBSET Columns] /\ dataLeft \in Nat
  <2>1. dataReq[c] \in DataReq /\ RequestShape(dataReq[c]) /\ On(c) = dataReq[c].inst /\ database[On(c)] \in Database
    BY <1>1, HoldsItsLock
  <2>2. dataReq[c].op = "approve" /\ m \in DOMAIN migrations /\ migrations[m].status = "pending"
    BY <1>1, <2>1 DEF RequestShape, Decides
  <2> QED  BY <2>1, <2>2, RowType, DataTypes DEF RequestInv, Database
<1>3. CASE SamePlan(m, cols)
  <2> DEFINE r == [dataReq[c] EXCEPT !.at = "apply", !.schema = migrations[m].schema,
                                     !.add = Adds(cols, migrations[m].schema),
                                     !.drop = Drops(cols, migrations[m].schema)]
  <2>1. dataReq' = [dataReq EXCEPT ![c] = r] /\ UNCHANGED <<migrations, dataLock>>
    BY <1>3 DEF Replan
  <2>2. /\ r \in DataReq /\ r.at = "apply" /\ r.inst = dataReq[c].inst /\ r.op = "approve" /\ r.mig = m
        /\ r.todo = dataReq[c].todo /\ r.agent = dataReq[c].agent
        /\ r.add = migrations[m].schema \ cols /\ r.drop = cols \ migrations[m].schema
    BY <1>2 DEF DataReq, DataSteps, Migration, Adds, Drops
  <2>3. RequestShape(r)
    BY <1>1, <1>2, <2>2 DEF RequestShape
  <2> HIDE DEF r
  <2>4. AsApproved(r)
    BY <1>2, <1>3, <2>2 DEF AsApproved, SamePlan, Adds, Drops
  <2> QED  BY <1>1, <1>2, <2>1, <2>2, <2>3, <2>4, OnlyRequest DEF Locked, ApplyShape, copyVars
<1>4. CASE ~SamePlan(m, cols)
  <2>1. Leave(c) /\ migrations' = [migrations EXCEPT ![m].status = "superseded"] /\ "superseded" \in Statuses
    BY <1>4 DEF Replan, Statuses
  <2> QED  BY <1>1, <1>2, <2>1, RowsInv DEF copyVars, Decides
<1> QED  BY <1>3, <1>4

LEMMA DataStepInv ==
    ASSUME RequestInv, NEW c \in DataClients, DataStep(c)
    PROVE  RequestInv'
BY TakeLockInv, WithinInv, OutsideInv, DatabaseInv, EndsInv, RemoveInv, HoldInv, RecordMigrationInv,
   ReadMigrationInv, ReplanInv DEF DataStep

-----------------------------------------------------------------------------
(* Agreements and markers, copies, the server.                             *)

LEMMA MarkersInv ==
    ASSUME RequestInv, NEW m \in DOMAIN migrations, Agree(m) \/ GoUnasked(m) \/ MintMarker(m) \/ Expire(m)
    PROVE  RequestInv'
<1> USE DEF RequestInv
<1>1. /\ UNCHANGED <<installed, tracked, pinned, database, migrations, lockVars, copyVars, dataLeft>>
      /\ agreed \subseteq agreed' /\ agreed' \subseteq agreed \union {m}
      /\ unasked \subseteq unasked' /\ unasked' \subseteq unasked \union {m}
      /\ markers' \subseteq (agreed \union unasked)' /\ asks' = asks
  BY DEF Agree, GoUnasked, MintMarker, Expire, RowsShape
<1>2. /\ agreed' \in SUBSET Nat /\ unasked' \in SUBSET Nat /\ markers' \in SUBSET Nat
      /\ asks' \in BOOLEAN
  BY <1>1, RowType, DataTypes
<1>3. AppDataTypeOK'
  <2>1. Locks'
    BY <1>1, DataTypes DEF Locks, lockVars
  <2> QED  BY <1>1, <1>2, <2>1, DataTypes, DataTypesNext DEF lockVars, copyVars
<1>4. RowsShape' /\ \A i \in Instances : InstanceShape(i)'
  BY <1>1 DEF RowsShape, InstanceShape, copyVars
<1>5. \A c \in DataClients : RequestShape(dataReq[c])' /\ ApplyShape(dataReq[c])'
  <2>1. /\ UNCHANGED <<installed, database, migrations, dataReq>>
        /\ agreed \subseteq agreed' /\ unasked \subseteq unasked'
    BY <1>1 DEF lockVars
  <2>2. \A c \in DataClients : RequestShape(dataReq[c])'
    BY <2>1 DEF RequestShape
  <2>3. \A c \in DataClients : ApplyShape(dataReq[c])'
    BY <2>1 DEF ApplyShape, AsApproved
  <2> QED  BY <2>2, <2>3
<1> QED  BY <1>3, <1>4, <1>5

LEMMA SetAsksInv ==
    ASSUME RequestInv, SetAsks
    PROVE  RequestInv'
<1> USE DEF RequestInv
<1>1. /\ UNCHANGED <<installed, tracked, pinned, database, migrations, lockVars, markers, agreed, unasked, copyVars>>
      /\ dataLeft > 0 /\ dataLeft' = dataLeft - 1 /\ asks' = ~asks
  BY DEF SetAsks
<1>2. AppDataTypeOK'
  <2>1. Locks'
    BY <1>1, DataTypes DEF Locks, lockVars
  <2>2. dataLeft' \in Nat /\ asks' \in BOOLEAN
    BY <1>1, DataTypes
  <2> QED  BY <1>1, <2>1, <2>2, DataTypes, DataTypesNext DEF lockVars, copyVars
<1>3. RowsShape' /\ \A i \in Instances : InstanceShape(i)'
  BY <1>1 DEF RowsShape, InstanceShape, copyVars
<1>4. \A c \in DataClients : RequestShape(dataReq[c])'
  BY <1>1 DEF RequestShape, lockVars
<1>5. \A c \in DataClients : ApplyShape(dataReq[c])'
  BY <1>1 DEF ApplyShape, AsApproved, lockVars
<1> QED  BY <1>2, <1>3, <1>4, <1>5

\* Steps that change nothing but the copies.
LEMMA CopiesKeep ==
    ASSUME RequestInv,
           UNCHANGED <<installed, tracked, pinned, database, migrations, lockVars, markers, consentVars>>,
           dataLeft' \in Nat,
           readOnly' \in [Instances -> CopyFile], scheduled' \in SUBSET Instances,
           copying' \in [Instances -> [CopyRuns -> CopyAt]], copyTmp' \in [Instances -> CopyFile],
           uncopied' \in SUBSET Instances,
           \A i \in Instances : installed[i] = "never" => i \notin scheduled' /\ \A k \in CopyRuns : copying'[i][k] = "idle"
    PROVE  RequestInv'
<1> USE DEF RequestInv, lockVars
<1>1. AppDataTypeOK'
  <2>1. Locks'
    BY DataTypes DEF Locks
  <2> QED  BY <2>1, DataTypes, DataTypesNext
<1>2. \A c \in DataClients : RequestShape(dataReq[c])'
  BY DEF RequestShape
<1>3. \A c \in DataClients : ApplyShape(dataReq[c])'
  BY DEF ApplyShape, AsApproved
<1>4. RowsShape' /\ \A i \in Instances : InstanceShape(i)'
  BY DEF RowsShape, InstanceShape
<1> QED  BY <1>1, <1>2, <1>3, <1>4

\* A run of a copy goes on.
LEMMA CopyToType ==
    ASSUME AppDataTypeOK, NEW i \in Instances, NEW k \in CopyRuns, NEW at \in CopyAt, CopyTo(i, k, at)
    PROVE  /\ copying' \in [Instances -> [CopyRuns -> CopyAt]] /\ copying'[i][k] = at
           /\ \A j \in Instances, l \in CopyRuns : j # i \/ l # k => copying'[j][l] = copying[j][l]
<1>1. copying \in [Instances -> [CopyRuns -> CopyAt]] /\ copying' = [copying EXCEPT ![i] = [copying[i] EXCEPT ![k] = at]]
  BY DataTypes DEF CopyTo
<1>2. [copying[i] EXCEPT ![k] = at] \in [CopyRuns -> CopyAt]
  BY <1>1
<1>3. \A l \in CopyRuns : [copying[i] EXCEPT ![k] = at][l] = IF l = k THEN at ELSE copying[i][l]
  BY <1>1
<1> QED  BY <1>1, <1>2, <1>3

LEMMA NoCopyType == NoCopy \in CopyFile /\ NoCopy.by = 0 /\ NoCopy.rev = 0
BY DEF NoCopy, CopyFile

LEMMA CopyInvStep ==
    ASSUME RequestInv, NEW i \in Instances, NEW k \in CopyRuns, CopyStep(i, k)
    PROVE  RequestInv'
<1>1. /\ UNCHANGED <<installed, tracked, pinned, database, migrations, lockVars, markers, consentVars>>
      /\ uncopied' \in {uncopied, uncopied \union {i}}
      /\ dataLeft' = dataLeft \/ (dataLeft > 0 /\ dataLeft' = dataLeft - 1)
      /\ scheduled' \subseteq scheduled
      /\ UNCHANGED copying \/ \E at \in CopyAt : CopyTo(i, k, at)
  BY DEF CopyStep, StartCopy, UnlinkCopy, VacuumCopy, FillCopy, RenameCopy, CopyFails, CopyAt
<1>2. /\ readOnly \in [Instances -> CopyFile] /\ copyTmp \in [Instances -> CopyFile]
      /\ copying \in [Instances -> [CopyRuns -> CopyAt]] /\ uncopied \in SUBSET Instances
      /\ scheduled \in SUBSET Instances /\ database \in [Instances -> Database] /\ dataLeft \in Nat
  BY DataTypes DEF RequestInv
<1>3. installed[i] # "never"
  <2>1. i \in scheduled \/ copying[i][k] # "idle"
    BY DEF CopyStep, StartCopy, UnlinkCopy, VacuumCopy, FillCopy, RenameCopy, CopyFails
  <2> QED  BY <2>1 DEF RequestInv, InstanceShape
<1>4. /\ copying' \in [Instances -> [CopyRuns -> CopyAt]]
      /\ \A j \in Instances, l \in CopyRuns : j # i => copying'[j][l] = copying[j][l]
  BY <1>1, <1>2, CopyToType DEF RequestInv
<1>5. copyTmp' \in [Instances -> CopyFile] /\ readOnly' \in [Instances -> CopyFile]
  <2>1. CASE StartCopy(i, k)
    BY <1>2, <2>1 DEF StartCopy
  <2>2. CASE UnlinkCopy(i, k)
    BY <1>2, <2>2, NoCopyType DEF UnlinkCopy
  <2>3. CASE VacuumCopy(i, k)
    <3>1. [by |-> k, rev |-> database[i].rev, whole |-> FALSE] \in CopyFile
      BY <1>2 DEF CopyFile, Database
    <3> QED  BY <1>2, <2>3, <3>1 DEF VacuumCopy
  <2>4. CASE FillCopy(i, k)
    <3>1. \A f \in CopyFile : [f EXCEPT !.whole = TRUE] \in CopyFile
      BY DEF CopyFile
    <3>2. [copyTmp[i] EXCEPT !.whole = TRUE] \in CopyFile /\ [readOnly[i] EXCEPT !.whole = TRUE] \in CopyFile
      BY <1>2, <3>1
    <3>3. /\ copyTmp' = [copyTmp EXCEPT ![i] = [copyTmp[i] EXCEPT !.whole = TRUE]] \/ copyTmp' = copyTmp
          /\ readOnly' = [readOnly EXCEPT ![i] = [readOnly[i] EXCEPT !.whole = TRUE]] \/ readOnly' = readOnly
      BY <2>4 DEF FillCopy
    <3> QED  BY <1>2, <3>2, <3>3
  <2>5. CASE RenameCopy(i, k)
    BY <1>2, <2>5, NoCopyType DEF RenameCopy
  <2>6. CASE CopyFails(i, k)
    BY <1>2, <2>6 DEF CopyFails
  <2> QED  BY <2>1, <2>2, <2>3, <2>4, <2>5, <2>6 DEF CopyStep
<1>6. \A j \in Instances : installed[j] = "never" => j \notin scheduled' /\ \A l \in CopyRuns : copying'[j][l] = "idle"
  BY <1>1, <1>3, <1>4 DEF RequestInv, InstanceShape
<1> QED  BY <1>1, <1>2, <1>4, <1>5, <1>6, CopiesKeep

\* A server that has just started: nobody asks for anything or holds anything.
LEMMA Afresh ==
    /\ [i \in Instances |-> Nobody] \in [Instances -> DataClients \union {Nobody}]
    /\ [c \in DataClients |-> NoRequest] \in [DataClients -> DataReq]
    /\ \A i \in Instances, c \in DataClients :
          [j \in Instances |-> Nobody][i] = c
             <=> [d \in DataClients |-> NoRequest][c].at \in Locked /\ [d \in DataClients |-> NoRequest][c].inst = i
    /\ [i \in Instances |-> [k \in CopyRuns |-> "idle"]] \in [Instances -> [CopyRuns -> CopyAt]]
<1>1. \A i \in Instances, c \in DataClients :
          [j \in Instances |-> Nobody][i] = Nobody /\ [d \in DataClients |-> NoRequest][c] = NoRequest
  OBVIOUS
<1> QED  BY <1>1, NoRequestType, AppDataAssumption DEF Locked, CopyAt

LEMMA NoRequestShapes == RequestShape(NoRequest) /\ ApplyShape(NoRequest)
BY NoRequestType, AppDataAssumption DEF RequestShape, ApplyShape, Decides

LEMMA RestartInv ==
    ASSUME RequestInv, DataRestart
    PROVE  RequestInv'
<1> USE DEF RequestInv
<1>1. /\ dataLock' = [i \in Instances |-> Nobody] /\ dataReq' = [c \in DataClients |-> NoRequest]
      /\ markers' = {} /\ scheduled' = {} /\ copying' = [i \in Instances |-> [k \in CopyRuns |-> "idle"]]
      /\ uncopied' = uncopied \union {i \in Instances : readOnly[i].rev # database[i].rev}
      /\ dataLeft > 0 /\ dataLeft' = dataLeft - 1
      /\ UNCHANGED <<installed, tracked, pinned, database, migrations, consentVars, readOnly, copyTmp>>
  BY DEF DataRestart
<1>2. AppDataTypeOK'
  <2>1. Locks'
    BY <1>1, Afresh DEF Locks
  <2>2. dataLeft' \in Nat /\ uncopied' \in SUBSET Instances /\ markers' \in SUBSET Nat /\ scheduled' \in SUBSET Instances
    BY <1>1, DataTypes
  <2> QED  BY <1>1, <2>1, <2>2, Afresh, DataTypes, DataTypesNext
<1>3. \A c \in DataClients : RequestShape(dataReq[c])' /\ ApplyShape(dataReq[c])'
  <2>1. \A c \in DataClients : dataReq'[c] = NoRequest
    BY <1>1
  <2> QED  BY <2>1, NoRequestType, AppDataAssumption DEF RequestShape, ApplyShape, Decides
<1>4. RowsShape' /\ \A i \in Instances : InstanceShape(i)'
  BY <1>1 DEF RowsShape, InstanceShape
<1> QED  BY <1>2, <1>3, <1>4

LEMMA StutterInv ==
    ASSUME RequestInv, UNCHANGED appDataVars
    PROVE  RequestInv'
<1> USE DEF RequestInv, appDataVars, copyVars
<1>1. /\ readOnly' \in [Instances -> CopyFile] /\ scheduled' \in SUBSET Instances
      /\ copying' \in [Instances -> [CopyRuns -> CopyAt]] /\ copyTmp' \in [Instances -> CopyFile]
      /\ uncopied' \in SUBSET Instances
      /\ UNCHANGED <<installed, tracked, pinned, database, migrations, lockVars, markers, consentVars>>
      /\ dataLeft' \in Nat
  BY DataTypes
<1>2. \A i \in Instances : installed[i] = "never" => i \notin scheduled' /\ \A k \in CopyRuns : copying'[i][k] = "idle"
  BY DEF InstanceShape
<1> QED  BY <1>1, <1>2, CopiesKeep

LEMMA InitInv == AppDataInit => RequestInv
<1> SUFFICES ASSUME AppDataInit PROVE RequestInv
  OBVIOUS
<1> USE AppDataAssumption
<1>1. AppDataTypeOK
  <2>1. /\ installed \in [Instances -> {"never", "live", "gone"}]
        /\ tracked \in [Instances -> BOOLEAN] /\ pinned \in [Instances -> SUBSET Columns]
        /\ dataLeft \in Nat /\ markers \in SUBSET Nat /\ asks \in BOOLEAN /\ agreed \in SUBSET Nat /\ unasked \in SUBSET Nat
        /\ scheduled \in SUBSET Instances /\ uncopied \in SUBSET Instances
    BY DEF AppDataInit
  <2>2. database \in [Instances -> Database]
    <3>1. \A i \in Instances : LET cols == IF installed[i] = "live" THEN pinned[i] ELSE {}
                               IN  [cols |-> cols, filled |-> cols, rev |-> 0] \in Database
      BY <2>1 DEF Database
    <3> QED  BY <3>1 DEF AppDataInit
  <2>3. migrations \in Seq(Migration)
    BY EmptySeq DEF AppDataInit
  <2>4. dataReq \in [DataClients -> DataReq] /\ dataLock \in [Instances -> DataClients \union {Nobody}]
        /\ copying \in [Instances -> [CopyRuns -> CopyAt]]
    BY Afresh DEF AppDataInit
  <2>5. Locks
    BY Afresh DEF AppDataInit, Locks
  <2>6. readOnly \in [Instances -> CopyFile] /\ copyTmp \in [Instances -> CopyFile]
    BY NoCopyType DEF AppDataInit
  <2> QED  BY <2>1, <2>2, <2>3, <2>4, <2>5, <2>6, DataTypes
<1>2. RowsShape
  <2>1. DOMAIN migrations = {} /\ markers = {} /\ agreed = {} /\ unasked = {}
    BY DEF AppDataInit
  <2> QED  BY <2>1 DEF RowsShape
<1>3. \A c \in DataClients : RequestShape(dataReq[c]) /\ ApplyShape(dataReq[c])
  BY NoRequestShapes DEF AppDataInit
<1>4. \A i \in Instances : InstanceShape(i)
  <2>1. \A i \in Instances : database[i].filled = database[i].cols
    BY DEF AppDataInit
  <2> QED  BY <2>1 DEF InstanceShape, AppDataInit
<1> QED  BY <1>1, <1>2, <1>3, <1>4 DEF RequestInv

LEMMA StepInv ==
    ASSUME RequestInv, [AppDataNext]_appDataVars
    PROVE  RequestInv'
BY DataAskInv, DataStepInv, MarkersInv, CopyInvStep, SetAsksInv, RestartInv, StutterInv DEF AppDataNext

\* The invariant holds: who holds an instance's lock is past it in its own request, what an
\* approval works on is pending and planned on the database as it is.
THEOREM AppDataCorrect == AppDataSpec => []RequestInv
<1>1. RequestInv /\ [AppDataNext]_appDataVars => RequestInv'
  BY StepInv
<1> QED  BY InitInv, <1>1, PTL DEF AppDataSpec

\* Every variable keeps to its set, and an instance's lock is held by the request that is past
\* `async with self._lock`.
THEOREM AppDataTypeCorrect == AppDataSpec => []AppDataTypeOK
<1>1. RequestInv => AppDataTypeOK
  BY DEF RequestInv
<1> QED  BY AppDataCorrect, <1>1, PTL

-----------------------------------------------------------------------------
(* What a step never does.                                                 *)

\* Only CommitWrite and Apply change a database.
LEMMA Untouched ==
    ASSUME AppDataNext
    PROVE  UNCHANGED database \/ \E c \in DataClients : CommitWrite(c) \/ Apply(c)
<1>1. ASSUME NEW c \in DataClients, DataAsk(c)
      PROVE  UNCHANGED database
  BY <1>1 DEF DataAsk, Write, Install, Migrate, Uninstall, Update, BuildApp, Approve, Reject, ApproveAsAgent
<1>2. ASSUME NEW c \in DataClients, DataStep(c), ~CommitWrite(c), ~Apply(c)
      PROVE  UNCHANGED database
  BY <1>2 DEF DataStep, TakeLock, Statement, StatementFails, Written, Pin, NextInstance, Target, Plan, PlanNothing,
              Hold, HoldFails, ApplyFails, RecordMigration, MigrationUnrecorded, ReadMigration, Replan,
              ReplanFails, RemoveFolder
<1>3. ASSUME \/ \E m \in DOMAIN migrations : Agree(m) \/ GoUnasked(m) \/ MintMarker(m) \/ Expire(m)
             \/ \E i \in Instances, k \in CopyRuns : CopyStep(i, k)
             \/ SetAsks \/ DataRestart
      PROVE  UNCHANGED database
  BY <1>3 DEF Agree, GoUnasked, MintMarker, Expire, CopyStep, StartCopy, UnlinkCopy, VacuumCopy, FillCopy, RenameCopy, CopyFails, SetAsks, DataRestart
<1> QED  BY <1>1, <1>2, <1>3 DEF AppDataNext

\* A column with data is dropped by an approved migration that lists it, or not at all.
LEMMA DropsStep ==
    ASSUME RequestInv, AppDataNext, NEW i \in Instances
    PROVE  database[i].filled \subseteq database'[i].filled
          \/ \E c \in DataClients, m \in Pending(i) :
                 /\ DataAt(c, "apply") /\ dataReq[c].op = "approve" /\ dataReq[c].mig = m
                 /\ dataReq[c].agent => m \in agreed \union unasked
                 /\ database[i].cols \ database'[i].cols = migrations[m].drop
                 /\ database'[i].cols \ database[i].cols = migrations[m].add
<1>1. database \in [Instances -> Database] /\ database[i].filled \subseteq database[i].cols
  BY DataTypes DEF RequestInv, InstanceShape
<1>2. ASSUME NEW c \in DataClients, CommitWrite(c)
      PROVE  database[i].filled \subseteq database'[i].filled
  <2>1. PICK new \in Database :
              /\ database' = [database EXCEPT ![On(c)] = new] /\ database[On(c)].filled \subseteq new.filled
    BY <1>2, CommitWriteStep
  <2> QED  BY <1>1, <2>1
<1>3. ASSUME NEW c \in DataClients, Apply(c), ~(database[i].filled \subseteq database'[i].filled)
      PROVE  \E m \in Pending(i) :
                 /\ DataAt(c, "apply") /\ dataReq[c].op = "approve" /\ dataReq[c].mig = m
                 /\ dataReq[c].agent => m \in agreed \union unasked
                 /\ database[i].cols \ database'[i].cols = migrations[m].drop
                 /\ database'[i].cols \ database[i].cols = migrations[m].add
  <2>1. PICK new \in Database :
              /\ dataReq[c].at = "apply" /\ database' = [database EXCEPT ![On(c)] = new]
              /\ new.cols = (database[On(c)].cols \union dataReq[c].add) \ dataReq[c].drop
              /\ new.filled = database[On(c)].filled \intersect new.cols
    BY <1>3, ApplyStep
  <2>2. i = On(c) /\ database'[i] = new
    BY <1>1, <1>3, <2>1
  <2>3. dataReq[c].inst = i /\ RequestShape(dataReq[c]) /\ ApplyShape(dataReq[c])
    BY <2>1, <2>2 DEF RequestInv, On
  <2>4. AsApproved(dataReq[c])
    BY <1>1, <1>3, <2>1, <2>2, <2>3 DEF ApplyShape
  <2>5. dataReq[c].mig \in Pending(i) /\ (dataReq[c].agent => dataReq[c].mig \in agreed \union unasked)
    BY <2>3, <2>4 DEF RequestShape, AsApproved, Pending, Decides
  <2>6. /\ database[i].cols \ database'[i].cols = dataReq[c].drop
        /\ database'[i].cols \ database[i].cols = dataReq[c].add
    BY <2>1, <2>2, <2>3, <2>4 DEF AsApproved
  <2> QED  BY <2>1, <2>4, <2>5, <2>6 DEF AsApproved, DataAt
<1> QED  BY <1>2, <1>3, Untouched

\* A column that holds data is dropped only by the migration that lists the drop, pending and
\* approved, whatever writes, builds, updates and approvals came in between: `approve` plans
\* again under the lock, and nobody else writes to the database until `appdb.migrate` is done.
THEOREM DropsApproved == AppDataSpec => DropsOnlyApproved
<1> DEFINE Listed(i) == database[i].filled \subseteq database'[i].filled
          \/ \E c \in DataClients, m \in Pending(i) :
                 /\ DataAt(c, "apply") /\ dataReq[c].op = "approve" /\ dataReq[c].mig = m
                 /\ dataReq[c].agent => m \in agreed \union unasked
                 /\ database[i].cols \ database'[i].cols = migrations[m].drop
                 /\ database'[i].cols \ database[i].cols = migrations[m].add
<1>1. RequestInv /\ [AppDataNext]_appDataVars => [\A i \in Instances : Listed(i)]_appDataVars
  BY DropsStep
<1> QED  BY AppDataCorrect, <1>1, PTL DEF AppDataSpec, DropsOnlyApproved

\* Only RemoveFolder moves an instance's files away, and it holds the lock.
LEMMA RemovedStep ==
    ASSUME RequestInv, AppDataNext, NEW i \in Instances, installed[i] = "live", installed'[i] = "gone",
           NEW d \in DataClients, On(d) = i
    PROVE  dataReq[d].at \in {"idle", "pin", "next", "target", "lock", "remove"}
<1>0. installed \in [Instances -> {"never", "live", "gone"}] /\ dataReq[d] \in DataReq /\ Locks
  BY DataTypes DEF RequestInv
<1>1. \A c \in DataClients : ~DataAsk(c)
  <2>1. ASSUME NEW c \in DataClients, NEW j \in Instances, Install(c, j)
        PROVE  FALSE
    BY <1>0, <2>1 DEF Install
  <2>2. ASSUME NEW c \in DataClients, DataAsk(c), \A j \in Instances : ~Install(c, j)
        PROVE  UNCHANGED installed
    BY <2>2 DEF DataAsk, Write, Migrate, Uninstall, Update, BuildApp, Approve, Reject, ApproveAsAgent
  <2> QED  BY <2>1, <2>2
<1>2. ASSUME NEW c \in DataClients, DataStep(c), ~RemoveFolder(c)
      PROVE  UNCHANGED installed
  BY <1>2 DEF DataStep, TakeLock, Statement, StatementFails, CommitWrite, Written, Pin, NextInstance, Target, Plan,
              PlanNothing, Hold, HoldFails, Apply, ApplyFails, RecordMigration, MigrationUnrecorded, ReadMigration,
              Replan, ReplanFails
<1>3. ASSUME \/ \E m \in DOMAIN migrations : Agree(m) \/ GoUnasked(m) \/ MintMarker(m) \/ Expire(m)
             \/ \E j \in Instances, k \in CopyRuns : CopyStep(j, k)
             \/ SetAsks \/ DataRestart
      PROVE  UNCHANGED installed
  BY <1>3 DEF Agree, GoUnasked, MintMarker, Expire, CopyStep, StartCopy, UnlinkCopy, VacuumCopy, FillCopy, RenameCopy, CopyFails, SetAsks, DataRestart
<1>4. PICK c \in DataClients : RemoveFolder(c)
  BY <1>1, <1>2, <1>3 DEF AppDataNext
<1>5. On(c) = i /\ dataReq[c].at = "remove"
  BY <1>0, <1>4 DEF RemoveFolder, DataAt
<1>6. dataLock[i] = c
  BY <1>5, HoldsItsLock DEF Locked
<1>7. d # c => dataReq[d].at \notin Locked
  BY <1>0, <1>6 DEF Locks, On
<1> QED  BY <1>0, <1>5, <1>7 DEF DataReq, DataSteps, Locked

\* An instance's files are moved away only when no write or migration of it is running:
\* `uninstall_app` is called with the instance's lock.
THEOREM RemovedWhenIdle == AppDataSpec => RemovedIdle
<1> DEFINE NotUsed == \A i \in Instances : installed[i] = "live" /\ installed'[i] = "gone" =>
          \A c \in DataClients : On(c) = i =>
              dataReq[c].at \in {"idle", "pin", "next", "target", "lock", "remove"}
<1>1. RequestInv /\ [AppDataNext]_appDataVars => [NotUsed]_appDataVars
  BY RemovedStep
<1> QED  BY AppDataCorrect, <1>1, PTL DEF AppDataSpec, RemovedIdle

-----------------------------------------------------------------------------
(* The read-only copies.                                                   *)

\* A step that leaves databases and copies alone keeps their shape, if whoever owes a copy still
\* does.
LEMMA CopyFrame ==
    ASSUME CopyInv, UNCHANGED <<database, readOnly, copying, copyTmp>>,
           \A i \in Instances : installed'[i] # "gone" => installed[i] # "gone" /\ (CopyDue(i) => CopyDue(i)')
    PROVE  CopyInv'
<1>1. SUFFICES ASSUME NEW i \in Instances PROVE CopyShape(i)'
  BY DEF CopyInv
<1>2. CopyShape(i) /\ (Vacuuming(i)' <=> Vacuuming(i))
  BY DEF CopyInv, Vacuuming
<1> QED  BY <1>2 DEF CopyShape

\* A change that waits for its copy to be scheduled.
Owes(c) == dataReq[c].at \in {"commit", "record"} /\ dataReq[c].ok

LEMMA OwesAgain ==
    ASSUME CopyInv, UNCHANGED <<database, copyVars>>,
           \A i \in Instances : installed'[i] = "gone" \/ installed[i] # "gone",
           \A d \in DataClients : Owes(d) => dataReq'[d] = dataReq[d]
    PROVE  CopyInv'
<1>1. ASSUME NEW i \in Instances, CopyDue(i)
      PROVE  CopyDue(i)'
  <2>1. CASE Unscheduled(i)
    <3>1. PICK c \in DataClients : On(c) = i /\ Owes(c)
      BY <2>1 DEF Unscheduled, Owes
    <3> QED  BY <3>1 DEF CopyDue, Unscheduled, On, Owes
  <2> QED  BY <1>1, <2>1 DEF CopyDue, copyVars
<1> QED  BY <1>1, CopyFrame DEF copyVars

\* Whoever owes a copy lets the others be.
LEMMA LeaveCopy ==
    ASSUME RequestInv, CopyInv, NEW c \in DataClients, dataReq[c].at \in Locked, Leave(c),
           UNCHANGED <<installed, database, readOnly, copying, copyTmp>>,
           On(c) \in scheduled' \union uncopied',
           \A i \in Instances : i # On(c) => /\ i \in scheduled => i \in scheduled'
                                             /\ i \in uncopied => i \in uncopied'
    PROVE  CopyInv'
<1>1. \A d \in DataClients \ {c} : dataReq'[d] = dataReq[d]
  BY HoldsItsLock, Leaving DEF RequestInv
<1>2. ASSUME NEW i \in Instances, CopyDue(i)
      PROVE  CopyDue(i)'
  <2>1. CASE i = On(c)
    BY <2>1 DEF CopyDue
  <2>2. CASE i # On(c) /\ Unscheduled(i)
    <3>1. PICK d \in DataClients : On(d) = i /\ Owes(d)
      BY <2>2 DEF Unscheduled, Owes
    <3>2. dataReq'[d] = dataReq[d]
      BY <1>1, <2>2, <3>1
    <3> QED  BY <3>1, <3>2 DEF CopyDue, Unscheduled, On, Owes
  <2>3. CASE i # On(c) /\ ~Unscheduled(i)
    BY <1>2, <2>3 DEF CopyDue
  <2> QED  BY <2>1, <2>2, <2>3
<1> QED  BY <1>2, CopyFrame

LEMMA DataAskCopy ==
    ASSUME RequestInv, CopyInv, NEW c \in DataClients, DataAsk(c)
    PROVE  CopyInv'
<1>1. \A i \in Instances : installed'[i] = "gone" \/ installed[i] # "gone"
  <2>1. ASSUME NEW i \in Instances, Install(c, i)
        PROVE  installed[i] = "never" /\ installed' = [installed EXCEPT ![i] = "live"]
    BY <2>1 DEF Install
  <2>2. ASSUME \A i \in Instances : ~Install(c, i)
        PROVE  UNCHANGED installed
    BY <2>2 DEF DataAsk, Write, Migrate, Uninstall, Update, BuildApp, Approve, Reject, ApproveAsAgent
  <2>3. installed \in [Instances -> {"never", "live", "gone"}]
    BY DataTypes DEF RequestInv
  <2> QED  BY <2>1, <2>2, <2>3
<1>2. UNCHANGED <<database, copyVars>>
  BY DEF DataAsk, Write, Install, Migrate, Uninstall, Update, BuildApp, Approve, Reject, ApproveAsAgent
<1>3. dataReq[c].at = "idle" /\ (UNCHANGED dataReq \/ \E r : dataReq' = [dataReq EXCEPT ![c] = r])
  BY DEF DataAsk, Write, Install, Migrate, Uninstall, Update, BuildApp, Approve, Reject, ApproveAsAgent,
         BeginRequest, DataAt
<1>4. dataReq \in [DataClients -> DataReq]
  BY DataTypes DEF RequestInv
<1>5. \A d \in DataClients : Owes(d) => dataReq'[d] = dataReq[d]
  BY <1>3, <1>4 DEF Owes
<1> QED  BY <1>1, <1>2, <1>5, OwesAgain

\* A client's step that neither changes the database nor schedules a copy.
LEMMA QuietCopy ==
    ASSUME RequestInv, CopyInv, NEW c \in DataClients, ~Owes(c), DataStep(c), UNCHANGED <<database, copyVars>>
    PROVE  CopyInv'
<1>1. \E r : dataReq' = [dataReq EXCEPT ![c] = r]
  <2>1. CASE TakeLock(c)
    BY <2>1 DEF TakeLock, DataGoto
  <2>2. CASE Pin(c)
    BY <2>2 DEF Pin, DataGoto
  <2>3. CASE ReadMigration(c)
    BY <2>3 DEF ReadMigration, DataGoto, Leave
  <2>4. CASE Replan(c)
    BY <2>4 DEF Replan, Leave
  <2>5. CASE Target(c) \/ NextInstance(c) \/ Statement(c) \/ Plan(c)
    BY <2>5 DEF Target, NextInstance, Statement, Plan
  <2>6. CASE CommitWrite(c) \/ Apply(c) \/ ApplyFails(c)
    BY <2>6 DEF CommitWrite, Apply, ApplyFails
  <2>7. CASE \/ StatementFails(c) \/ Written(c) \/ PlanNothing(c) \/ HoldFails(c) \/ Hold(c) \/ RecordMigration(c)
             \/ MigrationUnrecorded(c) \/ ReplanFails(c) \/ RemoveFolder(c)
    BY <2>7 DEF StatementFails, Written, PlanNothing, Hold, HoldFails, RecordMigration, MigrationUnrecorded,
                ReplanFails, RemoveFolder, Leave
  <2> QED  BY <2>1, <2>2, <2>3, <2>4, <2>5, <2>6, <2>7 DEF DataStep
<1>2. dataReq \in [DataClients -> DataReq] /\ installed \in [Instances -> {"never", "live", "gone"}]
  BY DataTypes DEF RequestInv
<1>3. \A d \in DataClients : Owes(d) => dataReq'[d] = dataReq[d]
  BY <1>1, <1>2
<1>4. UNCHANGED installed \/ installed' = [installed EXCEPT ![On(c)] = "gone"]
  BY DEF DataStep, TakeLock, Statement, StatementFails, CommitWrite, Written, Pin, NextInstance, Target, Plan,
         PlanNothing, Hold, HoldFails, Apply, ApplyFails, RecordMigration, MigrationUnrecorded, ReadMigration,
         Replan, ReplanFails, RemoveFolder
<1>5. \A i \in Instances : installed'[i] = "gone" \/ installed[i] # "gone"
  BY <1>2, <1>4
<1> QED  BY <1>3, <1>5, OwesAgain

\* CommitWrite and Apply owe a copy.
LEMMA DatabaseCopy ==
    ASSUME RequestInv, CopyInv, NEW c \in DataClients, CommitWrite(c) \/ Apply(c)
    PROVE  CopyInv'
<1>1. PICK r \in DataReq, new \in Database :
        /\ dataReq[c].at \in {"commit", "apply"} /\ ~Owes(c) /\ dataReq' = [dataReq EXCEPT ![c] = r]
        /\ r.at \in {"commit", "record"} /\ r.inst = dataReq[c].inst /\ r.ok
        /\ database' = [database EXCEPT ![On(c)] = new] /\ new.rev = database[On(c)].rev + 1
        /\ UNCHANGED <<installed, copyVars>>
  <2>1. CASE CommitWrite(c)
    BY <2>1, CommitWriteStep DEF CommitWrite, Owes
  <2>2. CASE Apply(c)
    <3>1. PICK r \in DataReq, new \in Database :
              /\ dataReq[c].at = "apply" /\ dataReq' = [dataReq EXCEPT ![c] = r]
              /\ r.at = "record" /\ r.inst = dataReq[c].inst /\ r.ok
              /\ database' = [database EXCEPT ![On(c)] = new] /\ new.rev = database[On(c)].rev + 1
      BY <2>2, ApplyStep
    <3>2. UNCHANGED <<installed, copyVars>>
      BY <2>2 DEF Apply
    <3> QED  BY <3>1, <3>2 DEF Owes
  <2> QED  BY <2>1, <2>2
<1>2. On(c) \in Instances /\ On(c) = dataReq[c].inst
  BY <1>1, HoldsItsLock DEF Locked
<1>3. /\ dataReq \in [DataClients -> DataReq] /\ database \in [Instances -> Database]
      /\ readOnly \in [Instances -> CopyFile] /\ copyTmp \in [Instances -> CopyFile]
  BY DataTypes DEF RequestInv
<1>4. SUFFICES ASSUME NEW i \in Instances PROVE CopyShape(i)'
  BY DEF CopyInv
<1>5. CopyShape(i) /\ (Vacuuming(i)' <=> Vacuuming(i)) /\ UNCHANGED <<installed, readOnly, copyTmp>>
  BY <1>1 DEF CopyInv, Vacuuming, copyVars
<1>6. CASE i = On(c)
  <2>1. dataReq'[c] = r
    BY <1>1, <1>3
  <2>2. Unscheduled(i)'
    BY <1>1, <1>2, <1>6, <2>1 DEF Unscheduled, On
  <2>3. CopyDue(i)'
    BY <2>2 DEF CopyDue
  <2>4. database'[i].rev = database[i].rev + 1 /\ database[i].rev \in Nat
    BY <1>1, <1>2, <1>3, <1>6 DEF Database
  <2>5. readOnly[i].rev \in Nat /\ copyTmp[i].rev \in Nat
    BY <1>3 DEF CopyFile
  <2> QED  BY <1>5, <2>3, <2>4, <2>5 DEF CopyShape
<1>7. CASE i # On(c)
  <2>1. database'[i] = database[i]
    BY <1>1, <1>3, <1>7
  <2>2. CopyDue(i) => CopyDue(i)'
    <3>1. CASE Unscheduled(i)
      <4>1. PICK d \in DataClients : On(d) = i /\ Owes(d)
        BY <3>1 DEF Unscheduled, Owes
      <4>2. dataReq'[d] = dataReq[d]
        BY <1>1, <1>3, <4>1
      <4> QED  BY <4>1, <4>2 DEF CopyDue, Unscheduled, On, Owes
    <3> QED  BY <1>1, <3>1 DEF CopyDue, copyVars
  <2> QED  BY <1>5, <2>1, <2>2 DEF CopyShape
<1> QED  BY <1>6, <1>7

LEMMA DataStepCopy ==
    ASSUME RequestInv, CopyInv, NEW c \in DataClients, DataStep(c)
    PROVE  CopyInv'
<1>1. CASE CommitWrite(c) \/ Apply(c)
  BY <1>1, DatabaseCopy
<1>2. CASE Written(c)
  <2>1. /\ dataReq[c].at \in Locked /\ Leave(c) /\ UNCHANGED <<installed, database, readOnly, copying, copyTmp>>
        /\ scheduled' = scheduled \union {On(c)} /\ uncopied' = uncopied \ {On(c)}
    BY <1>2 DEF Written, Changed, DataAt, Locked
  <2> QED  BY <2>1, LeaveCopy
<1>3. CASE RecordMigration(c) /\ dataReq[c].ok
  <2>1. /\ dataReq[c].at \in Locked /\ Leave(c) /\ UNCHANGED <<installed, database, readOnly, copying, copyTmp>>
        /\ scheduled' = scheduled \union {On(c)} /\ uncopied' = uncopied \ {On(c)}
    BY <1>3 DEF RecordMigration, Changed, DataAt, Locked
  <2> QED  BY <2>1, LeaveCopy
<1>4. CASE MigrationUnrecorded(c) /\ dataReq[c].ok
  <2>1. /\ dataReq[c].at \in Locked /\ Leave(c) /\ UNCHANGED <<installed, database, readOnly, copying, copyTmp, scheduled>>
        /\ uncopied' = uncopied \union {On(c)}
    BY <1>4 DEF MigrationUnrecorded, DataAt, Locked
  <2> QED  BY <2>1, LeaveCopy
<1>5. CASE /\ ~CommitWrite(c) /\ ~Apply(c) /\ ~Written(c)
           /\ ~(RecordMigration(c) /\ dataReq[c].ok) /\ ~(MigrationUnrecorded(c) /\ dataReq[c].ok)
  <2>1. ~Owes(c) /\ UNCHANGED <<database, copyVars>>
    <3>1. CASE RecordMigration(c) \/ MigrationUnrecorded(c)
      BY <1>5, <3>1 DEF RecordMigration, MigrationUnrecorded, Owes, copyVars
    <3>2. CASE ~RecordMigration(c) /\ ~MigrationUnrecorded(c)
      BY <1>5, <3>2 DEF DataStep, TakeLock, Statement, StatementFails, Pin, NextInstance, Target, Plan, PlanNothing,
            Hold, HoldFails, ApplyFails, ReadMigration, Replan, ReplanFails, RemoveFolder, Owes, DataAt
    <3> QED  BY <3>1, <3>2
  <2> QED  BY <2>1, QuietCopy
<1> QED  BY <1>1, <1>2, <1>3, <1>4, <1>5

\* The runs of a copy: what is read is what is there, and what is taken back is read again.
LEMMA CopyStepCopy ==
    ASSUME RequestInv, CopyInv, NEW i \in Instances, NEW k \in CopyRuns, CopyStep(i, k)
    PROVE  CopyInv'
<1>1. /\ UNCHANGED <<installed, database, dataReq>> /\ scheduled \ {i} \subseteq scheduled'
      /\ uncopied \subseteq uncopied'
  BY DEF CopyStep, StartCopy, UnlinkCopy, VacuumCopy, FillCopy, RenameCopy, CopyFails, lockVars
<1>2. /\ readOnly \in [Instances -> CopyFile] /\ copyTmp \in [Instances -> CopyFile]
      /\ copying \in [Instances -> [CopyRuns -> CopyAt]] /\ database \in [Instances -> Database]
      /\ AppDataTypeOK /\ installed \in [Instances -> {"never", "live", "gone"}]
  BY DataTypes DEF RequestInv
<1>3. ASSUME NEW j \in Instances, j # i
      PROVE  CopyShape(j)'
  <2>1. readOnly'[j] = readOnly[j] /\ copyTmp'[j] = copyTmp[j]
    BY <1>2, <1>3 DEF CopyStep, StartCopy, UnlinkCopy, VacuumCopy, FillCopy, RenameCopy, CopyFails
  <2>2. \A l \in CopyRuns : copying'[j][l] = copying[j][l]
    <3>1. UNCHANGED copying \/ \E at \in CopyAt : CopyTo(i, k, at)
      BY DEF CopyStep, StartCopy, UnlinkCopy, VacuumCopy, FillCopy, RenameCopy, CopyFails, CopyAt
    <3> QED  BY <1>2, <1>3, <3>1, CopyToType
  <2>3. CopyShape(j) /\ (Vacuuming(j)' <=> Vacuuming(j)) /\ (CopyDue(j) => CopyDue(j)')
    BY <1>1, <1>3, <2>2 DEF CopyInv, Vacuuming, CopyDue, Unscheduled, On
  <2> QED  BY <1>1, <2>1, <2>3 DEF CopyShape
<1>4. CopyShape(i) /\ (Unscheduled(i)' <=> Unscheduled(i))
  BY <1>1 DEF CopyInv, Unscheduled, On
<1>5. database[i].rev \in Nat /\ readOnly[i] \in CopyFile /\ copyTmp[i] \in CopyFile
      /\ readOnly[i].rev \in Nat /\ copyTmp[i].rev \in Nat
  BY <1>2 DEF Database, CopyFile
<1>6. CopyShape(i)'
  <2>1. CASE StartCopy(i, k)
    <3>1. UNCHANGED <<installed, database, readOnly, copyTmp>> /\ i \in scheduled
      BY <2>1, <1>1 DEF StartCopy
    <3>2. CASE Live(i)
      <4>1. copying'[i][k] = "unlink"
        BY <1>2, <2>1, <3>2, CopyToType DEF StartCopy, CopyAt
      <4>2. CopyDue(i)'
        BY <4>1 DEF CopyDue
      <4> QED  BY <1>4, <3>1, <4>2 DEF CopyShape
    <3>3. CASE ~Live(i)
      <4>1. installed[i] = "gone"
        BY <1>2, <3>1, <3>3 DEF RequestInv, InstanceShape, Live
      <4> QED  BY <1>4, <3>1, <4>1 DEF CopyShape
    <3> QED  BY <3>2, <3>3
  <2>2. CASE UnlinkCopy(i, k)
    <3>1. UNCHANGED <<installed, database, readOnly>> /\ copyTmp'[i] = NoCopy
      BY <1>1, <1>2, <2>2 DEF UnlinkCopy
    <3>2. copying'[i][k] = "vacuum"
      BY <1>2, <2>2, CopyToType DEF UnlinkCopy, CopyAt
    <3>3. Vacuuming(i)'
      BY <3>2 DEF Vacuuming
    <3> QED  BY <1>4, <3>1, <3>3 DEF CopyShape
  <2>3. CASE VacuumCopy(i, k) /\ copyTmp[i] = NoCopy
    <3>1. UNCHANGED <<installed, database, readOnly>>
          /\ copyTmp'[i] = [by |-> k, rev |-> database[i].rev, whole |-> FALSE]
      BY <1>1, <1>2, <2>3 DEF VacuumCopy
    <3>2. copyTmp'[i].rev = database'[i].rev /\ database'[i].rev \in Nat
      BY <1>5, <3>1
    <3> QED  BY <1>4, <3>1, <3>2 DEF CopyShape
  <2>4. CASE VacuumCopy(i, k) /\ copyTmp[i] # NoCopy
    <3>1. UNCHANGED <<installed, database, readOnly, copyTmp, scheduled>> /\ copying[i][k] = "vacuum"
      BY <1>1, <2>4 DEF VacuumCopy
    <3>2. copying'[i][k] = "idle" /\ \A l \in CopyRuns : l # k => copying'[i][l] = copying[i][l]
      BY <1>2, <2>4, CopyToType DEF VacuumCopy, CopyAt
    <3>3. Vacuuming(i) /\ (CopyDue(i) => CopyDue(i)')
      BY <1>1, <1>4, <3>1, <3>2 DEF Vacuuming, CopyDue
    <3> QED  BY <1>4, <2>4, <3>1, <3>3 DEF CopyShape
  <2>5. CASE FillCopy(i, k)
    <3>1. UNCHANGED <<installed, database, scheduled>> /\ copying[i][k] = "copying"
      BY <1>1, <2>5 DEF FillCopy
    <3>2. copying'[i][k] = "seal" /\ \A l \in CopyRuns : l # k => copying'[i][l] = copying[i][l]
      BY <1>2, <2>5, CopyToType DEF FillCopy, CopyAt
    <3>3. (Vacuuming(i)' <=> Vacuuming(i)) /\ (CopyDue(i) => CopyDue(i)')
      BY <1>1, <1>4, <3>1, <3>2 DEF Vacuuming, CopyDue
    <3>4. copyTmp'[i].rev = copyTmp[i].rev /\ (copyTmp'[i] # NoCopy => copyTmp[i] # NoCopy)
      <4>1. copyTmp'[i] = copyTmp[i] \/ (copyTmp[i].by = k /\ copyTmp'[i] = [copyTmp[i] EXCEPT !.whole = TRUE])
        BY <1>2, <2>5 DEF FillCopy
      <4>2. k # NoCopy.by
        BY NoCopyType DEF CopyRuns
      <4> QED  BY <1>5, <4>1, <4>2 DEF CopyFile
    <3>5. readOnly'[i].rev = readOnly[i].rev
      <4>1. readOnly'[i] = readOnly[i] \/ readOnly'[i] = [readOnly[i] EXCEPT !.whole = TRUE]
        BY <1>2, <2>5 DEF FillCopy
      <4> QED  BY <1>5, <4>1 DEF CopyFile
    <3> QED  BY <1>4, <3>1, <3>3, <3>4, <3>5 DEF CopyShape
  <2>6. CASE RenameCopy(i, k)
    <3>1. UNCHANGED <<installed, database, scheduled>> /\ copying[i][k] = "seal"
      BY <1>1, <2>6 DEF RenameCopy
    <3>2. copying'[i][k] = "idle" /\ \A l \in CopyRuns : l # k => copying'[i][l] = copying[i][l]
      BY <1>2, <2>6, CopyToType DEF RenameCopy, CopyAt
    <3>3. (Vacuuming(i)' <=> Vacuuming(i)) /\ (CopyDue(i) => CopyDue(i)')
      BY <1>1, <1>4, <3>1, <3>2 DEF Vacuuming, CopyDue
    <3>4. CASE copyTmp[i] = NoCopy
      <4>1. UNCHANGED <<readOnly, copyTmp>>
        BY <2>6, <3>4 DEF RenameCopy
      <4> QED  BY <1>4, <3>1, <3>3, <4>1 DEF CopyShape
    <3>5. CASE copyTmp[i] # NoCopy
      <4>1. readOnly'[i] = copyTmp[i] /\ copyTmp'[i] = NoCopy
        BY <1>2, <2>6, <3>5 DEF RenameCopy
      <4>2. /\ readOnly'[i].rev <= database'[i].rev
            /\ readOnly[i].rev = database[i].rev \/ copyTmp[i].rev = database[i].rev => readOnly'[i].rev = database'[i].rev
        BY <1>4, <1>5, <3>1, <3>5, <4>1 DEF CopyShape
      <4> QED  BY <1>4, <3>1, <3>3, <4>1, <4>2 DEF CopyShape
    <3> QED  BY <3>4, <3>5
  <2>7. CASE CopyFails(i, k)
    <3>1. UNCHANGED <<installed, database, readOnly, copyTmp>> /\ i \in uncopied'
      BY <1>1, <2>7 DEF CopyFails
    <3> QED  BY <1>4, <3>1 DEF CopyShape, CopyDue
  <2> QED  BY <2>1, <2>2, <2>3, <2>4, <2>5, <2>6, <2>7 DEF CopyStep
<1> QED  BY <1>3, <1>6 DEF CopyInv

LEMMA RestartCopy ==
    ASSUME RequestInv, CopyInv, DataRestart
    PROVE  CopyInv'
<1>1. /\ UNCHANGED <<installed, database, readOnly, copyTmp>>
      /\ uncopied' = uncopied \union {i \in Instances : readOnly[i].rev # database[i].rev}
      /\ copying' = [i \in Instances |-> [k \in CopyRuns |-> "idle"]]
  BY DEF DataRestart
<1>2. SUFFICES ASSUME NEW i \in Instances PROVE CopyShape(i)'
  BY DEF CopyInv
<1>3. ~Vacuuming(i)' /\ (readOnly[i].rev = database[i].rev \/ CopyDue(i)')
  BY <1>1 DEF Vacuuming, CopyDue
<1>4. CopyShape(i)
  BY DEF CopyInv
<1> QED  BY <1>1, <1>3, <1>4 DEF CopyShape

LEMMA InitCopy == AppDataInit => CopyInv
<1> SUFFICES ASSUME AppDataInit, NEW i \in Instances PROVE CopyShape(i)
  BY DEF CopyInv
<1>1. database[i].rev = 0 /\ readOnly[i] = NoCopy /\ copyTmp[i] = NoCopy
  BY DEF AppDataInit
<1>2. readOnly[i].rev = 0
  BY <1>1, NoCopyType
<1> QED  BY <1>1, <1>2 DEF CopyShape

LEMMA StepCopy ==
    ASSUME RequestInv, CopyInv, [AppDataNext]_appDataVars
    PROVE  CopyInv'
<1>1. ASSUME SetAsks \/ \E m \in DOMAIN migrations : Agree(m) \/ GoUnasked(m) \/ MintMarker(m) \/ Expire(m)
      PROVE  CopyInv'
  <2>1. UNCHANGED <<installed, database, dataReq, copyVars>>
    BY <1>1 DEF SetAsks, Agree, GoUnasked, MintMarker, Expire, lockVars
  <2> QED  BY <2>1, OwesAgain
<1>2. ASSUME UNCHANGED appDataVars
      PROVE  CopyInv'
  <2>1. UNCHANGED <<installed, database, dataReq, copyVars>>
    BY <1>2 DEF appDataVars, lockVars
  <2> QED  BY <2>1, OwesAgain
<1> QED  BY <1>1, <1>2, DataAskCopy, DataStepCopy, CopyStepCopy, RestartCopy DEF AppDataNext

\* The read-only copy of an instance is of its last change, or one is scheduled or under way or
\* owed by the request that made the change, unless a restart, a failed recording or a failed copy
\* came in between: `_changed` and `_publish_later`, whatever changes while a copy is being made.
THEOREM CopiesFollow == AppDataSpec => []CopyFollows
<1>1. RequestInv /\ CopyInv /\ RequestInv' /\ [AppDataNext]_appDataVars => CopyInv'
  BY StepCopy
<1>2. CopyInv => CopyFollows
  <2> SUFFICES ASSUME CopyInv, NEW i \in Instances, Live(i), i \notin uncopied
               PROVE  \/ readOnly[i].rev = database[i].rev
                      \/ i \in scheduled
                      \/ copyTmp[i].rev = database[i].rev
                      \/ \E k \in CopyRuns : copying[i][k] \in {"unlink", "vacuum"}
                      \/ \E c \in DataClients : On(c) = i /\ dataReq[c].at \in {"commit", "record"} /\ dataReq[c].ok
    BY DEF CopyFollows
  <2>1. CopyShape(i) /\ installed[i] # "gone"
    BY DEF CopyInv, Live
  <2> QED  BY <2>1 DEF CopyShape, CopyDue, Vacuuming, Unscheduled
<1> QED  BY AppDataCorrect, InitCopy, <1>1, <1>2, PTL DEF AppDataSpec

\* With the types: an instance's lock is its holder's, and its read-only copy follows (`_in_instance`, `_publish_later`).
THEOREM DataKept == AppDataSpec => []DataIsKept
<1>1. AppDataTypeOK /\ CopyFollows => DataIsKept
  BY DEF DataIsKept
<1> QED  BY <1>1, AppDataTypeCorrect, CopiesFollow, PTL

-----------------------------------------------------------------------------
(* Events.                                                                 *)

\* On its way to a page, from its subscriber's backlog on.
Coming(c, k) == Contains(sub[c].pending, k) \/ Contains(sub[c].batch, k) \/ Contains(wire[c], k)

\* The page will run its query again, for an event or for `ready`.
RowsComing(c) == Coming(c, "db_changed") \/ Contains(wire[c], "ready") \/ ~InHub(c)

\* What the page shows, or will show when it hears nothing more.
RowsGood(p) ==
    \/ p.query = "asked" \/ (p.query = "read" /\ (p.again \/ p.got = writes))
    \/ p.query = "none" /\ (p.shows = writes \/ p.failed)

BundleGood(p) ==
    \/ p.reload = "asked" \/ (p.reload = "read" /\ (p.anew \/ p.fetched = builds))
    \/ p.reload = "none" /\ p.runs = builds

RowsFollow ==
    \A c \in Pages : page[c].open =>
        owed["db_changed"] > 0 \/ c \in blind \/ RowsComing(c) \/ RowsGood(page[c])

BundleFollows ==
    \A c \in Pages : page[c].open =>
        owed["app_built"] > 0 \/ c \in unbuilt \/ Coming(c, "app_built") \/ BundleGood(page[c])

\* A batch is sent whole before the next, and nothing is on the wire of a socket that is being opened.
BatchIsSent ==
    \A c \in Pages : /\ sub[c].at \in {"off", "opening", "read", "waiting"} => sub[c].batch = << >>
                     /\ sub[c].at \in {"opening", "read"} => wire[c] = << >>

EventInv == EventTypeOK /\ BacklogIsSmall /\ BatchIsSent /\ RowsFollow /\ BundleFollows

\* What the helpers on sequences do.
LEMMA ContainsNothing == \A x : ~Contains(<< >>, x)
BY DEF Contains

LEMMA ContainsAppend ==
    ASSUME NEW S, NEW s \in Seq(S), NEW e \in S, NEW x
    PROVE  Contains(Append(s, e), x) <=> Contains(s, x) \/ x = e
<1>1. Len(Append(s, e)) = Len(s) + 1 /\ Append(s, e)[Len(s) + 1] = e /\ \A i \in 1..Len(s) : Append(s, e)[i] = s[i]
  BY AppendProperties
<1>2. Len(s) \in Nat
  BY LenProperties
<1> QED
  BY <1>1, <1>2 DEF Contains

LEMMA ContainsHead ==
    ASSUME NEW S, NEW s \in Seq(S), NEW x, s # << >>
    PROVE  Contains(s, x) <=> x = Head(s) \/ Contains(Tail(s), x)
<1>1. Head(s) = s[1] /\ Len(s) \in Nat /\ Len(s) # 0
  BY EmptySeq, LenProperties
<1>2. Len(Tail(s)) = Len(s) - 1 /\ \A i \in 1..Len(Tail(s)) : Tail(s)[i] = s[i + 1]
  BY HeadTailProperties
<1>3. \A i \in 1..Len(s) : i = 1 \/ (i - 1 \in 1..Len(Tail(s)) /\ s[i] = Tail(s)[i - 1])
  BY <1>1, <1>2
<1>4. \A i \in 1..Len(Tail(s)) : i + 1 \in 1..Len(s)
  BY <1>1, <1>2
<1>5. ASSUME Contains(s, x) PROVE x = Head(s) \/ Contains(Tail(s), x)
  <2>1. PICK i \in 1..Len(s) : s[i] = x
    BY <1>5 DEF Contains
  <2> QED
    BY <1>1, <1>3, <2>1 DEF Contains
<1>6. ASSUME x = Head(s) PROVE Contains(s, x)
  BY <1>1, <1>6 DEF Contains
<1>7. ASSUME Contains(Tail(s), x) PROVE Contains(s, x)
  <2>1. PICK i \in 1..Len(Tail(s)) : Tail(s)[i] = x
    BY <1>7 DEF Contains
  <2>2. i + 1 \in 1..Len(s) /\ s[i + 1] = x
    BY <1>2, <1>4, <2>1
  <2> QED
    BY <2>2 DEF Contains
<1> QED
  BY <1>5, <1>6, <1>7

LEMMA RemoveAtDoes ==
    ASSUME NEW S, NEW q \in Seq(S), NEW i \in 1..Len(q)
    PROVE  /\ RemoveAt(q, i) \in Seq(S) /\ Len(RemoveAt(q, i)) = Len(q) - 1
           /\ \A j \in 1..(Len(q) - 1) : RemoveAt(q, i)[j] = IF j < i THEN q[j] ELSE q[j + 1]
<1> DEFINE u == SubSeq(q, 1, i - 1)
           v == SubSeq(q, i + 1, Len(q))
<1>1. Len(q) \in Nat /\ i \in Int /\ 1 <= i /\ i <= Len(q) /\ \A j \in 1..Len(q) : q[j] \in S
  BY LenProperties, ElementOfSeq
<1>2. u \in Seq(S) /\ Len(u) = i - 1 /\ \A j \in 1..(i - 1) : u[j] = q[j]
  <2>1. 1 \in Int /\ i - 1 \in Int /\ \A j \in 1..(i - 1) : q[j] \in S
    BY <1>1
  <2>2. /\ u \in Seq(S) /\ Len(u) = IF 1 <= i - 1 THEN (i - 1) - 1 + 1 ELSE 0
        /\ \A j \in 1..((i - 1) - 1 + 1) : u[j] = q[1 + j - 1]
    BY <2>1, SubSeqProperties
  <2> HIDE DEF u
  <2>3. (i - 1) - 1 + 1 = i - 1 /\ \A j \in 1..(i - 1) : 1 + j - 1 = j
    BY <1>1
  <2>4. Len(u) = i - 1
    BY <1>1, <2>2
  <2>5. ASSUME NEW j \in 1..(i - 1) PROVE u[j] = q[j]
    BY <2>2, <2>3
  <2> QED
    BY <2>2, <2>4, <2>5
<1>3. v \in Seq(S) /\ Len(v) = Len(q) - i /\ \A j \in 1..(Len(q) - i) : v[j] = q[i + j]
  <2>1. i + 1 \in Int /\ Len(q) \in Int /\ \A j \in (i + 1)..Len(q) : q[j] \in S
    BY <1>1
  <2>2. /\ v \in Seq(S) /\ Len(v) = IF i + 1 <= Len(q) THEN Len(q) - (i + 1) + 1 ELSE 0
        /\ \A j \in 1..(Len(q) - (i + 1) + 1) : v[j] = q[(i + 1) + j - 1]
    BY <2>1, SubSeqProperties
  <2> HIDE DEF v
  <2>3. Len(q) - (i + 1) + 1 = Len(q) - i /\ \A j \in 1..(Len(q) - i) : (i + 1) + j - 1 = i + j
    BY <1>1
  <2>4. Len(v) = Len(q) - i
    BY <1>1, <2>2
  <2>5. ASSUME NEW j \in 1..(Len(q) - i) PROVE v[j] = q[i + j]
    BY <2>2, <2>3
  <2> QED
    BY <2>2, <2>4, <2>5
<1>4. RemoveAt(q, i) = u \o v
  BY DEF RemoveAt
<1> HIDE DEF u, v
<1>5. /\ u \o v \in Seq(S) /\ Len(u \o v) = Len(u) + Len(v)
      /\ \A j \in 1..(Len(u) + Len(v)) : (u \o v)[j] = IF j <= Len(u) THEN u[j] ELSE v[j - Len(u)]
  BY <1>2, <1>3, ConcatProperties
<1>6. Len(u) + Len(v) = Len(q) - 1
  BY <1>1, <1>2, <1>3
<1>7. ASSUME NEW j \in 1..(Len(q) - 1) PROVE (u \o v)[j] = IF j < i THEN q[j] ELSE q[j + 1]
  <2>1. (u \o v)[j] = IF j <= i - 1 THEN u[j] ELSE v[j - (i - 1)]
    BY <1>2, <1>5, <1>6
  <2>2. CASE j < i
    <3>1. j <= i - 1 /\ j \in 1..(i - 1)
      BY <1>1, <2>2
    <3> QED
      BY <1>2, <2>1, <2>2, <3>1
  <2>3. CASE ~(j < i)
    <3>1. ~(j <= i - 1) /\ j - (i - 1) \in 1..(Len(q) - i) /\ i + (j - (i - 1)) = j + 1
      BY <1>1, <2>3
    <3> QED
      BY <1>3, <2>1, <2>3, <3>1
  <2> QED
    BY <2>2, <2>3
<1> QED
  BY <1>4, <1>5, <1>6, <1>7

LEMMA CoalescedDoes ==
    ASSUME NEW q \in Seq(Kinds), NEW k \in Kinds, IsInjective(q)
    PROVE  /\ Coalesced(q, k) \in Seq(Kinds) /\ IsInjective(Coalesced(q, k)) /\ Contains(Coalesced(q, k), k)
           /\ \A x : Contains(q, x) => Contains(Coalesced(q, k), x)
<1> DEFINE i == CHOOSE j \in DOMAIN q : q[j] = k
           r == IF Contains(q, k) THEN RemoveAt(q, i) ELSE q
<1>1. Len(q) \in Nat /\ DOMAIN q = 1..Len(q)
  BY LenProperties
<1>2. /\ r \in Seq(Kinds) /\ IsInjective(r) /\ ~Contains(r, k)
      /\ \A x : Contains(q, x) => x = k \/ Contains(r, x)
  <2>1. CASE ~Contains(q, k)
    BY <2>1
  <2>2. CASE Contains(q, k)
    <3>1. i \in 1..Len(q) /\ q[i] = k
      BY <1>1, <2>2 DEF Contains
    <3>2. r = RemoveAt(q, i)
      BY <2>2
    <3> HIDE DEF i, r
    <3>3. /\ r \in Seq(Kinds) /\ Len(r) = Len(q) - 1
          /\ \A j \in 1..(Len(q) - 1) : r[j] = IF j < i THEN q[j] ELSE q[j + 1]
      BY <3>1, <3>2, RemoveAtDoes
    <3>4. DOMAIN r = 1..(Len(q) - 1)
      BY <3>3, LenProperties
    <3>5. ASSUME NEW j \in 1..(Len(q) - 1)
          PROVE \E m \in 1..Len(q) : r[j] = q[m] /\ m # i /\ m = IF j < i THEN j ELSE j + 1
      <4> DEFINE m == IF j < i THEN j ELSE j + 1
      <4>1. m \in 1..Len(q) /\ m # i
        BY <1>1, <3>1
      <4>2. r[j] = q[m]
        BY <3>3
      <4> QED
        BY <4>1, <4>2
    <3>6. IsInjective(r)
      <4> SUFFICES ASSUME NEW a \in 1..(Len(q) - 1), NEW b \in 1..(Len(q) - 1), r[a] = r[b] PROVE a = b
        BY <3>4 DEF IsInjective
      <4>1. PICK m \in 1..Len(q) : r[a] = q[m] /\ m = IF a < i THEN a ELSE a + 1
        BY <3>5
      <4>2. PICK n \in 1..Len(q) : r[b] = q[n] /\ n = IF b < i THEN b ELSE b + 1
        BY <3>5
      <4>3. m = n
        BY <1>1, <4>1, <4>2 DEF IsInjective
      <4> QED
        BY <1>1, <3>1, <4>1, <4>2, <4>3
    <3>7. \A j \in 1..(Len(q) - 1) : r[j] # k
      BY <1>1, <3>1, <3>5 DEF IsInjective
    <3>8. ASSUME NEW j \in 1..Len(q), j # i PROVE \E n \in 1..(Len(q) - 1) : r[n] = q[j]
      <4> DEFINE n == IF j < i THEN j ELSE j - 1
      <4>1. n \in 1..(Len(q) - 1) /\ (n < i <=> j < i) /\ (j > i => n + 1 = j)
        BY <1>1, <3>1, <3>8
      <4>2. r[n] = IF n < i THEN q[n] ELSE q[n + 1]
        BY <3>3, <4>1
      <4>3. r[n] = q[j]
        BY <1>1, <3>1, <3>8, <4>1, <4>2
      <4> QED
        BY <4>1, <4>3
    <3>9. \A x : Contains(q, x) => x = k \/ Contains(r, x)
      BY <3>1, <3>3, <3>8 DEF Contains
    <3> QED
      BY <3>3, <3>6, <3>7, <3>9 DEF Contains
  <2> QED
    BY <2>1, <2>2
<1> HIDE DEF r
<1>3. Len(r) \in Nat /\ DOMAIN r = 1..Len(r)
  BY <1>2, LenProperties
<1>4. /\ Append(r, k) \in Seq(Kinds) /\ Len(Append(r, k)) = Len(r) + 1 /\ DOMAIN Append(r, k) = 1..(Len(r) + 1)
      /\ Append(r, k)[Len(r) + 1] = k /\ \A j \in 1..Len(r) : Append(r, k)[j] = r[j]
  BY <1>2, <1>3, AppendProperties, LenProperties
<1>5. IsInjective(Append(r, k))
  BY <1>2, <1>3, <1>4 DEF IsInjective, Contains
<1>6. Coalesced(q, k) = Append(r, k)
  BY DEF Coalesced, r
<1> QED
  BY <1>2, <1>4, <1>5, <1>6, ContainsAppend

LEMMA EventInitInv == EventInit => EventInv
<1> SUFFICES ASSUME EventInit PROVE EventInv
  OBVIOUS
<1>1. SubOff \in SubRow /\ Shut \in PageRow
  BY EmptySeq DEF SubOff, SubRow, Shut, PageRow
<1>2. EventTypeOK
  BY <1>1, EventsAssumption, EmptySeq DEF EventInit, EventTypeOK
<1>3. \A c \in Pages : sub[c] = SubOff /\ wire[c] = << >> /\ ~page[c].open
  BY DEF EventInit, Shut
<1>4. BacklogIsSmall /\ BatchIsSent
  BY <1>3 DEF BacklogIsSmall, BatchIsSent, SubOff, IsInjective
<1> QED
  BY <1>2, <1>3, <1>4 DEF EventInv, RowsFollow, BundleFollows

\* A step of one socket, after which everything is still on its way or made up for.
LEMMA SocketKeeps ==
    ASSUME EventInv, UNCHANGED <<dataVars, userVars, page, blind>>,
           unbuilt \subseteq unbuilt', unbuilt' \in SUBSET Pages, troubles' \in Nat,
           NEW c \in Pages, NEW r \in SubRow, sub' = [sub EXCEPT ![c] = r],
           NEW w \in Seq(Kinds \union {"ready"}), wire' = [wire EXCEPT ![c] = w],
           IsInjective(r.pending), r.pending # << >> => r.wake,
           r.at \in {"off", "opening", "read", "waiting"} => r.batch = << >>,
           r.at \in {"opening", "read"} => w = << >>,
           RowsComing(c) => RowsComing(c)', Coming(c, "app_built") => c \in unbuilt' \/ Coming(c, "app_built")'
    PROVE  EventInv'
<1>1. \A x \in Pages \ {c} : sub'[x] = sub[x] /\ wire'[x] = wire[x]
  BY DEF EventInv, EventTypeOK
<1>2. sub'[c] = r /\ wire'[c] = w
  BY DEF EventInv, EventTypeOK
<1>3. EventTypeOK'
  BY DEF EventInv, EventTypeOK, dataVars, userVars
<1>4. BacklogIsSmall' /\ BatchIsSent'
  BY <1>1, <1>2 DEF EventInv, BacklogIsSmall, BatchIsSent
<1>5. \A x \in Pages : RowsComing(x) => RowsComing(x)'
  BY <1>1 DEF RowsComing, Coming, InHub
<1>6. \A x \in Pages : Coming(x, "app_built") => x \in unbuilt' \/ Coming(x, "app_built")'
  BY <1>1 DEF Coming
<1>7. UNCHANGED <<writes, builds, owed, page, blind>>
  BY DEF dataVars
<1>8. RowsFollow'
  BY <1>5, <1>7 DEF EventInv, RowsFollow, RowsGood
<1>9. BundleFollows'
  BY <1>6, <1>7 DEF EventInv, BundleFollows, BundleGood
<1> QED
  BY <1>3, <1>4, <1>8, <1>9 DEF EventInv

\* A step of one page that leaves what is on its way.
LEMMA PageKeeps ==
    ASSUME EventInv, UNCHANGED <<dataVars, userVars, sub, wire>>, troubles' \in Nat,
           blind' \in SUBSET Pages, unbuilt' \in SUBSET Pages,
           NEW c \in Pages, NEW p \in PageRow, page' = [page EXCEPT ![c] = p],
           \A x \in Pages \ {c} : (x \in blind => x \in blind') /\ (x \in unbuilt => x \in unbuilt'),
           RowsGood(p) \/ (page[c].open /\ (c \in blind => c \in blind') /\ ~RowsGood(page[c])) \/ ~p.open,
           BundleGood(p) \/ c \in unbuilt' \/ (page[c].open /\ (c \in unbuilt => c \in unbuilt') /\ ~BundleGood(page[c])) \/ ~p.open
    PROVE  EventInv'
<1>1. \A x \in Pages \ {c} : page'[x] = page[x]
  BY DEF EventInv, EventTypeOK
<1>2. page'[c] = p
  BY DEF EventInv, EventTypeOK
<1>3. EventTypeOK'
  BY DEF EventInv, EventTypeOK, dataVars, userVars
<1>4. UNCHANGED <<writes, builds, owed, sub, wire>>
  BY DEF dataVars
<1>5. BacklogIsSmall' /\ BatchIsSent'
  BY <1>4 DEF EventInv, BacklogIsSmall, BatchIsSent
<1>6. \A x \in Pages, k \in Kinds : (RowsComing(x) => RowsComing(x)') /\ (Coming(x, k) => Coming(x, k)')
  BY <1>4 DEF RowsComing, Coming, InHub
<1>7. /\ \A x \in Pages \ {c} : (RowsGood(page[x]) => RowsGood(page[x])') /\ (BundleGood(page[x]) => BundleGood(page[x])')
      /\ (RowsGood(p) => RowsGood(page[c])') /\ (BundleGood(p) => BundleGood(page[c])')
  BY <1>1, <1>2, <1>4 DEF RowsGood, BundleGood
<1>8. RowsFollow'
  <2> SUFFICES ASSUME NEW x \in Pages, page'[x].open
               PROVE  owed'["db_changed"] > 0 \/ x \in blind' \/ RowsComing(x)' \/ RowsGood(page[x])'
    BY DEF RowsFollow
  <2>1. CASE x # c
    <3>1. owed["db_changed"] > 0 \/ x \in blind \/ RowsComing(x) \/ RowsGood(page[x])
      BY <1>1, <2>1 DEF EventInv, RowsFollow
    <3> QED
      BY <1>1, <1>4, <1>6, <1>7, <2>1, <3>1 DEF Kinds
  <2>2. CASE x = c
    <3>1. ~page[c].open \/ owed["db_changed"] > 0 \/ c \in blind \/ RowsComing(c) \/ RowsGood(page[c])
      BY DEF EventInv, RowsFollow
    <3> QED
      BY <1>2, <1>4, <1>6, <1>7, <2>2, <3>1 DEF Kinds
  <2> QED
    BY <2>1, <2>2
<1>9. BundleFollows'
  <2> SUFFICES ASSUME NEW x \in Pages, page'[x].open
               PROVE owed'["app_built"] > 0 \/ x \in unbuilt' \/ Coming(x, "app_built")' \/ BundleGood(page[x])'
    BY DEF BundleFollows
  <2>1. CASE x # c
    <3>1. owed["app_built"] > 0 \/ x \in unbuilt \/ Coming(x, "app_built") \/ BundleGood(page[x])
      BY <1>1, <2>1 DEF EventInv, BundleFollows
    <3> QED
      BY <1>1, <1>4, <1>6, <1>7, <2>1, <3>1 DEF Kinds
  <2>2. CASE x = c
    <3>1. ~page[c].open \/ owed["app_built"] > 0 \/ c \in unbuilt \/ Coming(c, "app_built") \/ BundleGood(page[c])
      BY DEF EventInv, BundleFollows
    <3> QED
      BY <1>2, <1>4, <1>6, <1>7, <2>2, <3>1 DEF Kinds
  <2> QED
    BY <2>1, <2>2
<1> QED
  BY <1>3, <1>5, <1>8, <1>9 DEF EventInv
LEMMA SubTyped ==
    ASSUME EventInv, NEW c \in Pages
    PROVE  /\ sub[c] \in SubRow /\ wire[c] \in Seq(Kinds \union {"ready"}) /\ page[c] \in PageRow
           /\ sub[c].pending \in Seq(Kinds) /\ sub[c].batch \in Seq(Kinds) /\ sub[c].wake \in BOOLEAN
           /\ sub[c].seen \in BOOLEAN /\ sub[c].knows \in BOOLEAN
           /\ IsInjective(sub[c].pending) /\ (sub[c].pending # << >> => sub[c].wake)
           /\ sub[c].at \in {"off", "opening", "read", "waiting"} => sub[c].batch = << >>
           /\ sub[c].at \in {"opening", "read"} => wire[c] = << >>
           /\ blind \in SUBSET Pages /\ unbuilt \in SUBSET Pages /\ troubles \in Nat /\ builds \in Nat /\ writes \in Nat
BY DEF EventInv, EventTypeOK, SubRow, BacklogIsSmall, BatchIsSent

LEMMA SubOffIs == /\ SubOff \in SubRow /\ SubOff.pending = << >> /\ SubOff.batch = << >> /\ SubOff.at = "off" /\ IsInjective(SubOff.pending)
BY EmptySeq DEF SubOff, SubRow, IsInjective

\* Every step of a socket keeps the invariant.
LEMMA SocketStepInv ==
    ASSUME EventInv, NEW c \in Pages, SocketStep(c)
    PROVE  EventInv'
<1>0. sub[c] \in SubRow
  BY SubTyped
<1>1. ASSUME Connect(c) PROVE EventInv'
  <2> DEFINE r == [sub[c] EXCEPT !.at = "opening"]
             w == << >>
  <2>1. r \in SubRow /\ sub' = [sub EXCEPT ![c] = r] /\ r.pending = sub[c].pending /\ r.batch = sub[c].batch
        /\ r.wake = sub[c].wake /\ r.at = "opening" /\ sub[c].at = "off"
    BY <1>0, <1>1 DEF Connect, SubGoes, SubAt, SubRow
  <2>2. w \in Seq(Kinds \union {"ready"}) /\ wire' = [wire EXCEPT ![c] = w]
    BY <1>1, EmptySeq DEF Connect
  <2>3. RowsComing(c)'
    BY <2>1, SubTyped DEF RowsComing, InHub, EventInv, EventTypeOK
  <2>4. unbuilt \subseteq unbuilt' /\ unbuilt' \in SUBSET Pages /\ (Contains(wire[c], "app_built") => c \in unbuilt')
    BY <1>1, SubTyped DEF Connect
  <2>5. Coming(c, "app_built") => c \in unbuilt' \/ Coming(c, "app_built")'
    BY <2>1, <2>2, <2>4 DEF Coming, EventInv, EventTypeOK
  <2>6. UNCHANGED <<dataVars, userVars, page, blind>> /\ troubles' \in Nat
    BY <1>1, SubTyped DEF Connect
  <2> HIDE DEF r, w
  <2>7. IsInjective(r.pending) /\ (r.pending # << >> => r.wake) /\ r.batch = << >> /\ w = << >>
    BY <2>1, SubTyped DEF w
  <2> QED
    BY <2>1, <2>2, <2>3, <2>4, <2>5, <2>6, <2>7, SocketKeeps
<1>2. ASSUME SubCloses(c), UNCHANGED <<dataVars, userVars, wire, page, blind>>, troubles' \in Nat PROVE EventInv'
  <2>1. sub' = [sub EXCEPT ![c] = SubOff] /\ wire' = [wire EXCEPT ![c] = wire[c]]
    BY <1>2 DEF SubCloses, EventInv, EventTypeOK
  <2>2. unbuilt \subseteq unbuilt' /\ unbuilt' \in SUBSET Pages /\ (Unsent(c) => c \in unbuilt')
    BY <1>2, SubTyped DEF SubCloses
  <2>3. RowsComing(c)' /\ (Coming(c, "app_built") => c \in unbuilt' \/ Coming(c, "app_built")')
    BY <1>2, <2>1, <2>2, SubOffIs DEF RowsComing, InHub, Coming, Unsent, EventInv, EventTypeOK
  <2> QED
    BY <1>2, <2>1, <2>2, <2>3, SubOffIs, SubTyped, SocketKeeps
<1>3. ASSUME LoseSocket(c) PROVE EventInv'
  BY <1>2, <1>3, SubTyped DEF LoseSocket, Trouble
<1>4. ASSUME ReadSpaces(c), ~SubCloses(c) PROVE EventInv'
  <2> DEFINE seen == signedIn[c] /\ belongs[c]
             at == IF sub[c].at = "opening" THEN "read" ELSE "set"
             r == [sub[c] EXCEPT !.at = at, !.seen = seen]
  <2>1. seen \in BOOLEAN
    BY DEF EventInv, EventTypeOK
  <2> HIDE DEF seen
  <2>2. r \in SubRow /\ r.pending = sub[c].pending /\ r.batch = sub[c].batch /\ r.wake = sub[c].wake /\ r.at = at
    BY <1>0, <2>1 DEF SubRow
  <2>3. sub' = [sub EXCEPT ![c] = r] /\ sub[c].at \in {"opening", "refresh"}
    BY <1>4 DEF ReadSpaces, seen
  <2>4. wire' = [wire EXCEPT ![c] = wire[c]] /\ unbuilt' = unbuilt /\ UNCHANGED <<dataVars, userVars, page, blind>> /\ troubles' \in Nat
    BY <1>4, SubTyped DEF ReadSpaces, EventInv, EventTypeOK
  <2> HIDE DEF r
  <2>5. RowsComing(c) => RowsComing(c)'
    BY <2>2, <2>3, <2>4 DEF RowsComing, InHub, Coming, EventInv, EventTypeOK
  <2>6. Coming(c, "app_built") => Coming(c, "app_built")'
    BY <2>2, <2>3, <2>4 DEF Coming, EventInv, EventTypeOK
  <2>7. /\ IsInjective(r.pending) /\ (r.pending # << >> => r.wake)
        /\ r.at \in {"off", "opening", "read", "waiting"} => r.batch = << >>
        /\ r.at \in {"opening", "read"} => wire[c] = << >>
    BY <2>2, <2>3, SubTyped
  <2> QED
    BY <2>2, <2>3, <2>4, <2>5, <2>6, <2>7, SubTyped, SocketKeeps
<1>5. ASSUME ReadSpaces(c) PROVE EventInv'
  BY <1>2, <1>4, <1>5, SubTyped DEF ReadSpaces
<1>6. ASSUME JoinHub(c) PROVE EventInv'
  <2> DEFINE r == [sub[c] EXCEPT !.at = "waiting", !.knows = sub[c].seen]
             w == <<"ready">>
  <2>1. r \in SubRow /\ r.pending = sub[c].pending /\ r.batch = sub[c].batch /\ r.wake = sub[c].wake /\ r.at = "waiting"
    BY <1>0 DEF SubRow
  <2>2. sub' = [sub EXCEPT ![c] = r] /\ sub[c].at = "read" /\ wire' = [wire EXCEPT ![c] = w] /\ unbuilt' = unbuilt
        /\ UNCHANGED <<dataVars, userVars, page, blind>> /\ troubles' \in Nat
    BY <1>6, SubTyped DEF JoinHub, SubAt
  <2>3. w \in Seq(Kinds \union {"ready"}) /\ Contains(w, "ready")
    BY DEF Contains
  <2> HIDE DEF r, w
  <2>4. RowsComing(c)'
    BY <2>2, <2>3 DEF RowsComing, EventInv, EventTypeOK
  <2>5. Coming(c, "app_built") => Coming(c, "app_built")'
    BY <2>1, <2>2, SubTyped, ContainsNothing DEF Coming, EventInv, EventTypeOK
  <2> QED
    BY <2>1, <2>2, <2>3, <2>4, <2>5, SubTyped, SocketKeeps
<1>7. ASSUME TakeBacklog(c) PROVE EventInv'
  <2>1. PICK due \in BOOLEAN :
           sub' = [sub EXCEPT ![c] = [sub[c] EXCEPT !.at = IF due THEN "refresh" ELSE "send", !.wake = FALSE,
                                                    !.batch = sub[c].pending, !.pending = << >>]]
    BY <1>7 DEF TakeBacklog
  <2> DEFINE r == [sub[c] EXCEPT !.at = IF due THEN "refresh" ELSE "send", !.wake = FALSE,
                                 !.batch = sub[c].pending, !.pending = << >>]
  <2>2. r \in SubRow /\ r.pending = << >> /\ r.batch = sub[c].pending /\ r.at \in {"refresh", "send"}
    BY <1>0, EmptySeq DEF SubRow
  <2>3. sub' = [sub EXCEPT ![c] = r] /\ sub[c].at = "waiting" /\ wire' = [wire EXCEPT ![c] = wire[c]] /\ unbuilt' = unbuilt
        /\ UNCHANGED <<dataVars, userVars, page, blind>> /\ troubles' \in Nat
    BY <1>7, <2>1, SubTyped DEF TakeBacklog, SubAt, EventInv, EventTypeOK
  <2> HIDE DEF r
  <2>4. RowsComing(c) => RowsComing(c)'
    BY <2>2, <2>3, SubTyped, ContainsNothing DEF RowsComing, InHub, Coming, EventInv, EventTypeOK
  <2>5. Coming(c, "app_built") => Coming(c, "app_built")'
    BY <2>2, <2>3, SubTyped, ContainsNothing DEF Coming, EventInv, EventTypeOK
  <2>6. IsInjective(r.pending)
    BY <2>2 DEF IsInjective
  <2> QED
    BY <2>2, <2>3, <2>4, <2>5, <2>6, SubTyped, SocketKeeps
<1>8. ASSUME NEW r \in SubRow, sub' = [sub EXCEPT ![c] = r], UNCHANGED <<dataVars, userVars, wire, page, blind, unbuilt, troubles>>,
             r.pending = sub[c].pending, r.batch = sub[c].batch, r.wake = sub[c].wake, InHub(c),
             r.at \in {"waiting", "refresh", "set", "send"}, r.at = "waiting" => r.batch = << >>
      PROVE  EventInv'
  <2>1. wire' = [wire EXCEPT ![c] = wire[c]] /\ unbuilt' = unbuilt
    BY <1>8 DEF EventInv, EventTypeOK
  <2>2. RowsComing(c) => RowsComing(c)'
    BY <1>8 DEF RowsComing, InHub, Coming, EventInv, EventTypeOK
  <2>3. Coming(c, "app_built") => Coming(c, "app_built")'
    BY <1>8 DEF Coming, EventInv, EventTypeOK
  <2>4. /\ r.at \in {"off", "opening", "read", "waiting"} => r.batch = << >>
        /\ r.at \in {"opening", "read"} => wire[c] = << >>
        /\ IsInjective(r.pending) /\ (r.pending # << >> => r.wake) /\ troubles' \in Nat
    BY <1>8, SubTyped
  <2>5. wire[c] \in Seq(Kinds \union {"ready"}) /\ unbuilt' \in SUBSET Pages /\ unbuilt \subseteq unbuilt'
    BY <2>1, SubTyped
  <2> QED
    BY <1>8, <2>1, <2>2, <2>3, <2>4, <2>5, SocketKeeps
<1>9. ASSUME RefreshDue(c) PROVE EventInv'
  <2> DEFINE r == [sub[c] EXCEPT !.at = "refresh"]
  <2>1. r \in SubRow /\ r.pending = sub[c].pending /\ r.batch = sub[c].batch /\ r.wake = sub[c].wake /\ r.at = "refresh"
    BY <1>0 DEF SubRow
  <2>2. sub' = [sub EXCEPT ![c] = r] /\ InHub(c) /\ UNCHANGED <<dataVars, userVars, wire, page, blind, unbuilt, troubles>>
    BY <1>9 DEF RefreshDue, SubAt, SubGoes, InHub
  <2> HIDE DEF r
  <2> QED
    BY <1>8, <2>1, <2>2
<1>10. ASSUME SetSpaces(c) PROVE EventInv'
  <2> DEFINE r == [sub[c] EXCEPT !.at = "send", !.knows = sub[c].seen]
  <2>1. r \in SubRow /\ r.pending = sub[c].pending /\ r.batch = sub[c].batch /\ r.wake = sub[c].wake /\ r.at = "send"
    BY <1>0 DEF SubRow
  <2>2. sub' = [sub EXCEPT ![c] = r] /\ InHub(c) /\ UNCHANGED <<dataVars, userVars, wire, page, blind, unbuilt, troubles>>
    BY <1>10 DEF SetSpaces, SubAt, InHub
  <2> HIDE DEF r
  <2> QED
    BY <1>8, <2>1, <2>2
<1>11. ASSUME SendNext(c), sub[c].batch = << >> PROVE EventInv'
  <2> DEFINE r == [sub[c] EXCEPT !.at = "waiting"]
  <2>1. r \in SubRow /\ r.pending = sub[c].pending /\ r.batch = sub[c].batch /\ r.wake = sub[c].wake /\ r.at = "waiting"
    BY <1>0 DEF SubRow
  <2>2. sub' = [sub EXCEPT ![c] = r] /\ InHub(c) /\ UNCHANGED <<dataVars, userVars, wire, page, blind, unbuilt, troubles>>
    BY <1>11 DEF SendNext, SubAt, SubGoes, InHub
  <2> HIDE DEF r
  <2> QED
    BY <1>8, <1>11, <2>1, <2>2
<1>12. ASSUME SendNext(c), sub[c].batch # << >> PROVE EventInv'
  <2> DEFINE r == [sub[c] EXCEPT !.batch = Tail(sub[c].batch)]
             w == Append(wire[c], Head(sub[c].batch))
  <2>1. Tail(sub[c].batch) \in Seq(Kinds) /\ Head(sub[c].batch) \in Kinds
    BY <1>12, SubTyped, HeadTailProperties
  <2>2. /\ r \in SubRow /\ r.pending = sub[c].pending /\ r.batch = Tail(sub[c].batch) /\ r.wake = sub[c].wake
        /\ r.at = sub[c].at
    BY <1>0, <2>1 DEF SubRow
  <2>3. sub' = [sub EXCEPT ![c] = r] /\ wire' = [wire EXCEPT ![c] = w] /\ unbuilt' = unbuilt
        /\ UNCHANGED <<dataVars, userVars, page, blind>> /\ troubles' \in Nat /\ sub[c].at = "send"
    BY <1>12, SubTyped DEF SendNext, SubAt
  <2>4. w \in Seq(Kinds \union {"ready"}) /\ \A x : Contains(w, x) <=> Contains(wire[c], x) \/ x = Head(sub[c].batch)
    BY <2>1, SubTyped, ContainsAppend, AppendProperties
  <2>5. \A x : Contains(sub[c].batch, x) => x = Head(sub[c].batch) \/ Contains(Tail(sub[c].batch), x)
    BY <1>12, SubTyped, ContainsHead
  <2> HIDE DEF r, w
  <2>6. /\ Coming(c, "db_changed") => Coming(c, "db_changed")'
        /\ Coming(c, "app_built") => Coming(c, "app_built")'
        /\ Contains(wire[c], "ready") => Contains(wire'[c], "ready")
    BY <2>2, <2>3, <2>4, <2>5 DEF Coming, EventInv, EventTypeOK
  <2>7. RowsComing(c) => RowsComing(c)'
    BY <2>2, <2>3, <2>6 DEF RowsComing, InHub, EventInv, EventTypeOK
  <2> QED
    BY <2>2, <2>3, <2>4, <2>6, <2>7, SubTyped, SocketKeeps
<1> QED
  BY <1>1, <1>3, <1>5, <1>6, <1>7, <1>9, <1>10, <1>11, <1>12 DEF SocketStep

\* A page's record as it reads.
LEMMA PageRows ==
    ASSUME NEW p \in PageRow, NEW n \in Nat
    PROVE  /\ [p EXCEPT !.query = "read", !.got = n] \in PageRow /\ [p EXCEPT !.reload = "read", !.fetched = n] \in PageRow
           /\ p.got \in Nat /\ p.fetched \in Nat /\ p.again \in BOOLEAN /\ p.anew \in BOOLEAN
           /\ \A b : Rerun(b) \in {"none", "asked"}
BY DEF PageRow, Rerun

\* And every step of a page.
LEMMA PageStepInv ==
    ASSUME EventInv, NEW c \in Pages, PageStep(c)
    PROVE  EventInv'
<1>0. page[c] \in PageRow /\ writes \in Nat /\ builds \in Nat /\ owed \in [Kinds -> Nat]
  BY SubTyped DEF EventInv, EventTypeOK
<1>1. ASSUME OpenPage(c) PROVE EventInv'
  <2> DEFINE p == [Shut EXCEPT !.open = TRUE, !.query = "asked", !.runs = builds]
  <2>1. p \in PageRow /\ RowsGood(p) /\ BundleGood(p)
    BY <1>0 DEF Shut, PageRow, RowsGood, BundleGood
  <2>2. /\ page' = [page EXCEPT ![c] = p] /\ UNCHANGED <<dataVars, userVars, sub, wire>> /\ troubles' \in Nat
        /\ blind' = blind /\ unbuilt' = unbuilt \ {c}
    BY <1>1, SubTyped DEF OpenPage
  <2> HIDE DEF p
  <2>3. /\ blind' \in SUBSET Pages /\ unbuilt' \in SUBSET Pages
        /\ \A x \in Pages \ {c} : (x \in blind => x \in blind') /\ (x \in unbuilt => x \in unbuilt')
    BY <2>2, SubTyped
  <2> QED
    BY <2>1, <2>2, <2>3, PageKeeps
<1>2. ASSUME ReadRows(c) PROVE EventInv'
  <2> DEFINE p == [page[c] EXCEPT !.query = "read", !.got = writes]
  <2>1. /\ p \in PageRow /\ RowsGood(p) /\ p.open = page[c].open /\ (BundleGood(page[c]) => BundleGood(p))
    BY <1>0 DEF PageRow, RowsGood, BundleGood
  <2>2. /\ page' = [page EXCEPT ![c] = p] /\ UNCHANGED <<dataVars, userVars, sub, wire>> /\ troubles' \in Nat
        /\ blind' = blind \ {c} /\ unbuilt' = unbuilt
    BY <1>2, SubTyped DEF ReadRows
  <2> HIDE DEF p
  <2>3. /\ blind' \in SUBSET Pages /\ unbuilt' \in SUBSET Pages
        /\ \A x \in Pages \ {c} : (x \in blind => x \in blind') /\ (x \in unbuilt => x \in unbuilt')
    BY <2>2, SubTyped
  <2>4. BundleGood(p) \/ c \in unbuilt' \/ (page[c].open /\ (c \in unbuilt => c \in unbuilt') /\ ~BundleGood(page[c])) \/ ~p.open
    BY <2>1, <2>2
  <2> QED
    BY <2>1, <2>2, <2>3, <2>4, PageKeeps
<1>3. ASSUME ReadBundle(c) PROVE EventInv'
  <2> DEFINE p == [page[c] EXCEPT !.reload = "read", !.fetched = builds]
  <2>1. /\ p \in PageRow /\ BundleGood(p) /\ p.open = page[c].open /\ (RowsGood(page[c]) => RowsGood(p))
    BY <1>0 DEF PageRow, RowsGood, BundleGood
  <2>2. /\ page' = [page EXCEPT ![c] = p] /\ UNCHANGED <<dataVars, userVars, sub, wire>> /\ troubles' \in Nat
        /\ blind' = blind /\ unbuilt' = unbuilt \ {c}
    BY <1>3, SubTyped DEF ReadBundle
  <2> HIDE DEF p
  <2>3. /\ blind' \in SUBSET Pages /\ unbuilt' \in SUBSET Pages
        /\ \A x \in Pages \ {c} : (x \in blind => x \in blind') /\ (x \in unbuilt => x \in unbuilt')
    BY <2>2, SubTyped
  <2>4. RowsGood(p) \/ (page[c].open /\ (c \in blind => c \in blind') /\ ~RowsGood(page[c])) \/ ~p.open
    BY <2>1, <2>2
  <2> QED
    BY <2>1, <2>2, <2>3, <2>4, PageKeeps
\* A step that leaves what is on its way and what was missed, but for a build.
<1>4. ASSUME NEW p \in PageRow, page' = [page EXCEPT ![c] = p], UNCHANGED <<dataVars, userVars, sub, wire, blind>>, troubles' \in Nat,
             unbuilt' = unbuilt \/ unbuilt' = unbuilt \union {c}, p.open = page[c].open,
             RowsGood(page[c]) => RowsGood(p), BundleGood(page[c]) => BundleGood(p) \/ c \in unbuilt'
      PROVE  EventInv'
  <2>1. /\ blind' \in SUBSET Pages /\ unbuilt' \in SUBSET Pages
        /\ \A x \in Pages \ {c} : (x \in blind => x \in blind') /\ (x \in unbuilt => x \in unbuilt')
    BY <1>4, SubTyped
  <2>2. RowsGood(p) \/ (page[c].open /\ (c \in blind => c \in blind') /\ ~RowsGood(page[c])) \/ ~p.open
    BY <1>4
  <2>3. BundleGood(p) \/ c \in unbuilt' \/ (page[c].open /\ (c \in unbuilt => c \in unbuilt') /\ ~BundleGood(page[c])) \/ ~p.open
    BY <1>4
  <2>4. UNCHANGED <<dataVars, userVars, sub, wire>>
    BY <1>4
  <2> QED
    BY <1>4, <2>1, <2>2, <2>3, <2>4, PageKeeps
<1>5. ASSUME ShowRows(c) PROVE EventInv'
  <2>1. UNCHANGED <<dataVars, userVars, sub, wire, blind>> /\ troubles' \in Nat /\ unbuilt' = unbuilt
    BY <1>5, SubTyped DEF ShowRows, Trouble
  <2> DEFINE r == Rerun(page[c].again)
  <2>0. r \in {"none", "asked"} /\ page[c].got \in Nat /\ (r = "none" => ~page[c].again)
    BY <1>0, PageRows DEF Rerun
  <2>2. CASE /\ page[c].query = "read"
             /\ page' = [page EXCEPT ![c].query = Rerun(page[c].again), ![c].again = FALSE,
                                     ![c].shows = page[c].got, ![c].failed = FALSE]
    <3> DEFINE o == page[c]
           n == page[c].got
           p == [o EXCEPT !.query = r, !.again = FALSE, !.shows = n, !.failed = FALSE]
    <3>3. page' = [page EXCEPT ![c] = p]
      BY <2>2
    <3>4. o \in PageRow /\ n \in Nat
      BY <1>0, <2>0
    <3>5. o = page[c] /\ n = page[c].got
      OBVIOUS
    <3> HIDE DEF r, o, n
    <3>6. /\ p \in PageRow /\ p.open = o.open /\ p.reload = o.reload /\ p.anew = o.anew
          /\ p.fetched = o.fetched /\ p.runs = o.runs /\ p.query = r /\ p.shows = n
      BY <2>0, <3>4 DEF PageRow
    <3>1. /\ p \in PageRow /\ p.open = page[c].open /\ p.reload = page[c].reload /\ p.anew = page[c].anew
          /\ p.fetched = page[c].fetched /\ p.runs = page[c].runs /\ p.query = r /\ p.shows = page[c].got
      BY <3>5, <3>6
    <3> HIDE DEF p
    <3>2. (RowsGood(page[c]) => RowsGood(p)) /\ (BundleGood(page[c]) => BundleGood(p))
      BY <2>0, <2>2, <3>1 DEF RowsGood, BundleGood
    <3> QED
      BY <1>4, <2>1, <3>1, <3>2, <3>3
  <2>3. CASE /\ page[c].query # "none"
             /\ page' = [page EXCEPT ![c].query = Rerun(page[c].again), ![c].again = FALSE, ![c].failed = TRUE]
    <3> DEFINE o == page[c]
           p == [o EXCEPT !.query = r, !.again = FALSE, !.failed = TRUE]
    <3>3. page' = [page EXCEPT ![c] = p]
      BY <2>3
    <3>4. o \in PageRow
      BY <1>0, <2>0
    <3>5. o = page[c]
      OBVIOUS
    <3> HIDE DEF r, o
    <3>6. /\ p \in PageRow /\ p.open = o.open /\ p.reload = o.reload /\ p.anew = o.anew
          /\ p.fetched = o.fetched /\ p.runs = o.runs /\ p.query = r /\ p.failed
      BY <2>0, <3>4 DEF PageRow
    <3>1. /\ p \in PageRow /\ p.open = page[c].open /\ p.reload = page[c].reload /\ p.anew = page[c].anew
          /\ p.fetched = page[c].fetched /\ p.runs = page[c].runs /\ p.query = r /\ p.failed
      BY <3>5, <3>6
    <3> HIDE DEF p
    <3>2. RowsGood(p) /\ (BundleGood(page[c]) => BundleGood(p))
      BY <2>0, <3>1 DEF RowsGood, BundleGood
    <3> QED
      BY <1>4, <2>1, <3>1, <3>2, <3>3
  <2> QED
    BY <1>5, <2>2, <2>3 DEF ShowRows
<1>6. ASSUME LoadBundle(c) PROVE EventInv'
  <2>1. UNCHANGED <<dataVars, userVars, sub, wire, blind>> /\ troubles' \in Nat
    BY <1>6, SubTyped DEF LoadBundle, Trouble
  <2> DEFINE r == Rerun(page[c].anew)
  <2>0. r \in {"none", "asked"} /\ page[c].fetched \in Nat /\ (r = "none" => ~page[c].anew)
    BY <1>0, PageRows DEF Rerun
  <2>2. CASE /\ page[c].reload = "read" /\ unbuilt' = unbuilt
             /\ page' = [page EXCEPT ![c].reload = Rerun(page[c].anew), ![c].anew = FALSE, ![c].runs = page[c].fetched,
                                     ![c].query = "asked", ![c].again = FALSE]
    <3> DEFINE o == page[c]
           n == page[c].fetched
           p == [o EXCEPT !.reload = r, !.anew = FALSE, !.runs = n, !.query = "asked", !.again = FALSE]
    <3>3. page' = [page EXCEPT ![c] = p]
      BY <2>2
    <3>4. o \in PageRow /\ n \in Nat
      BY <1>0, <2>0
    <3>5. o = page[c] /\ n = page[c].fetched
      OBVIOUS
    <3> HIDE DEF r, o, n
    <3>6. p \in PageRow /\ p.open = o.open /\ p.reload = r /\ p.runs = n /\ p.query = "asked"
      BY <2>0, <3>4 DEF PageRow
    <3>1. p \in PageRow /\ p.open = page[c].open /\ p.reload = r /\ p.runs = page[c].fetched /\ p.query = "asked"
      BY <3>5, <3>6
    <3> HIDE DEF p
    <3>2. RowsGood(p) /\ (BundleGood(page[c]) => BundleGood(p))
      BY <2>0, <2>2, <3>1 DEF RowsGood, BundleGood
    <3> QED
      BY <1>4, <2>1, <2>2, <3>1, <3>2, <3>3
  <2>3. CASE /\ page[c].reload # "none" /\ unbuilt' = unbuilt \union {c}
             /\ page' = [page EXCEPT ![c].reload = Rerun(page[c].anew), ![c].anew = FALSE]
    <3> DEFINE o == page[c]
           p == [o EXCEPT !.reload = r, !.anew = FALSE]
    <3>3. page' = [page EXCEPT ![c] = p] /\ c \in unbuilt'
      BY <2>3
    <3>4. o \in PageRow
      BY <1>0, <2>0
    <3>5. o = page[c]
      OBVIOUS
    <3> HIDE DEF r, o
    <3>6. /\ p \in PageRow /\ p.open = o.open /\ p.query = o.query /\ p.again = o.again
          /\ p.got = o.got /\ p.shows = o.shows /\ p.failed = o.failed
      BY <2>0, <3>4 DEF PageRow
    <3>1. /\ p \in PageRow /\ p.open = page[c].open /\ p.query = page[c].query /\ p.again = page[c].again
          /\ p.got = page[c].got /\ p.shows = page[c].shows /\ p.failed = page[c].failed
      BY <3>5, <3>6
    <3> HIDE DEF p
    <3>2. RowsGood(page[c]) => RowsGood(p)
      BY <3>1 DEF RowsGood
    <3> QED
      BY <1>4, <2>1, <2>3, <3>1, <3>2, <3>3
  <2> QED
    BY <1>6, <2>2, <2>3 DEF LoadBundle
<1>7. ASSUME Receive(c) PROVE EventInv'
  <2> DEFINE h == Head(wire[c])
             w == Tail(wire[c])
             p == IF h = "app_built" THEN Reload(page[c]) ELSE Requery(page[c])
  <2>1. /\ wire' = [wire EXCEPT ![c] = w] /\ page' = [page EXCEPT ![c] = p] /\ wire[c] # << >>
        /\ UNCHANGED <<dataVars, userVars, sub, blind, unbuilt, troubles>>
    BY <1>7 DEF Receive
  <2>2. h \in Kinds \union {"ready"} /\ w \in Seq(Kinds \union {"ready"}) /\ \A x : Contains(wire[c], x) => x = h \/ Contains(w, x)
    <3>1. h \in Kinds \union {"ready"} /\ w \in Seq(Kinds \union {"ready"})
      BY <2>1, SubTyped, HeadTailProperties
    <3>2. wire[c] \in Seq(Kinds \union {"ready"}) /\ wire[c] # << >>
      BY <2>1, SubTyped
    <3>3. ASSUME NEW x PROVE Contains(wire[c], x) => x = h \/ Contains(w, x)
      BY <3>2, ContainsHead
    <3> QED
      BY <3>1, <3>3
  <2>3. Reload(page[c]) \in PageRow /\ Requery(page[c]) \in PageRow
    BY <1>0 DEF Reload, Requery, PageRow
  <2>4. /\ p \in PageRow /\ p.open = page[c].open
        /\ h = "app_built" => BundleGood(p) /\ (RowsGood(page[c]) => RowsGood(p))
        /\ h # "app_built" => RowsGood(p) /\ (BundleGood(page[c]) => BundleGood(p))
    BY <1>0, <2>3 DEF Reload, Requery, PageRow, RowsGood, BundleGood
  <2> HIDE DEF h, w, p
  <2>5. /\ \A x \in Pages \ {c} : wire'[x] = wire[x] /\ page'[x] = page[x]
        /\ wire'[c] = w /\ page'[c] = p
    BY <2>1 DEF EventInv, EventTypeOK
  <2>6. EventTypeOK'
    BY <2>1, <2>2, <2>4 DEF EventInv, EventTypeOK, dataVars, userVars
  <2>7. UNCHANGED <<writes, builds, owed, sub, blind, unbuilt>>
    BY <2>1 DEF dataVars
  <2>8. BacklogIsSmall' /\ BatchIsSent'
    <3>1. sub[c].at \notin {"opening", "read"}
      BY <2>1, SubTyped
    <3> QED
      BY <2>5, <2>7, <3>1 DEF EventInv, BacklogIsSmall, BatchIsSent
  <2>9. RowsFollow'
    <3> SUFFICES ASSUME NEW x \in Pages, page'[x].open
                 PROVE  owed'["db_changed"] > 0 \/ x \in blind' \/ RowsComing(x)' \/ RowsGood(page[x])'
      BY DEF RowsFollow
    <3>1. CASE x # c
      <4>1. owed["db_changed"] > 0 \/ x \in blind \/ RowsComing(x) \/ RowsGood(page[x])
        BY <2>5, <3>1 DEF EventInv, RowsFollow
      <4> QED
        BY <2>5, <2>7, <3>1, <4>1 DEF RowsComing, InHub, Coming, RowsGood
    <3>2. CASE x = c
      <4>1. owed["db_changed"] > 0 \/ c \in blind \/ RowsComing(c) \/ RowsGood(page[c])
        BY <2>4, <2>5, <3>2 DEF EventInv, RowsFollow
      <4>2. CASE h = "app_built"
        <5>1. RowsComing(c) => RowsComing(c)'
          BY <2>2, <2>5, <2>7, <4>2 DEF RowsComing, InHub, Coming
        <5>2. RowsGood(page[c]) => RowsGood(page[c])'
          BY <2>4, <2>5, <2>7, <4>2 DEF RowsGood
        <5> QED
          BY <2>7, <3>2, <4>1, <5>1, <5>2
      <4>3. CASE h # "app_built"
        BY <2>4, <2>5, <2>7, <3>2, <4>3 DEF RowsGood
      <4> QED
        BY <4>2, <4>3
    <3> QED
      BY <3>1, <3>2
  <2>10. BundleFollows'
    <3> SUFFICES ASSUME NEW x \in Pages, page'[x].open
                 PROVE  owed'["app_built"] > 0 \/ x \in unbuilt' \/ Coming(x, "app_built")' \/ BundleGood(page[x])'
      BY DEF BundleFollows
    <3>1. CASE x # c
      <4>1. owed["app_built"] > 0 \/ x \in unbuilt \/ Coming(x, "app_built") \/ BundleGood(page[x])
        BY <2>5, <3>1 DEF EventInv, BundleFollows
      <4> QED
        BY <2>5, <2>7, <3>1, <4>1 DEF Coming, BundleGood
    <3>2. CASE x = c
      <4>1. owed["app_built"] > 0 \/ c \in unbuilt \/ Coming(c, "app_built") \/ BundleGood(page[c])
        BY <2>4, <2>5, <3>2 DEF EventInv, BundleFollows
      <4>2. CASE h # "app_built"
        <5>1. Coming(c, "app_built") => Coming(c, "app_built")'
          BY <2>2, <2>5, <2>7, <4>2 DEF Coming
        <5>2. BundleGood(page[c]) => BundleGood(page[c])'
          BY <2>4, <2>5, <2>7, <4>2 DEF BundleGood
        <5> QED
          BY <2>7, <3>2, <4>1, <5>1, <5>2
      <4>3. CASE h = "app_built"
        BY <2>4, <2>5, <2>7, <3>2, <4>3 DEF BundleGood
      <4> QED
        BY <4>2, <4>3
    <3> QED
      BY <3>1, <3>2
  <2> QED
    BY <2>6, <2>8, <2>9, <2>10 DEF EventInv
<1> QED
  BY <1>1, <1>2, <1>3, <1>5, <1>6, <1>7 DEF PageStep

LEMMA OwedTyped ==
    ASSUME EventInv, NEW k \in Kinds
    PROVE  /\ owed[k] \in Nat /\ [owed EXCEPT ![k] = @ + 1] \in [Kinds -> Nat] /\ owed["db_changed"] \in Nat /\ owed["app_built"] \in Nat
           /\ owed[k] > 0 => [owed EXCEPT ![k] = @ - 1] \in [Kinds -> Nat]
<1>1. owed \in [Kinds -> Nat] /\ "db_changed" \in Kinds /\ "app_built" \in Kinds
  BY DEF EventInv, EventTypeOK, Kinds
<1>2. owed[k] \in Nat
  BY <1>1
<1>3. owed[k] + 1 \in Nat /\ (owed[k] > 0 => owed[k] - 1 \in Nat)
  BY <1>2
<1> QED
  BY <1>1, <1>2, <1>3

\* What changes, and who is told.
LEMMA ChangesInv ==
    ASSUME EventInv, WriteRows \/ RecordBuild
    PROVE  EventInv'
<1>1. /\ UNCHANGED <<userVars, sub, wire, page, blind, unbuilt, troubles>>
      /\ writes' \in Nat /\ builds' \in Nat /\ owed' \in [Kinds -> Nat]
  BY OwedTyped DEF WriteRows, RecordBuild, EventInv, EventTypeOK, Kinds
<1>2. /\ owed'["db_changed"] > 0 \/ (writes' = writes /\ owed'["db_changed"] = owed["db_changed"])
      /\ owed'["app_built"] > 0 \/ (builds' = builds /\ owed'["app_built"] = owed["app_built"])
  BY OwedTyped DEF WriteRows, RecordBuild, EventInv, EventTypeOK, Kinds
<1>3. EventTypeOK'
  BY <1>1 DEF EventInv, EventTypeOK, userVars
<1>4. BacklogIsSmall' /\ BatchIsSent'
  BY <1>1 DEF EventInv, BacklogIsSmall, BatchIsSent
<1>5. \A x \in Pages, k \in Kinds : (RowsComing(x) => RowsComing(x)') /\ (Coming(x, k) => Coming(x, k)')
  BY <1>1 DEF RowsComing, Coming, InHub
<1>6. RowsFollow'
  BY <1>1, <1>2, <1>5 DEF EventInv, RowsFollow, RowsGood, Kinds
<1>7. BundleFollows'
  BY <1>1, <1>2, <1>5 DEF EventInv, BundleFollows, BundleGood, Kinds
<1> QED
  BY <1>3, <1>4, <1>6, <1>7 DEF EventInv

LEMMA PublishInv ==
    ASSUME EventInv, NEW k \in Kinds, PublishEvent(k)
    PROVE  EventInv'
<1> DEFINE Told(c) == InHub(c) /\ sub[c].knows
<1>1. /\ UNCHANGED <<writes, builds, belongs, signedIn, wire, page, troubles>> /\ owed' \in [Kinds -> Nat]
      /\ \A x \in Kinds \ {k} : owed'[x] = owed[x]
  BY OwedTyped DEF PublishEvent, userVars, EventInv, EventTypeOK
<1>2. \A c \in Pages : Told(c) => sub'[c] = [sub[c] EXCEPT !.pending = Coalesced(sub[c].pending, k), !.wake = TRUE]
  BY DEF PublishEvent
<1>3. \A c \in Pages : ~Told(c) => sub'[c] = sub[c]
  BY DEF PublishEvent
<1>4. ASSUME NEW c \in Pages
      PROVE  /\ sub'[c] \in SubRow /\ IsInjective(sub'[c].pending) /\ (sub'[c].pending # << >> => sub'[c].wake)
             /\ sub'[c].at = sub[c].at /\ sub'[c].batch = sub[c].batch
             /\ \A x : Contains(sub[c].pending, x) => Contains(sub'[c].pending, x)
             /\ Told(c) => Contains(sub'[c].pending, k)
  <2>1. /\ Coalesced(sub[c].pending, k) \in Seq(Kinds) /\ IsInjective(Coalesced(sub[c].pending, k))
        /\ Contains(Coalesced(sub[c].pending, k), k)
        /\ \A x : Contains(sub[c].pending, x) => Contains(Coalesced(sub[c].pending, k), x)
    BY SubTyped, CoalescedDoes
  <2> DEFINE q == Coalesced(sub[c].pending, k)
             r == [sub[c] EXCEPT !.pending = q, !.wake = TRUE]
  <2> HIDE DEF q
  <2>2. q \in Seq(Kinds)
    BY <2>1 DEF q
  <2>3. r \in SubRow /\ r.pending = q /\ r.wake = TRUE /\ r.at = sub[c].at /\ r.batch = sub[c].batch
    BY <2>2, SubTyped DEF SubRow
  <2>4. Told(c) => sub'[c] = r
    BY <1>2 DEF q
  <2> HIDE DEF r
  <2> QED
    BY <1>3, <2>1, <2>3, <2>4, SubTyped DEF q
<1>5. /\ blind \subseteq blind' /\ blind' \in SUBSET Pages /\ unbuilt \subseteq unbuilt' /\ unbuilt' \in SUBSET Pages
      /\ k = "db_changed" => \A c \in Pages : InHub(c) /\ ~Told(c) => c \in blind'
      /\ k = "app_built" => \A c \in Pages : ~Told(c) => c \in unbuilt'
  BY SubTyped DEF PublishEvent, EventInv, EventTypeOK
<1> HIDE DEF Told
<1>6. EventTypeOK'
  <2>1. sub' \in [Pages -> SubRow]
    BY <1>4 DEF PublishEvent
  <2> QED
    BY <1>1, <1>5, <2>1 DEF EventInv, EventTypeOK
<1>7. BacklogIsSmall' /\ BatchIsSent'
  BY <1>1, <1>4 DEF EventInv, BacklogIsSmall, BatchIsSent
<1>8. /\ \A c \in Pages : (RowsComing(c) => RowsComing(c)') /\ (Coming(c, "app_built") => Coming(c, "app_built")')
      /\ \A c \in Pages : Told(c) => Coming(c, k)'
      /\ \A c \in Pages : InHub(c)' = InHub(c)
  BY <1>1, <1>4 DEF RowsComing, Coming, InHub
<1>9. \A c \in Pages : (RowsGood(page[c]) => RowsGood(page[c])') /\ (BundleGood(page[c]) => BundleGood(page[c])')
  BY <1>1 DEF RowsGood, BundleGood
<1>10. RowsFollow'
  <2>1. CASE k = "db_changed"
    BY <1>1, <1>5, <1>8, <2>1 DEF RowsFollow, RowsComing
  <2>2. CASE k # "db_changed"
    BY <1>1, <1>5, <1>8, <1>9, <2>2 DEF EventInv, RowsFollow, Kinds
  <2> QED
    BY <2>1, <2>2
<1>11. BundleFollows'
  <2>1. CASE k = "app_built"
    BY <1>1, <1>5, <1>8, <2>1 DEF BundleFollows
  <2>2. CASE k # "app_built"
    BY <1>1, <1>5, <1>8, <1>9, <2>2 DEF EventInv, BundleFollows, Kinds
  <2> QED
    BY <2>1, <2>2
<1> QED
  BY <1>6, <1>7, <1>10, <1>11 DEF EventInv

LEMMA HubRestartsInv ==
    ASSUME EventInv, HubRestarts
    PROVE  EventInv'
<1>1. /\ UNCHANGED <<writes, builds, belongs, signedIn, wire, page, blind>> /\ troubles' \in Nat
      /\ \A c \in Pages : sub'[c] = SubOff /\ (owed["app_built"] > 0 \/ Unsent(c) => c \in unbuilt')
      /\ unbuilt \subseteq unbuilt' /\ unbuilt' \in SUBSET Pages /\ owed' \in [Kinds -> Nat] /\ sub' \in [Pages -> SubRow]
  BY SubTyped, SubOffIs DEF HubRestarts, Trouble, userVars, EventInv, EventTypeOK
<1>2. EventTypeOK'
  BY <1>1 DEF EventInv, EventTypeOK
<1>3. BacklogIsSmall' /\ BatchIsSent'
  BY <1>1, SubOffIs DEF BacklogIsSmall, BatchIsSent
<1>4. RowsFollow'
  BY <1>1, SubOffIs DEF RowsFollow, RowsComing, InHub
<1>5. BundleFollows'
  <2>1. \A c \in Pages : Coming(c, "app_built") => c \in unbuilt' \/ Coming(c, "app_built")'
    BY <1>1 DEF Coming, Unsent
  <2> QED
    BY <1>1, <2>1 DEF EventInv, BundleFollows, BundleGood
<1> QED
  BY <1>2, <1>3, <1>4, <1>5 DEF EventInv

\* Nothing that the invariant speaks of.
LEMMA EventIdle ==
    ASSUME EventInv, UNCHANGED <<dataVars, sub, wire, page, blind, unbuilt>>, troubles' \in Nat,
           belongs' \in [Pages -> BOOLEAN], signedIn' \in [Pages -> BOOLEAN]
    PROVE  EventInv'
<1>1. UNCHANGED <<writes, builds, owed, sub, wire, page, blind, unbuilt>>
  BY DEF dataVars
<1>2. EventTypeOK'
  BY <1>1 DEF EventInv, EventTypeOK
<1>3. BacklogIsSmall' /\ BatchIsSent'
  BY <1>1 DEF EventInv, BacklogIsSmall, BatchIsSent
<1>4. RowsFollow'
  BY <1>1 DEF EventInv, RowsFollow, RowsComing, Coming, InHub, RowsGood
<1>5. BundleFollows'
  BY <1>1 DEF EventInv, BundleFollows, Coming, BundleGood
<1> QED
  BY <1>2, <1>3, <1>4, <1>5 DEF EventInv

LEMMA EventStep == EventInv /\ [EventNext]_eventVars => EventInv'
<1> SUFFICES ASSUME EventInv, [EventNext]_eventVars PROVE EventInv'
  OBVIOUS
<1>1. ASSUME NEW c \in Pages, UserChanges(c) PROVE EventInv'
  <2>1. UNCHANGED <<dataVars, sub, wire, page, blind, unbuilt>> /\ troubles' \in Nat
    BY <1>1, SubTyped DEF UserChanges, Trouble
  <2>2. belongs' \in [Pages -> BOOLEAN] /\ signedIn' \in [Pages -> BOOLEAN]
    <3>1. belongs \in [Pages -> BOOLEAN] /\ signedIn \in [Pages -> BOOLEAN]
      BY DEF EventInv, EventTypeOK
    <3>2. [belongs EXCEPT ![c] = ~@] \in [Pages -> BOOLEAN]
      BY <3>1, Zenon
    <3> QED
      BY <1>1, <3>1, <3>2 DEF UserChanges
  <2> QED
    BY <2>1, <2>2, EventIdle
<1>2. CASE UNCHANGED eventVars
  <2>1. UNCHANGED <<dataVars, sub, wire, page, blind, unbuilt>> /\ UNCHANGED <<belongs, signedIn, troubles>>
    BY <1>2 DEF eventVars, userVars
  <2>2. troubles' \in Nat /\ belongs' \in [Pages -> BOOLEAN] /\ signedIn' \in [Pages -> BOOLEAN]
    BY <2>1 DEF EventInv, EventTypeOK
  <2> QED
    BY <2>1, <2>2, EventIdle
<1> QED
  BY <1>1, <1>2, ChangesInv, PublishInv, HubRestartsInv, SocketStepInv, PageStepInv DEF EventNext

\* "Events are coalesced per key while a socket hasn't taken them yet": none is lost, a page that comes to rest shows
\* the latest rows and runs the latest bundle, with the exceptions PagesKeepUp names.
THEOREM EventsDoArrive == EventSpec => []EventsArrive
<1>1. EventInit => EventInv
  BY EventInitInv
<1>2. EventInv /\ [EventNext]_eventVars => EventInv'
  BY EventStep
<1>3. EventInv => EventsArrive
  <2> SUFFICES ASSUME EventInv PROVE PagesKeepUp
    BY DEF EventInv, EventsArrive
  <2>1. ASSUME NEW c \in Pages, NEW k \in Kinds, Quiet(c, k) PROVE ~Coming(c, k) /\ ~Contains(wire[c], "ready") /\ InHub(c)
    BY <2>1, SubTyped, ContainsNothing DEF Quiet, SubAt, Coming, InHub
  <2>2. ASSUME NEW c \in Pages, Quiet(c, "db_changed") PROVE page[c].shows = writes \/ page[c].failed \/ c \in blind
    <3>1. ~RowsComing(c)
      BY <2>1, <2>2 DEF RowsComing, Kinds
    <3>2. page[c].open /\ owed["db_changed"] = 0 /\ page[c].query = "none"
      BY <2>2 DEF Quiet
    <3>3. RowsGood(page[c]) \/ c \in blind
      BY <2>2, <3>1, <3>2 DEF EventInv, RowsFollow
    <3> QED
      BY <3>2, <3>3 DEF RowsGood
  <2>3. ASSUME NEW c \in Pages, Quiet(c, "app_built") PROVE page[c].runs = builds \/ c \in unbuilt
    <3>1. ~Coming(c, "app_built")
      BY <2>1, <2>3 DEF Kinds
    <3>2. page[c].open /\ owed["app_built"] = 0 /\ page[c].reload = "none"
      BY <2>3 DEF Quiet
    <3>3. BundleGood(page[c]) \/ c \in unbuilt
      BY <2>3, <3>1, <3>2 DEF EventInv, BundleFollows
    <3> QED
      BY <3>2, <3>3 DEF BundleGood
  <2> QED
    BY <2>2, <2>3 DEF PagesKeepUp
<1> QED
  BY <1>1, <1>2, <1>3, PTL DEF EventSpec
===============================================================================
