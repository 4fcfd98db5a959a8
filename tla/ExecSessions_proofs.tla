------------------------- MODULE ExecSessions_proofs -------------------------
(***************************************************************************)
(* Proofs about the two halves of the exec manager.                        *)
(*                                                                         *)
(* ExecSessions, for any number of calls and any bounds: its type          *)
(* invariant, that a hung command does not outlive its request, and that   *)
(* the reaper spares the containers in use.                                *)
(*                                                                         *)
(* BuildRunner, for any builds, any number of slots and any bounds: its    *)
(* type invariant, and that while the manager serves every container is in *)
(* a task's hands and no more of them run than there are slots.            *)
(***************************************************************************)
EXTENDS ExecSessions, BuildRunner, FiniteSetTheorems, SequenceTheorems, TLAPS

-----------------------------------------------------------------------------
(* The sessions.                                                           *)

Uses     == [known : BOOLEAN, at : 0..now]
ToolSays == {"idle", "waiting", "answered", "failed"}

\* TypeOK by its named sets.
LEMMA TypeParts ==
    TypeOK <=> /\ now \in Nat /\ policy \in Nat /\ boxes \in Nat /\ left \in Nat
               /\ box \in Containers /\ lastUsed \in Uses
               /\ call \in [Calls -> Requests] /\ command \in [Calls -> Commands]
               /\ tool \in [Calls -> ToolSays] /\ remover \in [Removers -> Removals]
BY DEF TypeOK, Uses, ToolSays

LEMMA TypePartsNext ==
    TypeOK' <=> /\ now' \in Nat /\ policy' \in Nat /\ boxes' \in Nat /\ left' \in Nat
                /\ box' \in Containers' /\ lastUsed' \in Uses'
                /\ call' \in [Calls -> Requests'] /\ command' \in [Calls -> Commands']
                /\ tool' \in [Calls -> ToolSays] /\ remover' \in [Removers -> Removals']
BY DEF TypeOK, Uses, ToolSays

\* The sets depend on the clock, the grants and the containers made alone.
LEMMA SameSets ==
    ASSUME UNCHANGED <<now, policy, boxes>>
    PROVE  /\ Containers' = Containers /\ Requests' = Requests /\ Commands' = Commands
           /\ Removals' = Removals /\ Uses' = Uses
BY DEF Containers, Requests, Commands, Removals, Uses

\* ... and grow with them.
LEMMA LargerSets ==
    ASSUME TypeOK, now' \in Nat, policy' \in Nat, boxes' \in Nat,
           now' >= now, policy' >= policy, boxes' >= boxes
    PROVE  /\ Containers \subseteq Containers' /\ Requests \subseteq Requests'
           /\ Commands \subseteq Commands' /\ Removals \subseteq Removals' /\ Uses \subseteq Uses'
<1>1. 0..now \subseteq 0..now' /\ 0..policy \subseteq 0..policy' /\ 0..boxes \subseteq 0..boxes'
  BY TypeParts
<1> QED  BY <1>1 DEF Containers, Requests, Commands, Removals, Uses

\* A request that has ended.
LEMMA OverType ==
    ASSUME TypeOK, NEW how \in Steps
    PROVE  Over(how) \in Requests
BY DEF TypeOK, Over, Requests

\* ... or was cut off with its command going on.
LEMMA OffType ==
    ASSUME TypeOK, NEW c \in Calls, NEW how \in Steps
    PROVE  Off(c, how) \in Requests
<1>1. call[c].since \in 0..now /\ Over(how) \in Requests
  BY OverType, TypeParts DEF Requests
<1> QED  BY <1>1 DEF Off, Requests

\* Moving a request on keeps it a request.
LEMMA MoveType ==
    ASSUME TypeOK, NEW c \in Calls, NEW s \in Steps, At(c, s)
    PROVE  call' \in [Calls -> Requests]
<1>1. call[c] \in Requests
  BY TypeParts
<1>2. [call[c] EXCEPT !.at = s] \in Requests
  BY <1>1 DEF Requests
<1> QED  BY <1>2, TypeParts DEF At

\* ... and so do the fields its steps set.
LEMMA FieldsType ==
    ASSUME NEW r \in Requests, NEW s \in Steps, NEW b \in 0..boxes,
           NEW g \in 0..policy, NEW t \in 0..now
    PROVE  /\ [r EXCEPT !.at = s, !.box = b] \in Requests
           /\ [r EXCEPT !.at = s, !.inner = TRUE] \in Requests
           /\ [r EXCEPT !.at = s, !.since = t] \in Requests
           /\ [r EXCEPT !.at = s, !.grants = g, !.asked = t] \in Requests
BY DEF Requests

\* ... with a container just made.
LEMMA FieldsTypeNext ==
    ASSUME NEW r \in Requests', NEW s \in Steps, NEW b \in 0..boxes'
    PROVE  [r EXCEPT !.at = s, !.box = b] \in Requests'
BY DEF Requests

\* A container that starts or stops is one still.
LEMMA StatusType ==
    ASSUME NEW x \in Containers, NEW t \in 0..now
    PROVE  /\ [x EXCEPT !.status = "running", !.started = t] \in Containers
           /\ [x EXCEPT !.status = "stopped"] \in Containers
BY DEF Containers

LEMMA StoppedType ==
    ASSUME TypeOK, NEW id
    PROVE  Stopped(id) \in Containers
BY TypeParts DEF Stopped, Containers

\* Killing the commands of a container leaves every other one as it is.
LEMMA KilledType ==
    ASSUME TypeOK, NEW id
    PROVE  Killed(id) \in [Calls -> Commands]
BY TypeParts DEF Killed, Commands

\* Removing a container leaves the name free or to another one.
LEMMA RemovedType ==
    ASSUME TypeOK, NEW id
    PROVE  Removed(id) \in Containers
BY TypeParts DEF Removed, None, Containers

\* The time a session counts as used since is not in the future.
LEMMA LastUseType ==
    ASSUME TypeOK
    PROVE  LastUse \in 0..now
BY TypeParts DEF LastUse, Uses, Containers

\* What the manager does for a call keeps the types.
LEMMA ServeType ==
    ASSUME TypeOK, NEW c \in Calls, Progress(c)
    PROVE  TypeOK'
<1> USE DEF callVars
<1>1. Over("failed") \in Requests /\ Over("done") \in Requests
  BY OverType DEF Steps
<1>2. Used(now) \in Uses
  BY TypeParts DEF Used, Uses
<1>3. call[c] \in Requests /\ box \in Containers
  BY TypeParts
<1>4. box.id \in 0..boxes /\ now \in 0..now /\ policy \in 0..policy
  BY <1>3, TypeParts DEF Containers
<1>5. CASE Look(c)
  <2>1. call' \in [Calls -> Requests]
    <3>1. [call[c] EXCEPT !.at = "removeOld", !.box = box.id] \in Requests
      BY <1>3, <1>4, FieldsType DEF Steps
    <3>2. CASE call' = [call EXCEPT ![c].at = "removeOld", ![c].box = box.id]
      BY <3>1, <3>2, TypeParts
    <3>3. CASE At(c, "create") \/ At(c, AfterEnsure(c))
      BY <3>3, MoveType DEF AfterEnsure, Steps
    <3> QED  BY <1>5, <3>2, <3>3 DEF Look
  <2> QED  BY <1>2, <1>5, <2>1, SameSets, TypeParts, TypePartsNext DEF Look, Touch
<1>6. CASE RemoveOld(c)
  <2>1. call' \in [Calls -> Requests] /\ tool' \in [Calls -> ToolSays]
    BY <1>1, <1>6, MoveType, TypeParts DEF RemoveOld, Fail, Steps, ToolSays
  <2> QED  BY <1>6, <2>1, KilledType, RemovedType, SameSets, TypeParts, TypePartsNext DEF RemoveOld
<1>7. CASE Create(c)
  <2>1. CASE box.id # 0
    BY <1>1, <1>7, <2>1, SameSets, TypeParts, TypePartsNext DEF Create, Fail, ToolSays
  <2>2. CASE box.id = 0
    <3>1. boxes' \in Nat /\ boxes' >= boxes /\ boxes' \in 0..boxes' /\ UNCHANGED <<now, policy>>
      BY <1>7, <2>2, TypeParts DEF Create
    <3>2. box' \in Containers'
      <4>1. call[c].grants \in 0..policy /\ 0 \in 0..now
        BY <1>3, TypeParts DEF Requests
      <4> QED  BY <1>7, <2>2, <3>1, <4>1 DEF Create, Made, Containers
    <3>3. [call[c] EXCEPT !.at = "start", !.box = boxes'] \in Requests'
      <4>1. call[c] \in Requests'
        BY <1>3, <3>1, LargerSets, TypeParts
      <4> QED  BY <3>1, <4>1, FieldsTypeNext DEF Steps
    <3>4. call' \in [Calls -> Requests']
      <4>1. call \in [Calls -> Requests']
        BY <3>1, LargerSets, TypeParts
      <4>2. call' = [call EXCEPT ![c].at = "start", ![c].box = boxes']
        BY <1>7, <2>2 DEF Create
      <4> QED  BY <3>3, <4>1, <4>2
    <3> QED  BY <1>7, <2>2, <3>1, <3>2, <3>4, LargerSets, TypeParts, TypePartsNext DEF Create
  <2> QED  BY <2>1, <2>2
<1>8. CASE Start(c)
  <2>1. [box EXCEPT !.status = "running", !.started = now] \in Containers
    BY <1>3, <1>4, StatusType
  <2>2. call' \in [Calls -> Requests] /\ tool' \in [Calls -> ToolSays]
    BY <1>1, <1>8, MoveType, TypeParts DEF Start, AfterEnsure, Fail, Steps, ToolSays
  <2> QED  BY <1>2, <1>8, <2>1, <2>2, SameSets, TypeParts, TypePartsNext DEF Start, Started, Touch
<1>9. CASE Find(c)
  <2>1. /\ [call[c] EXCEPT !.at = "run", !.box = box.id] \in Requests
        /\ [call[c] EXCEPT !.at = "look", !.inner = TRUE] \in Requests
    BY <1>3, <1>4, FieldsType DEF Steps
  <2> QED  BY <1>1, <1>9, <2>1, SameSets, TypeParts, TypePartsNext DEF Find, Fail, ToolSays
<1>10. CASE Refind(c)
  <2>1. [call[c] EXCEPT !.at = "run", !.box = box.id] \in Requests
    BY <1>3, <1>4, FieldsType DEF Steps
  <2> QED  BY <1>10, <2>1, SameSets, TypeParts, TypePartsNext DEF Refind
<1>11. CASE Run(c)
  <2>1. /\ [call[c] EXCEPT !.at = "waiting", !.since = now] \in Requests
        /\ [box |-> box.id, status |-> "running"] \in Commands
    BY <1>3, <1>4, FieldsType DEF Commands, Steps
  <2> QED  BY <1>1, <1>2, <1>11, <2>1, SameSets, TypeParts, TypePartsNext
              DEF Run, Exec, Touch, Fail, ToolSays
<1>12. CASE CommandEnds(c)
  <2>1. [box |-> 0, status |-> "ended"] \in Commands
    BY TypeParts DEF Commands
  <2> QED  BY <1>1, <1>12, <2>1, SameSets, TypeParts, TypePartsNext DEF CommandEnds, Answered, ToolSays
<1>13. CASE Answer(c)
  BY <1>1, <1>13, SameSets, TypeParts, TypePartsNext DEF Answer, Answered, ToolSays
<1>14. CASE OuterTimeout(c)
  BY <1>1, <1>14, KilledType, RemovedType, SameSets, TypeParts, TypePartsNext
     DEF OuterTimeout, ForceRemove, Answered, ToolSays
<1>15. CASE Execute(c)
  <2>1. [call[c] EXCEPT !.at = "find", !.grants = policy, !.asked = now] \in Requests
    BY <1>3, <1>4, FieldsType DEF Steps
  <2> QED  BY <1>1, <1>15, <2>1, SameSets, TypeParts, TypePartsNext DEF Execute
<1>16. CASE GiveUp(c)
  BY <1>16, SameSets, TypeParts, TypePartsNext DEF GiveUp, ToolSays
<1> QED  BY <1>5, <1>6, <1>7, <1>8, <1>9, <1>10, <1>11, <1>12, <1>13, <1>14, <1>15, <1>16
            DEF Progress, Serve

\* ... and so does Docker when it fails it.
LEMMA DockerFailsType ==
    ASSUME TypeOK, NEW c \in Calls, DockerFails(c) \/ ForceRemoveFails(c)
    PROVE  TypeOK'
<1>1. call' \in [Calls -> Requests] /\ tool' \in [Calls -> ToolSays] /\ left' \in Nat
  <2>1. PICK says \in {"answered", "failed"} : Cut(c, says)
    BY DEF DockerFails, ForceRemoveFails
  <2>2. Off(c, "cut") \in Requests
    BY OffType DEF Steps
  <2> QED  BY <2>1, <2>2, TypeParts DEF Cut, DockerFails, ForceRemoveFails, Happens, ToolSays
<1>2. lastUsed' \in Uses /\ UNCHANGED <<now, policy, remover>>
  <2>1. lastUsed' = lastUsed \/ lastUsed' = Used(now)
    BY DEF DockerFails, ForceRemoveFails
  <2>2. Used(now) \in Uses /\ UNCHANGED <<now, policy, remover>>
    BY TypeParts DEF DockerFails, ForceRemoveFails, Used, Uses
  <2>3. now' = now
    BY <2>2
  <2> QED  BY <2>1, <2>2, <2>3, TypeParts
<1>3. CASE UNCHANGED boxes /\ box' \in Containers /\ command' \in [Calls -> Commands]
  BY <1>1, <1>2, <1>3, SameSets, TypeParts, TypePartsNext
<1>4. CASE boxes' = boxes + 1 /\ box' = Made(call[c].grants) /\ UNCHANGED command
  <2>1. boxes' \in Nat /\ boxes' >= boxes /\ boxes' \in 0..boxes' /\ 0 \in 0..now
    BY <1>4, TypeParts
  <2>2. box' \in Containers'
    <3>1. call[c].grants \in 0..policy
      BY TypeParts DEF Requests
    <3> QED  BY <1>2, <1>4, <2>1, <3>1 DEF Made, Containers
  <2> QED  BY <1>1, <1>2, <1>4, <2>1, <2>2, LargerSets, TypeParts, TypePartsNext
<1>5. \/ UNCHANGED boxes /\ box' \in Containers /\ command' \in [Calls -> Commands]
      \/ boxes' = boxes + 1 /\ box' = Made(call[c].grants) /\ UNCHANGED command
  <2>1. CASE UNCHANGED <<box, boxes, command>>
    BY <2>1, TypeParts
  <2>2. CASE ForceRemove(call[c].box) /\ UNCHANGED boxes
    BY <2>2, KilledType, RemovedType DEF ForceRemove
  <2>3. CASE box' = Started /\ UNCHANGED <<boxes, command>>
    <3>1. box \in Containers /\ now \in 0..now
      BY TypeParts
    <3> QED  BY <2>3, <3>1, StatusType, TypeParts DEF Started
  <2>4. CASE box' = Stopped(call[c].box) /\ command' = Killed(call[c].box) /\ UNCHANGED boxes
    BY <2>4, KilledType, StoppedType
  <2>5. CASE DockerFails(c)
    BY <2>1, <2>2, <2>3, <2>5 DEF DockerFails
  <2>6. CASE ForceRemoveFails(c)
    BY <2>1, <2>2, <2>4, <2>6 DEF ForceRemoveFails
  <2> QED  BY <2>5, <2>6
<1> QED  BY <1>3, <1>4, <1>5

\* Every variable keeps to its set, whatever the threads, the reaper and
\* DELETE do between one another's Docker calls (sessions.py).
THEOREM TypeCorrect == Spec => []TypeOK
<1>1. Init => TypeOK
  BY TimesAssumption, BoundsAssumption
     DEF Init, TypeOK, None, Over, Unknown, Requests, Containers, Commands, Removals, Steps
<1>2. TypeOK /\ [Next]_vars => TypeOK'
  <2> SUFFICES ASSUME TypeOK, [Next]_vars PROVE TypeOK'
    OBVIOUS
  <2> USE DEF callVars
  <2>1. ASSUME NEW c \in Calls, Request(c) PROVE TypeOK'
    <3>1. [call[c] EXCEPT !.at = "look", !.grants = policy, !.asked = now] \in Requests
      <4>1. call[c] \in Requests /\ now \in 0..now /\ policy \in 0..policy /\ 0 \in 0..boxes
        BY TypeParts
      <4> QED  BY <4>1, FieldsType DEF Steps
    <3> QED  BY <2>1, <3>1, SameSets, TypeParts, TypePartsNext DEF Request, ToolSays
  <2>2. ASSUME NEW c \in Calls, Hang(c) PROVE TypeOK'
    <3>1. [command[c] EXCEPT !.status = "hung"] \in Commands
      BY TypeParts DEF Commands
    <3> QED  BY <2>2, <3>1, SameSets, TypeParts, TypePartsNext DEF Hang, Happens
  <2>3. CASE Reap
    <3>1. [at |-> "stopping", box |-> box.id] \in Removals
      BY TypeParts DEF Removals, Containers
    <3> QED  BY <2>3, <3>1, LastUseType, SameSets, TypeParts, TypePartsNext DEF Reap, Adopted, Used, Uses
  <2>4. ASSUME NEW p \in Removers, Removal(p) PROVE TypeOK'
    <3>1. remover[p] \in Removals /\ box \in Containers /\ now \in 0..now
      BY TypeParts
    <3>2. CASE Stop(p)
      <4>1. [remover[p] EXCEPT !.at = "removing"] \in Removals
        BY <3>1 DEF Removals
      <4> QED  BY <3>2, <4>1, KilledType, StoppedType, SameSets, TypeParts, TypePartsNext DEF Stop
    <3>3. CASE Remove(p)
      <4>1. \A a \in {"off", "forgetting"} : [at |-> a, box |-> 0] \in Removals
        BY TypeParts DEF Removals
      <4> QED  BY <3>3, <4>1, KilledType, RemovedType, SameSets, TypeParts, TypePartsNext DEF Remove
    <3>4. CASE Forget(p)
      <4>1. [remover[p] EXCEPT !.at = "off"] \in Removals /\ Unknown \in Uses
        BY <3>1, TypeParts DEF Removals, Uses, Unknown
      <4> QED  BY <3>4, <4>1, SameSets, TypeParts, TypePartsNext DEF Forget
    <3> QED  BY <2>4, <3>2, <3>3, <3>4 DEF Removal
  <2>5. CASE Delete
    <3>1. \A a \in {"stopping", "forgetting"} : [at |-> a, box |-> box.id] \in Removals
      BY TypeParts DEF Removals, Containers
    <3>2. PICK a \in {"stopping", "forgetting"} :
               remover' = [remover EXCEPT !["delete"] = [at |-> a, box |-> box.id]]
      BY <2>5 DEF Delete
    <3>3. remover' \in [Removers -> Removals]
      <4>1. remover \in [Removers -> Removals] /\ [at |-> a, box |-> box.id] \in Removals
        BY <3>1, TypeParts
      <4> QED  BY <3>2, <4>1, Zenon
    <3> QED  BY <2>5, <3>3, SameSets, TypeParts, TypePartsNext DEF Delete, Happens
  <2>6. CASE PolicyChanges
    BY <2>6, LargerSets, TypeParts, TypePartsNext DEF PolicyChanges, Happens
  <2>7. CASE Restart
    <3>1. /\ \A c \in Calls : Off(c, "lost") \in Requests
          /\ Unknown \in Uses /\ [at |-> "off", box |-> 0] \in Removals
      BY OffType, TypeParts DEF Steps, Uses, Unknown, Removals
    <3> QED  BY <2>7, <3>1, SameSets, TypeParts, TypePartsNext DEF Restart, Happens, ToolSays
  <2>8. CASE Tick
    BY <2>8, LargerSets, TypeParts, TypePartsNext DEF Tick
  <2>9. CASE UNCHANGED vars
    BY <2>9, SameSets, TypeParts, TypePartsNext DEF vars
  <2>10. ASSUME NEW p \in Removers, RemovalFails(p) PROVE TypeOK'
    <3>1. remover' \in [Removers -> Removals]
      <4>1. [remover[p] EXCEPT !.at = "removing"] \in Removals /\ [at |-> "off", box |-> 0] \in Removals
        BY TypeParts DEF Removals
      <4> QED  BY <2>10, <4>1, TypeParts DEF RemovalFails
    <3>2. box' \in Containers /\ command' \in [Calls -> Commands]
      BY <2>10, KilledType, RemovedType, StoppedType, TypeParts DEF RemovalFails, ForceRemove
    <3> QED  BY <2>10, <3>1, <3>2, SameSets, TypeParts, TypePartsNext DEF RemovalFails, Happens
  <2> QED  BY <2>1, <2>2, <2>3, <2>4, <2>5, <2>6, <2>7, <2>8, <2>9, <2>10, ServeType, DockerFailsType
           DEF Next, Cleaning
<1> QED  BY <1>1, <1>2, PTL DEF Spec
-----------------------------------------------------------------------------
(* Why a hung command does not outlive its request: the request of every   *)
(* command that goes on waits for it, and has its container at hand, or a  *)
(* restart or Docker cut it off.                                           *)

Attended(c) == Open(c) => \/ call[c].at \in {"lost", "cut"}
                          \/ call[c].at = "waiting" /\ call[c].box = command[c].box

AttendedInv == \A c \in Calls : Attended(c)

\* A container's end ends its commands and touches no others.
LEMMA KilledCommands ==
    ASSUME TypeOK, NEW id, command' = Killed(id), NEW c \in Calls
    PROVE  (command'[c] = command[c] /\ command[c].box # id) \/ ~Open(c)'
BY TypeParts DEF Killed, Open

\* Commands that only end, or stay with requests that do not change, are
\* attended as before.
LEMMA StaysAttended ==
    ASSUME AttendedInv,
           \A c \in Calls : ~Open(c)' \/ (command'[c] = command[c] /\ call'[c] = call[c])
    PROVE  AttendedInv'
BY DEF AttendedInv, Attended, Open

\* What a request does before it runs its command disturbs none.
LEMMA BeforeRun ==
    ASSUME AttendedInv, NEW c \in Calls, call[c].at \notin {"waiting", "lost", "cut"},
           \A d \in Calls \ {c} : call'[d] = call[d],
           \A d \in Calls : command'[d] = command[d] \/ ~Open(d)'
    PROVE  AttendedInv'
<1>1. ~Open(c)
  BY DEF AttendedInv, Attended
<1>2. ~Open(c)'
  BY <1>1 DEF Open
<1> QED  BY <1>2, StaysAttended

\* Every step of a call leaves every command attended.
LEMMA CallAttended ==
    ASSUME TypeOK, AttendedInv, NEW c \in Calls,
           Request(c) \/ Progress(c) \/ Hang(c) \/ DockerFails(c) \/ ForceRemoveFails(c)
    PROVE  AttendedInv'
<1> USE DEF callVars
<1>1. call \in [Calls -> Requests] /\ command \in [Calls -> Commands]
  BY TypeParts
<1>2. CASE Request(c) \/ Look(c) \/ Create(c) \/ Start(c) \/ Find(c) \/ Refind(c) \/ Execute(c)
  <2>1. /\ call[c].at \notin {"waiting", "lost", "cut"} /\ command' = command
        /\ \A d \in Calls \ {c} : call'[d] = call[d]
    BY <1>1, <1>2 DEF Request, Look, Create, Start, Find, Refind, Execute, At, Fail
  <2> QED  BY <2>1, BeforeRun
<1>3. CASE RemoveOld(c)
  <2>1. /\ call[c].at = "removeOld" /\ command' = Killed(call[c].box)
        /\ \A d \in Calls \ {c} : call'[d] = call[d]
    BY <1>1, <1>3 DEF RemoveOld, At, Fail
  <2> QED  BY <2>1, KilledCommands, BeforeRun
<1>4. CASE Run(c)
  <2>1. CASE UNCHANGED command
    <3>1. call[c].at = "run" /\ \A d \in Calls \ {c} : call'[d] = call[d]
      BY <1>1, <1>4 DEF Run, Fail
    <3> QED  BY <2>1, <3>1, BeforeRun
  <2>2. CASE ~UNCHANGED command
    <3>1. /\ \A d \in Calls \ {c} : call'[d] = call[d] /\ command'[d] = command[d]
          /\ call'[c].at = "waiting" /\ call'[c].box = command'[c].box
      BY <1>1, <1>4, <2>2 DEF Run, Running, Exec, Commands, Requests
    <3> QED  BY <3>1 DEF AttendedInv, Attended, Open
  <2> QED  BY <2>1, <2>2
<1>5. CASE CommandEnds(c)
  <2>1. /\ command'[c].status = "ended"
        /\ \A d \in Calls \ {c} : call'[d] = call[d] /\ command'[d] = command[d]
    BY <1>1, <1>5 DEF CommandEnds, Answered, Commands
  <2> QED  BY <2>1, StaysAttended DEF Open
<1>6. CASE Answer(c)
  <2>1. /\ ~Open(c) /\ command' = command
        /\ \A d \in Calls \ {c} : call'[d] = call[d]
    BY <1>1, <1>6 DEF Answer, Answered
  <2> QED  BY <2>1, StaysAttended DEF Open
<1>7. CASE OuterTimeout(c)
  <2>1. /\ command' = Killed(call[c].box) /\ call[c].box = command[c].box
        /\ \A d \in Calls \ {c} : call'[d] = call[d]
    BY <1>1, <1>7 DEF OuterTimeout, ForceRemove, Answered, AttendedInv, Attended
  <2> QED  BY <2>1, KilledCommands, StaysAttended
<1>8. CASE GiveUp(c)
  BY <1>8, StaysAttended DEF GiveUp
<1>9. CASE Hang(c)
  <2>1. /\ Open(c) /\ call' = call /\ command'[c].box = command[c].box
        /\ \A d \in Calls \ {c} : command'[d] = command[d]
    BY <1>1, <1>9 DEF Hang, Open, Commands
  <2> QED  BY <2>1 DEF AttendedInv, Attended, Open
<1>10. CASE DockerFails(c) \/ ForceRemoveFails(c)
  <2>1. /\ call'[c].at = "cut" /\ \A d \in Calls \ {c} : call'[d] = call[d]
        /\ command' = command \/ command' = Killed(call[c].box)
    BY <1>1, <1>10 DEF DockerFails, ForceRemoveFails, ForceRemove, Cut, Off, Over
  <2>2. \A d \in Calls : command'[d] = command[d] \/ ~Open(d)'
    BY <2>1, KilledCommands
  <2> QED  BY <2>1, <2>2 DEF AttendedInv, Attended, Open
<1> QED  BY <1>2, <1>3, <1>4, <1>5, <1>6, <1>7, <1>8, <1>9, <1>10 DEF Progress, Serve

\* So does every other step.
LEMMA AttendedStep ==
    ASSUME TypeOK, AttendedInv, [Next]_vars
    PROVE  AttendedInv'
<1> USE DEF callVars
<1>1. ASSUME NEW c \in Calls,
             Request(c) \/ Progress(c) \/ Hang(c) \/ DockerFails(c) \/ ForceRemoveFails(c)
      PROVE  AttendedInv'
  BY <1>1, CallAttended
<1>2. ASSUME NEW p \in Removers, Removal(p) \/ RemovalFails(p) PROVE AttendedInv'
  <2>1. call' = call /\ (command' = command \/ command' = Killed(remover[p].box))
    BY <1>2 DEF Removal, Stop, Remove, Forget, RemovalFails, ForceRemove
  <2> QED  BY <2>1, KilledCommands, StaysAttended
<1>3. CASE Restart
  <2>1. /\ command' = command
        /\ \A c \in Calls : call'[c].at = "lost" \/ call'[c] = call[c]
    BY <1>3 DEF Restart, Off, Over
  <2> QED  BY <2>1 DEF AttendedInv, Attended, Open
<1>4. CASE Reap \/ Delete \/ PolicyChanges \/ Tick \/ UNCHANGED vars
  <2>1. UNCHANGED <<call, command>>
    BY <1>4 DEF Reap, Delete, PolicyChanges, Tick, vars
  <2> QED  BY <2>1, StaysAttended
<1> QED  BY <1>1, <1>2, <1>3, <1>4 DEF Next, Cleaning

\* A command that hangs is gone when its request has been answered: the
\* outer timeout of sessions.py removes the container it hangs in, and no
\* other end of a request leaves it behind but a restart's, or a call of
\* Docker that failed that request: `exec_run` itself, or what `_force_remove`
\* swallows or lets through.
THEOREM WedgedRemoved == Spec => []WedgedIsRemoved
<1>1. Init => AttendedInv
  BY DEF Init, AttendedInv, Attended, Open
<1>2. AttendedInv => WedgedIsRemoved
  BY DEF AttendedInv, Attended, Open, WedgedIsRemoved
<1> QED  BY <1>1, <1>2, TypeCorrect, AttendedStep, PTL DEF Spec
-----------------------------------------------------------------------------
(* Why the reaper spares a container at work: the session counts as used   *)
(* since the command started at the latest, even where an older container  *)
(* of it is being forgotten, and the request does not wait for as long as  *)
(* the idle limit.                                                         *)

\* A request waits for a command in the session's container.
Busy(c) == call[c].at = "waiting" /\ Open(c) /\ command[c].box = box.id /\ box.id # 0

Spared(c) == /\ box.status = "running"
             /\ LastUse >= call[c].since
             /\ now <= call[c].since + Timeout + Grace

\* A session about to be forgotten has no container, or one as young as that.
Young == \/ box.id = 0
         \/ box.status = "created"
         \/ box.started = now

BusyInv == /\ \A c \in Calls : Busy(c) => Spared(c)
           /\ \A p \in Removers : remover[p].at = "forgetting" => Young

\* Whoever waits now waited before, and nothing is used up or forgotten.
LEMMA StaysSpared ==
    ASSUME TypeOK, BusyInv, UNCHANGED <<now, box>>,
           \A c \in Calls : Busy(c)' => Busy(c) /\ call'[c].since = call[c].since,
           \/ lastUsed' = lastUsed \/ lastUsed' = Used(now) \/ lastUsed' = Used(LastUse),
           \A p \in Removers : remover'[p].at = "forgetting" => remover[p].at = "forgetting" \/ Young
    PROVE  BusyInv'
<1>1. /\ now \in Nat /\ call \in [Calls -> Requests] /\ LastUse \in 0..now
  BY TypeParts, LastUseType
<1>2. \A p \in Removers : remover'[p].at = "forgetting" => Young'
  BY DEF BusyInv, Young
<1>3. ASSUME NEW c \in Calls, Busy(c)' PROVE Spared(c)'
  <2>1. Spared(c) /\ call'[c].since = call[c].since
    BY <1>3 DEF BusyInv
  <2>2. call[c].since \in 0..now
    BY <1>1 DEF Requests
  <2>3. LastUse' >= call[c].since
    BY <1>1, <2>1, <2>2 DEF LastUse, Used, Spared
  <2> QED  BY <2>1, <2>3 DEF Spared
<1> QED  BY <1>2, <1>3 DEF BusyInv

\* A container that goes takes its commands with it, and one that is new has none.
LEMMA NoneSpared ==
    ASSUME BusyInv, now' = now, \A c \in Calls : ~Busy(c)',
           \A p \in Removers : remover'[p].at = "forgetting" => remover[p].at = "forgetting" \/ box'.id = 0,
           \/ box' = box \/ box'.id = 0 \/ box'.status = "created"
           \/ box'.id = box.id /\ box'.started = box.started /\ box.status = "running"
    PROVE  BusyInv'
BY DEF BusyInv, Young

\* Removing a container spares the session's if it is another one.
LEMMA RemovalSpares ==
    ASSUME TypeOK, BusyInv, NEW id, command' = Killed(id), box' = Removed(id),
           UNCHANGED <<now, lastUsed>>,
           \A c \in Calls : call'[c] = call[c] \/ call'[c].at # "waiting",
           \A p \in Removers : remover'[p].at = "forgetting" => remover[p].at = "forgetting" \/ box.id = id
    PROVE  BusyInv'
<1>1. CASE box.id = id
  BY <1>1, NoneSpared DEF Removed, None, Busy
<1>2. CASE box.id # id
  <2>1. box' = box
    BY <1>2 DEF Removed
  <2>2. ASSUME NEW c \in Calls, Busy(c)' PROVE Busy(c) /\ call'[c].since = call[c].since
    BY <2>1, <2>2, KilledCommands DEF Busy, Open
  <2> QED  BY <1>2, <2>1, <2>2, StaysSpared
<1> QED  BY <1>1, <1>2

\* So does stopping one.
LEMMA StopSpares ==
    ASSUME TypeOK, BusyInv, NEW id, command' = Killed(id), box' = Stopped(id),
           UNCHANGED <<now, lastUsed>>,
           \A c \in Calls : call'[c] = call[c] \/ call'[c].at # "waiting",
           \A p \in Removers : remover'[p].at = "forgetting" => remover[p].at = "forgetting"
    PROVE  BusyInv'
<1>1. CASE box.id = id
  <2>1. \/ box' = box
        \/ box'.id = box.id /\ box'.started = box.started /\ box.status = "running"
    <3>1. box \in Containers
      BY TypeParts
    <3> QED  BY <3>1 DEF Stopped, Containers
  <2>2. \A c \in Calls : ~Busy(c)'
    BY <1>1, <2>1, KilledCommands DEF Busy
  <2> QED  BY <2>1, <2>2, NoneSpared
<1>2. CASE box.id # id
  <2>1. box' = box
    BY <1>2 DEF Stopped
  <2>2. \A c \in Calls : Busy(c)' => Busy(c) /\ call'[c].since = call[c].since
    BY <2>1, KilledCommands DEF Busy, Open
  <2> QED  BY <2>1, <2>2, StaysSpared
<1> QED  BY <1>1, <1>2

\* So does a request's end, to the others.
LEMMA CutSpares ==
    ASSUME TypeOK, NEW c \in Calls, NEW says, Cut(c, says)
    PROVE  \A d \in Calls : call'[d] = call[d] \/ call'[d].at # "waiting"
<1>1. call \in [Calls -> Requests]
  BY TypeParts
<1> QED  BY <1>1 DEF Cut, Off, Over

\* What is done for a call.
LEMMA CallSpares ==
    ASSUME TypeOK, BusyInv, NEW c \in Calls,
           Request(c) \/ Progress(c) \/ Hang(c) \/ DockerFails(c) \/ ForceRemoveFails(c)
    PROVE  BusyInv'
<1> USE DEF callVars
<1>1. /\ call \in [Calls -> Requests] /\ command \in [Calls -> Commands]
      /\ now \in Nat /\ boxes \in Nat /\ box \in Containers
  BY TypeParts
<1>2. CASE Request(c) \/ Execute(c) \/ GiveUp(c) \/ Look(c) \/ Find(c) \/ Refind(c)
  <2>1. /\ UNCHANGED <<now, box, remover, command>>
        /\ lastUsed' = lastUsed \/ lastUsed' = Used(now)
    BY <1>2 DEF Request, Execute, GiveUp, Look, Find, Refind, Touch
  <2>2. \A d \in Calls : call'[d].at # "waiting" \/ call'[d] = call[d]
    <3>1. CASE Request(c) \/ Execute(c) \/ GiveUp(c)
      BY <1>1, <3>1 DEF Request, Execute, GiveUp, Over, Requests
    <3>2. CASE Look(c)
      BY <1>1, <3>2 DEF Look, At, AfterEnsure, Requests
    <3>3. CASE Find(c) \/ Refind(c)
      BY <1>1, <3>3 DEF Find, Refind, Fail, Over, Requests
    <3> QED  BY <1>2, <3>1, <3>2, <3>3
  <2>3. \A d \in Calls : Busy(d)' => Busy(d) /\ call'[d].since = call[d].since
    BY <2>1, <2>2 DEF Busy, Open
  <2> QED  BY <2>1, <2>3, StaysSpared
<1>3. CASE RemoveOld(c)
  <2>1. \A d \in Calls : call'[d].at # "waiting" \/ call'[d] = call[d]
    BY <1>1, <1>3 DEF RemoveOld, At, Fail, Over, Requests
  <2> QED  BY <1>3, <2>1, RemovalSpares DEF RemoveOld
<1>4. CASE Create(c)
  <2>1. \A d \in Calls : call'[d].at # "waiting" \/ call'[d] = call[d]
    BY <1>1, <1>4 DEF Create, Fail, Over, Requests
  <2>2. UNCHANGED <<now, lastUsed, command, remover>>
    BY <1>4 DEF Create
  <2>3. CASE box.id = 0
    <3>1. box'.id = boxes + 1 /\ box'.status = "created"
      BY <1>4, <2>3 DEF Create, Made
    <3>2. \A d \in Calls : command[d].box \in 0..boxes
      BY <1>1 DEF Commands
    <3>3. \A d \in Calls : ~Busy(d)'
      BY <1>1, <2>2, <3>1, <3>2 DEF Busy
    <3> QED  BY <2>2, <3>1, <3>3, NoneSpared
  <2>4. CASE box.id # 0
    <3>1. box' = box
      BY <1>4, <2>4 DEF Create
    <3>2. \A d \in Calls : Busy(d)' => Busy(d) /\ call'[d].since = call[d].since
      BY <2>1, <2>2, <3>1 DEF Busy, Open
    <3> QED  BY <2>2, <3>1, <3>2, StaysSpared
  <2> QED  BY <2>3, <2>4
<1>5. CASE Start(c)
  <2>1. \A d \in Calls : call'[d].at # "waiting" \/ call'[d] = call[d]
    BY <1>1, <1>5 DEF Start, At, AfterEnsure, Fail, Over, Requests
  <2>2. UNCHANGED <<now, command, remover>>
    BY <1>5 DEF Start
  <2>3. CASE box.id = call[c].box
    <3>1. box'.id = box.id /\ box'.status = "running" /\ box'.started = now /\ lastUsed' = Used(now)
      BY <1>1, <1>5, <2>3 DEF Start, Started, Touch, Containers
    <3>2. ASSUME NEW d \in Calls, Busy(d)' PROVE Spared(d)'
      <4>1. Busy(d) /\ call'[d] = call[d]
        BY <2>1, <2>2, <3>1, <3>2 DEF Busy, Open
      <4>2. Spared(d) /\ call[d].since \in 0..now
        BY <1>1, <4>1 DEF BusyInv, Requests
      <4> QED  BY <1>1, <2>2, <3>1, <4>1, <4>2 DEF Spared, LastUse, Used
    <3> QED  BY <2>2, <3>1, <3>2 DEF BusyInv, Young
  <2>4. CASE box.id # call[c].box
    <3>1. box' = box /\ lastUsed' = lastUsed
      BY <1>5, <2>4 DEF Start
    <3>2. \A d \in Calls : Busy(d)' => Busy(d) /\ call'[d].since = call[d].since
      BY <2>1, <2>2, <3>1 DEF Busy, Open
    <3> QED  BY <2>2, <3>1, <3>2, StaysSpared
  <2> QED  BY <2>3, <2>4
<1>6. CASE Run(c)
  <2>1. UNCHANGED <<now, box, remover>> /\ lastUsed' = Used(now)
    BY <1>6 DEF Run, Touch
  <2>2. \A d \in Calls \ {c} : call'[d] = call[d] /\ command'[d] = command[d]
    BY <1>1, <1>6 DEF Run, Fail
  <2>3. CASE box.status = "running" /\ call'[c].since = now
    <3>1. ASSUME NEW d \in Calls, Busy(d)' PROVE Spared(d)'
      <4>1. CASE d = c
        BY <1>1, <2>1, <2>3, <4>1, TimesAssumption DEF Spared, LastUse, Used
      <4>2. CASE d # c
        <5>1. Busy(d) /\ call'[d] = call[d]
          BY <2>1, <2>2, <3>1, <4>2 DEF Busy, Open
        <5>2. Spared(d) /\ call[d].since \in 0..now
          BY <1>1, <5>1 DEF BusyInv, Requests
        <5> QED  BY <1>1, <2>1, <5>1, <5>2 DEF Spared, LastUse, Used
      <4> QED  BY <4>1, <4>2
    <3> QED  BY <2>1, <3>1 DEF BusyInv, Young
  <2>4. CASE call'[c].at # "waiting"
    <3>1. \A d \in Calls : Busy(d)' => Busy(d) /\ call'[d].since = call[d].since
      BY <2>1, <2>2, <2>4 DEF Busy, Open
    <3> QED  BY <2>1, <3>1, StaysSpared
  <2>5. (box.status = "running" /\ call'[c].since = now) \/ call'[c].at # "waiting"
    BY <1>1, <1>6 DEF Run, Running, Fail, Over, Requests
  <2> QED  BY <2>3, <2>4, <2>5
<1>7. CASE Hang(c) \/ CommandEnds(c) \/ Answer(c)
  <2>1. UNCHANGED <<now, box, remover, lastUsed>>
    BY <1>7 DEF Hang, CommandEnds, Answer
  <2>2. \A d \in Calls : call'[d].at # "waiting" \/ call'[d] = call[d]
    BY <1>1, <1>7 DEF Hang, CommandEnds, Answer, Answered, Over
  <2>3. \A d \in Calls : Open(d)' => Open(d) /\ command'[d].box = command[d].box
    BY <1>1, <1>7 DEF Hang, CommandEnds, Answer, Open, Commands
  <2>4. \A d \in Calls : Busy(d)' => Busy(d) /\ call'[d].since = call[d].since
    BY <2>1, <2>2, <2>3 DEF Busy
  <2> QED  BY <2>1, <2>4, StaysSpared
<1>8. CASE OuterTimeout(c)
  <2>1. \A d \in Calls : call'[d].at # "waiting" \/ call'[d] = call[d]
    BY <1>1, <1>8 DEF OuterTimeout, Answered, Over
  <2> QED  BY <1>8, <2>1, RemovalSpares DEF OuterTimeout, ForceRemove
<1>9. CASE DockerFails(c) \/ ForceRemoveFails(c)
  <2>1. \A d \in Calls : call'[d] = call[d] \/ call'[d].at # "waiting"
    BY <1>9, CutSpares DEF DockerFails, ForceRemoveFails
  <2>2. /\ UNCHANGED <<now, remover>>
        /\ lastUsed' = lastUsed \/ (lastUsed' = Used(now) /\ call[c].at = "run")
    BY <1>9 DEF DockerFails, ForceRemoveFails
  <2>3. CASE UNCHANGED <<box, command>>
    <3>1. \A d \in Calls : Busy(d)' => Busy(d) /\ call'[d].since = call[d].since
      BY <2>1, <2>3 DEF Busy, Open
    <3> QED  BY <2>2, <2>3, <3>1, StaysSpared
  <2>4. CASE ForceRemove(call[c].box) /\ lastUsed' = lastUsed
    BY <2>1, <2>2, <2>4, RemovalSpares DEF ForceRemove
  <2>5. CASE box' = Stopped(call[c].box) /\ command' = Killed(call[c].box) /\ lastUsed' = lastUsed
    BY <2>1, <2>2, <2>5, StopSpares
  <2>6. CASE box' = Made(call[c].grants) /\ UNCHANGED command
    <3>1. box'.id = boxes + 1 /\ box'.status = "created"
      BY <2>6 DEF Made
    <3>2. \A d \in Calls : command[d].box \in 0..boxes
      BY <1>1 DEF Commands
    <3>3. \A d \in Calls : ~Busy(d)'
      BY <1>1, <2>6, <3>1, <3>2 DEF Busy
    <3> QED  BY <2>2, <3>1, <3>3, NoneSpared
  <2>7. CASE box' = Started /\ UNCHANGED command /\ lastUsed' = lastUsed
    <3>1. box'.id = box.id /\ box'.status = "running" /\ box'.started = now
      BY <1>1, <2>7 DEF Started, Containers
    <3>2. ASSUME NEW d \in Calls, Busy(d)' PROVE Spared(d)'
      <4>1. Busy(d) /\ call'[d] = call[d]
        BY <2>1, <2>7, <3>1, <3>2 DEF Busy, Open
      <4>2. Spared(d) /\ call[d].since \in 0..now
        BY <1>1, <4>1 DEF BusyInv, Requests
      <4> QED  BY <1>1, <2>2, <2>7, <3>1, <4>1, <4>2 DEF Spared, LastUse
    <3> QED  BY <2>2, <3>1, <3>2 DEF BusyInv, Young
  <2>8. CASE DockerFails(c)
    BY <2>3, <2>4, <2>6, <2>7, <2>8 DEF DockerFails
  <2>9. CASE ForceRemoveFails(c)
    BY <2>3, <2>4, <2>5, <2>9 DEF ForceRemoveFails
  <2> QED  BY <1>9, <2>8, <2>9
<1> QED  BY <1>2, <1>3, <1>4, <1>5, <1>6, <1>7, <1>8, <1>9 DEF Progress, Serve

\* What else may happen: time does not pass while a session is being forgotten,
\* nor beyond what a request waits for.
LEMMA SparedStep ==
    ASSUME TypeOK, BusyInv, [Next]_vars
    PROVE  BusyInv'
<1> USE DEF callVars
<1>1. /\ call \in [Calls -> Requests] /\ remover \in [Removers -> Removals] /\ box \in Containers
      /\ now \in Nat /\ LastUse \in 0..now
  BY TypeParts, LastUseType
<1>2. CASE Reap
  BY <1>1, <1>2, StaysSpared DEF Reap, Adopted, Busy, Open
<1>3. CASE Delete
  BY <1>1, <1>3, StaysSpared DEF Delete, Busy, Open, Young
<1>4. ASSUME NEW p \in Removers, Stop(p) PROVE BusyInv'
  <2>1. /\ command' = Killed(remover[p].box) /\ UNCHANGED <<now, lastUsed, call>>
        /\ \A q \in Removers : remover'[q].at = "forgetting" => remover[q].at = "forgetting"
    BY <1>1, <1>4 DEF Stop, Removals
  <2> QED  BY <1>4, <2>1, StopSpares DEF Stop
<1>5. ASSUME NEW p \in Removers, Remove(p) PROVE BusyInv'
  <2>1. \A q \in Removers : remover'[q].at = "forgetting" =>
                               remover[q].at = "forgetting" \/ box.id = remover[p].box
    BY <1>1, <1>5 DEF Remove
  <2> QED  BY <1>5, <2>1, RemovalSpares DEF Remove
<1>6. ASSUME NEW p \in Removers, Forget(p) PROVE BusyInv'
  <2>1. /\ UNCHANGED <<now, box, callVars>> /\ lastUsed' = Unknown
        /\ \A q \in Removers : remover'[q].at = "forgetting" => remover[q].at = "forgetting"
    BY <1>1, <1>6 DEF Forget, Removals
  <2>2. Young
    BY <1>6 DEF Forget, BusyInv
  <2>3. ASSUME NEW c \in Calls, Busy(c)' PROVE Spared(c)'
    <3>1. Busy(c)
      BY <2>1, <2>3 DEF Busy, Open
    <3>2. Spared(c) /\ call[c].since \in 0..now
      BY <1>1, <3>1 DEF BusyInv, Requests
    <3>3. box.started = now
      BY <2>2, <3>1, <3>2 DEF Young, Busy, Spared
    <3>4. LastUse' = now
      BY <2>1, <3>3 DEF LastUse, Unknown
    <3> QED  BY <1>1, <2>1, <3>2, <3>4 DEF Spared
  <2> QED  BY <2>1, <2>3 DEF BusyInv, Young
<1>7. CASE Restart
  <2>1. \A c \in Calls : ~Busy(c)'
    BY <1>7 DEF Restart, Off, Over, Busy
  <2> QED  BY <1>7, <2>1, NoneSpared DEF Restart
<1>8. CASE Tick
  <2>1. now' = now + 1 /\ UNCHANGED <<box, lastUsed, callVars, remover>>
    BY <1>8 DEF Tick
  <2>2. ASSUME NEW c \in Calls, Busy(c)' PROVE Spared(c)'
    <3>1. Busy(c)
      BY <2>1, <2>2 DEF Busy, Open
    <3>2. Spared(c) /\ now < call[c].since + Timeout + Grace /\ call[c].since \in Nat
      BY <1>1, <1>8, <3>1 DEF BusyInv, Tick, Busy, Requests
    <3> QED  BY <1>1, <2>1, <3>2, TimesAssumption DEF Spared, LastUse
  <2> QED  BY <1>8, <2>1, <2>2 DEF BusyInv, Tick
<1>9. CASE PolicyChanges \/ UNCHANGED vars
  <2>1. UNCHANGED <<now, box, lastUsed, callVars, remover>>
    BY <1>9 DEF PolicyChanges, vars
  <2> QED  BY <2>1, StaysSpared DEF Busy, Open
<1>10. ASSUME NEW p \in Removers, RemovalFails(p) PROVE BusyInv'
  <2>1. /\ UNCHANGED <<now, lastUsed, call>>
        /\ \A q \in Removers : remover'[q].at = "forgetting" => remover[q].at = "forgetting"
    BY <1>1, <1>10 DEF RemovalFails, Removals
  <2>2. CASE UNCHANGED <<box, command>>
    BY <2>1, <2>2, StaysSpared DEF Busy, Open
  <2>3. CASE box' = Stopped(remover[p].box) /\ command' = Killed(remover[p].box)
    BY <2>1, <2>3, StopSpares
  <2>4. CASE ForceRemove(remover[p].box)
    BY <2>1, <2>4, RemovalSpares DEF ForceRemove
  <2> QED  BY <1>10, <2>2, <2>3, <2>4 DEF RemovalFails
<1> QED  BY <1>2, <1>3, <1>4, <1>5, <1>6, <1>7, <1>8, <1>9, <1>10, CallSpares DEF Next, Cleaning, Removal

\* The reaper does not turn against a container while a request waits for a
\* command in it: what `_last_used` says, and `_adopt` where it says nothing,
\* is no older than the command, which the outer timeout cuts off before the
\* idle limit (reaper.py's `reap_once`, sessions.py's `execute`).
THEOREM BusyIsSpared == Spec => SparesTheBusy
<1>1. Init => BusyInv
  BY DEF Init, BusyInv, Busy, Over
<1>2. ASSUME TypeOK, BusyInv, [Next]_vars
      PROVE  [\A c \in Calls : call[c].at = "waiting" /\ Open(c) /\ command[c].box = box.id
               => ~(remover["reaper"].at = "off" /\ remover'["reaper"].at = "stopping")]_vars
  <2> SUFFICES ASSUME NEW c \in Calls, call[c].at = "waiting", Open(c), command[c].box = box.id,
                      remover["reaper"].at = "off", remover'["reaper"].at = "stopping"
               PROVE  FALSE
    OBVIOUS
  <2> USE DEF callVars
  <2>1. "reaper" \in Removers /\ remover \in [Removers -> Removals]
    BY <1>2, TypeParts DEF Removers
  <2>2. CASE Reap
    <3>1. box.id # 0 /\ now - LastUse > IdleLimit
      BY <2>1, <2>2 DEF Reap, Listed
    <3>2. Spared(c)
      BY <1>2, <3>1 DEF BusyInv, Busy
    <3>3. call[c].since \in 0..now /\ now \in Nat /\ LastUse \in 0..now
      BY <1>2, TypeParts, LastUseType DEF Requests
    <3> QED  BY <3>1, <3>2, <3>3, TimesAssumption DEF Spared
  <2>3. CASE Delete \/ PolicyChanges \/ Tick \/ Restart \/ UNCHANGED vars
    BY <2>1, <2>3 DEF Delete, PolicyChanges, Tick, Restart, vars
  <2>4. ASSUME NEW p \in Removers, Removal(p) \/ RemovalFails(p) PROVE FALSE
    BY <2>1, <2>4 DEF Removal, Stop, Remove, Forget, RemovalFails, Removals
  <2>5. ASSUME NEW d \in Calls,
               Request(d) \/ Progress(d) \/ Hang(d) \/ DockerFails(d) \/ ForceRemoveFails(d)
        PROVE  FALSE
    <3>1. UNCHANGED remover
      BY <2>5 DEF Request, Hang, DockerFails, ForceRemoveFails, Progress, Serve, Execute, CommandEnds, GiveUp, Look, RemoveOld,
                  Create, Start, Find, Refind, Run, Answer, OuterTimeout
    <3> QED  BY <3>1
  <2> QED  BY <1>2, <2>2, <2>3, <2>4, <2>5 DEF Next, Cleaning
<1>3. TypeOK /\ BusyInv /\ [Next]_vars => BusyInv'
  BY SparedStep
<1> QED  BY <1>1, <1>2, <1>3, TypeCorrect, PTL DEF Spec, SparesTheBusy

-----------------------------------------------------------------------------
(* The builders.                                                           *)

Holders == {b \in AppBuildIds : Holding(b)}

\* The tasks in the queue, each there once, wait for a slot.
Queueing ==
    /\ \A i \in 1 .. Len(waiters) : request[waiters[i]].at = "queued"
    /\ \A i, j \in 1 .. Len(waiters) : waiters[i] = waiters[j] => i = j

\* A build that may ask for a phase has no request under way.
OneRequest == \A b \in AppBuildIds : appBuild[b].at \in {"idle", "next"} => request[b].at = "none"

\* A manager that is not up yet has no tasks.
NobodyServed == ~serving => waiters = <<>> /\ \A b \in AppBuildIds : request[b].at = "none"

\* The semaphore's count.
SlotsKept == IsFiniteSet(Holders) /\ Cardinality(Holders) <= BuildSlots

\* The first half of BuildersAreRemoved.
InHands ==
    serving => \A k \in Builders \ stray : builder[k] # "none" =>
                  request[k[1]].at \in {"wait", "kill", "logs", "remove"} /\ request[k[1]].phase = k[2]

BuilderInv == BuilderTypeOK /\ Queueing /\ OneRequest /\ NobodyServed /\ SlotsKept /\ InHands

TaskSteps == {"create", "wait", "kill", "logs", "remove"}
Tasks     == [at : {"none", "queued"} \union TaskSteps, phase : Phases, how : {"ok", "failed"}]
Asks      == [at : {"idle", "asking", "next", "ok", "failed"}, phase : Phases]
Says      == {"none", "created", "running", "ok", "failed"}
Faults    == [docker : 0 .. MaxDockerFaults, restarts : 0 .. MaxManagerRestarts]

-----------------------------------------------------------------------------
(* The type invariant.                                                     *)

\* BuilderTypeOK by its named sets.
LEMMA BuilderTypes ==
    BuilderTypeOK <=> /\ appBuild \in [AppBuildIds -> Asks] /\ request \in [AppBuildIds -> Tasks]
                      /\ waiters \in Seq(AppBuildIds) /\ builder \in [Builders -> Says]
                      /\ serving \in BOOLEAN /\ stray \subseteq Builders /\ faultsLeft \in Faults
<1>1. {"none", "queued"} \union TaskSteps = {"none", "queued", "create", "wait", "kill", "logs", "remove"}
  BY DEF TaskSteps
<1> QED  BY <1>1 DEF BuilderTypeOK, Asks, Tasks, Says, Faults

LEMMA BuilderTypesNext ==
    BuilderTypeOK' <=> /\ appBuild' \in [AppBuildIds -> Asks] /\ request' \in [AppBuildIds -> Tasks]
                       /\ waiters' \in Seq(AppBuildIds) /\ builder' \in [Builders -> Says]
                       /\ serving' \in BOOLEAN /\ stray' \subseteq Builders /\ faultsLeft' \in Faults
<1>1. {"none", "queued"} \union TaskSteps = {"none", "queued", "create", "wait", "kill", "logs", "remove"}
  BY DEF TaskSteps
<1> QED  BY <1>1 DEF BuilderTypeOK, Asks, Tasks, Says, Faults

\* A task's container is one of its build.
LEMMA ContainerType ==
    ASSUME BuilderTypeOK, NEW b \in AppBuildIds
    PROVE  Container(b) \in Builders /\ Container(b)[1] = b /\ Container(b)[2] = request[b].phase
<1>1. request[b].phase \in Phases
  BY BuilderTypes DEF Tasks
<1> QED  BY <1>1 DEF Container, Builders

\* A task that goes on stays a request, with its phase and its answer.
LEMMA GoesOn ==
    ASSUME BuilderTypeOK, NEW b \in AppBuildIds, NEW s \in TaskSteps, Goes(b, s)
    PROVE  /\ request' \in [AppBuildIds -> Tasks] /\ appBuild' \in [AppBuildIds -> Asks]
           /\ request'[b].at = s /\ request'[b].phase = request[b].phase
           /\ appBuild' = appBuild /\ \A x \in AppBuildIds \ {b} : request'[x] = request[x]
<1>1. request \in [AppBuildIds -> Tasks] /\ appBuild \in [AppBuildIds -> Asks]
  BY BuilderTypes
<1>2. request[b] \in Tasks
  BY <1>1
<1>3. [request[b] EXCEPT !.at = s] \in Tasks
  BY <1>2 DEF Tasks
<1> QED  BY <1>1, <1>2, <1>3 DEF Goes, Tasks

\* A task that reads how the phase went does too.
LEMMA AnswerNoted ==
    ASSUME BuilderTypeOK, NEW b \in AppBuildIds, NEW s \in TaskSteps, NEW how \in {"ok", "failed"},
           request' = [request EXCEPT ![b].at = s, ![b].how = how]
    PROVE  /\ request' \in [AppBuildIds -> Tasks]
           /\ request'[b].at = s /\ request'[b].phase = request[b].phase
           /\ \A x \in AppBuildIds \ {b} : request'[x] = request[x]
<1>1. request \in [AppBuildIds -> Tasks]
  BY BuilderTypes
<1>2. request[b] \in Tasks
  BY <1>1
<1>3. [request[b] EXCEPT !.at = s, !.how = how] \in Tasks
  BY <1>2 DEF Tasks
<1> QED  BY <1>1, <1>2, <1>3 DEF Tasks

\* A task that ends is gone, and its build has an answer if it still waits for one.
LEMMA PhaseEnds ==
    ASSUME BuilderTypeOK, NEW b \in AppBuildIds, NEW how \in {"ok", "failed"}, EndPhase(b, how)
    PROVE  /\ request' \in [AppBuildIds -> Tasks] /\ appBuild' \in [AppBuildIds -> Asks]
           /\ request'[b].at = "none"
           /\ \A x \in AppBuildIds \ {b} : request'[x] = request[x] /\ appBuild'[x] = appBuild[x]
<1>1. request \in [AppBuildIds -> Tasks] /\ appBuild \in [AppBuildIds -> Asks]
  BY BuilderTypes
<1>2. NoPhase \in Tasks /\ NoPhase.at = "none"
  BY DEF NoPhase, Tasks, Phases
<1>3. appBuild[b] \in Asks /\ \A s \in {"next", "ok", "failed"} : [appBuild[b] EXCEPT !.at = s] \in Asks
  BY <1>1 DEF Asks
<1> QED  BY <1>1, <1>2, <1>3 DEF EndPhase

\* Docker's faults are counted down.
LEMMA FaultType ==
    ASSUME BuilderTypeOK, Fault \/ NoFault
    PROVE  faultsLeft' \in Faults
<1>1. faultsLeft \in Faults /\ MaxDockerFaults \in Nat
  BY BuilderTypes, BuilderAssumption
<1>2. CASE Fault
  <2>1. [faultsLeft EXCEPT !.docker = @ - 1] \in Faults
    BY <1>1, <1>2 DEF Faults, Fault
  <2> QED  BY <2>1, <1>2 DEF Fault
<1> QED  BY <1>1, <1>2 DEF NoFault

-----------------------------------------------------------------------------
(* What a step of a task does.                                             *)

\* It keeps to its own task, its own build and its own container; while it goes on it holds
\* its slot and its phase, and when it ends its container is gone or left to Docker.
Effect(b) ==
    /\ Holding(b)
    /\ request' \in [AppBuildIds -> Tasks] /\ appBuild' \in [AppBuildIds -> Asks]
    /\ builder' \in [Builders -> Says] /\ faultsLeft' \in Faults
    /\ UNCHANGED <<waiters, serving>>
    /\ stray' \subseteq Builders /\ stray \subseteq stray'
    /\ \A x \in AppBuildIds \ {b} : request'[x] = request[x] /\ appBuild'[x] = appBuild[x]
    /\ \A k \in Builders \ {Container(b)} : builder'[k] = builder[k]
    /\ \/ /\ request'[b].at \in {"wait", "kill", "logs", "remove"} /\ request'[b].phase = request[b].phase
          /\ appBuild'[b] = appBuild[b]
       \/ request'[b].at = "none" /\ (builder'[Container(b)] = "none" \/ Container(b) \in stray')

LEMMA PhaseEffect ==
    ASSUME BuilderTypeOK, InHands, serving, NEW b \in AppBuildIds, PhaseStep(b)
    PROVE  Effect(b)
<1>1. /\ appBuild \in [AppBuildIds -> Asks] /\ request \in [AppBuildIds -> Tasks]
      /\ builder \in [Builders -> Says] /\ stray \subseteq Builders /\ faultsLeft \in Faults
  BY BuilderTypes
<1>2. Container(b) \in Builders /\ Container(b)[1] = b
  BY ContainerType
<1>3. request[b].how \in {"ok", "failed"}
  BY <1>1 DEF Tasks
<1>4. CASE CreateBuilder(b)
  <2>1. Holding(b) /\ UNCHANGED <<waiters, serving>>
    BY <1>4 DEF CreateBuilder, AtStep, Holding
  <2>2. builder[Container(b)] = "none" \/ Container(b) \in stray
    BY <1>2, <1>4, serving, InHands DEF CreateBuilder, AtStep, InHands
  <2>3. CASE Goes(b, "wait") /\ NoFault /\ builder' = [builder EXCEPT ![Container(b)] = "running"] /\ UNCHANGED stray
    BY <1>1, <1>2, <2>1, <2>3, GoesOn, FaultType DEF Effect, TaskSteps, Says
  <2>4. CASE EndPhase(b, "failed") /\ (Fault \/ NoFault) /\ UNCHANGED <<builder, stray>>
    BY <1>1, <1>2, <2>1, <2>2, <2>4, PhaseEnds, FaultType DEF Effect
  <2>5. CASE /\ Fault /\ EndPhase(b, "failed") /\ builder' = [builder EXCEPT ![Container(b)] = "created"]
             /\ stray' = stray \union {Container(b)}
    BY <1>1, <1>2, <2>1, <2>5, PhaseEnds, FaultType DEF Effect, Says
  <2> QED  BY <1>4, <2>3, <2>4, <2>5 DEF CreateBuilder
<1>5. CASE WaitReturns(b)
  <2>1. PICK how \in {"ok", "failed"} : request' = [request EXCEPT ![b].at = "logs", ![b].how = how]
    BY <1>5 DEF WaitReturns
  <2> QED  BY <1>1, <1>2, <1>5, <2>1, AnswerNoted DEF WaitReturns, AtStep, Holding, Effect, TaskSteps
<1>6. CASE WaitTimesOut(b)
  BY <1>1, <1>2, <1>6, GoesOn DEF WaitTimesOut, AtStep, Holding, Effect, TaskSteps
<1>7. CASE KillBuilder(b)
  <2>1. Holding(b) /\ UNCHANGED <<waiters, serving>>
    BY <1>7 DEF KillBuilder, AtStep, Holding
  <2>2. CASE /\ Goes(b, "logs") /\ NoFault /\ UNCHANGED stray
             /\ builder' = [builder EXCEPT ![Container(b)] = IF @ = "running" THEN "failed" ELSE @]
    <3>1. builder' \in [Builders -> Says] /\ \A k \in Builders \ {Container(b)} : builder'[k] = builder[k]
      BY <1>1, <1>2, <2>2 DEF Says
    <3> QED  BY <1>1, <1>2, <2>1, <2>2, <3>1, GoesOn, FaultType DEF Effect, TaskSteps
  <2>3. CASE Goes(b, "logs") /\ Fault /\ UNCHANGED <<builder, stray>>
    BY <1>1, <1>2, <2>1, <2>3, GoesOn, FaultType DEF Effect, TaskSteps
  <2>4. CASE EndPhase(b, "failed") /\ Fault /\ UNCHANGED builder /\ stray' = stray \union {Container(b)}
    BY <1>1, <1>2, <2>1, <2>4, PhaseEnds, FaultType DEF Effect
  <2> QED  BY <1>7, <2>2, <2>3, <2>4 DEF KillBuilder
<1>8. CASE GiveUpThread(b)
  BY <1>1, <1>2, <1>8, GoesOn DEF GiveUpThread, AtStep, Holding, Effect, TaskSteps
<1>9. CASE ReadLogs(b)
  <2>1. Holding(b) /\ UNCHANGED <<waiters, serving, builder, stray>>
    BY <1>9 DEF ReadLogs, AtStep, Holding
  <2>2. CASE Goes(b, "remove") /\ NoFault
    BY <1>1, <1>2, <2>1, <2>2, GoesOn, FaultType DEF Effect, TaskSteps
  <2>3. CASE request' = [request EXCEPT ![b].at = "remove", ![b].how = "failed"] /\ Fault /\ UNCHANGED appBuild
    BY <1>1, <1>2, <2>1, <2>3, AnswerNoted, FaultType DEF Effect, TaskSteps
  <2> QED  BY <1>9, <2>2, <2>3 DEF ReadLogs
<1>10. CASE RemoveBuilder(b)
  <2>1. Holding(b) /\ UNCHANGED <<waiters, serving>>
    BY <1>10 DEF RemoveBuilder, AtStep, Holding
  <2>2. CASE /\ EndPhase(b, request[b].how) /\ NoFault /\ UNCHANGED stray
             /\ builder' = [builder EXCEPT ![Container(b)] = "none"]
    BY <1>1, <1>2, <1>3, <2>1, <2>2, PhaseEnds, FaultType DEF Effect, Says
  <2>3. CASE /\ \E how \in {request[b].how, "failed"} : EndPhase(b, how)
             /\ Fault /\ UNCHANGED builder /\ stray' = stray \union {Container(b)}
    BY <1>1, <1>2, <1>3, <2>1, <2>3, PhaseEnds, FaultType DEF Effect
  <2> QED  BY <1>10, <2>2, <2>3 DEF RemoveBuilder
<1> QED  BY <1>4, <1>5, <1>6, <1>7, <1>8, <1>9, <1>10 DEF PhaseStep

-----------------------------------------------------------------------------
(* The inductive invariant.                                                *)

LEMMA BuilderInitInv == BuilderInit => BuilderInv
<1> SUFFICES ASSUME BuilderInit PROVE BuilderInv
  OBVIOUS
<1>1. BuilderTypeOK
  <2>1. [at |-> "idle", phase |-> 1] \in Asks /\ NoPhase \in Tasks
    BY DEF Asks, Tasks, NoPhase, Phases
  <2>2. [docker |-> MaxDockerFaults, restarts |-> MaxManagerRestarts] \in Faults
    BY BuilderAssumption DEF Faults
  <2> QED  BY <2>1, <2>2, BuilderTypes, EmptySeq DEF BuilderInit, Says
<1>2. \A b \in AppBuildIds : request[b].at = "none"
  BY DEF BuilderInit, NoPhase
<1>3. Holders = {}
  BY <1>2 DEF Holders, Holding
<1>4. SlotsKept
  BY <1>3, FS_EmptySet, BuilderAssumption DEF SlotsKept
<1>5. Queueing
  <2>1. Len(waiters) = 0
    BY EmptySeq DEF BuilderInit
  <2> QED  BY <2>1 DEF Queueing
<1> QED  BY <1>1, <1>2, <1>4, <1>5 DEF BuilderInv, OneRequest, NobodyServed, InHands, BuilderInit

\* The first in the queue leaves it: the others are in it still, each once.
LEMMA QueueShorter ==
    ASSUME BuilderTypeOK, waiters # <<>>, waiters' = Tail(waiters)
    PROVE  /\ waiters' \in Seq(AppBuildIds) /\ Head(waiters) \in AppBuildIds
           /\ Len(waiters) \in Nat \ {0} /\ Head(waiters) = waiters[1]
           /\ \A i \in 1 .. Len(waiters') : i + 1 \in 1 .. Len(waiters) /\ waiters'[i] = waiters[i + 1]
<1>1. waiters \in Seq(AppBuildIds)
  BY BuilderTypes
<1> QED  BY <1>1, HeadTailProperties, LenProperties, EmptySeq

\* Waiting for a slot takes a build of AppBuildIds.
LEMMA Waiter ==
    ASSUME BuilderTypeOK, NEW i \in 1 .. Len(waiters)
    PROVE  waiters[i] \in AppBuildIds
BY BuilderTypes, ElementOfSeq

LEMMA PhaseStepInv ==
    ASSUME BuilderInv, NEW b \in AppBuildIds, PhaseStep(b)
    PROVE  BuilderInv'
<1> USE DEF BuilderInv
<1>1. Holding(b) /\ request[b].at \in TaskSteps
  BY DEF PhaseStep, CreateBuilder, WaitReturns, WaitTimesOut, KillBuilder, GiveUpThread, ReadLogs,
         RemoveBuilder, AtStep, Holding, TaskSteps
<1>2. serving
  BY <1>1 DEF NobodyServed, TaskSteps
<1>3. Effect(b)
  BY <1>2, PhaseEffect
<1>4. BuilderTypeOK'
  BY <1>3, BuilderTypes, BuilderTypesNext DEF Effect
<1>5. Queueing'
  <2>1. \A i \in 1 .. Len(waiters) : waiters[i] \in AppBuildIds \ {b}
    BY <1>1, Waiter DEF Queueing, TaskSteps
  <2> QED  BY <2>1, <1>3 DEF Queueing, Effect
<1>6. OneRequest'
  <2>1. appBuild[b].at \notin {"idle", "next"}
    BY <1>1 DEF OneRequest, TaskSteps
  <2> QED  BY <2>1, <1>3 DEF OneRequest, Effect
<1>7. NobodyServed'
  BY <1>2, <1>3 DEF NobodyServed, Effect
<1>8. SlotsKept'
  <2>1. \A x \in AppBuildIds : Holding(x)' => Holding(x)
    BY <1>3 DEF Effect, Holding
  <2>2. Holders' \subseteq Holders
    BY <2>1 DEF Holders
  <2>3. IsFiniteSet(Holders') /\ Cardinality(Holders') <= Cardinality(Holders)
    BY <2>2, FS_Subset DEF SlotsKept
  <2>4. Cardinality(Holders') \in Nat /\ Cardinality(Holders) \in Nat
    BY <2>3, FS_CardinalityType DEF SlotsKept
  <2> QED  BY <2>3, <2>4, BuilderAssumption DEF SlotsKept
<1>9. InHands'
  <2>1. SUFFICES ASSUME NEW k \in Builders, k \notin stray', builder'[k] # "none"
                 PROVE  request'[k[1]].at \in {"wait", "kill", "logs", "remove"} /\ request'[k[1]].phase = k[2]
    BY DEF InHands
  <2>2. Container(b) = <<b, request[b].phase>> /\ k = <<k[1], k[2]>> /\ k[1] \in AppBuildIds
    BY DEF Container, Builders
  <2>3. CASE k = Container(b)
    BY <2>1, <2>2, <2>3, <1>3 DEF Effect
  <2>4. CASE k # Container(b)
    <3>1. builder[k] # "none" /\ k \notin stray
      BY <2>1, <2>4, <1>3 DEF Effect
    <3>2. request[k[1]].at \in {"wait", "kill", "logs", "remove"} /\ request[k[1]].phase = k[2]
      BY <3>1, <1>2 DEF InHands
    <3>3. k[1] # b
      BY <3>2, <2>2, <2>4
    <3> QED  BY <3>2, <3>3, <2>2, <1>3 DEF Effect
  <2> QED  BY <2>3, <2>4
<1> QED  BY <1>4, <1>5, <1>6, <1>7, <1>8, <1>9

LEMMA AskPhaseInv ==
    ASSUME BuilderInv, NEW b \in AppBuildIds, AskPhase(b)
    PROVE  BuilderInv'
<1> USE DEF BuilderInv
<1> DEFINE ph == IF appBuild[b].at = "next" THEN 2 ELSE 1
<1>1. appBuild[b].at \in {"idle", "next"} /\ UNCHANGED <<builder, serving, stray, faultsLeft>>
  BY DEF AskPhase
<1>2. request[b].at = "none"
  BY <1>1 DEF OneRequest
<1>3. ph \in Phases
  BY DEF Phases
<1>4. /\ appBuild \in [AppBuildIds -> Asks] /\ request \in [AppBuildIds -> Tasks]
      /\ waiters \in Seq(AppBuildIds)
  BY BuilderTypes
<1>5. appBuild' = [appBuild EXCEPT ![b] = [at |-> IF serving THEN "asking" ELSE "failed", phase |-> ph]]
  BY DEF AskPhase
<1>6. appBuild' \in [AppBuildIds -> Asks]
  BY <1>3, <1>4, <1>5 DEF Asks
<1>7. appBuild'[b].at \in {"asking", "failed"} /\ \A x \in AppBuildIds \ {b} : appBuild'[x] = appBuild[x]
  BY <1>4, <1>5
<1>8. CASE serving
  <2> DEFINE r == [NoPhase EXCEPT !.at = "queued", !.phase = ph]
  <2>1. r \in Tasks /\ r.at = "queued"
    BY <1>3 DEF Tasks, NoPhase
  <2>2. request' = [request EXCEPT ![b] = r] /\ waiters' = Append(waiters, b)
    BY <1>8 DEF AskPhase
  <2> HIDE DEF r
  <2>3. /\ request' \in [AppBuildIds -> Tasks] /\ request'[b].at = "queued"
        /\ \A x \in AppBuildIds \ {b} : request'[x] = request[x]
    BY <1>4, <2>1, <2>2
  <2>4. /\ waiters' \in Seq(AppBuildIds) /\ Len(waiters) \in Nat /\ Len(waiters') = Len(waiters) + 1
        /\ waiters'[Len(waiters) + 1] = b
        /\ \A i \in 1 .. Len(waiters) : waiters'[i] = waiters[i]
    BY <1>4, <2>2, AppendProperties, LenProperties
  <2>5. BuilderTypeOK'
    BY <1>1, <1>6, <2>3, <2>4, BuilderTypes, BuilderTypesNext
  <2>6. \A i \in 1 .. Len(waiters) : waiters[i] \in AppBuildIds \ {b}
    BY <1>2, Waiter DEF Queueing
  <2>7. Queueing'
    <3>1. \A i \in 1 .. Len(waiters') : i \in 1 .. Len(waiters) \/ i = Len(waiters) + 1
      BY <2>4
    <3> QED  BY <2>3, <2>4, <2>6, <3>1 DEF Queueing
  <2>8. OneRequest' /\ NobodyServed'
    BY <1>1, <1>7, <1>8, <2>3 DEF OneRequest, NobodyServed
  <2>9. \A x \in AppBuildIds : Holding(x)' <=> Holding(x)
    BY <1>2, <2>3 DEF Holding
  <2>10. SlotsKept'
    BY <2>9 DEF SlotsKept, Holders
  <2>11. InHands'
    <3>1. \A k \in Builders \ stray : builder[k] # "none" => k[1] \in AppBuildIds \ {b}
      BY <1>2, <1>8 DEF InHands, Builders
    <3> QED  BY <1>1, <1>8, <2>3, <3>1 DEF InHands
  <2> QED  BY <2>5, <2>7, <2>8, <2>10, <2>11
<1>9. CASE ~serving
  <2>1. UNCHANGED <<request, waiters>>
    BY <1>9 DEF AskPhase
  <2>2. BuilderTypeOK'
    BY <1>1, <1>6, <2>1, BuilderTypes, BuilderTypesNext
  <2>3. SlotsKept'
    BY <2>1 DEF SlotsKept, Holders, Holding
  <2> QED  BY <1>1, <1>2, <1>7, <1>9, <2>1, <2>2, <2>3
           DEF Queueing, OneRequest, NobodyServed, InHands
<1> QED  BY <1>8, <1>9

LEMMA PlatformGivesUpInv ==
    ASSUME BuilderInv, NEW b \in AppBuildIds, PlatformGivesUp(b)
    PROVE  BuilderInv'
<1> USE DEF BuilderInv
<1>1. UNCHANGED <<request, waiters, builder, serving, stray, faultsLeft>>
  BY DEF PlatformGivesUp
<1>2. appBuild \in [AppBuildIds -> Asks]
  BY BuilderTypes
<1>3. [appBuild[b] EXCEPT !.at = "failed"] \in Asks
  BY <1>2 DEF Asks
<1>4. appBuild' \in [AppBuildIds -> Asks]
  BY <1>2, <1>3 DEF PlatformGivesUp
<1>5. BuilderTypeOK'
  BY <1>1, <1>4, BuilderTypes, BuilderTypesNext
<1>6. OneRequest'
  BY <1>1, <1>2 DEF OneRequest, PlatformGivesUp, Asks
<1>7. SlotsKept'
  BY <1>1 DEF SlotsKept, Holders, Holding
<1> QED  BY <1>1, <1>5, <1>6, <1>7 DEF Queueing, NobodyServed, InHands

LEMMA BuilderExitsInv ==
    ASSUME BuilderInv, NEW k \in Builders, BuilderExits(k)
    PROVE  BuilderInv'
<1> USE DEF BuilderInv
<1>1. UNCHANGED <<appBuild, request, waiters, serving, stray, faultsLeft>> /\ builder[k] = "running"
  BY DEF BuilderExits
<1>2. PICK how \in {"ok", "failed"} : builder' = [builder EXCEPT ![k] = how]
  BY DEF BuilderExits
<1>3. builder \in [Builders -> Says]
  BY BuilderTypes
<1>4. builder' \in [Builders -> Says] /\ \A l \in Builders : builder'[l] # "none" => builder[l] # "none"
  BY <1>1, <1>2, <1>3 DEF Says
<1>5. BuilderTypeOK'
  BY <1>1, <1>4, BuilderTypes, BuilderTypesNext
<1>6. SlotsKept'
  BY <1>1 DEF SlotsKept, Holders, Holding
<1> QED  BY <1>1, <1>4, <1>5, <1>6 DEF Queueing, OneRequest, NobodyServed, InHands

LEMMA TakeSlotInv ==
    ASSUME BuilderInv, TakeSlot
    PROVE  BuilderInv'
<1> USE DEF BuilderInv
<1> DEFINE b == Head(waiters)
<1>1. waiters # <<>> /\ waiters' = Tail(waiters) /\ FreeSlot /\ UNCHANGED <<builder, serving, stray, faultsLeft>>
  BY DEF TakeSlot
<1>2. /\ waiters' \in Seq(AppBuildIds) /\ b \in AppBuildIds /\ Len(waiters) \in Nat \ {0} /\ b = waiters[1]
      /\ \A i \in 1 .. Len(waiters') : i + 1 \in 1 .. Len(waiters) /\ waiters'[i] = waiters[i + 1]
  BY <1>1, QueueShorter
<1>3. request[b].at = "queued"
  BY <1>2 DEF Queueing
<1>4. serving
  BY <1>1 DEF NobodyServed
<1>5. Goes(b, "create")
  BY DEF TakeSlot
<1> HIDE DEF b
<1>6. /\ request' \in [AppBuildIds -> Tasks] /\ appBuild' \in [AppBuildIds -> Asks]
      /\ request'[b].at = "create" /\ request'[b].phase = request[b].phase
      /\ appBuild' = appBuild /\ \A x \in AppBuildIds \ {b} : request'[x] = request[x]
  BY <1>2, <1>5, GoesOn DEF TaskSteps
<1>7. BuilderTypeOK'
  BY <1>1, <1>2, <1>6, BuilderTypes, BuilderTypesNext
<1>8. Queueing'
  <2>1. \A i \in 1 .. Len(waiters') : waiters'[i] \in AppBuildIds \ {b}
    BY <1>2, Waiter DEF Queueing
  <2>2. \A i, j \in 1 .. Len(waiters') : waiters'[i] = waiters'[j] => i + 1 = j + 1
    BY <1>2 DEF Queueing
  <2>3. \A i, j \in 1 .. Len(waiters') : waiters'[i] = waiters'[j] => i = j
    BY <2>2
  <2>4. \A i \in 1 .. Len(waiters') : request'[waiters'[i]].at = "queued"
    BY <1>2, <1>6, <2>1 DEF Queueing
  <2> QED  BY <2>3, <2>4 DEF Queueing
<1>9. OneRequest' /\ NobodyServed'
  BY <1>1, <1>3, <1>4, <1>6 DEF OneRequest, NobodyServed
<1>10. SlotsKept'
  <2>1. \A x \in AppBuildIds : Holding(x)' <=> Holding(x) \/ x = b
    BY <1>2, <1>6 DEF Holding
  <2>2. Holders' = Holders \cup {b} /\ b \notin Holders
    BY <1>2, <1>3, <2>1 DEF Holders, Holding
  <2>3. IsFiniteSet(Holders') /\ Cardinality(Holders') = Cardinality(Holders) + 1
    BY <2>2, FS_AddElement DEF SlotsKept
  <2>4. Cardinality(Holders) \in Nat /\ Cardinality(Holders) < BuildSlots
    BY <1>1, FS_CardinalityType DEF SlotsKept, FreeSlot, Holders
  <2> QED  BY <2>3, <2>4, BuilderAssumption DEF SlotsKept
<1>11. InHands'
  <2>1. \A k \in Builders \ stray : builder[k] # "none" => k[1] \in AppBuildIds \ {b}
    BY <1>3, <1>4 DEF InHands, Builders
  <2> QED  BY <1>1, <1>4, <1>6, <2>1 DEF InHands
<1> QED  BY <1>7, <1>8, <1>9, <1>10, <1>11

LEMMA ManagerRestartInv ==
    ASSUME BuilderInv, ManagerRestart
    PROVE  BuilderInv'
<1> USE DEF BuilderInv
<1>1. serving' = FALSE /\ waiters' = <<>> /\ request' = [b \in AppBuildIds |-> NoPhase] /\ UNCHANGED stray
  BY DEF ManagerRestart
<1>2. NoPhase \in Tasks /\ NoPhase.at = "none"
  BY DEF NoPhase, Tasks, Phases
<1>3. request' \in [AppBuildIds -> Tasks] /\ \A b \in AppBuildIds : request'[b].at = "none"
  BY <1>1, <1>2
<1>4. appBuild' \in [AppBuildIds -> Asks]
  <2>1. \A b \in AppBuildIds : appBuild[b] \in Asks /\ [appBuild[b] EXCEPT !.at = "failed"] \in Asks
    BY BuilderTypes DEF Asks
  <2> QED  BY <2>1 DEF ManagerRestart
<1>5. builder' \in [Builders -> Says]
  <2>1. PICK made : builder' = [k \in Builders |-> IF k \in made THEN "running" ELSE builder[k]]
    BY DEF ManagerRestart
  <2> QED  BY <2>1, BuilderTypes DEF Says
<1>6. faultsLeft' \in Faults
  <2>1. [faultsLeft EXCEPT !.restarts = @ - 1] \in Faults
    BY BuilderTypes, BuilderAssumption DEF Faults, ManagerRestart
  <2> QED  BY <2>1 DEF ManagerRestart
<1>7. BuilderTypeOK'
  BY <1>1, <1>3, <1>4, <1>5, <1>6, BuilderTypes, BuilderTypesNext, EmptySeq
<1>8. Queueing'
  <2>1. Len(waiters') = 0
    BY <1>1, EmptySeq
  <2> QED  BY <2>1 DEF Queueing
<1>9. SlotsKept'
  <2>1. Holders' = {}
    BY <1>3 DEF Holders, Holding
  <2>2. IsFiniteSet(Holders') /\ Cardinality(Holders') = 0
    BY <2>1, FS_EmptySet
  <2> QED  BY <2>2, BuilderAssumption DEF SlotsKept
<1> QED  BY <1>1, <1>3, <1>7, <1>8, <1>9 DEF OneRequest, NobodyServed, InHands

LEMMA RemoveStaleInv ==
    ASSUME BuilderInv, RemoveStale
    PROVE  BuilderInv'
<1> USE DEF BuilderInv
<1>1. ~serving /\ serving' = TRUE /\ UNCHANGED <<appBuild, request, waiters>>
  BY DEF RemoveStale
<1>2. builder \in [Builders -> Says]
  BY BuilderTypes
<1>3. /\ builder' \in [Builders -> Says] /\ stray' \subseteq Builders /\ faultsLeft' \in Faults
      /\ \A k \in Builders \ stray' : builder'[k] = "none"
  <2>1. CASE NoFault /\ builder' = [k \in Builders |-> "none"] /\ stray' = {}
    BY <2>1, FaultType DEF Says
  <2>2. CASE /\ Fault
             /\ \E kept \in SUBSET {k \in Builders : builder[k] # "none"} :
                   /\ builder' = [k \in Builders |-> IF k \in kept THEN builder[k] ELSE "none"]
                   /\ stray' = kept
    BY <1>2, <2>2, FaultType DEF Says
  <2> QED  BY <2>1, <2>2 DEF RemoveStale
<1>4. BuilderTypeOK'
  BY <1>1, <1>3, BuilderTypes, BuilderTypesNext
<1>5. SlotsKept'
  BY <1>1 DEF SlotsKept, Holders, Holding
<1> QED  BY <1>1, <1>3, <1>4, <1>5 DEF Queueing, OneRequest, NobodyServed, InHands

\* A step of the platform, of Docker or of the manager keeps the invariant.
LEMMA BuilderInvariant ==
    ASSUME BuilderInv, [BuilderNext]_builderVars
    PROVE  BuilderInv'
<1>1. CASE UNCHANGED builderVars
  <2>1. UNCHANGED <<appBuild, request, waiters, builder, serving, stray, faultsLeft>>
    BY <1>1 DEF builderVars
  <2>2. BuilderTypeOK' /\ SlotsKept'
    BY <2>1, BuilderTypes, BuilderTypesNext DEF BuilderInv, SlotsKept, Holders, Holding
  <2> QED  BY <2>1, <2>2 DEF BuilderInv, Queueing, OneRequest, NobodyServed, InHands
<1> QED  BY <1>1, AskPhaseInv, PlatformGivesUpInv, PhaseStepInv, BuilderExitsInv, TakeSlotInv,
            ManagerRestartInv, RemoveStaleInv DEF BuilderNext

-----------------------------------------------------------------------------
(* The theorems.                                                           *)

\* The running builders are as many as the tasks that hold a slot, at most: each is in the
\* hands of one, and a task has one container.
LEMMA OneContainerEach ==
    ASSUME BuilderInv
    PROVE  BuildersAreRemoved
<1> DEFINE Going == {k \in Builders \ stray : builder[k] = "running"}
<1> SUFFICES ASSUME serving
             PROVE  /\ \A k \in Builders \ stray : builder[k] # "none" =>
                          request[k[1]].at \in {"wait", "kill", "logs", "remove"} /\ request[k[1]].phase = k[2]
                    /\ Cardinality(Going) <= BuildSlots
  BY DEF BuildersAreRemoved
<1>1. \A k \in Builders \ stray : builder[k] # "none" =>
         request[k[1]].at \in {"wait", "kill", "logs", "remove"} /\ request[k[1]].phase = k[2]
  BY DEF BuilderInv, InHands
<1>2. \A k \in Going : k[1] \in Holders /\ k = <<k[1], request[k[1]].phase>>
  BY <1>1 DEF Builders, Holders, Holding
<1> DEFINE f == [k \in Going |-> k[1]]
<1>3. f \in Injection(Going, Holders)
  BY <1>2 DEF Injection, IsInjective
<1>4. IsFiniteSet(Going) /\ Cardinality(Going) <= Cardinality(Holders)
  BY <1>3, FS_Injection DEF BuilderInv, SlotsKept
<1>5. Cardinality(Going) \in Nat /\ Cardinality(Holders) \in Nat /\ Cardinality(Holders) <= BuildSlots
  BY <1>4, FS_CardinalityType DEF BuilderInv, SlotsKept
<1> QED  BY <1>1, <1>4, <1>5, BuilderAssumption

\* The types of the build runner's variables, whatever the builds, the slots and the bounds.
THEOREM BuilderTypeCorrect == BuilderSpec => []BuilderTypeOK
<1>1. BuilderInv => BuilderTypeOK
  BY DEF BuilderInv
<1> QED  BY <1>1, BuilderInitInv, BuilderInvariant, PTL DEF BuilderSpec

\* `remove_stale` and the semaphore (code-exec-manager/app/builds.py): while the manager
\* serves, a builder that no failed call of Docker left is in the hands of the task that
\* waits for it, and at most BuildSlots of them run, after any restarts.
THEOREM BuildersRemoved == BuilderSpec => []BuildersAreRemoved
<1>1. BuilderInv => BuildersAreRemoved
  BY OneContainerEach
<1> QED  BY <1>1, BuilderInitInv, BuilderInvariant, PTL DEF BuilderSpec
==============================================================================
