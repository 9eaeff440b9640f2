---------------------------- MODULE ServiceProofs ----------------------------
(***************************************************************************)
(* Theorems about what the program does to its host: the executable at the *)
(* stable path (ManagedCollector), the name of the Local API's socket      *)
(* (SocketPath) and the child processes it runs (BoundedProcess).          *)
(***************************************************************************)
EXTENDS ManagedCollector, SocketPath, BoundedProcess, TLAPS

(***************************************************************************)
(* No executable of a service that is switched on is lost.  The invariant  *)
(* says at every place of a command where the executable is that it found, *)
(* and that a service that is switched on had one to find.                 *)
(***************************************************************************)
\* Places at which what was found is at the stable path, or moved aside.
Untouched == {"copied", "installed", "inactive"}
MovedAside == {"placed", "verified", "active", "removing"}

\* Where the executable is that the command found.
FoundIsKept ==
    /\ lifecycle.at = "rest" => lifecycle = NoCommand
    /\ lifecycle.at \in Untouched => stable = lifecycle.found /\ lifecycle.backup = Nowhere
    /\ lifecycle.at \in {"aside", "restoring"} =>
          lifecycle.found # Nowhere /\ lifecycle.backup = lifecycle.found
    /\ lifecycle.at \in MovedAside => lifecycle.backup = lifecycle.found
    /\ lifecycle.at \in {"placed", "verified", "active"} => stable \in Versions
    /\ lifecycle.at = "unlinked" => stable = Nowhere /\ lifecycle.backup = Nowhere
    /\ lifecycle.at \in {"installed", "inactive", "unlinked"} => lifecycle.version = Nowhere
    /\ lifecycle.at = "copied" => lifecycle.version \in Versions
    /\ lifecycle.at = "aside" => lifecycle.version \in Versions

\* A service that is switched on had an executable when the command began, or a
\* leftover of it.
ServiceHasFound ==
    /\ lifecycle.at \in {"inactive", "unlinked"} => unit = "absent"
    /\ unit = "enabled" /\ lifecycle.at \notin {"rest", "active"} =>
          /\ faults = {} => lifecycle.found # Nowhere
          /\ "service" \notin faults => lifecycle.found # Nowhere \/ leftovers # {}

InstallInv == InstallTypeOK /\ FoundIsKept /\ ServiceHasFound /\ ExecutableSurvives

LEMMA InstallInvInit == InstallInit => InstallInv
BY DEF InstallInit, InstallInv, InstallTypeOK, FoundIsKept, ServiceHasFound, ExecutableSurvives,
       NoCommand, Untouched, MovedAside

LEMMA InstallInvStep == InstallInv /\ [InstallNext]_installVars => InstallInv'
<1> SUFFICES ASSUME InstallInv, [InstallNext]_installVars
             PROVE InstallInv'
    OBVIOUS
<1> USE NowhereAssumption DEF InstallInv, InstallTypeOK, FoundIsKept, ServiceHasFound, ExecutableSurvives,
        NoCommand, Untouched, MovedAside
<1>1. ASSUME NEW v \in Versions, BeginInstall(v) PROVE InstallInv'
      BY <1>1 DEF BeginInstall
<1>2. CASE MoveAside
      BY <1>2 DEF MoveAside
<1>3. CASE PutInPlace
      BY <1>3 DEF PutInPlace, Proceed
<1>4. CASE PlaceFails
      BY <1>4 DEF PlaceFails, Proceed, Ends
<1>5. CASE Verify
      BY <1>5 DEF Verify, Proceed
<1>6. CASE Activate
      BY <1>6 DEF Activate, Proceed
<1>7. CASE ActivateFails
      BY <1>7 DEF ActivateFails, Proceed
<1>8. CASE DropBackup
      BY <1>8 DEF DropBackup, Proceed, Ends
<1>9. CASE RemoveNew
      BY <1>9 DEF RemoveNew, Proceed, Ends
<1>10. CASE RestoreBackup
      BY <1>10 DEF RestoreBackup, Ends
<1>11. CASE RollbackFails
      BY <1>11 DEF RollbackFails, Ends, LeavesBackup
<1>12. CASE BeginUninstall
  <2>1. lifecycle' = [at |-> "installed", version |-> Nowhere, found |-> stable, backup |-> Nowhere]
        BY <1>12 DEF BeginUninstall
  <2> QED
      BY <1>12, <2>1 DEF BeginUninstall
<1>13. CASE Deactivate
      BY <1>13 DEF Deactivate, Proceed
<1>14. CASE DeactivateFails
      BY <1>14 DEF DeactivateFails, Ends
<1>15. CASE RemoveStable
      BY <1>15 DEF RemoveStable, Proceed, Ends
<1>16. CASE RemoveRuntime
      BY <1>16 DEF RemoveRuntime, Ends
<1>17. CASE NotConfirmed
      BY <1>17 DEF NotConfirmed, Proceed
<1>18. CASE CommandKilled
      BY <1>18 DEF CommandKilled, Ends, LeavesBackup
<1>19. CASE UNCHANGED installVars
      BY <1>19 DEF installVars
<1> QED
    BY <1>1, <1>2, <1>3, <1>4, <1>5, <1>6, <1>7, <1>8, <1>9, <1>10, <1>11, <1>12, <1>13, <1>14,
       <1>15, <1>16, <1>17, <1>18, <1>19 DEF InstallNext

\* Whatever is installed over whatever, and whichever steps fail or are the last
\* before a kill: a failed command leaves the executable it found, or is a
\* removal that has taken away service and executable; between commands a
\* service that is switched on has its executable unless one was killed, could
\* not roll back or left the service on; and after a kill or a broken rollback
\* the executable is still there.
THEOREM ExecutableKept == InstallSpec => []ExecutableSurvives
<1>1. InstallInv => ExecutableSurvives
      BY DEF InstallInv
<1> QED
    BY InstallInvInit, InstallInvStep, <1>1, PTL DEF InstallSpec

(***************************************************************************)
(* Proofs about the name of the Local API's socket (SocketPath).           *)
(***************************************************************************)
Nodes == Inodes \cup {NoNode}

ServerPlaces == {"down", "probing", "checking", "replacing", "replaced", "binding", "bound", "listening",
           "identified", "serving", "ending", "ended"}

ServerStates == [at : ServerPlaces, node : Nodes, stale : Nodes, created : Nodes]

SocketTyped ==
    /\ path \in Nodes
    /\ quarantine \in [Servers -> Nodes]
    /\ orphans \subseteq Inodes
    /\ server \in [Servers -> ServerStates]
    /\ deaths \in 0..MaxDeaths
    /\ met \in BOOLEAN

Busy(s) == server[s].at \notin {"down", "serving"}

\* A server that is about to look at what it renamed has renamed something.
Renamed == \A s \in Servers : server[s].at \in {"replaced", "ended"} => quarantine[s] # NoNode

\* No node is bound to two sockets.
OneSocketEach ==
    \A s, o \in Servers : server[s].node = server[o].node /\ server[s].node # NoNode => s = o

\* History does not lie: servers that never met are on their way one at a time.
OneOnItsWay == ~met => \A s, o \in Servers : Busy(s) /\ Busy(o) => s = o

\* From the bind to the end of serving, the name is the server's own.
HasTheName ==
    ~met => \A s \in Servers :
        server[s].at \in {"bound", "listening", "identified", "serving"} =>
            /\ path = server[s].node /\ path # NoNode
            /\ server[s].at \in {"identified", "serving"} => server[s].created = path

\* Who got past the probe, or ends, does so while nobody serves.
NobodyServes ==
    ~met => \A s, o \in Servers : Busy(s) /\ server[s].at # "probing" => server[o].at # "serving"

SocketInv == SocketTyped /\ Renamed /\ OneSocketEach /\ OneOnItsWay /\ HasTheName /\ NobodyServes

\* What a move of one server changes.
LEMMA BecomesChanges ==
    ASSUME SocketInv, NEW s \in Servers, NEW next \in ServerStates, Becomes(s, next)
    PROVE  /\ server' \in [Servers -> ServerStates]
           /\ server'[s] = next
           /\ \A q \in Servers \ {s} : server'[q] = server[q]
           /\ met' \in BOOLEAN
           /\ ~met' => /\ ~met
                       /\ next.at \notin {"down", "serving"} => \A q \in Servers \ {s} : ~Busy(q)
BY DEF Becomes, SocketInv, SocketTyped, Busy

\* What a server that only moves to another place keeps.
LEMMA MovesKeep ==
    ASSUME SocketInv, NEW s \in Servers, NEW at \in ServerPlaces, Reaches(s, at)
    PROVE  /\ Becomes(s, [server[s] EXCEPT !.at = at])
           /\ [server[s] EXCEPT !.at = at] \in ServerStates
           /\ [server[s] EXCEPT !.at = at].at = at
           /\ [server[s] EXCEPT !.at = at].node = server[s].node
           /\ [server[s] EXCEPT !.at = at].created = server[s].created
<1>1. server[s] \in [at : ServerPlaces, node : Nodes, stale : Nodes, created : Nodes]
  BY DEF SocketInv, SocketTyped, ServerStates
<1> QED
  BY <1>1 DEF Reaches, ServerStates

\* A server that fails is as it was before it began.
LEMMA DownIsAState == Down \in ServerStates /\ Down.at = "down" /\ Down.node = NoNode
BY DEF Down, ServerStates, ServerPlaces, Nodes

\* The empty name is nobody's, and nothing was renamed.
LEMMA SocketInitHolds == SocketInit => SocketInv
<1> SUFFICES ASSUME SocketInit PROVE SocketInv
  OBVIOUS
<1>1. SocketTyped
  <2>1. path \in Nodes /\ quarantine \in [Servers -> Nodes] /\ orphans \subseteq Inodes /\ met \in BOOLEAN
    BY DEF SocketInit, Nodes
  <2>2. server \in [Servers -> ServerStates]
    BY DownIsAState DEF SocketInit
  <2>3. deaths \in 0..MaxDeaths
    BY SocketAssumption DEF SocketInit
  <2> QED
    BY <2>1, <2>2, <2>3 DEF SocketTyped
<1>2. \A s \in Servers : server[s] = Down
  BY DEF SocketInit
<1>3. Renamed /\ OneSocketEach /\ OneOnItsWay /\ HasTheName /\ NobodyServes
  BY <1>2, DownIsAState DEF Renamed, OneSocketEach, OneOnItsWay, HasTheName, NobodyServes, Busy
<1> QED
  BY <1>1, <1>3 DEF SocketInv

\* A server ends at any place, and the name, its quarantine and what is lost of
\* it may change only if nobody needs the name.
LEMMA FailKeeps ==
    ASSUME SocketInv, NEW s \in Servers, Fails(s),
           path' \in Nodes, quarantine' \in [Servers -> Nodes], orphans' \subseteq Inodes, deaths' \in 0..MaxDeaths,
           \A q \in Servers \ {s} : quarantine'[q] = quarantine[q],
           path' # path => Busy(s) /\ server[s].at # "probing"
    PROVE  SocketInv'
<1>1. /\ server' \in [Servers -> ServerStates] /\ met' \in BOOLEAN
      /\ server'[s].at = "down" /\ server'[s].node = NoNode
      /\ \A q \in Servers \ {s} : server'[q] = server[q]
      /\ ~met' => ~met
  BY BecomesChanges, DownIsAState DEF Fails
<1>2. SocketTyped'
  BY <1>1 DEF SocketTyped, SocketInv
<1>3. Renamed' /\ OneSocketEach' /\ OneOnItsWay' /\ NobodyServes'
  BY <1>1 DEF SocketInv, Renamed, OneSocketEach, OneOnItsWay, NobodyServes, Busy
<1>4. HasTheName'
  <2> SUFFICES ASSUME ~met', NEW q \in Servers,
                      server'[q].at \in {"bound", "listening", "identified", "serving"}
               PROVE  /\ path' = server'[q].node /\ path' # NoNode
                      /\ server'[q].at \in {"identified", "serving"} => server'[q].created = path'
    BY DEF HasTheName
  <2>1. q # s /\ server'[q] = server[q] /\ ~met
    BY <1>1
  <2>2. path' = path
    BY <2>1 DEF SocketInv, OneOnItsWay, NobodyServes, Busy
  <2> QED
    BY <2>1, <2>2 DEF SocketInv, HasTheName
<1> QED
  BY <1>2, <1>3, <1>4 DEF SocketInv

\* A server goes on to a place where it has no name yet, or no longer.
LEMMA ReachKeeps ==
    ASSUME SocketInv, NEW s \in Servers, NEW next \in ServerStates, Becomes(s, next),
           next.at \in {"probing", "checking", "replacing", "replaced", "binding", "ending", "ended"},
           next.node \in {server[s].node, NoNode},
           path' \in Nodes, quarantine' \in [Servers -> Nodes], orphans' \subseteq Inodes, deaths' \in 0..MaxDeaths,
           \A q \in Servers \ {s} : quarantine'[q] = quarantine[q],
           next.at \in {"replaced", "ended"} => quarantine'[s] # NoNode,
           path' # path => Busy(s) /\ server[s].at # "probing",
           ~met /\ next.at # "probing" => \A q \in Servers \ {s} : server[q].at # "serving"
    PROVE  SocketInv'
<1>1. /\ server' \in [Servers -> ServerStates] /\ met' \in BOOLEAN
      /\ server'[s] = next
      /\ \A q \in Servers \ {s} : server'[q] = server[q]
      /\ ~met' => ~met /\ \A q \in Servers \ {s} : ~Busy(q)
  BY BecomesChanges
<1>2. SocketTyped'
  BY <1>1 DEF SocketTyped, SocketInv
<1>3. Renamed' /\ OneSocketEach'
  BY <1>1 DEF SocketInv, Renamed, OneSocketEach
<1>4. OneOnItsWay'
  BY <1>1 DEF OneOnItsWay, Busy
<1>5. NobodyServes'
  BY <1>1 DEF NobodyServes, Busy
<1>6. HasTheName'
  <2> SUFFICES ASSUME ~met', NEW q \in Servers,
                      server'[q].at \in {"bound", "listening", "identified", "serving"}
               PROVE  /\ path' = server'[q].node /\ path' # NoNode
                      /\ server'[q].at \in {"identified", "serving"} => server'[q].created = path'
    BY DEF HasTheName
  <2>1. q # s /\ server'[q] = server[q] /\ ~met /\ ~Busy(q)
    BY <1>1
  <2>2. server[q].at = "serving"
    BY <2>1 DEF Busy
  <2>3. path' = path
    BY <2>1, <2>2 DEF SocketInv, NobodyServes
  <2> QED
    BY <2>1, <2>3 DEF SocketInv, HasTheName
<1> QED
  BY <1>2, <1>3, <1>4, <1>5, <1>6 DEF SocketInv

LEMMA LookUpKeeps == ASSUME SocketInv, NEW s \in Servers, LookUp(s) PROVE SocketInv'
<1> USE DEF LookUp
<1>1. CASE path = NoNode
  <2>1. Reaches(s, "binding")
    BY <1>1
  <2>2. ~met => \A q \in Servers : server[q].at # "serving"
    BY <1>1 DEF SocketInv, HasTheName
  <2> DEFINE next == [server[s] EXCEPT !.at = "binding"]
  <2>3. next \in ServerStates /\ Becomes(s, next) /\ next.at = "binding" /\ next.node = server[s].node
    BY <2>1, MovesKeep DEF ServerPlaces
  <2> HIDE DEF next
  <2> QED
    BY <2>2, <2>3, ReachKeeps DEF SocketInv, SocketTyped
<1>2. CASE path # NoNode
  <2> DEFINE next == [server[s] EXCEPT !.at = "probing", !.stale = path]
  <2>1. server[s] \in [at : ServerPlaces, node : Nodes, stale : Nodes, created : Nodes] /\ path \in Nodes
    BY DEF SocketInv, SocketTyped, ServerStates
  <2>2. next \in ServerStates /\ next.at = "probing" /\ next.node = server[s].node /\ Becomes(s, next)
    BY <1>2, <2>1 DEF ServerStates, ServerPlaces
  <2> HIDE DEF next
  <2> QED
    BY <2>2, ReachKeeps DEF SocketInv, SocketTyped
<1> QED
  BY <1>1, <1>2

\* Who serves has the name and answers; so the probe was in vain only if nobody
\* serves.
LEMMA ProbeKeeps == ASSUME SocketInv, NEW s \in Servers, Probe(s) PROVE SocketInv'
<1> USE DEF Probe
<1>1. CASE path # NoNode /\ Answered(path)
  BY <1>1, FailKeeps DEF SocketInv, SocketTyped
<1>2. CASE ~(path # NoNode /\ Answered(path))
  <2>1. ~met => \A q \in Servers : server[q].at # "serving"
    BY <1>2 DEF SocketInv, HasTheName, Answered, Listens
  <2> DEFINE next == [server[s] EXCEPT !.at = "checking"]
  <2>2. next \in ServerStates /\ Becomes(s, next) /\ next.at = "checking" /\ next.node = server[s].node
    BY <1>2, MovesKeep DEF ServerPlaces
  <2> HIDE DEF next
  <2> QED
    BY <2>1, <2>2, ReachKeeps DEF SocketInv, SocketTyped
<1> QED
  BY <1>1, <1>2

LEMMA CheckKeeps == ASSUME SocketInv, NEW s \in Servers, Check(s) PROVE SocketInv'
<1> USE DEF Check
<1>1. CASE path = server[s].stale
  <2>1. ~met => \A q \in Servers : server[q].at # "serving"
    BY DEF SocketInv, NobodyServes, Busy
  <2> DEFINE next == [server[s] EXCEPT !.at = "replacing"]
  <2>2. next \in ServerStates /\ Becomes(s, next) /\ next.at = "replacing" /\ next.node = server[s].node
    BY <1>1, MovesKeep DEF ServerPlaces
  <2> HIDE DEF next
  <2> QED
    BY <2>1, <2>2, ReachKeeps DEF SocketInv, SocketTyped
<1>2. CASE path # server[s].stale
  BY <1>2, FailKeeps DEF SocketInv, SocketTyped
<1> QED
  BY <1>1, <1>2

LEMMA CloseKeeps == ASSUME SocketInv, NEW s \in Servers, Close(s) PROVE SocketInv'
<1> DEFINE next == [server[s] EXCEPT !.at = "ending", !.node = NoNode]
<1>1. server[s] \in [at : ServerPlaces, node : Nodes, stale : Nodes, created : Nodes]
  BY DEF SocketInv, SocketTyped, ServerStates
<1>2. next \in ServerStates /\ next.at = "ending" /\ next.node = NoNode /\ Becomes(s, next)
  BY <1>1 DEF Close, ServerStates, ServerPlaces, Nodes
<1>3. ~met => \A q \in Servers \ {s} : server[q].at # "serving"
  BY DEF Close, SocketInv, HasTheName, OneSocketEach
<1> HIDE DEF next
<1> QED
  BY <1>2, <1>3, ReachKeeps DEF Close, SocketInv, SocketTyped

\* The removal of a node goes on, or its server is done.
LEMMA ClearedKeeps ==
    ASSUME SocketInv, NEW s \in Servers, Cleared(s),
           server[s].at \in {"replacing", "replaced", "ending", "ended"},
           path' = path, quarantine' \in [Servers -> Nodes], orphans' = orphans, deaths' = deaths,
           \A q \in Servers \ {s} : quarantine'[q] = quarantine[q]
    PROVE  SocketInv'
<1>1. CASE server[s].at \in {"replacing", "replaced"}
  <2>1. ~met => \A q \in Servers : server[q].at # "serving"
    BY <1>1 DEF SocketInv, NobodyServes, Busy
  <2> DEFINE next == [server[s] EXCEPT !.at = "binding"]
  <2>2. next \in ServerStates /\ Becomes(s, next) /\ next.at = "binding" /\ next.node = server[s].node
    BY <1>1, MovesKeep DEF Cleared, ServerPlaces
  <2> HIDE DEF next
  <2> QED
    BY <2>1, <2>2, ReachKeeps DEF SocketInv, SocketTyped
<1>2. CASE server[s].at \notin {"replacing", "replaced"}
  BY <1>2, FailKeeps DEF Cleared, SocketInv, SocketTyped
<1> QED
  BY <1>1, <1>2

LEMMA QuarantineKeeps == ASSUME SocketInv, NEW s \in Servers, Quarantine(s) PROVE SocketInv'
<1> USE DEF Quarantine
<1>1. CASE path = NoNode
  BY <1>1, ClearedKeeps DEF SocketInv, SocketTyped
<1>2. CASE path # NoNode
  <2> DEFINE at == IF server[s].at = "replacing" THEN "replaced" ELSE "ended"
             next == [server[s] EXCEPT !.at = at]
  <2>1. at \in ServerPlaces /\ at \in {"replaced", "ended"} /\ Reaches(s, at)
    BY <1>2 DEF ServerPlaces
  <2> HIDE DEF at
  <2>2. next \in ServerStates /\ Becomes(s, next) /\ next.at = at /\ next.node = server[s].node
    BY <2>1, MovesKeep
  <2>3. ~met => \A q \in Servers : server[q].at # "serving"
    BY DEF SocketInv, NobodyServes, Busy
  <2>4. /\ path' = NoNode /\ quarantine' \in [Servers -> Nodes] /\ quarantine'[s] # NoNode
        /\ \A q \in Servers \ {s} : quarantine'[q] = quarantine[q]
    BY <1>2 DEF SocketInv, SocketTyped
  <2>5. Busy(s) /\ server[s].at # "probing" /\ NoNode \in Nodes
    BY DEF Busy, Nodes
  <2> HIDE DEF next
  <2> QED
    BY <2>1, <2>2, <2>3, <2>4, <2>5, ReachKeeps DEF SocketInv, SocketTyped
<1> QED
  BY <1>1, <1>2

LEMMA UnlinkKeeps == ASSUME SocketInv, NEW s \in Servers, Unlink(s) PROVE SocketInv'
<1>1. /\ quarantine' \in [Servers -> Nodes]
      /\ \A q \in Servers \ {s} : quarantine'[q] = quarantine[q]
  BY DEF Unlink, SocketInv, SocketTyped, Nodes
<1> QED
  BY <1>1, ClearedKeeps DEF Unlink

\* What did not belong to the server is put back, or lost.
LEMMA RestoreKeeps == ASSUME SocketInv, NEW s \in Servers, Restore(s) PROVE SocketInv'
<1>1. /\ quarantine' \in [Servers -> Nodes]
      /\ \A q \in Servers \ {s} : quarantine'[q] = quarantine[q]
  BY DEF Restore, SocketInv, SocketTyped, Nodes
<1>2. path' \in Nodes /\ orphans' \subseteq Inodes
  BY DEF Restore, SocketInv, SocketTyped, Renamed, Nodes
<1>3. Busy(s) /\ server[s].at # "probing" /\ Fails(s) /\ deaths' \in 0..MaxDeaths
  BY DEF Restore, Busy, SocketInv, SocketTyped
<1> QED
  BY <1>1, <1>2, <1>3, FailKeeps

LEMMA DieKeeps == ASSUME SocketInv, NEW s \in Servers, Die(s) PROVE SocketInv'
<1>1. /\ quarantine' \in [Servers -> Nodes]
      /\ \A q \in Servers \ {s} : quarantine'[q] = quarantine[q]
  BY DEF Die, SocketInv, SocketTyped, Nodes
<1>2. orphans' \subseteq Inodes /\ path' = path /\ path \in Nodes
  BY DEF Die, SocketInv, SocketTyped, Nodes
<1>3. deaths' \in 0..MaxDeaths
  BY SocketAssumption DEF Die, SocketInv, SocketTyped
<1> QED
  BY <1>1, <1>2, <1>3, FailKeeps DEF Die

\* From the bind to serving nobody else is on its way or serves, so that the
\* name is what the server made it.
LEMMA TakesKeep ==
    ASSUME SocketInv, NEW s \in Servers, NEW next \in ServerStates, Becomes(s, next),
           server[s].at \in {"binding", "bound", "listening", "identified"},
           next.at \in {"bound", "listening", "identified", "serving"},
           path' \in Nodes, UNCHANGED <<quarantine, orphans, deaths>>,
           \A q \in Servers \ {s} : next.node # NoNode => next.node # server[q].node,
           ~met => /\ path' = next.node /\ path' # NoNode
                   /\ next.at \in {"identified", "serving"} => next.created = path'
    PROVE  SocketInv'
<1>1. /\ server' \in [Servers -> ServerStates] /\ met' \in BOOLEAN
      /\ server'[s] = next
      /\ \A q \in Servers \ {s} : server'[q] = server[q]
      /\ ~met' => ~met
  BY BecomesChanges
<1>2. ~met => \A q \in Servers \ {s} : server[q].at = "down"
  BY DEF SocketInv, OneOnItsWay, NobodyServes, Busy
<1>3. SocketTyped' /\ Renamed' /\ OneSocketEach'
  <2>1. SocketTyped'
    BY <1>1 DEF SocketTyped, SocketInv
  <2>2. Renamed'
    BY <1>1 DEF Renamed, SocketInv
  <2>3. OneSocketEach'
    BY <1>1 DEF OneSocketEach, SocketInv
  <2> QED
    BY <2>1, <2>2, <2>3
<1>4. OneOnItsWay' /\ NobodyServes'
  BY <1>1, <1>2 DEF OneOnItsWay, NobodyServes, Busy
<1>5. HasTheName'
  BY <1>1, <1>2 DEF HasTheName
<1> QED
  BY <1>3, <1>4, <1>5 DEF SocketInv

LEMMA BindKeeps == ASSUME SocketInv, NEW s \in Servers, Bind(s) PROVE SocketInv'
<1> USE DEF Bind
<1>1. CASE path # NoNode /\ Fails(s) /\ UNCHANGED path
  BY <1>1, FailKeeps DEF SocketInv, SocketTyped
<1>2. ASSUME path = NoNode, NEW node \in Inodes \ InUse, path' = node,
             Becomes(s, [server[s] EXCEPT !.at = "bound", !.node = node])
      PROVE SocketInv'
  <2> DEFINE next == [server[s] EXCEPT !.at = "bound", !.node = node]
  <2>1. server[s] \in [at : ServerPlaces, node : Nodes, stale : Nodes, created : Nodes] /\ node \in Nodes
    BY DEF SocketInv, SocketTyped, ServerStates, Nodes
  <2>2. next \in ServerStates /\ next.at = "bound" /\ next.node = node /\ Becomes(s, next)
    BY <1>2, <2>1 DEF ServerStates, ServerPlaces
  <2>3. node # NoNode /\ \A q \in Servers : server[q].node # node
    BY SocketAssumption DEF InUse
  <2> HIDE DEF next
  <2> QED
    BY <1>2, <2>1, <2>2, <2>3, TakesKeep
<1> QED
  BY <1>1, <1>2

LEMMA ListenKeeps == ASSUME SocketInv, NEW s \in Servers, Listen(s) PROVE SocketInv'
<1> DEFINE next == [server[s] EXCEPT !.at = "listening"]
<1>1. next \in ServerStates /\ Becomes(s, next) /\ next.at = "listening" /\ next.node = server[s].node
  BY MovesKeep DEF Listen, ServerPlaces
<1>2. \A q \in Servers \ {s} : server[s].node # NoNode => server[s].node # server[q].node
  BY DEF SocketInv, OneSocketEach
<1>3. ~met => path = server[s].node /\ path # NoNode
  BY DEF Listen, SocketInv, HasTheName
<1>4. path' = path /\ path \in Nodes
  BY DEF Listen, SocketInv, SocketTyped
<1> HIDE DEF next
<1> QED
  BY <1>1, <1>2, <1>3, <1>4, TakesKeep DEF Listen

LEMMA IdentifyKeeps == ASSUME SocketInv, NEW s \in Servers, Identify(s) PROVE SocketInv'
<1> USE DEF Identify
<1>1. CASE path = NoNode
  BY <1>1, FailKeeps DEF SocketInv, SocketTyped
<1>2. CASE path # NoNode
  <2> DEFINE next == [server[s] EXCEPT !.at = "identified", !.created = path]
  <2>1. server[s] \in [at : ServerPlaces, node : Nodes, stale : Nodes, created : Nodes] /\ path \in Nodes
    BY DEF SocketInv, SocketTyped, ServerStates
  <2>2. /\ next \in ServerStates /\ next.at = "identified" /\ next.node = server[s].node
        /\ next.created = path /\ Becomes(s, next)
    BY <1>2, <2>1 DEF ServerStates, ServerPlaces
  <2>3. \A q \in Servers \ {s} : server[s].node # NoNode => server[s].node # server[q].node
    BY DEF SocketInv, OneSocketEach
  <2>4. ~met => path = server[s].node
    BY DEF SocketInv, HasTheName
  <2> HIDE DEF next
  <2> QED
    BY <1>2, <2>1, <2>2, <2>3, <2>4, TakesKeep
<1> QED
  BY <1>1, <1>2

LEMMA ProtectKeeps == ASSUME SocketInv, NEW s \in Servers, Protect(s) PROVE SocketInv'
<1> USE DEF Protect
<1>1. CASE path = NoNode
  <2>1. ~met => \A q \in Servers : server[q].at # "serving"
    BY DEF SocketInv, NobodyServes, Busy
  <2> DEFINE next == [server[s] EXCEPT !.at = "ending"]
  <2>2. next \in ServerStates /\ Becomes(s, next) /\ next.at = "ending" /\ next.node = server[s].node
    BY <1>1, MovesKeep DEF ServerPlaces
  <2> HIDE DEF next
  <2> QED
    BY <2>1, <2>2, ReachKeeps DEF SocketInv, SocketTyped
<1>2. CASE path # NoNode
  <2> DEFINE next == [server[s] EXCEPT !.at = "serving"]
  <2>1. /\ next \in ServerStates /\ Becomes(s, next) /\ next.at = "serving" /\ next.node = server[s].node
        /\ next.created = server[s].created
    BY <1>2, MovesKeep DEF ServerPlaces
  <2>2. \A q \in Servers \ {s} : server[s].node # NoNode => server[s].node # server[q].node
    BY DEF SocketInv, OneSocketEach
  <2>3. ~met => path = server[s].node /\ server[s].created = path
    BY DEF SocketInv, HasTheName
  <2>4. path' = path /\ path \in Nodes
    BY DEF SocketInv, SocketTyped
  <2> HIDE DEF next
  <2> QED
    BY <1>2, <2>1, <2>2, <2>3, <2>4, TakesKeep
<1> QED
  BY <1>1, <1>2

LEMMA SocketStepKeeps == SocketInv /\ [SocketNext]_socketVars => SocketInv'
<1> SUFFICES ASSUME SocketInv, [SocketNext]_socketVars PROVE SocketInv'
  OBVIOUS
<1>1. CASE UNCHANGED socketVars
  BY <1>1 DEF socketVars, SocketInv, SocketTyped, Renamed, OneSocketEach, OneOnItsWay, HasTheName,
              NobodyServes, Busy
<1>2. ASSUME NEW s \in Servers,
             \/ LookUp(s) \/ Probe(s) \/ Check(s) \/ Bind(s) \/ Listen(s) \/ Identify(s) \/ Protect(s)
             \/ Close(s) \/ Quarantine(s) \/ Unlink(s) \/ Restore(s) \/ Die(s)
      PROVE SocketInv'
  BY <1>2, LookUpKeeps, ProbeKeeps, CheckKeeps, BindKeeps, ListenKeeps, IdentifyKeeps, ProtectKeeps,
     CloseKeeps, QuarantineKeeps, UnlinkKeeps, RestoreKeeps, DieKeeps
<1> QED
  BY <1>1, <1>2 DEF SocketNext

\* The name and its quarantines hold nodes, and a server is somewhere in its
\* code, for any number of servers, nodes and deaths.
THEOREM SocketTyping == SocketSpec => []SocketTypeOK
<1>1. SocketInv => SocketTypeOK
  BY DEF SocketInv, SocketTyped, SocketTypeOK, ServerStates, ServerPlaces, Nodes
<1> QED
  BY <1>1, SocketInitHolds, SocketStepKeeps, PTL DEF SocketSpec

\* However many servers start, crash and end one after the other, and whatever
\* they leave behind, one that serves has the name and knows its own node.
THEOREM ServersKeepTheName == SocketSpec => []ServesUnderTheName
<1>1. SocketInv => ServesUnderTheName
  BY DEF SocketInv, HasTheName, ServesUnderTheName
<1> QED
  BY <1>1, SocketInitHolds, SocketStepKeeps, PTL DEF SocketSpec

(***************************************************************************)
(* Proofs about one call of run_bounded (BoundedProcess).                  *)
(***************************************************************************)
States == {"unborn", "running", "killed", "exited", "reaped"}

CallStages == {"starting", "flags", "child", "workers", "terminating", "waiting", "closing", "joining", "judging",
           "returned", "refused"}

Failures == {"none", "timeout", "output_overflow", "reader_failed", "runner_failed"}

CallTyped ==
    /\ process \in [Processes -> States]
    /\ grouped \subseteq Processes
    /\ holds \in [Processes -> SUBSET (Streams \cup {Stdin})]
    /\ written \in [Streams -> Nat] /\ pipe \in [Streams -> Nat] /\ captured \in [Streams -> 0..Limit]
    /\ reader \in [Streams -> {"looping", "reading", "done"}]
    /\ writer \in {"writing", "done"}
    /\ overflow \in BOOLEAN /\ readerFailed \in BOOLEAN /\ writerFailed \in BOOLEAN
    /\ sup \in [at : CallStages, exited : BOOLEAN, failure : Failures]

Launched == sup.at \notin {"starting", "refused"}

\* The leader is waited for at one place, and what it is then it stays.
LeaderWaitedFor ==
    process[Leader] = "reaped" <=> sup.at \in {"closing", "joining", "judging", "returned"}

\* Nobody is born into the group once it was signalled.
GroupStops ==
    /\ \A p \in Helpers : process[p] = "unborn" => p \notin grouped
    /\ sup.at \in {"waiting", "closing", "joining", "judging", "returned"} =>
          \A p \in grouped : process[p] # "running"

\* Every chunk is in the pipe or captured, unless a reader dropped one.
NothingLost ==
    \A s \in Streams : /\ pipe[s] <= written[s]
                       /\ ~overflow => written[s] = captured[s] + pipe[s]

\* A reader gives up only at the end of its stream, or says so.
ReadersSay ==
    Launched => \A s \in Streams : reader[s] = "done" =>
        overflow \/ readerFailed \/ (pipe[s] = 0 /\ \A p \in Processes : s \notin holds[p])

\* A call is only judged a success when every thread has ended without a flag.
SuccessIsJudged ==
    /\ sup.at = "judging" /\ sup.failure = "none" => WorkersExited
    /\ sup.at = "returned" /\ sup.failure = "none" => WorkersExited /\ ~overflow /\ ~readerFailed

CallInv == CallTyped /\ LeaderWaitedFor /\ GroupStops /\ NothingLost /\ ReadersSay /\ SuccessIsJudged

\* Nothing is born and nothing flows.
LEMMA CallInitHolds == CallInit => CallInv
<1> SUFFICES ASSUME CallInit PROVE CallInv
  OBVIOUS
<1> USE ProcessAssumption DEF CallInit
<1>1. CallTyped
  <2>1. process \in [Processes -> States] /\ grouped \subseteq Processes
    BY DEF States, Processes
  <2>2. holds \in [Processes -> SUBSET (Streams \cup {Stdin})]
    OBVIOUS
  <2>3. written \in [Streams -> Nat] /\ pipe \in [Streams -> Nat] /\ captured \in [Streams -> 0..Limit]
    OBVIOUS
  <2>4. reader \in [Streams -> {"looping", "reading", "done"}] /\ writer \in {"writing", "done"}
    OBVIOUS
  <2>5. sup \in [at : CallStages, exited : BOOLEAN, failure : Failures]
    BY DEF CallStages, Failures
  <2> QED
    BY <2>1, <2>2, <2>3, <2>4, <2>5 DEF CallTyped
<1>2. LeaderWaitedFor /\ GroupStops
  BY DEF LeaderWaitedFor, GroupStops, Processes
<1>3. NothingLost /\ ReadersSay /\ SuccessIsJudged
  BY DEF NothingLost, ReadersSay, SuccessIsJudged, Launched
<1> QED
  BY <1>1, <1>2, <1>3 DEF CallInv

\* The steps of children: the supervisor and the threads stand still.
LEMMA ForkKeeps ==
    ASSUME CallInv, NEW p \in Processes, NEW child \in Helpers, Fork(p, child) PROVE CallInv'
<1> USE ProcessAssumption DEF Fork, workerVars, boundVars, CallInv
<1>1. child \in Processes /\ child # Leader /\ Leader \in Processes
  BY DEF Processes
<1>2. CallTyped'
  BY <1>1 DEF CallTyped, States
<1>3. LeaderWaitedFor'
  BY <1>1 DEF LeaderWaitedFor, CallTyped
<1>4. GroupStops'
  BY <1>1 DEF GroupStops, CallTyped, Processes
<1>5. NothingLost' /\ SuccessIsJudged'
  BY DEF NothingLost, SuccessIsJudged, WorkersExited
<1>6. ReadersSay'
  BY <1>1 DEF ReadersSay, CallTyped, Launched
<1> QED
  BY <1>2, <1>3, <1>4, <1>5, <1>6

LEMMA DetachKeeps == ASSUME CallInv, NEW p \in Processes, Detach(p) PROVE CallInv'
BY DEF Detach, workerVars, boundVars, CallInv, CallTyped, LeaderWaitedFor, GroupStops, NothingLost,
       ReadersSay, Launched, SuccessIsJudged, WorkersExited

LEMMA CloseEndKeeps ==
    ASSUME CallInv, NEW p \in Processes, NEW end \in Streams \cup {Stdin}, CloseEnd(p, end) PROVE CallInv'
<1> USE DEF CloseEnd, workerVars, boundVars, CallInv
<1>1. CallTyped'
  BY DEF CallTyped
<1>2. LeaderWaitedFor' /\ GroupStops' /\ NothingLost' /\ SuccessIsJudged'
  BY DEF LeaderWaitedFor, GroupStops, NothingLost, SuccessIsJudged, WorkersExited
<1>3. ReadersSay'
  BY DEF ReadersSay, Launched, CallTyped
<1> QED
  BY <1>1, <1>2, <1>3

LEMMA WriteKeeps ==
    ASSUME CallInv, NEW p \in Processes, NEW s \in Streams, Write(p, s) PROVE CallInv'
<1> USE DEF Write, boundVars, CallInv
<1>1. CallTyped'
  BY DEF CallTyped
<1>2. LeaderWaitedFor' /\ GroupStops' /\ SuccessIsJudged'
  BY DEF LeaderWaitedFor, GroupStops, SuccessIsJudged, WorkersExited
<1>3. NothingLost'
  BY DEF NothingLost, CallTyped
<1>4. ReadersSay'
  BY DEF ReadersSay, Launched, CallTyped
<1> QED
  BY <1>1, <1>2, <1>3, <1>4

LEMMA DiesKeeps == ASSUME CallInv, NEW p \in Processes, Dies(p) PROVE CallInv'
<1> USE DEF Dies, workerVars, boundVars, CallInv
<1>1. CallTyped'
  BY DEF CallTyped, States
<1>2. LeaderWaitedFor'
  BY DEF LeaderWaitedFor, CallTyped
<1>3. GroupStops'
  BY DEF GroupStops, CallTyped
<1>4. NothingLost' /\ SuccessIsJudged'
  BY DEF NothingLost, SuccessIsJudged, WorkersExited
<1>5. ReadersSay'
  BY DEF ReadersSay, Launched, CallTyped
<1> QED
  BY <1>1, <1>2, <1>3, <1>4, <1>5

\* The steps of the threads.
LEMMA BeginReadKeeps == ASSUME CallInv, NEW s \in Streams, BeginRead(s) PROVE CallInv'
<1> USE DEF BeginRead, childVars, boundVars, CallInv
<1>1. CallTyped'
  BY DEF CallTyped
<1>2. LeaderWaitedFor' /\ GroupStops' /\ NothingLost'
  BY DEF LeaderWaitedFor, GroupStops, NothingLost
<1>3. SuccessIsJudged'
  BY DEF SuccessIsJudged, WorkersExited, CallTyped
<1>4. ReadersSay'
  BY DEF ReadersSay, Launched, CallTyped
<1> QED
  BY <1>1, <1>2, <1>3, <1>4

LEMMA EndReadKeeps == ASSUME CallInv, NEW s \in Streams, EndRead(s) PROVE CallInv'
<1> USE ProcessAssumption DEF childVars, boundVars, CallInv
<1>1. CallTyped'
  <2>1. CASE pipe[s] = 0
    BY <2>1 DEF EndRead, CallTyped
  <2>2. CASE pipe[s] # 0 /\ captured[s] = Limit
    <3>1. pipe[s] - 1 \in Nat
      BY <2>2 DEF CallTyped
    <3>2. /\ pipe' \in [Streams -> Nat] /\ overflow' = TRUE
          /\ reader' \in [Streams -> {"looping", "reading", "done"}] /\ UNCHANGED captured
      BY <2>2, <3>1 DEF EndRead, CallTyped
    <3> QED
      BY <3>2 DEF EndRead, CallTyped
  <2>3. CASE pipe[s] # 0 /\ captured[s] # Limit
    <3>1. pipe[s] - 1 \in Nat /\ captured[s] + 1 \in 0..Limit
      BY <2>3 DEF CallTyped
    <3>2. /\ pipe' \in [Streams -> Nat] /\ captured' \in [Streams -> 0..Limit]
          /\ reader' \in [Streams -> {"looping", "reading", "done"}] /\ UNCHANGED overflow
      BY <2>3, <3>1 DEF EndRead, CallTyped
    <3> QED
      BY <3>2 DEF EndRead, CallTyped
  <2> QED
    BY <2>1, <2>2, <2>3
<1>2. LeaderWaitedFor' /\ GroupStops'
  BY DEF EndRead, LeaderWaitedFor, GroupStops
<1>3. NothingLost'
  BY DEF EndRead, NothingLost, CallTyped
<1>4. SuccessIsJudged'
  BY DEF EndRead, SuccessIsJudged, WorkersExited, CallTyped
<1>5. ReadersSay'
  BY DEF EndRead, ReadersSay, Launched, CallTyped, Held
<1> QED
  BY <1>1, <1>2, <1>3, <1>4, <1>5

LEMMA EndWriteKeeps == ASSUME CallInv, EndWrite PROVE CallInv'
<1> USE DEF EndWrite, childVars, boundVars, CallInv
<1>1. CallTyped'
  BY DEF CallTyped
<1>2. LeaderWaitedFor' /\ GroupStops' /\ NothingLost' /\ SuccessIsJudged'
  BY DEF LeaderWaitedFor, GroupStops, NothingLost, SuccessIsJudged, WorkersExited
<1>3. ReadersSay'
  BY DEF ReadersSay, Launched
<1> QED
  BY <1>1, <1>2, <1>3

\* The steps of run_bounded.
LEMMA LaunchKeeps == ASSUME CallInv, Launch PROVE CallInv'
<1> USE ProcessAssumption DEF Launch, CallInv
<1>0. Leader \in Processes
  BY DEF Processes
<1>1. CallTyped'
  BY <1>0 DEF CallTyped, States, CallStages
<1>2. LeaderWaitedFor'
  BY <1>0 DEF LeaderWaitedFor, CallTyped
<1>3. GroupStops'
  BY <1>0 DEF GroupStops, CallTyped, Processes
<1>4. NothingLost' /\ SuccessIsJudged'
  BY DEF NothingLost, SuccessIsJudged, CallTyped
<1>5. ReadersSay'
  BY DEF ReadersSay
<1> QED
  BY <1>1, <1>2, <1>3, <1>4, <1>5

\* What a step of run_bounded from one place to the next has to show.
LEMMA ProceedsKeeps ==
    ASSUME CallInv, NEW at \in CallStages, NEW failure \in Failures, Proceeds(at, failure),
           sup.at \notin {"starting", "refused", "returned"}, at \notin {"starting", "refused"},
           process' \in [Processes -> States], UNCHANGED <<grouped, holds, written>>,
           \A p \in Helpers : process'[p] = "unborn" => process[p] = "unborn",
           process'[Leader] = "reaped" <=> at \in {"closing", "joining", "judging", "returned"},
           at \in {"waiting", "closing", "joining", "judging", "returned"} =>
               \A p \in grouped : process'[p] # "running",
           at = "judging" /\ failure = "none" => WorkersExited,
           at = "returned" /\ failure = "none" => WorkersExited /\ ~overflow /\ ~readerFailed
    PROVE  CallInv'
<1> USE DEF Proceeds, workerVars, CallInv
<1>1. sup' \in [at : CallStages, exited : BOOLEAN, failure : Failures] /\ sup'.at = at /\ sup'.failure = failure
  BY DEF CallTyped
<1>2. CallTyped'
  BY <1>1 DEF CallTyped
<1>3. LeaderWaitedFor' /\ GroupStops'
  BY <1>1 DEF LeaderWaitedFor, GroupStops
<1>4. NothingLost' /\ ReadersSay'
  BY <1>1 DEF NothingLost, ReadersSay, Launched
<1>5. SuccessIsJudged'
  BY <1>1 DEF SuccessIsJudged, WorkersExited
<1> QED
  BY <1>2, <1>3, <1>4, <1>5

LEMMA LooksKeep == ASSUME CallInv, LookAtFlags \/ LookAtWorkers PROVE CallInv'
<1> USE DEF childVars
<1>1. /\ process \in [Processes -> States] /\ sup.failure \in Failures
      /\ sup.at \in {"flags", "workers"}
      /\ process[Leader] # "reaped"
  BY DEF CallInv, CallTyped, LeaderWaitedFor, LookAtFlags, LookAtWorkers
<1>2. CASE LookAtFlags
  <2>1. PICK at \in {"terminating", "child"}, failure \in Failures :
            Proceeds(at, failure) /\ UNCHANGED <<process, grouped, holds, written>>
    BY <1>2 DEF LookAtFlags, Failures
  <2> QED
    BY <1>1, <2>1, ProceedsKeeps DEF CallStages
<1>3. CASE LookAtWorkers
  <2>1. PICK at \in {"terminating", "flags"}, failure \in Failures :
            Proceeds(at, failure) /\ UNCHANGED <<process, grouped, holds, written>>
    BY <1>3 DEF LookAtWorkers, Failures
  <2> QED
    BY <1>1, <2>1, ProceedsKeeps DEF CallStages
<1> QED
  BY <1>2, <1>3

LEMMA LookAtChildKeeps == ASSUME CallInv, LookAtChild PROVE CallInv'
<1> USE DEF LookAtChild, childVars, workerVars, CallInv
<1>1. /\ sup' \in [at : CallStages, exited : BOOLEAN, failure : Failures]
      /\ sup.at = "child" /\ sup'.at = "workers" /\ sup'.failure = sup.failure
  BY DEF CallTyped, CallStages
<1>2. CallTyped'
  BY <1>1 DEF CallTyped
<1>3. LeaderWaitedFor' /\ GroupStops'
  BY <1>1 DEF LeaderWaitedFor, GroupStops
<1>4. NothingLost' /\ ReadersSay' /\ SuccessIsJudged'
  BY <1>1 DEF NothingLost, ReadersSay, Launched, SuccessIsJudged
<1> QED
  BY <1>2, <1>3, <1>4

LEMMA LaunchFailsKeeps == ASSUME CallInv, LaunchFails PROVE CallInv'
<1> USE DEF LaunchFails, childVars, workerVars, CallInv
<1>1. /\ sup' \in [at : CallStages, exited : BOOLEAN, failure : Failures]
      /\ sup.at = "starting" /\ sup'.at = "refused"
  BY DEF CallTyped, CallStages, Failures
<1>2. CallTyped'
  BY <1>1 DEF CallTyped
<1>3. LeaderWaitedFor' /\ GroupStops'
  BY <1>1 DEF LeaderWaitedFor, GroupStops
<1>4. NothingLost' /\ ReadersSay' /\ SuccessIsJudged'
  BY <1>1 DEF NothingLost, ReadersSay, Launched, SuccessIsJudged
<1> QED
  BY <1>2, <1>3, <1>4

LEMMA LateKeeps == ASSUME CallInv, Late PROVE CallInv'
BY DEF Late, childVars, workerVars, CallInv, CallTyped, LeaderWaitedFor, GroupStops, NothingLost,
       ReadersSay, Launched, SuccessIsJudged, WorkersExited

\* The group is signalled while its leader is still there, and after that
\* nobody in it runs.
LEMMA TerminateKeeps == ASSUME CallInv, Terminate PROVE CallInv'
<1>1. /\ process \in [Processes -> States] /\ sup.failure \in Failures /\ grouped \subseteq Processes
      /\ sup.at = "terminating" /\ process[Leader] # "reaped" /\ Leader \in Processes
  BY DEF CallInv, CallTyped, LeaderWaitedFor, Terminate, Processes
<1>2. /\ process' \in [Processes -> States]
      /\ \A p \in Processes : process'[p] = "unborn" => process[p] = "unborn"
      /\ process'[Leader] # "reaped"
      /\ \A p \in grouped : process'[p] # "running"
  BY <1>1 DEF Terminate, States
<1>3. Proceeds("waiting", sup.failure) /\ UNCHANGED <<grouped, holds, written>>
  BY DEF Terminate
<1> QED
  BY <1>1, <1>2, <1>3, ProceedsKeeps DEF CallStages, Processes

LEMMA AwaitLeaderKeeps == ASSUME CallInv, AwaitLeader PROVE CallInv'
<1>1. /\ process \in [Processes -> States] /\ sup.failure \in Failures /\ Leader \in Processes
      /\ sup.at = "waiting" /\ \A p \in grouped : process[p] # "running"
  BY DEF CallInv, CallTyped, GroupStops, AwaitLeader, Processes
<1>2. /\ process' \in [Processes -> States]
      /\ \A p \in Processes : process'[p] = "unborn" => process[p] = "unborn"
      /\ process'[Leader] = "reaped"
      /\ \A p \in grouped : process'[p] # "running"
  <2>1. process' = [process EXCEPT ![Leader] = "reaped"] /\ grouped \subseteq Processes
    BY DEF AwaitLeader, CallInv, CallTyped
  <2> QED
    BY <1>1, <2>1 DEF States
<1>3. Proceeds("closing", sup.failure) /\ UNCHANGED <<grouped, holds, written>>
  BY DEF AwaitLeader
<1> QED
  BY <1>1, <1>2, <1>3, ProceedsKeeps DEF CallStages, Processes

LEMMA CloseStreamsKeeps == ASSUME CallInv, CloseStreams PROVE CallInv'
<1>1. /\ process \in [Processes -> States] /\ sup.failure \in Failures
      /\ sup.at = "closing" /\ process[Leader] = "reaped" /\ \A p \in grouped : process[p] # "running"
  BY DEF CallInv, CallTyped, LeaderWaitedFor, GroupStops, CloseStreams
<1>2. Proceeds("joining", sup.failure) /\ UNCHANGED <<process, grouped, holds, written>>
  BY DEF CloseStreams, childVars
<1> QED
  BY <1>1, <1>2, ProceedsKeeps DEF CallStages

\* A thread that is left behind makes the call fail.
LEMMA JoinWorkersKeeps == ASSUME CallInv, JoinWorkers PROVE CallInv'
<1> DEFINE failure == IF WorkersExited THEN sup.failure ELSE "runner_failed"
<1>1. /\ process \in [Processes -> States] /\ failure \in Failures
      /\ sup.at = "joining" /\ process[Leader] = "reaped" /\ \A p \in grouped : process[p] # "running"
  BY DEF CallInv, CallTyped, LeaderWaitedFor, GroupStops, JoinWorkers, Failures
<1>2. failure = "none" => WorkersExited
  OBVIOUS
<1>3. Proceeds("judging", failure) /\ UNCHANGED <<process, grouped, holds, written>>
  BY DEF JoinWorkers, childVars
<1> HIDE DEF failure
<1> QED
  BY <1>1, <1>2, <1>3, ProceedsKeeps DEF CallStages

\* No flag that a thread set is judged a success.
LEMMA JudgeKeeps == ASSUME CallInv, Judge PROVE CallInv'
<1> DEFINE failure == Prioritized(sup.failure)
<1>1. /\ process \in [Processes -> States] /\ sup.failure \in Failures
      /\ sup.at = "judging" /\ process[Leader] = "reaped" /\ \A p \in grouped : process[p] # "running"
      /\ sup.failure = "none" => WorkersExited
  BY DEF CallInv, CallTyped, LeaderWaitedFor, GroupStops, SuccessIsJudged, Judge
<1>2. /\ failure \in Failures
      /\ failure = "none" => sup.failure = "none" /\ ~overflow /\ ~readerFailed
  BY <1>1 DEF Prioritized, Failures
<1>3. Proceeds("returned", failure) /\ UNCHANGED <<process, grouped, holds, written>>
  BY DEF Judge, childVars
<1> HIDE DEF failure
<1> QED
  BY <1>1, <1>2, <1>3, ProceedsKeeps DEF CallStages

LEMMA CallStepKeeps == CallInv /\ [CallNext]_callVars => CallInv'
<1> SUFFICES ASSUME CallInv, [CallNext]_callVars PROVE CallInv'
  OBVIOUS
<1>1. CASE UNCHANGED callVars
  BY <1>1 DEF callVars, childVars, workerVars, boundVars, CallInv, CallTyped, LeaderWaitedFor, GroupStops,
              NothingLost, ReadersSay, Launched, SuccessIsJudged, WorkersExited
<1>2. ASSUME NEW p \in Processes, NEW child \in Helpers, Fork(p, child) PROVE CallInv'
  BY <1>2, ForkKeeps
<1>3. ASSUME NEW p \in Processes, NEW end \in Streams \cup {Stdin}, CloseEnd(p, end) PROVE CallInv'
  BY <1>3, CloseEndKeeps
<1>4. ASSUME NEW p \in Processes, NEW s \in Streams, Write(p, s) PROVE CallInv'
  BY <1>4, WriteKeeps
<1>5. ASSUME NEW p \in Processes, Detach(p) \/ Dies(p) PROVE CallInv'
  BY <1>5, DetachKeeps, DiesKeeps
<1>6. ASSUME NEW s \in Streams, BeginRead(s) \/ EndRead(s) PROVE CallInv'
  BY <1>6, BeginReadKeeps, EndReadKeeps
<1>7. CASE EndWrite \/ Launch \/ LaunchFails \/ Late
  BY <1>7, EndWriteKeeps, LaunchKeeps, LaunchFailsKeeps, LateKeeps
<1>8. CASE LookAtFlags \/ LookAtChild \/ LookAtWorkers \/ Terminate
  BY <1>8, LooksKeep, LookAtChildKeeps, TerminateKeeps
<1>9. CASE AwaitLeader \/ CloseStreams \/ JoinWorkers \/ Judge
  BY <1>9, AwaitLeaderKeeps, CloseStreamsKeeps, JoinWorkersKeeps, JudgeKeeps
<1> QED
  BY <1>1, <1>2, <1>3, <1>4, <1>5, <1>6, <1>7, <1>8, <1>9 DEF CallNext

LEMMA CallInvBounds == CallInv => CallIsBounded
<1> SUFFICES ASSUME CallInv PROVE CallIsBounded
  OBVIOUS
<1>1. sup.at = "returned" => process[Leader] = "reaped" /\ \A p \in grouped : process[p] # "running"
  BY DEF CallInv, LeaderWaitedFor, GroupStops
<1>2. ASSUME sup.at = "returned", sup.failure = "none", NEW s \in Streams
      PROVE captured[s] = written[s] /\ ~Held(s)
  <2>1. reader[s] = "done" /\ ~overflow /\ ~readerFailed
    BY <1>2 DEF CallInv, SuccessIsJudged, WorkersExited
  <2>2. pipe[s] = 0 /\ ~Held(s)
    BY <1>2, <2>1 DEF CallInv, ReadersSay, Launched, Held
  <2>3. written[s] = captured[s] + pipe[s]
    BY <2>1 DEF CallInv, NothingLost
  <2>4. captured[s] \in Nat
    BY ProcessAssumption DEF CallInv, CallTyped
  <2> QED
    BY <2>2, <2>3, <2>4
<1>3. sup.at \in {"flags", "child", "workers", "terminating"} => process[Leader] # "reaped"
  BY DEF CallInv, LeaderWaitedFor
<1> QED
  BY <1>1, <1>2, <1>3 DEF CallIsBounded

LEMMA CallInvTypes == CallInv => CallTypeOK
<1> SUFFICES ASSUME CallInv PROVE CallTypeOK
  OBVIOUS
<1>1. \A s \in Streams : captured[s] \in 0..Limit /\ pipe[s] \in 0..written[s]
  BY DEF CallInv, CallTyped, NothingLost
<1> QED
  BY <1>1 DEF CallInv, CallTyped, CallTypeOK, States, Failures

\* Processes, pipes and threads are in states they have names for, with no more
\* captured than the limit, for any number of helpers, streams and chunks.
THEOREM CallTyping == CallSpec => []CallTypeOK
BY CallInitHolds, CallStepKeeps, CallInvTypes, PTL DEF CallSpec

\* Whatever the child and its descendants do and however they race with the
\* deadline: a successful call is complete, a call that returned left nothing
\* running in the group, and the group was signalled while it was its own.
THEOREM CallBounded == CallSpec => []CallIsBounded
BY CallInitHolds, CallStepKeeps, CallInvBounds, PTL DEF CallSpec

=============================================================================
