---------------------------- MODULE PathManager ----------------------------
(***************************************************************************)
(* The client's path manager (pkg/transport/manager.go, path.go): its maps *)
(* of paths, the state of each path object and the health monitor.  A path *)
(* object is named by what it was made for: the session's first dial, or   *)
(* the AddPath call that asked for it.                                     *)
(*                                                                         *)
(* The maps are keyed by the id an object is created with.  The session    *)
(* gives a secondary path the id the server chose (SetID), which is a key  *)
(* of no map: an operation that is handed the new id finds nothing.        *)
(***************************************************************************)
EXTENDS Integers, FiniteSets

CONSTANTS Calls,            \* calls of AddPath, at most one path object each
          Primary,          \* the path object of the session's first dial
          Ageing,           \* bound: objects whose lastActivity gets old
          MaxFaults         \* bound: objects that age or lose their connection

ASSUME PrimaryAssumption == Primary \notin Calls

Objects == Calls \cup {Primary}

VARIABLES paths,            \* objects in pm.paths
          activePaths,      \* objects in pm.activePaths; deadPaths has the rest
          isPrimary,        \* objects whose isPrimary flag is set
          stateDead,        \* objects whose state is PathStateDead
          renamed,          \* objects whose id is no longer their key
          old,              \* objects whose lastActivity is past DeadPathTimeout
          connected,        \* objects whose QUIC connection is open
          verdict,          \* {}, or the path and id the health check is to mark dead
          sweep             \* {}, or the path and id the session's check is to mark dead

managerVars == <<paths, activePaths, isPrimary, stateDead, renamed, old, connected,
                 verdict, sweep>>

(* What ID() returns: the object's key, or the id the server gave.  Only    *)
(* the key is found in a map.                                               *)
ID(o) == IF o \in renamed THEN "given" ELSE "key"
Found(map, o, id) == o \in map /\ id = "key"

IsActive(o) == o \notin stateDead

(* Mutant: only the state is looked at. *)
IsNotDead(o) == o \notin stateDead

IsHealthy(o) == o \notin stateDead /\ o \in connected

ManagerInit ==
  /\ paths = {Primary} /\ activePaths = {Primary} /\ isPrimary = {Primary}
  /\ stateDead = {} /\ renamed = {}
  /\ old = {}
  /\ connected = {Primary}
  /\ verdict = {} /\ sweep = {}

(* Mutant: a path is primary unless the first one is still there. *)
FirstIsNotActive == Primary \notin activePaths

NoPathIsActive == activePaths = {}

(* CreatePath after a dial that succeeded; the mutex is held throughout.    *)
CreatePath(o) ==
  /\ paths' = paths \cup {o}
  /\ activePaths' = activePaths \cup {o}
  /\ isPrimary' = IF NoPathIsActive THEN isPrimary \cup {o} ELSE isPrimary
  /\ connected' = connected \cup {o}
  /\ UNCHANGED <<stateDead, renamed, old, verdict, sweep>>

(* Mutant: a removed path is deleted from pm.paths, too. *)
ForgetPath(o, id) ==
  IF Found(paths, o, id)
  THEN /\ paths' = paths \ {o}
       /\ activePaths' = activePaths \ {o}
       /\ stateDead' = stateDead \cup {o}
       /\ old' = old \ {o}
       /\ connected' = connected \ {o}
       /\ UNCHANGED <<isPrimary, renamed, verdict, sweep>>
  ELSE UNCHANGED managerVars

(* RemovePath closes the path that has this id, if there is one. *)
RemovePath(o, id) ==
  IF Found(paths, o, id)
  THEN /\ activePaths' = activePaths \ {o}
       /\ stateDead' = stateDead \cup {o}
       /\ old' = old \ {o}
       /\ connected' = connected \ {o}
       /\ UNCHANGED <<paths, isPrimary, renamed, verdict, sweep>>
  ELSE UNCHANGED managerVars

(* MarkPathDead leaves the connection open. *)
MarkPathDead(o, id) ==
  IF Found(activePaths, o, id)
  THEN /\ activePaths' = activePaths \ {o}
       /\ stateDead' = stateDead \cup {o}
       /\ old' = old \ {o}
  ELSE UNCHANGED <<activePaths, stateDead, old>>

(* The third condition never holds: no code of the program but its tests    *)
(* counts an error (IncrementErrorCount, path.go), so the number stays      *)
(* below the threshold.                                                     *)
ShouldMarkDead(o) == ~IsHealthy(o) \/ o \in old

(* One path of a health check: its id and state, then its connection and    *)
(* the age of its activity are read without the manager's mutex.  The id    *)
(* may be the one the path had before SetID ...                             *)
CheckPath(o) ==
  /\ verdict = {} /\ o \in activePaths /\ IsActive(o) /\ ShouldMarkDead(o)
  /\ \E id \in {"key", ID(o)} : verdict' = {[path |-> o, id |-> id]}
  /\ UNCHANGED <<paths, activePaths, isPrimary, stateDead, renamed, old, connected, sweep>>

(* ... and the path is marked under the mutex, found or not. *)
MarkChecked ==
  /\ \E v \in verdict : MarkPathDead(v.path, v.id)
  /\ verdict' = {}
  /\ UNCHANGED <<paths, isPrimary, renamed, connected, sweep>>

(* The session's own check (client.go) looks for an object that is dead ... *)
SweepPath(o) ==
  /\ sweep = {} /\ o \in activePaths /\ ~IsActive(o)
  /\ sweep' = {[path |-> o, id |-> ID(o)]}
  /\ UNCHANGED <<paths, activePaths, isPrimary, stateDead, renamed, old, connected, verdict>>

(* ... and marks it. *)
MarkSwept ==
  /\ \E s \in sweep : MarkPathDead(s.path, s.id)
  /\ sweep' = {}
  /\ UNCHANGED <<paths, isPrimary, renamed, connected, verdict>>

(* What counts towards MaxFaults; a closed path counts, too. *)
Faulty == old \cup stateDead \cup (paths \ connected)

(* Nothing refreshes lastActivity when data or heartbeats use a path, so    *)
(* DeadPathTimeout passes for paths in use as for the others.               *)
Elapse(o) ==
  /\ o \in (activePaths \cap Ageing) \ old /\ Cardinality(Faulty) < MaxFaults
  /\ old' = old \cup {o}
  /\ UNCHANGED <<paths, activePaths, isPrimary, stateDead, renamed, connected, verdict, sweep>>

ManagerStep ==
  \/ \E o \in Objects : CheckPath(o) \/ SweepPath(o) \/ Elapse(o)
  \/ MarkChecked \/ MarkSwept

ManagerTypeOK ==
  /\ paths \subseteq Objects /\ activePaths \subseteq paths
  /\ isPrimary \subseteq paths /\ stateDead \subseteq paths /\ renamed \subseteq paths
  /\ old \subseteq paths /\ connected \subseteq paths
  /\ verdict \subseteq [path : Objects, id : {"key", "given"}]
  /\ sweep \subseteq [path : Objects, id : {"key", "given"}]
  /\ Cardinality(verdict) <= 1 /\ Cardinality(sweep) <= 1

(* ValidatePathIntegrity: of the active paths, at most one is primary.      *)
OnePrimary == Cardinality(isPrimary \cap activePaths) <= 1
=============================================================================
