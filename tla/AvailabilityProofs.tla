------------------------ MODULE AvailabilityProofs ------------------------
(***************************************************************************)
(* Theorems about Availability, for any models, any number of maintenance  *)
(* calls under way, any TTLs and any bounds.                               *)
(***************************************************************************)
EXTENDS Availability, TLAPS

(***************************************************************************)
(* The inductive invariant.  Whatever a call left in memory is on its way  *)
(* to the file: somebody still has to read it, or the one who writes at    *)
(* this time has read it, or it is there.                                  *)
(***************************************************************************)
Announcing == [stage : {"activate"}, name : Names, active : SUBSET Models,
               until : 1..Forever]
Nexts == {Idle} \union Announcing
Steps == {Idle} \union Announcing
           \union [stage : {"deactivate"}, name : Names, active : SUBSET Models,
                   until : 1..Forever, off : SUBSET Models]
           \union [stage : {"fold"}, heard : SUBSET Models]
           \union [stage : {"compare"}]
           \union [stage : {"read"}, next : Nexts]
           \union [stage : {"write"}, next : Nexts, bytes : StateSet]

TaskType == task \in [Actors -> Steps]
Quiet    == ~Probing => task["prober"] = Idle

Agrees(saved) ==
  /\ \A k \in Keys : entries[k].by = "operator" => saved[k] = entries[k]
  /\ Probing \/ saved = entries
Alone == \A a \in Actors, b \in Actors : HoldsBytes(a) /\ HoldsBytes(b) => a = b
OnItsWay == \/ \E a \in Actors : task[a].stage = "read"
            \/ \E a \in Actors : HoldsBytes(a) /\ Agrees(task[a].bytes.entries)
            \/ (\A a \in Actors : ~HoldsBytes(a)) /\ Agrees(disk.entries)
Saved == ~unsure => Alone /\ OnItsWay

IInv == TypeOK /\ TaskType /\ Quiet /\ Saved

\* What each kind of task holds.
LEMMA TaskFields ==
  ASSUME TaskType, NEW a \in Actors
  PROVE  /\ task[a].stage = "read" => task[a].next \in Nexts
         /\ task[a].stage = "write" => task[a].next \in Nexts /\ task[a].bytes \in StateSet
         /\ task[a].stage = "deactivate" =>
              /\ task[a].active \subseteq Models /\ task[a].off \subseteq Models
              /\ task[a].name \in Names /\ task[a].until \in 1..Forever
         /\ task[a].stage = "activate" =>
              task[a].name \in Names /\ task[a].active \subseteq Models
         /\ task[a].stage = "fold" => task[a].heard \subseteq Models
         /\ \A t \in Nexts : t \in Steps /\ t.stage \in {"idle", "activate"}
  <1>1. task[a] \in Steps
    BY DEF TaskType
  <1>2. Nexts \subseteq Steps /\ \A t \in Nexts : t.stage \in {"idle", "activate"}
    BY DEF Nexts, Steps, Idle, Announcing
  <1>. QED
    BY <1>1, <1>2 DEF Steps, Idle, Announcing

\* The times and the entries a call may write.
LEMMA EntryTypes ==
  ASSUME now \in 0..MaxTime
  PROVE  /\ Untils \subseteq 1..Forever /\ NoEntry \in EntrySet /\ ByProbe \in EntrySet
         /\ \A t \in 1..Forever : ByCaller(t) \in EntrySet
         /\ NoEntry.by # "operator" /\ ByProbe.by # "operator"
  <1>1. MaxTime \in Nat /\ Ttls \subseteq Nat \ {0}
    BY AvailabilityAssumption
  <1>2. Untils \subseteq 1..Forever
    BY <1>1 DEF Untils, Forever
  <1>. QED
    BY <1>2 DEF EntrySet, NoEntry, ByProbe

\* A probe removes an entry, makes it its own, or leaves it.
LEMMA FoldedEntries ==
  ASSUME Fold
  PROVE  \A k \in Keys : entries'[k] \in {NoEntry, ByProbe, entries[k]}
  <1>. SUFFICES ASSUME NEW k \in Keys
                PROVE  entries'[k] \in {NoEntry, ByProbe, entries[k]}
    OBVIOUS
  <1>. DEFINE heard == task["prober"].heard
  <1>1. entries'[k] = IF k[1] = Own
                      THEN IF k[2] \in heard THEN NoEntry
                           ELSE IF k[2] \in ProbeUniverse(heard) /\ ProbeManaged(k[2])
                                THEN ByProbe ELSE entries[<<Own, k[2]>>]
                      ELSE entries[k]
    BY DEF Fold, FoldAs
  <1>2. k = <<k[1], k[2]>>
    BY DEF Keys
  <1>. QED
    BY <1>1, <1>2

\* The initial state satisfies the invariant.
LEMMA InitIInv == Init => IInv
  <1>. SUFFICES ASSUME Init PROVE IInv
    OBVIOUS
  <1>1. MaxTime \in Nat /\ MaxEvents \in Nat
    BY AvailabilityAssumption
  <1>2. now \in 0..MaxTime /\ events \in 0..MaxEvents
    BY <1>1 DEF Init
  <1>3. entries \in [Keys -> EntrySet]
    BY <1>2, EntryTypes DEF Init
  <1>4. \A a \in Actors : task[a] = Idle /\ ~HoldsBytes(a)
    BY DEF Init, HoldsBytes, Idle
  <1>5. TypeOK
    BY <1>2, <1>3, <1>4 DEF Init, TypeOK, StateSet
  <1>6. TaskType
    BY DEF Init, TaskType, Steps
  <1>7. Quiet
    BY DEF Init, Quiet, Actors
  <1>8. disk.entries = entries
    BY DEF Init
  <1>9. Saved
    BY <1>4, <1>8 DEF Saved, Alone, OnItsWay, Agrees
  <1>. QED
    BY <1>5, <1>6, <1>7, <1>9 DEF IInv

---------------------------------------------------------------------------
(* Types.                                                                  *)

\* Every step keeps TypeOK and the shape of the tasks.
LEMMA TypeStep ==
  ASSUME IInv, Next
  PROVE  TypeOK' /\ TaskType'
  <1>1. MaxTime \in Nat /\ MaxEvents \in Nat /\ Shortlist \subseteq Models
    BY AvailabilityAssumption
  <1>2. /\ now \in 0..MaxTime /\ events \in 0..MaxEvents /\ serving \subseteq Models
        /\ entries \in [Keys -> EntrySet]
        /\ last_served \subseteq Models /\ disk \in StateSet /\ TaskType
    BY DEF IInv, TypeOK, StateSet
  <1>. DEFINE WellTyped ==
         /\ now' \in 0..MaxTime /\ events' \in 0..MaxEvents /\ serving' \subseteq Models
         /\ entries' \in [Keys -> EntrySet]
         /\ last_served' \subseteq Models /\ disk' \in StateSet /\ TaskType'
  <1>3. \A a, t : a \in Actors /\ t \in Steps /\ Goto(a, t) => TaskType'
    BY <1>2 DEF Goto, TaskType
  <1>4. Event \/ UNCHANGED events => events' \in 0..MaxEvents
    BY <1>1, <1>2 DEF Event
  <1>5. \A c \in Callers : c \in Actors
    BY DEF Actors
  <1>6. "prober" \in Actors
    BY DEF Actors
  <1>7. ASSUME Tick PROVE WellTyped
    BY <1>1, <1>2, <1>7 DEF Tick, TaskType
  <1>8. ASSUME SwitchLoadout PROVE WellTyped
    BY <1>2, <1>4, <1>8 DEF SwitchLoadout, TaskType
  <1>9. Idle \in Nexts /\ Saving(Idle) \in Steps /\ Idle \in Steps
    BY DEF Nexts, Saving, Steps
  <1>10. ASSUME NEW c \in Callers, Deactivate(c) PROVE WellTyped
    <2>1. PICK name \in Names, off \in SUBSET Models, until \in Untils :
            Change(c, name, [k \in Keys |-> IF k \in {name} \X off
                                           THEN ByCaller(until) ELSE entries[k]])
      BY <1>10 DEF Deactivate
    <2>2. entries' \in [Keys -> EntrySet]
      BY <2>1, <1>2, EntryTypes DEF Change
    <2>3. TaskType'
      BY <2>1, <1>3, <1>5, <1>9 DEF Change
    <2>. QED
      BY <2>1, <2>2, <2>3, <1>2, <1>4 DEF Change
  <1>11. ASSUME NEW c \in Callers, Activate(c) PROVE WellTyped
    <2>1. PICK name \in Names, on \in SUBSET Models :
            Change(c, name, [k \in Keys |-> IF k \in {name} \X on
                                           THEN NoEntry ELSE entries[k]])
      BY <1>11 DEF Activate
    <2>2. entries' \in [Keys -> EntrySet]
      BY <2>1, <1>2, EntryTypes DEF Change
    <2>3. TaskType'
      BY <2>1, <1>3, <1>5, <1>9 DEF Change
    <2>. QED
      BY <2>1, <2>2, <2>3, <1>2, <1>4 DEF Change
  <1>12. ASSUME NEW c \in Callers, Announce(c) PROVE WellTyped
    <2>1. PICK name \in Names, active \in SUBSET Models, until \in Untils :
            Goto(c, [stage |-> "deactivate", name |-> name, active |-> active,
                     until |-> until, off |-> MaintenanceUniverse(active) \ active])
      BY <1>12 DEF Announce
    <2>2. until \in 1..Forever
      BY <1>2, EntryTypes
    <2>3. MaintenanceUniverse(active) \ active \subseteq Models
      BY <1>1 DEF MaintenanceUniverse
    <2>4. [stage |-> "deactivate", name |-> name, active |-> active, until |-> until,
           off |-> MaintenanceUniverse(active) \ active] \in Steps
      BY <2>2, <2>3 DEF Steps
    <2>5. TaskType'
      BY <2>1, <2>4, <1>3, <1>5
    <2>. QED
      BY <2>5, <1>2, <1>4, <1>12 DEF Announce
  <1>13. ASSUME NEW c \in Callers, DeactivateOthers(c) PROVE WellTyped
    <2>1. /\ task[c].name \in Names /\ task[c].active \subseteq Models
          /\ task[c].until \in 1..Forever
      BY <1>2, <1>5, <1>13, TaskFields DEF DeactivateOthers, DeactivateFor
    <2>2. Listed(c) \in Nexts /\ Listed(c) \in Steps /\ Saving(Listed(c)) \in Steps
      BY <2>1 DEF Listed, Nexts, Announcing, Steps, Saving
    <2>3. TaskType'
      BY <2>2, <1>3, <1>5, <1>13 DEF DeactivateOthers, DeactivateFor
    <2>4. entries' \in [Keys -> EntrySet]
      BY <2>1, <1>2, <1>13, EntryTypes DEF DeactivateOthers, DeactivateFor
    <2>. QED
      BY <2>3, <2>4, <1>2, <1>13 DEF DeactivateOthers, DeactivateFor
  <1>14. ASSUME NEW c \in Callers, ActivateListed(c) PROVE WellTyped
    <2>1. task[c].active \subseteq Models
      BY <1>2, <1>5, <1>14, TaskFields DEF ActivateListed, ActivateFor
    <2>2. TaskType'
      BY <1>3, <1>5, <1>9, <1>14 DEF ActivateListed, ActivateFor
    <2>3. entries' \in [Keys -> EntrySet]
      BY <1>2, <1>14, EntryTypes DEF ActivateListed, ActivateFor
    <2>. QED
      BY <2>1, <2>2, <2>3, <1>2, <1>14 DEF ActivateListed, ActivateFor
  <1>15. ASSUME NEW models \in SUBSET Models, ProbeHears(models) PROVE TaskType'
    <2>1. [stage |-> "fold", heard |-> models] \in Steps
      BY DEF Steps
    <2>. QED
      BY <2>1, <1>3, <1>6, <1>15 DEF ProbeHears
  <1>16. ASSUME ProbeAnswered \/ ProbeFails PROVE WellTyped
    BY <1>2, <1>4, <1>15, <1>16 DEF ProbeAnswered, ProbeFails
  <1>17. ASSUME Fold PROVE WellTyped
    <2>1. task["prober"].heard \subseteq Models
      BY <1>2, <1>6, <1>17, TaskFields DEF Fold, FoldAs
    <2>2. [stage |-> "compare"] \in Steps
      BY DEF Steps
    <2>3. TaskType'
      BY <2>2, <1>3, <1>6, <1>17 DEF Fold, FoldAs
    <2>4. /\ DOMAIN entries' = Keys /\ last_served' \subseteq Models
          /\ entries' = [k \in Keys |-> entries'[k]]
      BY <2>1, <1>17 DEF Fold, FoldAs
    <2>5. \A k \in Keys : entries'[k] \in EntrySet
      BY <1>2, <1>17, FoldedEntries, EntryTypes
    <2>. QED
      BY <2>3, <2>4, <2>5, <1>2, <1>17 DEF Fold, FoldAs
  <1>18. ASSUME Compare PROVE WellTyped
    <2>1. TaskType'
      BY <1>3, <1>6, <1>9, <1>18 DEF Compare
    <2>. QED
      BY <2>1, <1>2, <1>18 DEF Compare
  <1>19. ASSUME NEW a \in Actors, SaveRead(a) PROVE WellTyped
    <2>1. task[a].next \in Nexts
      BY <1>2, <1>19, TaskFields DEF SaveRead
    <2>2. [entries |-> entries, last_served |-> last_served] \in StateSet
      BY <1>2 DEF StateSet
    <2>3. [stage |-> "write", next |-> task[a].next,
           bytes |-> [entries |-> entries, last_served |-> last_served]] \in Steps
      BY <2>1, <2>2 DEF Steps
    <2>4. TaskType'
      BY <2>3, <1>3, <1>19 DEF SaveRead
    <2>. QED
      BY <2>4, <1>2, <1>19 DEF SaveRead
  <1>20. ASSUME NEW a \in Actors, SaveWrite(a) \/ SaveFails(a) PROVE WellTyped
    <2>1. task[a].next \in Steps /\ task[a].bytes \in StateSet
      BY <1>2, <1>20, TaskFields DEF SaveWrite, SaveFails, HoldsBytes
    <2>2. TaskType'
      BY <2>1, <1>3, <1>20 DEF SaveWrite, SaveFails
    <2>. QED
      BY <2>1, <2>2, <1>2, <1>4, <1>20 DEF SaveWrite, SaveFails
  <1>21. ASSUME Restart PROVE WellTyped
    BY <1>2, <1>4, <1>9, <1>21 DEF Restart, StateSet, TaskType
  <1>22. WellTyped
    BY <1>7, <1>8, <1>10, <1>11, <1>12, <1>13, <1>14, <1>16, <1>17, <1>18, <1>19,
       <1>20, <1>21 DEF Next
  <1>23. ASSUME TaskType' PROVE \A a \in Actors : HoldsBytes(a)' => task'[a].bytes \in StateSet
    BY <1>23 DEF TaskType, HoldsBytes, Steps, Idle, Announcing
  <1>. QED
    BY <1>22, <1>23 DEF TypeOK, StateSet

---------------------------------------------------------------------------
(* Saving.                                                                 *)

\* Without probing the prober's task never starts.
LEMMA QuietStep ==
  ASSUME IInv, Next
  PROVE  Quiet'
  <1>. SUFFICES ASSUME ~Probing PROVE task'["prober"] = Idle
    BY DEF Quiet
  <1>1. TaskType /\ task["prober"] = Idle /\ "prober" \in Actors
    BY DEF IInv, Quiet, Actors
  <1>2. \A c \in Callers : c \in Actors /\ c # "prober"
    BY AvailabilityAssumption DEF Actors
  <1>3. \A c \in Callers : \A t : Goto(c, t) => task'["prober"] = Idle
    BY <1>1, <1>2 DEF Goto, TaskType
  <1>4. task["prober"].stage = "idle"
    BY <1>1 DEF Idle
  <1>5. ASSUME NEW a \in Actors, SaveRead(a) \/ SaveWrite(a) \/ SaveFails(a)
        PROVE  task'["prober"] = Idle
    <2>1. a \in Callers
      BY <1>4, <1>5 DEF SaveRead, SaveWrite, SaveFails, HoldsBytes, Actors
    <2>. QED
      BY <2>1, <1>3, <1>5 DEF SaveRead, SaveWrite, SaveFails
  <1>6. ASSUME NEW c \in Callers, \/ Deactivate(c) \/ Activate(c) \/ Announce(c)
                                 \/ DeactivateOthers(c) \/ ActivateListed(c)
        PROVE  task'["prober"] = Idle
    BY <1>3, <1>6 DEF Deactivate, Activate, Change, Announce, DeactivateOthers,
                      DeactivateFor, ActivateListed, ActivateFor
  <1>7. ~ProbeAnswered /\ ~ProbeFails /\ ~Fold /\ ~Compare
    BY <1>4 DEF ProbeAnswered, ProbeFails, ProbeHears, Fold, FoldAs, Compare
  <1>8. CASE Tick \/ SwitchLoadout
    BY <1>1, <1>8 DEF Tick, SwitchLoadout
  <1>9. CASE Restart
    BY <1>9, <1>1 DEF Restart
  <1>. QED
    BY <1>5, <1>6, <1>7, <1>8, <1>9 DEF Next

\* A step of one task that neither takes nor gives up bytes, and leaves
\* memory, file and doubt as they are.
LEMMA CalmStep ==
  ASSUME IInv, NEW a \in Actors, NEW t, Goto(a, t),
         task[a].stage \notin {"read", "write"}, t.stage # "write",
         disk' = disk, unsure' = unsure, entries' = entries
  PROVE  Saved'
  <1>1. TaskType /\ Saved
    BY DEF IInv
  <1>2. task' = [task EXCEPT ![a] = t] /\ DOMAIN task = Actors
    BY <1>1 DEF Goto, TaskType
  <1>3. \A b \in Actors : b # a => task'[b] = task[b]
    BY <1>2
  <1>4. task'[a] = t
    BY <1>2
  <1>5. \A b \in Actors : HoldsBytes(b)' <=> HoldsBytes(b)
    BY <1>3, <1>4 DEF HoldsBytes
  <1>6. \A b \in Actors : HoldsBytes(b) => task'[b] = task[b]
    BY <1>3 DEF HoldsBytes
  <1>7. Alone => Alone'
    BY <1>5 DEF Alone
  <1>8. \A saved : Agrees(saved) => \A k \in Keys :
                     entries'[k].by = "operator" => saved[k] = entries'[k]
    BY DEF Agrees
  <1>9. OnItsWay => OnItsWay'
    <2>1. ASSUME NEW b \in Actors, task[b].stage = "read" PROVE task'[b].stage = "read"
      BY <2>1, <1>3
    <2>2. ASSUME NEW b \in Actors, HoldsBytes(b), Agrees(task[b].bytes.entries)
          PROVE HoldsBytes(b)' /\ Agrees(task[b].bytes.entries)'
      BY <2>2, <1>5, <1>6 DEF Agrees
    <2>3. Agrees(disk.entries) => Agrees(disk.entries)'
      BY DEF Agrees
    <2>. QED
      BY <2>1, <2>2, <2>3, <1>5 DEF OnItsWay
  <1>. QED
    BY <1>1, <1>7, <1>9 DEF Saved

\* A step after which somebody still has to read the state: what it changed
\* in memory is on its way.
LEMMA ReaderStep ==
  ASSUME IInv, NEW a \in Actors, NEW t, Goto(a, t), t.stage = "read",
         task[a].stage \notin {"read", "write"}, unsure' = unsure
  PROVE  Saved'
  <1>1. TaskType /\ Saved
    BY DEF IInv
  <1>2. task' = [task EXCEPT ![a] = t] /\ DOMAIN task = Actors
    BY <1>1 DEF Goto, TaskType
  <1>3. \A b \in Actors : b # a => task'[b] = task[b]
    BY <1>2
  <1>4. task'[a] = t
    BY <1>2
  <1>5. \A b \in Actors : HoldsBytes(b)' <=> HoldsBytes(b)
    BY <1>3, <1>4 DEF HoldsBytes
  <1>6. Alone => Alone'
    BY <1>5 DEF Alone
  <1>7. OnItsWay'
    BY <1>4 DEF OnItsWay
  <1>. QED
    BY <1>1, <1>6, <1>7 DEF Saved

\* Every step keeps what callers left on its way to the file.
LEMMA SavedStep ==
  ASSUME IInv, Next
  PROVE  Saved'
  <1>1. TaskType /\ Saved /\ Quiet /\ TypeOK
    BY DEF IInv
  <1>2. \A c \in Callers : c \in Actors
    BY DEF Actors
  <1>3. "prober" \in Actors /\ Idle.stage = "idle"
    BY DEF Actors, Idle
  <1>4. \A next : Saving(next).stage = "read"
    BY DEF Saving
  <1>5. ASSUME Tick \/ SwitchLoadout PROVE Saved'
    <2>1. UNCHANGED <<entries, task, disk, unsure>>
      BY <1>5 DEF Tick, SwitchLoadout
    <2>. QED
      BY <2>1, <1>1 DEF Saved, Alone, OnItsWay, Agrees, HoldsBytes
  <1>6. ASSUME NEW c \in Callers, Deactivate(c) \/ Activate(c) PROVE Saved'
    <2>1. /\ Goto(c, Saving(Idle)) /\ unsure' = unsure
          /\ task[c].stage \notin {"read", "write"}
      BY <1>3, <1>6 DEF Deactivate, Activate, Change
    <2>. QED
      BY <2>1, <1>2, <1>4, ReaderStep
  <1>7. ASSUME NEW c \in Callers, Announce(c) PROVE Saved'
    <2>1. PICK name \in Names, active \in SUBSET Models, until \in Untils :
            Goto(c, [stage |-> "deactivate", name |-> name, active |-> active,
                     until |-> until, off |-> MaintenanceUniverse(active) \ active])
      BY <1>7 DEF Announce
    <2>2. task[c].stage \notin {"read", "write"} /\ UNCHANGED <<entries, disk, unsure>>
      BY <1>3, <1>7 DEF Announce
    <2>. QED
      BY <2>1, <2>2, <1>2, CalmStep
  <1>8. ASSUME NEW c \in Callers, DeactivateOthers(c) PROVE Saved'
    <2>1. task[c].stage \notin {"read", "write"} /\ UNCHANGED <<disk, unsure>>
      BY <1>8 DEF DeactivateOthers, DeactivateFor
    <2>2. CASE task[c].off # {}
      <3>1. Goto(c, Saving(Listed(c)))
        BY <1>8, <2>2 DEF DeactivateOthers, DeactivateFor
      <3>. QED
        BY <2>1, <3>1, <1>2, <1>4, ReaderStep
    <2>3. CASE task[c].off = {}
      <3>1. Goto(c, Listed(c)) /\ Listed(c).stage = "activate"
        BY <1>8, <2>3 DEF DeactivateOthers, DeactivateFor, Listed
      <3>2. entries' = [k \in Keys |-> entries[k]]
        BY <1>8, <2>3 DEF DeactivateOthers, DeactivateFor
      <3>3. entries' = entries
        BY <3>2, <1>1 DEF TypeOK, StateSet
      <3>. QED
        BY <2>1, <3>1, <3>3, <1>2, CalmStep
    <2>. QED
      BY <2>2, <2>3
  <1>9. ASSUME NEW c \in Callers, ActivateListed(c) PROVE Saved'
    <2>. DEFINE on == {m \in task[c].active : entries[<<task[c].name, m>>] # NoEntry}
    <2>1. /\ task[c].stage \notin {"read", "write"} /\ UNCHANGED <<disk, unsure>>
          /\ entries' = [k \in Keys |-> IF k \in {task[c].name} \X on THEN NoEntry ELSE entries[k]]
          /\ Goto(c, IF on # {} THEN Saving(Idle) ELSE Idle)
      BY <1>9 DEF ActivateListed, ActivateFor
    <2>. HIDE DEF on
    <2>2. CASE on # {}
      <3>1. Goto(c, Saving(Idle))
        BY <2>1, <2>2
      <3>. QED
        BY <2>1, <3>1, <1>2, <1>4, ReaderStep
    <2>3. CASE on = {}
      <3>1. Goto(c, Idle) /\ entries' = [k \in Keys |-> entries[k]]
        BY <2>1, <2>3
      <3>2. entries' = entries
        BY <3>1, <1>1 DEF TypeOK, StateSet
      <3>. QED
        BY <2>1, <3>1, <3>2, <1>2, <1>3, CalmStep
    <2>. QED
      BY <2>2, <2>3
  <1>10. ASSUME NEW models, ProbeHears(models), UNCHANGED <<entries, disk, unsure>>
         PROVE Saved'
    <2>1. /\ Goto("prober", [stage |-> "fold", heard |-> models])
          /\ task["prober"].stage \notin {"read", "write"}
      BY <1>3, <1>10 DEF ProbeHears
    <2>. QED
      BY <2>1, <1>3, <1>10, CalmStep
  <1>11. ASSUME ProbeAnswered \/ ProbeFails PROVE Saved'
    BY <1>10, <1>11 DEF ProbeAnswered, ProbeFails
  <1>12. ASSUME Fold PROVE Saved'
    <2>1. /\ Goto("prober", [stage |-> "compare"]) /\ UNCHANGED <<disk, unsure>>
          /\ task["prober"].stage = "fold"
      BY <1>12 DEF Fold, FoldAs
    <2>2. \A k \in Keys : entries'[k] \in {NoEntry, ByProbe, entries[k]}
      BY <1>12, FoldedEntries
    <2>3. \A k \in Keys : entries'[k].by = "operator" => entries'[k] = entries[k]
      BY <2>2 DEF NoEntry, ByProbe
    <2>4. Probing
      BY <2>1, <1>1, <1>3 DEF Quiet
    <2>5. \A saved : Agrees(saved) => \A k \in Keys :
                       entries'[k].by = "operator" => saved[k] = entries'[k]
      BY <2>3 DEF Agrees
    <2>6. /\ \A b \in Actors : b # "prober" => task'[b] = task[b]
          /\ task'["prober"].stage = "compare"
      BY <2>1, <1>1, <1>3 DEF Goto, TaskType
    <2>7. \A b \in Actors : /\ HoldsBytes(b)' <=> HoldsBytes(b)
                            /\ HoldsBytes(b) => task'[b] = task[b]
                            /\ task[b].stage = "read" => task'[b].stage = "read"
      BY <2>1, <2>6 DEF HoldsBytes
    <2>8. Alone => Alone'
      BY <2>7 DEF Alone
    <2>9. ASSUME NEW b \in Actors, HoldsBytes(b), Agrees(task[b].bytes.entries)
          PROVE  HoldsBytes(b)' /\ Agrees(task[b].bytes.entries)'
      <3>1. task'[b] = task[b] /\ HoldsBytes(b)'
        BY <2>7, <2>9
      <3>2. \A k \in Keys : entries'[k].by = "operator"
                                => task'[b].bytes.entries[k] = entries'[k]
        BY <3>1, <2>5, <2>9
      <3>. QED
        BY <3>1, <3>2, <2>4 DEF Agrees
    <2>10. Agrees(disk.entries) => Agrees(disk.entries)'
      BY <2>1, <2>4, <2>5 DEF Agrees
    <2>11. OnItsWay => OnItsWay'
      BY <2>7, <2>9, <2>10 DEF OnItsWay
    <2>. QED
      BY <2>1, <2>8, <2>11, <1>1 DEF Saved
  <1>13. ASSUME Compare PROVE Saved'
    <2>1. /\ Goto("prober", IF raced THEN Saving(Idle) ELSE Idle)
          /\ task["prober"].stage \notin {"read", "write"}
          /\ UNCHANGED <<entries, disk, unsure>>
      BY <1>13 DEF Compare
    <2>2. (IF raced THEN Saving(Idle) ELSE Idle).stage # "write"
      BY <1>3, <1>4
    <2>. QED
      BY <2>1, <2>2, <1>3, CalmStep
  <1>14. ASSUME NEW a \in Actors, SaveRead(a) PROVE Saved'
    <2>. SUFFICES ASSUME ~unsure' PROVE Alone' /\ OnItsWay'
      BY DEF Saved
    <2>1. \A b \in Actors : ~HoldsBytes(b)
      BY <1>14 DEF SaveRead
    <2>2. /\ task'[a].stage = "write"
          /\ task'[a].bytes = [entries |-> entries, last_served |-> last_served]
          /\ \A b \in Actors : b # a => task'[b] = task[b]
          /\ entries' = entries
      BY <1>14, <1>1 DEF SaveRead, Goto, TaskType
    <2>3. \A b \in Actors : HoldsBytes(b)' <=> b = a
      BY <2>1, <2>2 DEF HoldsBytes
    <2>4. Alone'
      BY <2>3 DEF Alone
    <2>5. task'[a].bytes.entries = entries'
      BY <2>2
    <2>6. Agrees(task[a].bytes.entries)'
      BY <2>5 DEF Agrees
    <2>. QED
      BY <2>3, <2>4, <2>6 DEF OnItsWay
  <1>15. ASSUME NEW a \in Actors, SaveWrite(a) PROVE Saved'
    <2>. SUFFICES ASSUME ~unsure' PROVE Alone' /\ OnItsWay'
      BY DEF Saved
    <2>1. /\ HoldsBytes(a) /\ disk' = task[a].bytes /\ entries' = entries
          /\ Goto(a, task[a].next) /\ unsure' = unsure
      BY <1>15 DEF SaveWrite
    <2>2. Alone /\ OnItsWay
      BY <2>1, <1>1 DEF Saved
    <2>3. task[a].next.stage \in {"idle", "activate"}
      BY <2>1, <1>1, TaskFields DEF HoldsBytes
    <2>4. /\ task'[a].stage \in {"idle", "activate"}
          /\ \A b \in Actors : b # a => task'[b] = task[b]
      BY <2>1, <2>3, <1>1 DEF Goto, TaskType
    <2>5. \A b \in Actors : ~HoldsBytes(b)'
      BY <2>1, <2>2, <2>4 DEF Alone, HoldsBytes
    <2>6. CASE \E b \in Actors : task[b].stage = "read"
      <3>1. PICK b \in Actors : task[b].stage = "read"
        BY <2>6
      <3>2. task'[b].stage = "read"
        BY <3>1, <2>1, <2>4 DEF HoldsBytes
      <3>. QED
        BY <3>2, <2>5 DEF Alone, OnItsWay
    <2>7. CASE \E b \in Actors : HoldsBytes(b) /\ Agrees(task[b].bytes.entries)
      <3>1. Agrees(task[a].bytes.entries)
        BY <2>1, <2>2, <2>7 DEF Alone
      <3>2. Agrees(disk.entries)'
        BY <3>1, <2>1 DEF Agrees
      <3>. QED
        BY <3>2, <2>5 DEF Alone, OnItsWay
    <2>. QED
      BY <2>1, <2>2, <2>6, <2>7 DEF OnItsWay
  <1>16. ASSUME NEW a \in Actors, SaveFails(a) PROVE Saved'
    BY <1>16 DEF SaveFails, Saved
  <1>17. ASSUME Restart PROVE Saved'
    <2>1. /\ \A b \in Actors : task'[b] = Idle
          /\ disk'.entries = entries'
      BY <1>17 DEF Restart
    <2>2. \A b \in Actors : ~HoldsBytes(b)'
      BY <2>1, <1>3 DEF HoldsBytes
    <2>. QED
      BY <2>1, <2>2 DEF Saved, Alone, OnItsWay, Agrees
  <1>. QED
    BY <1>5, <1>6, <1>7, <1>8, <1>9, <1>11, <1>12, <1>13, <1>14, <1>15, <1>16, <1>17
       DEF Next

\* Every step keeps the invariant.
LEMMA NextIInv == IInv /\ [Next]_vars => IInv'
  <1>1. ASSUME IInv, Next PROVE IInv'
    BY <1>1, TypeStep, QuietStep, SavedStep DEF IInv
  <1>2. ASSUME IInv, UNCHANGED vars PROVE IInv'
    BY <1>2 DEF IInv, vars, TypeOK, TaskType, Quiet, Saved, Alone, OnItsWay, Agrees,
                HoldsBytes
  <1>. QED
    BY <1>1, <1>2

---------------------------------------------------------------------------
(* The theorems.                                                           *)

\* Every reachable state satisfies the inductive invariant.
THEOREM Invariance == Spec => []IInv
  BY InitIInv, NextIInv, PTL DEF Spec

\* Entries and the file keep their types; in particular an entry of the
\* prober has no TTL.
THEOREM TypeCorrect == Spec => []TypeOK
  <1>1. IInv => TypeOK
    BY DEF IInv
  <1>. QED
    BY <1>1, Invariance, PTL

\* When nothing is under way and the last save neither failed nor overlapped
\* another, a crash forgets no deactivation (deactivate, activate, announce).
THEOREM SettledIsOnDisk == Spec => []SettledOnDisk
  <1>1. IInv => SettledOnDisk
    <2>. SUFFICES ASSUME IInv, \A a \in Actors : task[a] = Idle, ~unsure
                  PROVE  /\ \A k \in Keys : entries[k].by = "operator"
                                             => disk.entries[k] = entries[k]
                         /\ Probing \/ disk.entries = entries
      BY DEF SettledOnDisk
    <2>1. \A a \in Actors : task[a].stage # "read" /\ ~HoldsBytes(a)
      BY DEF Idle, HoldsBytes
    <2>2. Agrees(disk.entries)
      BY <2>1 DEF IInv, Saved, OnItsWay
    <2>. QED
      BY <2>2 DEF Agrees
  <1>. QED
    BY <1>1, Invariance, PTL

---------------------------------------------------------------------------
(***************************************************************************)
(* An announce under the provider's own name, of a shortlist.  Between its *)
(* two halves, as long as no other call has written an entry there, the    *)
(* models it left out carry its deactivation, unless a probe has decided   *)
(* on them since: then they carry the prober's, or none because the        *)
(* runtime was seen to serve them.                                         *)
(***************************************************************************)

\* Call c has t before it, once it has saved.
Promises(c, t) == \/ task[c] = t
                  \/ task[c].stage \in {"read", "write"} /\ task[c].next = t

OthersOff(t) == \A m \in Shortlist \ t.active :
  \/ entries[<<Own, m>>] \in {ByCaller(t.until), ByProbe}
  \/ entries[<<Own, m>>] = NoEntry /\ m \in last_served

HalfWay == \A c \in Callers :
  /\ task[c].stage = "deactivate" => task[c].off = Shortlist \ task[c].active
  /\ writer = c => \A t \in Announcing : Promises(c, t) /\ t.name = Own => OthersOff(t)

\* What is not an announce's second half.
LEMMA NotAnnouncing ==
  /\ \A t \in Announcing : t.stage = "activate" /\ t # Idle
  /\ Idle.stage = "idle"
  /\ \A n : Saving(n).stage = "read" /\ Saving(n).next = n
  BY DEF Announcing, Idle, Saving

\* A step that leaves the entries alone and begins nothing.
LEMMA SameHalfWay ==
  ASSUME HalfWay, UNCHANGED <<entries, last_served, writer>>,
         \A c \in Callers : task'[c].stage = "deactivate" => task'[c] = task[c],
         \A c \in Callers : \A t \in Announcing : Promises(c, t)' => Promises(c, t)
  PROVE  HalfWay'
  BY DEF HalfWay, OthersOff

\* Half an announce stays half an announce until its second half.
LEMMA HalfWayStep ==
  ASSUME IInv, HalfWay, Shortlist # {}, [Next]_vars
  PROVE  HalfWay'
  <1>. USE NotAnnouncing
  <1>1. /\ task \in [Actors -> Steps] /\ entries \in [Keys -> EntrySet]
        /\ Shortlist \subseteq Models /\ Own \in Names /\ Callers \subseteq Actors
        /\ \A m \in Models : <<Own, m>> \in Keys
        /\ "prober" \in Actors /\ "prober" \notin Callers
    BY AvailabilityAssumption DEF IInv, TypeOK, TaskType, StateSet, Actors, Keys
  <1>2. ASSUME UNCHANGED <<entries, last_served, writer>>, UNCHANGED task PROVE HalfWay'
    BY <1>2, SameHalfWay DEF Promises
  <1>4. ASSUME Tick \/ SwitchLoadout \/ UNCHANGED vars PROVE HalfWay'
    BY <1>2, <1>4 DEF Tick, SwitchLoadout, vars
  <1>5. ASSUME ProbeAnswered \/ ProbeFails \/ Compare PROVE HalfWay'
    <2>1. /\ UNCHANGED <<entries, last_served, writer>>
          /\ \A c \in Callers : task'[c] = task[c]
      BY <1>1, <1>5 DEF ProbeAnswered, ProbeFails, ProbeHears, Compare, Goto
    <2>. QED
      BY <2>1, SameHalfWay DEF Promises
  <1>6. ASSUME NEW a \in Actors, SaveRead(a) \/ SaveWrite(a) \/ SaveFails(a)
        PROVE  HalfWay'
    <2>1. UNCHANGED <<entries, last_served, writer>> /\ task[a].stage \in {"read", "write"}
      BY <1>6 DEF SaveRead, SaveWrite, SaveFails, HoldsBytes
    <2>2. \A b \in Actors : b # a => task'[b] = task[b]
      BY <1>1, <1>6 DEF SaveRead, SaveWrite, SaveFails, Goto
    <2>3. \/ task'[a].stage = "write" /\ task'[a].next = task[a].next
          \/ task'[a] = task[a].next /\ task[a].next \in Nexts
      <3>1. task[a].next \in Nexts
        BY <2>1, TaskFields DEF IInv
      <3>2. CASE SaveRead(a)
        <4>1. task'[a] = [stage |-> "write", next |-> task[a].next,
                          bytes |-> [entries |-> entries, last_served |-> last_served]]
          BY <1>1, <3>2 DEF SaveRead, Goto
        <4>. QED
          BY <4>1
      <3>3. CASE SaveWrite(a) \/ SaveFails(a)
        BY <1>1, <3>1, <3>3 DEF SaveWrite, SaveFails, Goto
      <3>. QED
        BY <1>6, <3>2, <3>3
    <2>4. task'[a].stage # "deactivate"
      BY <2>3 DEF Nexts
    <2>5. \A t \in Announcing : Promises(a, t)' => Promises(a, t)
      <3>. SUFFICES ASSUME NEW t \in Announcing, Promises(a, t)' PROVE Promises(a, t)
        OBVIOUS
      <3>1. task[a].next = t
        BY <2>3 DEF Promises, Nexts
      <3>. QED
        BY <2>1, <3>1 DEF Promises
    <2>6. \A c \in Callers : task'[c].stage = "deactivate" => task'[c] = task[c]
      BY <1>1, <2>2, <2>4
    <2>7. \A c \in Callers : \A t \in Announcing : Promises(c, t)' => Promises(c, t)
      BY <1>1, <2>2, <2>5 DEF Promises
    <2>. QED
      BY <2>1, <2>6, <2>7, SameHalfWay
  <1>7. ASSUME Fold PROVE HalfWay'
    <2>. DEFINE heard == task["prober"].heard
    <2>1. /\ \A m \in Models : entries'[<<Own, m>>] =
                IF m \in heard THEN NoEntry
                ELSE IF m \in ProbeUniverse(heard) /\ ProbeManaged(m)
                     THEN ByProbe ELSE entries[<<Own, m>>]
          /\ last_served' = heard /\ writer' = writer
      BY <1>1, <1>7 DEF Fold, FoldAs
    <2>2. \A c \in Callers : task'[c] = task[c]
      BY <1>1, <1>7 DEF Fold, FoldAs, Goto
    <2>. HIDE DEF heard
    <2>3. ASSUME NEW t \in Announcing, OthersOff(t) PROVE OthersOff(t)'
      <3>. SUFFICES ASSUME NEW m \in Shortlist \ t.active
                    PROVE  \/ entries'[<<Own, m>>] \in {ByCaller(t.until), ByProbe}
                           \/ entries'[<<Own, m>>] = NoEntry /\ m \in last_served'
        BY DEF OthersOff
      <3>1. entries[<<Own, m>>] \in {ByCaller(t.until), ByProbe, NoEntry}
        BY <2>3 DEF OthersOff
      <3>2. m \in ProbeUniverse(heard) /\ m \in Models
        BY <1>1 DEF ProbeUniverse
      <3>3. NoEntry.by = "none"
        BY DEF NoEntry
      <3>. QED
        BY <2>1, <3>1, <3>2, <3>3 DEF ProbeManaged
    <2>. QED
      BY <2>1, <2>2, <2>3 DEF HalfWay, Promises
  <1>8. ASSUME NEW c \in Callers, NEW t, Goto(c, t), t.stage # "deactivate",
               \A u \in Announcing : ~Promises(c, u)',
               writer' \in {c, writer},
               writer' = writer => \A m \in Models : entries'[<<Own, m>>] = entries[<<Own, m>>],
               last_served' = last_served
        PROVE  HalfWay'
    <2>1. task'[c] = t /\ \A d \in Callers : d # c => task'[d] = task[d]
      BY <1>1, <1>8 DEF Goto
    <2>2. ASSUME NEW d \in Callers, d # c, writer' = d,
                 NEW u \in Announcing, Promises(d, u)', u.name = Own
          PROVE  OthersOff(u)'
      <3>1. writer = d /\ \A m \in Models : entries'[<<Own, m>>] = entries[<<Own, m>>]
        BY <1>8, <2>2
      <3>2. Promises(d, u)
        BY <2>1, <2>2 DEF Promises
      <3>3. OthersOff(u)
        BY <3>1, <3>2, <2>2 DEF HalfWay
      <3>. QED
        BY <3>1, <3>3, <1>1, <1>8 DEF OthersOff
    <2>3. \A d \in Callers : task'[d].stage = "deactivate"
                               => task'[d].off = Shortlist \ task'[d].active
      BY <2>1, <1>8 DEF HalfWay
    <2>. QED
      BY <2>2, <2>3, <1>8 DEF HalfWay
  <1>9. ASSUME NEW c \in Callers, NEW name \in Names, NEW changed, Change(c, name, changed),
               name # Own => \A m \in Models : changed[<<Own, m>>] = entries[<<Own, m>>]
        PROVE  HalfWay'
    <2>1. /\ Goto(c, Saving(Idle)) /\ last_served' = last_served /\ entries' = changed
          /\ writer' = IF name = Own THEN c ELSE writer
      BY <1>9 DEF Change, WrittenBy
    <2>2. task'[c] = Saving(Idle)
      BY <1>1, <2>1 DEF Goto
    <2>3. \A u \in Announcing : ~Promises(c, u)'
      BY <2>2 DEF Promises
    <2>4. CASE name = Own
      <3>1. \A d \in Callers : d # c => task'[d] = task[d]
        BY <1>1, <2>1 DEF Goto
      <3>2. task'[c].stage # "deactivate" /\ writer' = c
        BY <2>1, <2>2, <2>4
      <3>. QED
        BY <3>1, <3>2, <2>3 DEF HalfWay
    <2>5. CASE name # Own
      BY <1>8, <1>9, <2>1, <2>3, <2>5
    <2>. QED
      BY <2>4, <2>5
  <1>10. ASSUME NEW c \in Callers, Deactivate(c) PROVE HalfWay'
    <2>1. PICK name \in Names, off \in SUBSET Models, until \in Untils :
            Change(c, name, [k \in Keys |-> IF k \in {name} \X off
                                           THEN ByCaller(until) ELSE entries[k]])
      BY <1>10 DEF Deactivate
    <2>. QED
      BY <1>1, <1>9, <2>1
  <1>11. ASSUME NEW c \in Callers, Activate(c) PROVE HalfWay'
    <2>1. PICK name \in Names, on \in SUBSET Models :
            Change(c, name, [k \in Keys |-> IF k \in {name} \X on
                                           THEN NoEntry ELSE entries[k]])
      BY <1>11 DEF Activate
    <2>. QED
      BY <1>1, <1>9, <2>1
  <1>12. ASSUME NEW c \in Callers, Announce(c) PROVE HalfWay'
    <2>1. PICK name \in Names, active \in SUBSET Models, until \in Untils :
            Goto(c, [stage |-> "deactivate", name |-> name, active |-> active,
                     until |-> until, off |-> MaintenanceUniverse(active) \ active])
      BY <1>12 DEF Announce
    <2>2. task'[c] = [stage |-> "deactivate", name |-> name, active |-> active,
                      until |-> until, off |-> Shortlist \ active]
      BY <1>1, <2>1 DEF Goto, MaintenanceUniverse
    <2>3. /\ task'[c].stage = "deactivate"
          /\ task'[c].off = Shortlist \ task'[c].active
      BY <2>2
    <2>4. \A t \in Announcing : ~Promises(c, t)'
      BY <2>3 DEF Promises
    <2>5. \A d \in Callers : d # c => task'[d] = task[d]
      BY <1>1, <2>1 DEF Goto
    <2>6. UNCHANGED <<entries, last_served, writer>>
      BY <1>12 DEF Announce
    <2>7. ASSUME NEW d \in Callers, writer' = d,
                 NEW u \in Announcing, Promises(d, u)', u.name = Own
          PROVE  OthersOff(u)'
      <3>1. Promises(d, u) /\ writer = d
        BY <2>4, <2>5, <2>6, <2>7 DEF Promises
      <3>2. OthersOff(u)
        BY <3>1, <2>7 DEF HalfWay
      <3>. QED
        BY <3>2, <2>6 DEF OthersOff
    <2>. QED
      BY <2>3, <2>5, <2>7 DEF HalfWay
  <1>13. ASSUME NEW c \in Callers, DeactivateOthers(c) PROVE HalfWay'
    <2>1. /\ task[c].stage = "deactivate" /\ task[c].off = Shortlist \ task[c].active
          /\ entries' = [k \in Keys |-> IF k \in {task[c].name} \X task[c].off
                                       THEN ByCaller(task[c].until) ELSE entries[k]]
          /\ writer' = IF task[c].name = Own THEN c ELSE writer
          /\ last_served' = last_served
      BY <1>13 DEF DeactivateOthers, DeactivateFor, HalfWay, WrittenBy
    <2>2. PICK t \in {Saving(Listed(c)), Listed(c)} : Goto(c, t)
      BY <1>13 DEF DeactivateOthers, DeactivateFor
    <2>3. /\ Listed(c).stage = "activate" /\ Listed(c).active = task[c].active
          /\ Listed(c).until = task[c].until /\ Listed(c).name = task[c].name
      BY DEF Listed
    <2>4. /\ task'[c] = t /\ t.stage \in {"read", "activate"}
          /\ \A d \in Callers : d # c => task'[d] = task[d]
      BY <1>1, <2>2, <2>3 DEF Goto
    <2>5. \A d \in Callers : task'[d].stage = "deactivate"
                               => task'[d].off = Shortlist \ task'[d].active
      BY <2>4 DEF HalfWay
    <2>6. ASSUME NEW u \in Announcing, Promises(c, u)'
          PROVE  u = Listed(c)
      BY <2>2, <2>3, <2>4, <2>6 DEF Promises
    <2>7. CASE task[c].name = Own
      <3>1. ASSUME NEW u \in Announcing, Promises(c, u)' PROVE OthersOff(u)'
        <4>1. u = Listed(c)
          BY <2>6, <3>1
        <4>. SUFFICES ASSUME NEW m \in Shortlist \ u.active
                      PROVE  entries'[<<Own, m>>] = ByCaller(u.until)
          BY DEF OthersOff
        <4>2. m \in task[c].off /\ <<Own, m>> \in Keys
          BY <1>1, <2>1, <2>3, <4>1
        <4>. QED
          BY <2>1, <2>3, <2>7, <4>1, <4>2
      <3>. QED
        BY <2>1, <2>5, <2>7, <3>1 DEF HalfWay
    <2>8. CASE task[c].name # Own
      <3>1. \A m \in Models : entries'[<<Own, m>>] = entries[<<Own, m>>]
        BY <1>1, <2>1, <2>8
      <3>2. ASSUME NEW d \in Callers, writer' = d,
                   NEW u \in Announcing, Promises(d, u)', u.name = Own
            PROVE  OthersOff(u)'
        <4>1. d # c
          BY <2>3, <2>6, <2>8, <3>2
        <4>2. Promises(d, u) /\ writer = d
          BY <4>1, <2>1, <2>4, <2>8, <3>2 DEF Promises
        <4>3. OthersOff(u)
          BY <4>2, <3>2 DEF HalfWay
        <4>. QED
          BY <4>3, <3>1, <2>1, <1>1 DEF OthersOff
      <3>. QED
        BY <2>5, <3>2 DEF HalfWay
    <2>. QED
      BY <2>7, <2>8
  <1>14. ASSUME NEW c \in Callers, ActivateListed(c) PROVE HalfWay'
    <2>. DEFINE name == task[c].name
                on   == {m \in task[c].active : entries[<<name, m>>] # NoEntry}
    <2>1. /\ entries' = [k \in Keys |-> IF k \in {name} \X on THEN NoEntry ELSE entries[k]]
          /\ IF on # {} THEN writer' = IF name = Own THEN c ELSE writer ELSE writer' = writer
          /\ Goto(c, IF on # {} THEN Saving(Idle) ELSE Idle)
          /\ last_served' = last_served
      BY <1>14 DEF ActivateListed, ActivateFor, WrittenBy
    <2>. HIDE DEF name, on
    <2>2. PICK t \in {Saving(Idle), Idle} : Goto(c, t)
      BY <2>1
    <2>3. /\ task'[c] = t /\ t.stage \in {"read", "idle"}
          /\ \A d \in Callers : d # c => task'[d] = task[d]
      BY <1>1, <2>2 DEF Goto
    <2>4. \A u \in Announcing : ~Promises(c, u)'
      BY <2>2, <2>3 DEF Promises
    <2>5. CASE on # {} /\ name = Own
      <3>1. writer' = c /\ task'[c].stage # "deactivate"
        BY <2>1, <2>3, <2>5
      <3>. QED
        BY <3>1, <2>3, <2>4 DEF HalfWay
    <2>6. CASE on = {} \/ name # Own
      <3>1. writer' = writer
        BY <2>1, <2>6
      <3>2. \A m \in Models : entries'[<<Own, m>>] = entries[<<Own, m>>]
        BY <1>1, <2>1, <2>6
      <3>. QED
        BY <1>8, <2>1, <2>2, <2>3, <2>4, <3>1, <3>2
    <2>. QED
      BY <2>5, <2>6
  <1>15. ASSUME Restart PROVE HalfWay'
    <2>1. \A c \in Callers : task'[c] = Idle
      BY <1>1, <1>15 DEF Restart
    <2>. QED
      BY <2>1 DEF HalfWay, Promises
  <1>. QED
    BY <1>4, <1>5, <1>6, <1>7, <1>10, <1>11, <1>12, <1>13, <1>14, <1>15 DEF Next

\* An announce under the provider's own name leaves its models available and
\* every other model of the shortlist deactivated by it, unless a probe has
\* decided on that one since, or another call has written an entry since its
\* first half: whatever other announces have under way, and whatever the prober,
\* the saves and their failures do between its two critical sections
\* (replace_active).
THEOREM AnnouncesAreComplete == Spec => AnnounceIsComplete
  <1>. DEFINE Complete(c) ==
         /\ \A m \in task[c].active : entries'[<<Own, m>>] = NoEntry
         /\ \A m \in Shortlist \ task[c].active :
              entries'[<<Own, m>>] \in {ByCaller(task[c].until), ByProbe}
                \/ m \in last_served
  <1>1. CASE Shortlist = {}
    <2>1. \A c \in Callers : ~Undisturbed(c)
      BY <1>1 DEF Undisturbed
    <2>2. [Next]_vars =>
            [\A c \in Callers : ActivateListed(c) /\ Undisturbed(c) => Complete(c)]_vars
      BY <2>1
    <2>. QED
      BY <2>2, PTL DEF Spec, AnnounceIsComplete
  <1>2. CASE Shortlist # {}
    <2>1. Init => HalfWay
      <3>1. Init => \A c \in Callers : task[c] = Idle
        BY DEF Init, Actors
      <3>. QED
        BY <3>1, NotAnnouncing DEF HalfWay, Promises
    <2>2. IInv /\ HalfWay /\ [Next]_vars => HalfWay'
      BY <1>2, HalfWayStep
    <2>3. IInv /\ HalfWay /\ [Next]_vars =>
            [\A c \in Callers : ActivateListed(c) /\ Undisturbed(c) => Complete(c)]_vars
      <3>. SUFFICES ASSUME IInv, HalfWay, NEW c \in Callers, ActivateListed(c),
                           Undisturbed(c)
                    PROVE  Complete(c)
        OBVIOUS
      <3>1. /\ task[c] \in Announcing /\ task[c].active \subseteq Models
            /\ task[c].name = Own /\ writer = c
            /\ entries \in [Keys -> EntrySet] /\ Shortlist \subseteq Models
            /\ \A m \in Models : <<Own, m>> \in Keys
        <4>1. task[c] \in Steps /\ task[c].stage = "activate"
          BY DEF ActivateListed, ActivateFor, IInv, TaskType, Actors
        <4>. QED
          BY <4>1, AvailabilityAssumption
             DEF Steps, Idle, Announcing, IInv, TypeOK, StateSet, Undisturbed, Keys
      <3>2. OthersOff(task[c])
        BY <3>1 DEF HalfWay, Promises
      <3>3. entries' = [k \in Keys |->
               IF k \in {Own} \X {m \in task[c].active : entries[<<Own, m>>] # NoEntry}
               THEN NoEntry ELSE entries[k]]
        BY <3>1 DEF ActivateListed, ActivateFor
      <3>4. \A m \in task[c].active : entries'[<<Own, m>>] = NoEntry
        BY <3>1, <3>3
      <3>5. \A m \in Shortlist \ task[c].active : entries'[<<Own, m>>] = entries[<<Own, m>>]
        BY <3>1, <3>3
      <3>. QED
        BY <3>2, <3>4, <3>5 DEF OthersOff
    <2>. QED
      BY <2>1, <2>2, <2>3, Invariance, PTL DEF Spec, AnnounceIsComplete
  <1>. QED
    BY <1>1, <1>2
=============================================================================
