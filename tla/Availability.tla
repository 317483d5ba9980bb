---------------------------- MODULE Availability ----------------------------
(***************************************************************************)
(* Which models of one local provider may be requested: deactivations set  *)
(* by maintenance calls and by the availability prober, their TTLs, and    *)
(* the file they are saved to.  The async calls interleave at every lock   *)
(* and every await; the file is replaced by a rename, in one step.  A call *)
(* writes under the provider's name as its body spells it; everything else *)
(* reads and writes under the provider's own name.                         *)
(***************************************************************************)
EXTENDS Integers, FiniteSets

CONSTANTS
  Models,    \* model ids the provider may ever serve
  Own,       \* the provider's own name, which every spelling resolves to
  Names,     \* spellings that resolve to it: another case, or none at all
  Shortlist, \* models configured on the provider; {}: its full catalog
  Callers,   \* maintenance calls that can be under way at once
  Probing,   \* whether [providers.*.probe] is enabled
  Ttls,      \* TTLs a caller may give; it may always give none
  MaxTime,   \* bound on the clock
  MaxEvents  \* bound on calls, crashes, loadout switches and lost answers

ASSUME AvailabilityAssumption ==
  /\ Own \in Names
  /\ IsFiniteSet(Models) /\ Shortlist \subseteq Models
  /\ Probing \in BOOLEAN
  /\ Ttls \subseteq Nat \ {0} /\ MaxTime \in Nat /\ MaxEvents \in Nat
  /\ "prober" \notin Callers

VARIABLES
  now,         \* Utc::now()
  serving,     \* the models the runtime serves
  events,      \* bound: what the environment has done so far
  entries,     \* name and model -> the deactivation
  last_served, \* what the last probe saw the runtime serving
  task,        \* where each caller and the prober stand
  raced,       \* entries written by a caller since the prober's own update
  disk,        \* the saved state
  unsure,      \* history: the last save failed or overlapped another
  writer       \* history: the call that wrote last under the own name

vars == <<now, serving, events, entries, last_served, task, raced, disk,
          unsure, writer>>

Keys    == Names \X Models
Actors  == Callers \union {"prober"}
Forever == MaxTime + 1   \* until = None
NoEntry == [by |-> "none", until |-> 0]
ByCaller(until) == [by |-> "operator", until |-> until]
ByProbe == [by |-> "probe", until |-> Forever]
Idle    == [stage |-> "idle"]
Saving(next) == [stage |-> "read", next |-> next]

Goto(a, t) == task' = [task EXCEPT ![a] = t]

Active(k) == entries[k] # NoEntry /\ now < entries[k].until

\* A call answers model_unavailable: it looks under the provider's own name.
Unavailable(m) == Active(<<Own, m>>)

HoldsBytes(a) == task[a].stage = "write"

Event == events < MaxEvents /\ events' = events + 1

Init ==
  /\ now = 0
  /\ serving = Models
  /\ events = 0
  /\ entries = [k \in Keys |-> NoEntry]
  /\ last_served = {}
  /\ task = [a \in Actors |-> Idle]
  /\ raced = FALSE
  /\ disk = [entries |-> entries, last_served |-> {}]
  /\ unsure = FALSE
  /\ writer = "nobody"

Tick ==
  /\ now < MaxTime
  /\ now' = now + 1
  /\ UNCHANGED <<serving, events, entries, last_served, task, raced, disk, unsure,
                 writer>>

\* The runtime loads and unloads models without telling anyone.
SwitchLoadout ==
  /\ Event
  /\ \E loadout \in SUBSET Models \ {serving} : serving' = loadout
  /\ UNCHANGED <<now, entries, last_served, task, raced, disk, unsure, writer>>

------------------------------------------------------------------------------
(* The maintenance endpoint.                                               *)

Untils == {Forever} \union {now + ttl : ttl \in {t \in Ttls : now + t <= MaxTime}}

WrittenBy(c, name) == writer' = IF name = Own THEN c ELSE writer

\* A plain call: entries set or removed under the name as it is spelled.
Change(c, name, changed) ==
  /\ task[c] = Idle
  /\ Event
  /\ entries' = changed
  /\ raced' = TRUE
  /\ WrittenBy(c, name)
  /\ Goto(c, Saving(Idle))
  /\ UNCHANGED <<now, serving, last_served, disk, unsure>>

Deactivate(c) ==
  \E name \in Names, off \in SUBSET Models \ {{}}, until \in Untils :
    Change(c, name, [k \in Keys |-> IF k \in {name} \X off
                                   THEN ByCaller(until) ELSE entries[k]])

\* The listed models, or all; nothing is saved when nothing changed.
Activate(c) ==
  \E name \in Names, on \in SUBSET Models :
    /\ \E m \in on : entries[<<name, m>>] # NoEntry
    /\ Change(c, name, [k \in Keys |-> IF k \in {name} \X on
                                      THEN NoEntry ELSE entries[k]])

\* What an announce of active may deactivate.
MaintenanceUniverse(active) ==
  IF Shortlist # {} THEN Shortlist
  ELSE {m \in Models : Unavailable(m)} \union active

Announce(c) ==
  /\ task[c] = Idle
  /\ Event
  /\ \E name \in Names, active \in SUBSET Models \ {{}}, until \in Untils :
       Goto(c, [stage |-> "deactivate", name |-> name, active |-> active,
                until |-> until, off |-> MaintenanceUniverse(active) \ active])
  /\ UNCHANGED <<now, serving, entries, last_served, raced, disk, unsure,
                 writer>>

DeactivateFor(c, off, next) ==
  /\ task[c].stage = "deactivate"
  /\ entries' = [k \in Keys |-> IF k \in {task[c].name} \X off
                                THEN ByCaller(task[c].until) ELSE entries[k]]
  /\ raced' = (raced \/ off # {})
  /\ WrittenBy(c, task[c].name)
  /\ Goto(c, next)
  /\ UNCHANGED <<now, serving, events, last_served, disk, unsure>>

Listed(c) == [stage |-> "activate", name |-> task[c].name,
              active |-> task[c].active, until |-> task[c].until]

\* Fault: an announce saves only what it re-activates.
DeactivateOthersUnsaved(c) == DeactivateFor(c, task[c].off, Listed(c))

\* Fault: an entry that is already there is not refreshed.
DeactivateOthersOnce(c) ==
  LET off == {m \in task[c].off : entries[<<task[c].name, m>>] = NoEntry}
  IN  DeactivateFor(c, off, Saving(Listed(c)))

DeactivateOthers(c) ==
  DeactivateFor(c, task[c].off,
                IF task[c].off # {} THEN Saving(Listed(c)) ELSE Listed(c))

\* A second critical section of its own.
ActivateFor(c, models) ==
  /\ task[c].stage = "activate"
  /\ LET name == task[c].name
         on   == {m \in models : entries[<<name, m>>] # NoEntry}
     IN  /\ entries' = [k \in Keys |-> IF k \in {name} \X on THEN NoEntry ELSE entries[k]]
         /\ raced' = (raced \/ on # {})
         /\ IF on # {} THEN WrittenBy(c, name) ELSE UNCHANGED writer
         /\ Goto(c, IF on # {} THEN Saving(Idle) ELSE Idle)
  /\ UNCHANGED <<now, serving, events, last_served, disk, unsure>>

\* Fault: an announce re-activates whatever is deactivated.
ActivateAll(c) == ActivateFor(c, Models)

ActivateListed(c) == ActivateFor(c, task[c].active)

------------------------------------------------------------------------------
(* The prober: one round at a time.                                        *)

ProbeHears(models) ==
  /\ Probing
  /\ task["prober"] = Idle
  /\ Goto("prober", [stage |-> "fold", heard |-> models])

ProbeAnswered ==
  /\ ProbeHears(serving)
  /\ UNCHANGED <<now, serving, events, entries, last_served, raced, disk, unsure,
                 writer>>

\* No answer, a foreign shape or too long a list: folded in as nothing served.
ProbeFails ==
  /\ Event
  /\ ProbeHears({})
  /\ UNCHANGED <<now, serving, entries, last_served, raced, disk, unsure,
                 writer>>

\* Fault: only what a probe has seen can be missing.
ProbeUniverseSeen(heard) == last_served \union heard

ProbeUniverse(heard) ==
  IF Shortlist # {} THEN Shortlist ELSE last_served \union heard

ProbeManaged(m) == entries[<<Own, m>>].by \in {"none", "probe"}

FoldAs(folded(_, _)) ==
  /\ task["prober"].stage = "fold"
  /\ LET heard == task["prober"].heard
     IN  /\ entries' = [k \in Keys |-> IF k[1] = Own THEN folded(k[2], heard) ELSE entries[k]]
         /\ last_served' = heard
  /\ raced' = FALSE
  /\ Goto("prober", [stage |-> "compare"])
  /\ UNCHANGED <<now, serving, events, disk, unsure, writer>>

\* Fault: a served model keeps the entry the prober gave it.
FoldOnlyAdds ==
  LET folded(m, heard) ==
        IF m \in ProbeUniverse(heard) \ heard /\ ProbeManaged(m)
        THEN ByProbe ELSE entries[<<Own, m>>]
  IN  FoldAs(folded)

\* Every served model loses its entry, whoever set it.
Fold ==
  LET folded(m, heard) ==
        IF m \in heard THEN NoEntry
        ELSE IF m \in ProbeUniverse(heard) /\ ProbeManaged(m)
             THEN ByProbe ELSE entries[<<Own, m>>]
  IN  FoldAs(folded)

\* The state is saved when it is no longer what the prober itself left: every
\* write by a caller stamps its time (set_at) or removes an entry.
Compare ==
  /\ task["prober"].stage = "compare"
  /\ Goto("prober", IF raced THEN Saving(Idle) ELSE Idle)
  /\ UNCHANGED <<now, serving, events, entries, last_served, raced, disk, unsure,
                 writer>>

------------------------------------------------------------------------------
(* Saving, and the process's life.                                         *)

SaveRead(a) ==
  /\ task[a].stage = "read"
  /\ Goto(a, [stage |-> "write", next |-> task[a].next,
              bytes |-> [entries |-> entries, last_served |-> last_served]])
  /\ unsure' = \E b \in Actors : HoldsBytes(b)
  /\ UNCHANGED <<now, serving, events, entries, last_served, raced, disk, writer>>

SaveWrite(a) ==
  /\ HoldsBytes(a)
  /\ disk' = task[a].bytes
  /\ Goto(a, task[a].next)
  /\ UNCHANGED <<now, serving, events, entries, last_served, raced, unsure, writer>>

SaveFails(a) ==
  /\ HoldsBytes(a)
  /\ Event
  /\ Goto(a, task[a].next)
  /\ unsure' = TRUE
  /\ UNCHANGED <<now, serving, entries, last_served, raced, disk, writer>>

Restart ==
  /\ Event
  /\ entries' = disk.entries
  /\ last_served' = disk.last_served
  /\ task' = [a \in Actors |-> Idle]
  /\ raced' = FALSE
  /\ unsure' = FALSE
  /\ writer' = "nobody"
  /\ UNCHANGED <<now, serving, disk>>

Next ==
  \/ Tick
  \/ SwitchLoadout
  \/ \E c \in Callers :
       \/ Deactivate(c)
       \/ Activate(c)
       \/ Announce(c)
       \/ DeactivateOthers(c)
       \/ ActivateListed(c)
  \/ ProbeAnswered
  \/ ProbeFails
  \/ Fold
  \/ Compare
  \/ \E a \in Actors : SaveRead(a) \/ SaveWrite(a) \/ SaveFails(a)
  \/ Restart

Spec == Init /\ [][Next]_vars

\* The prober's loop never stops, its requests time out, and a started call
\* is polled to its end.
FairSpec ==
  /\ Spec
  /\ WF_vars(Tick)
  /\ WF_vars(ProbeAnswered)
  /\ WF_vars(Fold)
  /\ WF_vars(Compare)
  /\ \A c \in Callers : WF_vars(DeactivateOthers(c)) /\ WF_vars(ActivateListed(c))
  /\ \A a \in Actors : WF_vars(SaveRead(a)) /\ WF_vars(SaveWrite(a))

------------------------------------------------------------------------------
(* Properties.                                                             *)

EntrySet == {NoEntry, ByProbe} \union {ByCaller(t) : t \in 1..Forever}
StateSet == [entries : [Keys -> EntrySet], last_served : SUBSET Models]

\* Types; in particular an entry of the prober has no TTL.
TypeOK ==
  /\ now \in 0..MaxTime /\ events \in 0..MaxEvents
  /\ serving \subseteq Models
  /\ [entries |-> entries, last_served |-> last_served] \in StateSet
  /\ disk \in StateSet
  /\ \A a \in Actors : HoldsBytes(a) => task[a].bytes \in StateSet

\* When nothing is under way and the last save neither failed nor overlapped
\* another, the file holds every maintenance entry (availability.rs:206, 236,
\* 280): a crash right after the answer forgets no deactivation.  Without a
\* prober the file is the whole state.
SettledOnDisk ==
  (\A a \in Actors : task[a] = Idle) /\ ~unsure
    => /\ \A k \in Keys : entries[k].by = "operator" => disk.entries[k] = entries[k]
       /\ Probing \/ disk.entries = entries

\* The announce that c ends was made under the provider's own name, of a
\* shortlist, and no other call wrote an entry since its first half.
Undisturbed(c) == task[c].name = Own /\ Shortlist # {} /\ writer = c

\* When such an announce ends, its models are available and every other model
\* of the shortlist carries this announce's deactivation, unless a probe has
\* decided on it since (availability.rs:242-281): whatever other announces have
\* under way, and whatever saves, failed saves and probes came between its two
\* critical sections.
AnnounceIsComplete ==
  [][\A c \in Callers :
       ActivateListed(c) /\ Undisturbed(c) =>
         /\ \A m \in task[c].active : entries'[<<Own, m>>] = NoEntry
         /\ \A m \in Shortlist \ task[c].active :
              entries'[<<Own, m>>] \in {ByCaller(task[c].until), ByProbe}
                \/ m \in last_served]_vars

\* A model the runtime serves for good sheds the prober's deactivation
\* (prober.rs:7-8), whatever calls, crashes and lost answers came before.
ServedComesBack ==
  \A m \in Models :
    <>[](m \in serving) => <>[](entries[<<Own, m>>].by # "probe")

Expired(m) == entries[<<Own, m>>] # NoEntry /\ ~Unavailable(m)

\* A configured model the runtime stops serving for good ends up deactivated
\* (prober.rs:6-8), unless the expired entry of a caller stays behind.
AbsentGoesOff ==
  Probing =>
    \A m \in Shortlist :
      <>[](m \notin serving /\ ~Expired(m)) => <>[]Unavailable(m)

=============================================================================
