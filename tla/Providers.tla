----------------------------- MODULE Providers -----------------------------
(***************************************************************************)
(* Where providers come from: the file's declarations, published one       *)
(* snapshot at a time by previewed reloads, and the rows of the provider   *)
(* store with the cache that is served and the backup of the last rotation.*)
(* The coordinator `changes` is what keeps the two from owning one name;   *)
(* a client that leaves drops its handler at whatever it awaits.           *)
(***************************************************************************)
EXTENDS Integers

CONSTANTS
  Names,      \* provider names
  Specs,      \* what the file may declare a provider to be
  Configs,    \* what a stored configuration may be: its API key
  Files,      \* what the file may say: functions from Names to Specs or Absent
  Invalid,    \* those that validate refuses
  Boots,      \* those the gateway can start with
  Absent, NoRow, NoPlan, Nobody,
  Reloaders, Writers, \* administrators: of the file, of the store
  Ttl,        \* how long a preview can be applied: 60 s
  MaxTime, MaxCalls, MaxCuts \* bounds

Processes == Reloaders \union Writers
Row       == [config : Configs, rev : Nat, enabled : BOOLEAN]

ASSUME ProviderAssumption ==
  /\ Absent \notin Specs /\ Files \subseteq [Names -> Specs \union {Absent}]
  /\ Invalid \subseteq Files /\ Boots \subseteq Files
  /\ NoRow \notin Row /\ Nobody \notin Processes
  /\ NoPlan \notin [gen : Nat, base : Nat, config : Files, at : Nat]
  /\ Reloaders \intersect Writers = {}
  /\ Ttl \in Nat /\ MaxTime \in Nat /\ MaxCalls \in Nat /\ MaxCuts \in Nat

VARIABLES
  now,      \* Instant::now()
  file,     \* what the file says
  head,     \* the published snapshot, [gen, config]
  staged,   \* the preview that can be applied
  fresh,    \* the last generation or revision given out
  rows,     \* providers table: name -> row
  backup,   \* provider_credential_rollback: name -> [rev, config]
  cache,    \* the rows that are served
  changes,  \* who holds the coordinator
  stage,    \* process -> where it stands
  job,      \* process -> what it was asked for and what it read
  shown,    \* process -> the preview or the metadata it was shown last
  calls,    \* bound: requests made
  cuts,     \* bound: clients that left
  undo,     \* history: name -> its row before a rotation that came last
  shadowed, \* history: names with two owners since the start
  torn      \* history: names whose cache a dropped handler left behind

vars == <<now, file, head, staged, fresh, rows, backup, cache, changes, stage,
          job, shown, calls, cuts, undo, shadowed, torn>>
filevars == <<head, staged>>
store    == <<rows, backup, cache>>
history  == <<cuts, undo, shadowed, torn>>

Plan == [gen : Nat, base : Nat, config : Files, at : Nat]
\* What a preview showed: the plan and the configuration it would replace.
Preview == [plan : Plan, base : Files]
Metadata == [name : Names, row : Row]
Jobs ==
  [kind : {"none"}] \union
  [kind : {"preview", "apply"}, base : [gen : Nat, config : Files], candidate : Files] \union
  [kind : {"save", "create"}, name : Names, config : Configs, enabled : BOOLEAN] \union
  [kind : {"delete"}, name : Names] \union
  [kind : {"rotate"}, name : Names, config : Configs, rev : Nat] \union
  [kind : {"rollback"}, name : Names, rev : Nat]
NoJob == [kind |-> "none"]

Init ==
  /\ now = 0
  /\ file \in Boots
  /\ head = [gen |-> 0, config |-> file]
  /\ staged = NoPlan
  /\ fresh = 0
  /\ rows = [n \in Names |-> NoRow]
  /\ backup = [n \in Names |-> NoRow]
  /\ cache = [n \in Names |-> NoRow]
  /\ changes = Nobody
  /\ stage = [p \in Processes |-> "idle"]
  /\ job = [p \in Processes |-> NoJob]
  /\ shown = [p \in Processes |-> NoPlan]
  /\ calls = 0 /\ cuts = 0
  /\ undo = [n \in Names |-> NoRow]
  /\ shadowed = {} /\ torn = {}

---------------------------------------------------------------------------

Tick == /\ now < MaxTime /\ now' = now + 1
        /\ UNCHANGED <<file, filevars, fresh, store, changes, stage, job, shown,
                       calls, history>>

\* Somebody edits the file.
Edit == /\ \E f \in Files \ {file} : file' = f
        /\ calls < MaxCalls /\ calls' = calls + 1
        /\ UNCHANGED <<now, filevars, fresh, store, changes, stage, job, shown, history>>

Goto(p, s) == stage' = [stage EXCEPT ![p] = s]

\* Process p starts on j at stage s.
Ask(p, s, j) ==
  /\ stage[p] = "idle"
  /\ calls < MaxCalls /\ calls' = calls + 1
  /\ Goto(p, s) /\ job' = [job EXCEPT ![p] = j]
  /\ UNCHANGED <<now, file, filevars, fresh, store, changes, shown, history>>

\* The end of p's request, and of its hold on the coordinator.
Leave(p) == /\ Goto(p, "idle") /\ job' = [job EXCEPT ![p] = NoJob]
            /\ changes' = IF changes = p THEN Nobody ELSE changes

Lock(p) ==
  /\ stage[p] = "wait" /\ changes = Nobody
  /\ changes' = p /\ Goto(p, "held")
  /\ UNCHANGED <<now, file, filevars, fresh, store, job, shown, calls, history>>

(* Reloads. *)

AskPreview(p) ==
  p \in Reloaders /\ Ask(p, "load", [kind |-> "preview", base |-> head, candidate |-> file])

\* Both expected generations are those of the preview p was shown; a
\* generation that is not the current one is refused at once.
AskApply(p) ==
  /\ p \in Reloaders /\ shown[p] # NoPlan /\ shown[p].plan.base = head.gen
  /\ Ask(p, "load", [kind |-> "apply", base |-> head, candidate |-> file])

Load(p) ==
  /\ stage[p] = "load"
  /\ job' = [job EXCEPT ![p].candidate = file] /\ Goto(p, "wait")
  /\ UNCHANGED <<now, file, filevars, fresh, store, changes, shown, calls, history>>

Declares(f) == {n \in Names : f[n] # Absent}
Stored == {n \in Names : rows[n] # NoRow}

\* Fault: only rows that are enabled are compared.
KeepsOwnersEnabled(f, g) == \A n \in Stored :
  rows[n].enabled => (n \in Declares(f) <=> n \in Declares(g))
\* No stored name would change its owner.
KeepsOwners(f, g) == \A n \in Stored : n \in Declares(f) <=> n \in Declares(g)

\* The base is still published, the candidate is valid and takes no name.
Check(p) ==
  /\ stage[p] = "held" /\ p \in Reloaders
  /\ LET j == job[p] IN
       IF /\ j.base.gen = head.gen /\ j.candidate \notin Invalid
          /\ KeepsOwners(j.base.config, j.candidate)
       THEN Goto(p, "publish") /\ UNCHANGED <<job, changes>>
       ELSE Leave(p)
  /\ UNCHANGED <<now, file, filevars, fresh, store, shown, calls, history>>

\* The preview is staged in place of the last one, under a new generation.
Stage(p) ==
  /\ stage[p] = "publish" /\ job[p].kind = "preview"
  /\ LET plan == [gen |-> fresh + 1, base |-> job[p].base.gen,
                  config |-> job[p].candidate, at |-> now] IN
       /\ staged' = plan
       /\ shown' = [shown EXCEPT ![p] = [plan |-> plan, base |-> job[p].base.config]]
  /\ fresh' = fresh + 1
  /\ Leave(p)
  /\ UNCHANGED <<now, file, head, store, calls, history>>

\* Fault: what the file says now is not compared with what was staged.
MatchesUnread(p) ==
  /\ staged # NoPlan /\ shown[p].plan.gen = staged.gen
  /\ staged.base = job[p].base.gen /\ now - staged.at <= Ttl
\* The staged plan is the one p was shown, and still what the file says.
Matches(p) ==
  /\ staged # NoPlan /\ shown[p].plan.gen = staged.gen
  /\ staged.base = job[p].base.gen /\ now - staged.at <= Ttl
  /\ staged.config = job[p].candidate

Apply(p) ==
  /\ stage[p] = "publish" /\ job[p].kind = "apply"
  /\ IF Matches(p)
     THEN /\ head' = IF job[p].candidate = job[p].base.config THEN head
                     ELSE [gen |-> staged.gen, config |-> job[p].candidate]
          /\ staged' = NoPlan
     ELSE UNCHANGED filevars
  /\ Leave(p)
  /\ UNCHANGED <<now, file, fresh, store, shown, calls, history>>

(* The provider store. *)

\* Metadata: from the rows, or for one enabled provider from the cache.
Look(w) ==
  /\ w \in Writers /\ stage[w] = "idle"
  /\ \E n \in Names : \E r \in {rows[n], cache[n]} \ {NoRow} :
       shown' = [shown EXCEPT ![w] = [name |-> n, row |-> r]]
  /\ calls < MaxCalls /\ calls' = calls + 1
  /\ UNCHANGED <<now, file, filevars, fresh, store, changes, stage, job, history>>

\* The handlers take the coordinator first.
AskSave(w) == w \in Writers /\
  \E n \in Names, c \in Configs, on \in BOOLEAN, kind \in {"save", "create"} :
    Ask(w, "wait", [kind |-> kind, name |-> n, config |-> c, enabled |-> on])
AskDelete(w) == w \in Writers /\
  \E n \in Names : Ask(w, "wait", [kind |-> "delete", name |-> n])
AskRotate(w) == /\ w \in Writers /\ shown[w] # NoPlan
                /\ \E c \in Configs :
                     Ask(w, "wait", [kind |-> "rotate", name |-> shown[w].name, config |-> c,
                                     rev |-> shown[w].row.rev])
AskRollback(w) == /\ w \in Writers /\ shown[w] # NoPlan
                  /\ Ask(w, "wait", [kind |-> "rollback", name |-> shown[w].name,
                                     rev |-> shown[w].row.rev])

\* Nothing but a deletion touches a name that the file declares.
Free(n) == n \notin Declares(head.config)

\* Fault: any backup of the name will do.
BackedUpAny(n, rev) == backup[n] # NoRow
\* The backup is of the rotation that gave this revision.
BackedUp(n, rev) == backup[n] # NoRow /\ backup[n].rev = rev

Current(n, rev) == rows[n] # NoRow /\ rows[n].rev = rev

Admitted(j) ==
  \/ j.kind = "delete" /\ rows[j.name] # NoRow
  \/ /\ Free(j.name)
     /\ \/ j.kind = "save"
        \/ j.kind = "create" /\ rows[j.name] = NoRow
        \/ j.kind = "rotate" /\ Current(j.name, j.rev)
        \/ j.kind = "rollback" /\ Current(j.name, j.rev) /\ BackedUp(j.name, j.rev)

\* Fault: a rotation keeps the revision.
WrittenSame(j) ==
  CASE j.kind = "delete" -> NoRow
    [] j.kind \in {"save", "create"} ->
         [config |-> j.config, rev |-> fresh + 1, enabled |-> j.enabled]
    [] j.kind = "rotate" -> [rows[j.name] EXCEPT !.config = j.config]
    [] j.kind = "rollback" ->
         [rows[j.name] EXCEPT !.config = backup[j.name].config, !.rev = fresh + 1]
\* The row that j leaves.
Written(j) ==
  CASE j.kind = "delete" -> NoRow
    [] j.kind \in {"save", "create"} ->
         [config |-> j.config, rev |-> fresh + 1, enabled |-> j.enabled]
    [] j.kind = "rotate" ->
         [rows[j.name] EXCEPT !.config = j.config, !.rev = fresh + 1]
    [] j.kind = "rollback" ->
         [rows[j.name] EXCEPT !.config = backup[j.name].config, !.rev = fresh + 1]

\* A rotation backs up, in the same transaction; a rollback uses the backup up.
\* A save or a deletion leaves the backup to its revision.
Commit(w) ==
  /\ stage[w] = "held" /\ w \in Writers
  /\ LET j == job[w] IN
       IF Admitted(j)
       THEN /\ rows' = [rows EXCEPT ![j.name] = Written(j)]
            /\ backup' = [backup EXCEPT ![j.name] =
                 CASE j.kind = "rotate" -> [rev |-> fresh + 1, config |-> rows[j.name].config]
                   [] j.kind = "rollback" -> NoRow
                   [] OTHER -> @]
            /\ undo' = [undo EXCEPT ![j.name] = IF j.kind = "rotate" THEN rows[j.name] ELSE NoRow]
            /\ fresh' = fresh + 1
            /\ Goto(w, "cache") /\ UNCHANGED <<job, changes>>
       ELSE Leave(w) /\ UNCHANGED <<rows, backup, undo, fresh>>
  /\ UNCHANGED <<now, file, filevars, cache, shown, calls, cuts, shadowed, torn>>

\* Fault: a provider that was switched off is still served.
CachedStill(j) == IF rows[j.name] # NoRow /\ ~rows[j.name].enabled
                  THEN cache[j.name] ELSE rows[j.name]
\* A rotation of a provider that is off does not look at the cache.
Cached(j) ==
  IF rows[j.name] # NoRow /\ ~rows[j.name].enabled
  THEN IF j.kind \in {"save", "create"} THEN NoRow ELSE cache[j.name]
  ELSE rows[j.name]

\* The answer tells the new revision.
Cache(w) ==
  /\ stage[w] = "cache"
  /\ cache' = [cache EXCEPT ![job[w].name] = Cached(job[w])]
  /\ torn' = IF cache'[job[w].name] = rows[job[w].name] \/ job[w].kind \in {"save", "create"}
             THEN torn \ {job[w].name} ELSE torn
  /\ shown' = [shown EXCEPT ![w] = IF rows[job[w].name] = NoRow THEN NoPlan
                  ELSE [name |-> job[w].name, row |-> rows[job[w].name]]]
  /\ Leave(w)
  /\ UNCHANGED <<now, file, filevars, fresh, rows, backup, calls, cuts, undo, shadowed>>

(* What goes wrong. *)

Cut == cuts < MaxCuts /\ cuts' = cuts + 1

\* The client leaves, or a read after the commit fails: the handler ends here.
Drop(p) ==
  /\ Cut
  /\ stage[p] # "idle"
  /\ torn' = IF stage[p] = "cache" THEN torn \union {job[p].name} ELSE torn
  /\ Leave(p)
  /\ UNCHANGED <<now, file, filevars, fresh, store, shown, calls, undo, shadowed>>

\* The gateway starts again from the file and the rows.
Restart ==
  /\ Cut
  /\ file \in Boots
  /\ head' = [gen |-> fresh + 1, config |-> file] /\ staged' = NoPlan
  /\ fresh' = fresh + 1
  /\ cache' = [n \in Names |-> IF rows[n] # NoRow /\ rows[n].enabled THEN rows[n] ELSE NoRow]
  /\ changes' = Nobody
  /\ stage' = [p \in Processes |-> "idle"]
  /\ job' = [p \in Processes |-> NoJob]
  /\ shadowed' = Stored \intersect Declares(file)
  /\ torn' = {}
  /\ UNCHANGED <<now, file, rows, backup, shown, calls, undo>>

---------------------------------------------------------------------------

Reload(p) == \/ AskPreview(p) \/ AskApply(p) \/ Load(p)
             \/ Check(p) \/ Stage(p) \/ Apply(p)
Write(w) == \/ Look(w) \/ AskSave(w) \/ AskDelete(w) \/ AskRotate(w)
            \/ AskRollback(w) \/ Commit(w) \/ Cache(w)

Next ==
  \/ Tick \/ Edit \/ Restart
  \/ \E p \in Processes : Reload(p) \/ Write(p) \/ Lock(p) \/ Drop(p)

Spec == Init /\ [][Next]_vars

---------------------------------------------------------------------------
(* Properties. *)

\* Only the holder of the coordinator stands beyond it, and everybody's job
\* is one of its own (RoutingState::reload, the admin handlers).
TypeOK ==
  /\ now \in 0 .. MaxTime
  /\ file \in Files
  /\ head \in [gen : Nat, config : Files]
  /\ staged \in Plan \union {NoPlan}
  /\ fresh \in Nat
  /\ rows \in [Names -> Row \union {NoRow}]
  /\ backup \in [Names -> [rev : Nat, config : Configs] \union {NoRow}]
  /\ cache \in [Names -> Row \union {NoRow}]
  /\ changes \in Processes \union {Nobody}
  /\ stage \in [Processes -> {"idle", "load", "wait", "held", "publish", "cache"}]
  /\ job \in [Processes -> Jobs]
  /\ \A p \in Reloaders : job[p].kind \in {"none", "preview", "apply"}
  /\ \A w \in Writers : job[w].kind \notin {"preview", "apply"}
  /\ \A p \in Processes : stage[p] = "idle" <=> job[p] = NoJob
  /\ \A p \in Processes : stage[p] \in {"held", "publish", "cache"} <=> changes = p
  /\ shown \in [Processes -> Preview \union Metadata \union {NoPlan}]
  /\ \A p \in Reloaders : shown[p] \in Preview \union {NoPlan}
  /\ \A w \in Writers : shown[w] \in Metadata \union {NoPlan}
  /\ calls \in 0 .. MaxCalls /\ cuts \in 0 .. MaxCuts
  /\ undo \in [Names -> Row \union {NoRow}]
  /\ shadowed \subseteq Names /\ torn \subseteq Names

Commits(w, kinds) ==
  stage[w] = "held" /\ stage'[w] = "cache" /\ job[w].kind \in kinds

\* No name has two owners (changes, SourceConflict, check_managed): neither a
\* reload nor a write makes a provider of the file hide a stored one, also
\* one that is off; only a start from an edited file can.
OneOwner == Stored \intersect Declares(head.config) \subseteq shadowed

\* A reload publishes what its administrator was shown (RoutingState::reload):
\* the previewed file, over the very configuration the preview compared it
\* with, within the time a preview is good for, whatever others edited,
\* previewed or applied meanwhile.
AppliedAsShown ==
  [][head' # head /\ cuts' = cuts => \E p \in Reloaders :
       /\ shown[p] # NoPlan
       /\ head'.config = shown[p].plan.config /\ head.config = shown[p].base
       /\ now <= shown[p].plan.at + Ttl]_vars

\* What is served is what is stored (save_provider, change_credential, the
\* `writes` mutex): between writes the cache holds the rows that are on,
\* except where a handler was dropped between its commit and the cache.
CacheAgrees ==
  \A n \in Names \ torn :
    cache[n] = (IF rows[n] # NoRow /\ rows[n].enabled THEN rows[n] ELSE NoRow)
    \/ \E w \in Writers : stage[w] = "cache" /\ job[w].name = n

\* docs/remote-administration.md, "Stale revisions return 409": a revision
\* names one row, so a key is rotated or rolled back only on the very row its
\* administrator was shown, not on one that changed and looks the same.
RevisionNamesRow ==
  [][\A w \in Writers :
       Commits(w, {"rotate", "rollback"}) => rows[job[w].name] = shown[w].row]_vars

\* docs/remote-administration.md, "restores the immediately preceding
\* configuration ... Further config updates invalidate it": a rollback undoes
\* the rotation that was the last change of its name, and nothing else.
RollbackUndoesRotation ==
  [][\A w \in Writers : Commits(w, {"rollback"}) =>
       /\ undo[job[w].name] # NoRow
       /\ rows'[job[w].name].config = undo[job[w].name].config]_vars
=============================================================================
