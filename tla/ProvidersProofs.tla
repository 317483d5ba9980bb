-------------------------- MODULE ProvidersProofs --------------------------
(***************************************************************************)
(* Theorems about Providers, for any names, configurations and files, any  *)
(* number of administrators, and any bounds on time, calls and faults.     *)
(***************************************************************************)
EXTENDS Providers, TLAPS

(***************************************************************************)
(* The inductive invariant.  A generation or revision is given out once,   *)
(* so that equal numbers mean equal contents wherever a number is kept:    *)
(* in the head, a staged plan, a row, its backup, the cache, a job, or     *)
(* what an administrator was shown.                                        *)
(***************************************************************************)
Roles ==
  /\ \A p \in Processes : stage[p] \in {"load", "publish"} => p \in Reloaders
  /\ \A p \in Processes : stage[p] = "cache" => p \in Writers

\* No number is ahead of the last one given out.
GivenOut ==
  /\ head.gen <= fresh
  /\ staged # NoPlan => staged.gen <= fresh
  /\ \A n \in Names : /\ rows[n] # NoRow => rows[n].rev <= fresh
                      /\ cache[n] # NoRow => cache[n].rev <= fresh
                      /\ backup[n] # NoRow => backup[n].rev <= fresh
  /\ \A p \in Reloaders : /\ job[p] # NoJob => job[p].base.gen <= fresh
                          /\ shown[p] # NoPlan => shown[p].plan.gen <= fresh
  /\ \A w \in Writers : shown[w] # NoPlan => shown[w].row.rev <= fresh

\* A generation is that of one snapshot or one plan.
Generations ==
  /\ staged # NoPlan => staged.gen # head.gen
  /\ \A p \in Reloaders : job[p] # NoJob =>
       /\ job[p].base.gen = head.gen => job[p].base = head
       /\ staged # NoPlan => staged.gen # job[p].base.gen
  /\ \A p \in Reloaders :
       shown[p] # NoPlan /\ staged # NoPlan /\ shown[p].plan.gen = staged.gen =>
         /\ shown[p].plan = staged
         /\ staged.base = head.gen => shown[p].base = head.config

\* A revision is that of one row.
Revisions ==
  /\ \A n \in Names : cache[n] # NoRow =>
       /\ cache[n].enabled
       /\ rows[n] # NoRow /\ cache[n].rev = rows[n].rev => cache[n] = rows[n]
  /\ \A w \in Writers : shown[w] # NoPlan =>
       LET n == shown[w].name IN
       rows[n] # NoRow /\ shown[w].row.rev = rows[n].rev => shown[w].row = rows[n]
  /\ \A n \in Names :
       backup[n] # NoRow /\ rows[n] # NoRow /\ backup[n].rev = rows[n].rev =>
         undo[n] # NoRow /\ undo[n].config = backup[n].config

\* A job that names a number was asked for by who was shown it.
Asked ==
  /\ \A p \in Reloaders : job[p].kind = "apply" => shown[p] # NoPlan
  /\ \A w \in Writers : job[w].kind \in {"rotate", "rollback"} =>
       /\ shown[w] # NoPlan
       /\ shown[w].name = job[w].name /\ shown[w].row.rev = job[w].rev

\* Between its check and its end a reload has the stored names to itself.
Publishing ==
  \A p \in Reloaders : stage[p] = "publish" =>
    job[p].base = head /\ KeepsOwners(job[p].base.config, job[p].candidate)

\* A rotation finds a provider that is off out of the cache, and leaves it so.
Caching ==
  \A w \in Writers : stage[w] = "cache" /\ job[w].kind \notin {"save", "create"} =>
    LET n == job[w].name IN
    rows[n] # NoRow /\ ~rows[n].enabled /\ n \notin torn => cache[n] = NoRow

IInv ==
  /\ TypeOK /\ Roles
  /\ GivenOut /\ Generations /\ Revisions
  /\ Asked /\ Publishing /\ Caching
  /\ OneOwner /\ CacheAgrees

\* What a job carries, by its kind.
LEMMA JobFields ==
  ASSUME NEW j \in Jobs
  PROVE  /\ j = NoJob <=> j.kind = "none"
         /\ j.kind \in {"preview", "apply"} =>
              j.base \in [gen : Nat, config : Files] /\ j.candidate \in Files
         /\ j.kind \in {"save", "create"} => /\ j.name \in Names /\ j.config \in Configs
                                             /\ j.enabled \in BOOLEAN
         /\ j.kind = "delete" => j.name \in Names
         /\ j.kind = "rotate" => j.name \in Names /\ j.config \in Configs /\ j.rev \in Nat
         /\ j.kind = "rollback" => j.name \in Names /\ j.rev \in Nat
  BY DEF Jobs, NoJob

\* The job of a busy process is of its side.
LEMMA BusyJobs ==
  ASSUME TypeOK, NEW p \in Processes, stage[p] # "idle"
  PROVE  /\ p \in Reloaders => /\ job[p].kind \in {"preview", "apply"}
                               /\ job[p].base \in [gen : Nat, config : Files]
                               /\ job[p].candidate \in Files
         /\ p \in Writers => /\ job[p].kind \in {"save", "create", "delete", "rotate", "rollback"}
                             /\ job[p].name \in Names
  <1>1. job[p] \in Jobs /\ job[p] # NoJob
    BY DEF TypeOK
  <1>2. job[p].kind \in {"none", "preview", "apply", "save", "create", "delete", "rotate",
                         "rollback"}
    BY <1>1 DEF Jobs
  <1>3. job[p].kind # "none"
    BY <1>1, JobFields
  <1>4. p \in Reloaders => job[p].kind \in {"preview", "apply"}
    BY <1>3 DEF TypeOK
  <1>5. p \in Writers => job[p].kind \notin {"preview", "apply"}
    BY DEF TypeOK
  <1>. QED
    BY <1>1, <1>2, <1>3, <1>4, <1>5, JobFields

\* An asked job is typed as soon as it is a job.
LEMMA AskType ==
  ASSUME TypeOK, NEW p \in Processes, NEW s \in {"load", "wait"}, NEW j \in Jobs,
         Ask(p, s, j), j # NoJob,
         p \in Reloaders => j.kind \in {"preview", "apply"},
         p \in Writers => j.kind \notin {"preview", "apply"}
  PROVE  TypeOK'
  <1>. USE DEF Ask, Goto
  <1>1. /\ now' \in 0 .. MaxTime /\ file' \in Files
        /\ head' \in [gen : Nat, config : Files] /\ staged' \in Plan \union {NoPlan}
        /\ fresh' \in Nat /\ calls' \in 0 .. MaxCalls /\ cuts' \in 0 .. MaxCuts
        /\ rows' = rows /\ backup' = backup /\ cache' = cache /\ shown' = shown
        /\ changes' = changes /\ undo' = undo /\ shadowed' = shadowed /\ torn' = torn
    BY ProviderAssumption DEF TypeOK, filevars, store, history
  <1>2. /\ stage' \in [Processes -> {"idle", "load", "wait", "held", "publish", "cache"}]
        /\ job' \in [Processes -> Jobs]
    BY DEF TypeOK
  <1>3. \A q \in Processes : q # p => stage'[q] = stage[q] /\ job'[q] = job[q]
    BY DEF TypeOK
  <1>4. stage[p] = "idle" /\ stage'[p] = s /\ job'[p] = j
    BY DEF TypeOK
  <1>5. \A q \in Processes : stage'[q] = "idle" <=> job'[q] = NoJob
    BY <1>3, <1>4 DEF TypeOK
  <1>6. \A q \in Processes : stage'[q] \in {"held", "publish", "cache"} <=> changes' = q
    BY <1>1, <1>3, <1>4 DEF TypeOK
  <1>7. /\ \A q \in Reloaders : job'[q].kind \in {"none", "preview", "apply"}
        /\ \A q \in Writers : job'[q].kind \notin {"preview", "apply"}
    BY <1>3, <1>4 DEF TypeOK, Processes
  <1>. QED
    BY <1>1, <1>2, <1>5, <1>6, <1>7 DEF TypeOK

\* The end of a request is typed, and only its hold ends with it.
LEMMA LeaveType ==
  ASSUME TypeOK, NEW p \in Processes, Leave(p)
  PROVE  /\ stage' \in [Processes -> {"idle", "load", "wait", "held", "publish", "cache"}]
         /\ job' \in [Processes -> Jobs]
         /\ changes' \in Processes \union {Nobody}
         /\ \A q \in Processes : stage'[q] = "idle" <=> job'[q] = NoJob
         /\ \A q \in Processes : stage'[q] \in {"held", "publish", "cache"} <=> changes' = q
         /\ \A q \in Reloaders : job'[q].kind \in {"none", "preview", "apply"}
         /\ \A q \in Writers : job'[q].kind \notin {"preview", "apply"}
         /\ \A q \in Processes : q # p => stage'[q] = stage[q] /\ job'[q] = job[q]
         /\ stage'[p] = "idle" /\ job'[p] = NoJob
  <1>. USE DEF Leave, Goto
  <1>1. NoJob \in Jobs /\ NoJob.kind = "none"
    BY DEF NoJob, Jobs
  <1>2. /\ stage' \in [Processes -> {"idle", "load", "wait", "held", "publish", "cache"}]
        /\ job' \in [Processes -> Jobs]
        /\ changes' \in Processes \union {Nobody}
        /\ stage'[p] = "idle" /\ job'[p] = NoJob
    BY <1>1 DEF TypeOK
  <1>3. \A q \in Processes : q # p => stage'[q] = stage[q] /\ job'[q] = job[q]
    BY DEF TypeOK
  <1>4. \A q \in Processes : stage'[q] = "idle" <=> job'[q] = NoJob
    BY <1>2, <1>3 DEF TypeOK
  <1>5. \A q \in Processes : stage'[q] \in {"held", "publish", "cache"} <=> changes' = q
    BY <1>2, <1>3, ProviderAssumption DEF TypeOK
  <1>6. /\ \A q \in Reloaders : job'[q].kind \in {"none", "preview", "apply"}
        /\ \A q \in Writers : job'[q].kind \notin {"preview", "apply"}
    BY <1>1, <1>2, <1>3 DEF TypeOK, Processes
  <1>. QED
    BY <1>2, <1>3, <1>4, <1>5, <1>6

\* A row, a backup and a cache entry are of their types after a write.
LEMMA WriteType ==
  ASSUME TypeOK, NEW w \in Writers, stage[w] # "idle", Admitted(job[w])
  PROVE  /\ Written(job[w]) \in Row \union {NoRow}
         /\ job[w].kind = "rotate" => rows[job[w].name] \in Row
         /\ job[w].kind # "delete" => Written(job[w]) \in Row
  <1>. DEFINE j == job[w]
  <1>1. /\ j.kind \in {"save", "create", "delete", "rotate", "rollback"} /\ j.name \in Names
        /\ j \in Jobs
    BY BusyJobs DEF TypeOK, Processes
  <1>2. /\ rows[j.name] \in Row \union {NoRow}
        /\ backup[j.name] \in [rev : Nat, config : Configs] \union {NoRow}
        /\ fresh + 1 \in Nat
    BY <1>1 DEF TypeOK
  <1>3. CASE j.kind = "delete"
    BY <1>3 DEF Written
  <1>4. CASE j.kind \in {"save", "create"}
    BY <1>1, <1>2, <1>4, JobFields DEF Written, Row
  <1>5. CASE j.kind = "rotate"
    <2>1. rows[j.name] \in Row /\ j.config \in Configs
      BY <1>1, <1>2, <1>5, JobFields DEF Admitted, Current
    <2>. QED
      BY <1>2, <1>5, <2>1 DEF Written, Row
  <1>6. CASE j.kind = "rollback"
    <2>1. rows[j.name] \in Row /\ backup[j.name] \in [rev : Nat, config : Configs]
      BY <1>1, <1>2, <1>6 DEF Admitted, Current, BackedUp
    <2>. QED
      BY <1>2, <1>6, <2>1 DEF Written, Row
  <1>. QED
    BY <1>1, <1>3, <1>4, <1>5, <1>6

\* The initial states have their types.
LEMMA InitType == Init => TypeOK
  <1>1. NoJob \in Jobs /\ NoJob.kind = "none"
    BY DEF NoJob, Jobs
  <1>. QED
    BY <1>1, ProviderAssumption DEF Init, TypeOK, Processes

\* Every step of an administrator of the file keeps the types.
LEMMA ReloadType ==
  ASSUME TypeOK, Roles, NEW p \in Processes, Reload(p)
  PROVE  TypeOK'
  <1>. USE ProviderAssumption
  <1>1. CASE AskPreview(p)
    <2>. DEFINE j == [kind |-> "preview", base |-> head, candidate |-> file]
    <2>1. j \in Jobs /\ j # NoJob
      BY DEF TypeOK, Jobs, NoJob
    <2>2. p \in Reloaders /\ p \notin Writers /\ Ask(p, "load", j)
      BY <1>1 DEF AskPreview
    <2>. QED
      BY <2>1, <2>2, AskType
  <1>2. CASE AskApply(p)
    <2>. DEFINE j == [kind |-> "apply", base |-> head, candidate |-> file]
    <2>1. j \in Jobs /\ j # NoJob
      BY DEF TypeOK, Jobs, NoJob
    <2>2. p \in Reloaders /\ p \notin Writers /\ Ask(p, "load", j)
      BY <1>2 DEF AskApply
    <2>. QED
      BY <2>1, <2>2, AskType
  <1>3. CASE Load(p)
    <2>. USE <1>3 DEF Load, Goto
    <2>1. stage[p] = "load" /\ p \in Reloaders
      BY DEF Roles
    <2>2. job[p].kind \in {"preview", "apply"} /\ job[p] \in Jobs
      BY <2>1, BusyJobs DEF TypeOK
    <2>3. job'[p] = [job[p] EXCEPT !.candidate = file] /\ stage'[p] = "wait"
      BY DEF TypeOK
    <2>4. job'[p] \in Jobs /\ job'[p].kind = job[p].kind
      BY <2>2, <2>3, JobFields DEF Jobs, TypeOK
    <2>5. \A q \in Processes : q # p => stage'[q] = stage[q] /\ job'[q] = job[q]
      BY DEF TypeOK
    <2>6. /\ stage' \in [Processes -> {"idle", "load", "wait", "held", "publish", "cache"}]
          /\ job' \in [Processes -> Jobs]
      BY <2>4 DEF TypeOK
    <2>7. job'[p] # NoJob
      BY <2>2, <2>4 DEF NoJob
    <2>8. /\ \A q \in Processes : stage'[q] = "idle" <=> job'[q] = NoJob
          /\ \A q \in Processes : stage'[q] \in {"held", "publish", "cache"} <=> changes' = q
      BY <2>1, <2>3, <2>5, <2>7 DEF TypeOK
    <2>9. /\ \A q \in Reloaders : job'[q].kind \in {"none", "preview", "apply"}
          /\ \A q \in Writers : job'[q].kind \notin {"preview", "apply"}
      BY <2>1, <2>2, <2>4, <2>5 DEF TypeOK, Processes
    <2>. QED
      BY <2>6, <2>8, <2>9 DEF TypeOK, filevars, store, history
  <1>4. CASE Check(p)
    <2>. USE <1>4 DEF Check
    <2>1. CASE Goto(p, "publish") /\ UNCHANGED <<job, changes>>
      <3>1. stage[p] = "held" /\ stage' = [stage EXCEPT ![p] = "publish"]
        BY <2>1 DEF Goto
      <3>2. /\ stage' \in [Processes -> {"idle", "load", "wait", "held", "publish", "cache"}]
            /\ \A q \in Processes : stage'[q] = "idle" <=> job'[q] = NoJob
            /\ \A q \in Processes : stage'[q] \in {"held", "publish", "cache"} <=> changes' = q
        BY <2>1, <3>1 DEF TypeOK
      <3>. QED
        BY <2>1, <3>2 DEF TypeOK, filevars, store, history
    <2>2. CASE Leave(p)
      <3>. HIDE <1>4
      <3>1. UNCHANGED <<now, file, filevars, fresh, store, shown, calls, history>>
        BY <1>4 DEF Check
      <3>. QED
        BY <2>2, <3>1, LeaveType DEF TypeOK, filevars, store, history
    <2>. QED
      BY <2>1, <2>2
  <1>5. CASE Stage(p)
    <2>1. /\ p \in Reloaders /\ job[p].base \in [gen : Nat, config : Files]
          /\ job[p].candidate \in Files
      BY <1>5, BusyJobs DEF Stage, Roles
    <2>2. /\ staged' \in Plan /\ fresh' \in Nat
          /\ shown' = [shown EXCEPT ![p] = [plan |-> staged', base |-> job[p].base.config]]
      BY <1>5, <2>1 DEF Stage, TypeOK, Plan
    <2>3. /\ shown' \in [Processes -> Preview \union Metadata \union {NoPlan}]
          /\ \A q \in Reloaders : shown'[q] \in Preview \union {NoPlan}
          /\ \A q \in Writers : shown'[q] \in Metadata \union {NoPlan}
      BY <2>1, <2>2 DEF TypeOK, Preview
    <2>4. UNCHANGED <<now, file, head, store, calls, history>> /\ Leave(p)
      BY <1>5 DEF Stage
    <2>. QED
      BY <2>2, <2>3, <2>4, LeaveType DEF TypeOK, store, history
  <1>6. CASE Apply(p)
    <2>1. p \in Reloaders /\ job[p].candidate \in Files
      BY <1>6, BusyJobs DEF Apply, Roles
    <2>2. /\ head' \in [gen : Nat, config : Files]
          /\ staged' \in Plan \union {NoPlan}
      BY <1>6, <2>1 DEF Apply, TypeOK, filevars, Matches, Plan
    <2>3. UNCHANGED <<now, file, fresh, store, shown, calls, history>> /\ Leave(p)
      BY <1>6 DEF Apply
    <2>. QED
      BY <2>2, <2>3, LeaveType DEF TypeOK, store, history
  <1>. QED
    BY <1>1, <1>2, <1>3, <1>4, <1>5, <1>6 DEF Reload

\* Every step of an administrator of the store keeps the types.
LEMMA WriteStepType ==
  ASSUME TypeOK, Roles, NEW w \in Processes, Write(w)
  PROVE  TypeOK'
  <1>. USE ProviderAssumption
  <1>1. CASE Look(w)
    <2>1. w \in Writers /\ calls' \in 0 .. MaxCalls
      BY <1>1 DEF Look, TypeOK
    <2>2. PICK n \in Names : \E r \in {rows[n], cache[n]} \ {NoRow} :
            shown' = [shown EXCEPT ![w] = [name |-> n, row |-> r]]
      BY <1>1 DEF Look
    <2>3. PICK r \in {rows[n], cache[n]} \ {NoRow} :
            shown' = [shown EXCEPT ![w] = [name |-> n, row |-> r]]
      BY <2>2
    <2>4. r \in Row
      <3>1. rows[n] \in Row \union {NoRow} /\ cache[n] \in Row \union {NoRow}
        BY DEF TypeOK
      <3>. QED
        BY <2>3, <3>1
    <2>5. /\ shown' \in [Processes -> Preview \union Metadata \union {NoPlan}]
          /\ \A q \in Reloaders : shown'[q] \in Preview \union {NoPlan}
          /\ \A q \in Writers : shown'[q] \in Metadata \union {NoPlan}
      BY <2>1, <2>3, <2>4 DEF TypeOK, Metadata
    <2>6. UNCHANGED <<now, file, head, staged, fresh, rows, backup, cache, changes, stage, job,
                      cuts, undo, shadowed, torn>>
      BY <1>1 DEF Look, filevars, store, history
    <2>. QED
      BY <2>1, <2>5, <2>6 DEF TypeOK
  <1>2. CASE AskSave(w)
    <2>1. w \in Writers /\ w \notin Reloaders
      BY <1>2 DEF AskSave
    <2>2. PICK n \in Names, c \in Configs, on \in BOOLEAN, kind \in {"save", "create"} :
            Ask(w, "wait", [kind |-> kind, name |-> n, config |-> c, enabled |-> on])
      BY <1>2 DEF AskSave
    <2>3. [kind |-> kind, name |-> n, config |-> c, enabled |-> on] \in Jobs \ {NoJob}
      BY DEF Jobs, NoJob
    <2>. QED
      BY <2>1, <2>2, <2>3, AskType
  <1>3. CASE AskDelete(w)
    <2>1. w \in Writers /\ w \notin Reloaders
      BY <1>3 DEF AskDelete
    <2>2. PICK n \in Names : Ask(w, "wait", [kind |-> "delete", name |-> n])
      BY <1>3 DEF AskDelete
    <2>3. [kind |-> "delete", name |-> n] \in Jobs \ {NoJob}
      BY DEF Jobs, NoJob
    <2>. QED
      BY <2>1, <2>2, <2>3, AskType
  <1>4. CASE AskRotate(w)
    <2>1. /\ w \in Writers /\ w \notin Reloaders
          /\ shown[w].name \in Names /\ shown[w].row.rev \in Nat
      BY <1>4 DEF AskRotate, TypeOK, Metadata, Row
    <2>2. PICK c \in Configs : Ask(w, "wait",
            [kind |-> "rotate", name |-> shown[w].name, config |-> c, rev |-> shown[w].row.rev])
      BY <1>4 DEF AskRotate
    <2>3. [kind |-> "rotate", name |-> shown[w].name, config |-> c, rev |-> shown[w].row.rev]
            \in Jobs \ {NoJob}
      BY <2>1 DEF Jobs, NoJob
    <2>. QED
      BY <2>1, <2>2, <2>3, AskType
  <1>5. CASE AskRollback(w)
    <2>1. /\ w \in Writers /\ w \notin Reloaders
          /\ shown[w].name \in Names /\ shown[w].row.rev \in Nat
      BY <1>5 DEF AskRollback, TypeOK, Metadata, Row
    <2>2. Ask(w, "wait", [kind |-> "rollback", name |-> shown[w].name, rev |-> shown[w].row.rev])
      BY <1>5 DEF AskRollback
    <2>3. [kind |-> "rollback", name |-> shown[w].name, rev |-> shown[w].row.rev] \in Jobs \ {NoJob}
      BY <2>1 DEF Jobs, NoJob
    <2>. QED
      BY <2>1, <2>2, <2>3, AskType
  <1>6. CASE Commit(w)
    <2>1. /\ stage[w] = "held" /\ w \in Writers
          /\ UNCHANGED <<now, file, head, staged, cache, shown, calls, cuts, shadowed, torn>>
      BY <1>6 DEF Commit, filevars
    <2>2. CASE Admitted(job[w])
      <3>1. /\ Written(job[w]) \in Row \union {NoRow} /\ job[w].name \in Names
            /\ job[w].kind = "rotate" => rows[job[w].name] \in Row
        BY <2>1, <2>2, WriteType, BusyJobs DEF Processes
      <3>2. rows' \in [Names -> Row \union {NoRow}] /\ fresh' \in Nat
        BY <1>6, <2>2, <3>1 DEF Commit, TypeOK
      <3>3. backup' \in [Names -> [rev : Nat, config : Configs] \union {NoRow}]
        BY <1>6, <2>2, <3>1 DEF Commit, TypeOK, Row
      <3>4. undo' \in [Names -> Row \union {NoRow}]
        BY <1>6, <2>2, <3>1 DEF Commit, TypeOK
      <3>5. UNCHANGED <<job, changes>> /\ stage' = [stage EXCEPT ![w] = "cache"]
        BY <1>6, <2>2 DEF Commit, Goto
      <3>6. /\ stage' \in [Processes -> {"idle", "load", "wait", "held", "publish", "cache"}]
            /\ \A q \in Processes : stage'[q] = "idle" <=> job'[q] = NoJob
            /\ \A q \in Processes : stage'[q] \in {"held", "publish", "cache"} <=> changes' = q
        BY <2>1, <3>5 DEF TypeOK
      <3>. QED
        BY <2>1, <3>2, <3>3, <3>4, <3>5, <3>6 DEF TypeOK
    <2>3. CASE ~Admitted(job[w])
      <3>1. Leave(w) /\ UNCHANGED <<rows, backup, undo, fresh>>
        BY <1>6, <2>3 DEF Commit
      <3>. QED
        BY <2>1, <3>1, LeaveType DEF TypeOK
    <2>. QED
      BY <2>2, <2>3
  <1>7. CASE Cache(w)
    <2>1. /\ stage[w] = "cache" /\ w \in Writers /\ job[w].name \in Names
      BY <1>7, BusyJobs DEF Cache, Roles
    <2>2. Cached(job[w]) \in Row \union {NoRow}
      BY <2>1 DEF Cached, TypeOK
    <2>3. cache' \in [Names -> Row \union {NoRow}] /\ torn' \subseteq Names
      BY <1>7, <2>1, <2>2 DEF Cache, TypeOK
    <2>4. /\ shown' \in [Processes -> Preview \union Metadata \union {NoPlan}]
          /\ \A q \in Reloaders : shown'[q] \in Preview \union {NoPlan}
          /\ \A q \in Writers : shown'[q] \in Metadata \union {NoPlan}
      BY <1>7, <2>1 DEF Cache, TypeOK, Metadata
    <2>5. /\ UNCHANGED <<now, file, head, staged, fresh, rows, backup, calls, cuts, undo, shadowed>>
          /\ Leave(w)
      BY <1>7 DEF Cache, filevars
    <2>. QED
      BY <2>3, <2>4, <2>5, LeaveType DEF TypeOK
  <1>. QED
    BY <1>1, <1>2, <1>3, <1>4, <1>5, <1>6, <1>7 DEF Write

\* Every step keeps the types.
LEMMA StepType ==
  ASSUME TypeOK, Roles, [Next]_vars
  PROVE  TypeOK'
  <1>. USE ProviderAssumption
  <1>1. CASE Tick
    BY <1>1 DEF Tick, TypeOK, filevars, store, history
  <1>2. CASE Edit
    BY <1>2 DEF Edit, TypeOK, filevars, store, history
  <1>3. CASE Restart
    <2>1. NoJob \in Jobs /\ NoJob.kind = "none"
      BY DEF NoJob, Jobs
    <2>2. /\ head' \in [gen : Nat, config : Files] /\ fresh' \in Nat
          /\ cache' \in [Names -> Row \union {NoRow}] /\ cuts' \in 0 .. MaxCuts
          /\ shadowed' \subseteq Names /\ staged' = NoPlan /\ torn' = {}
          /\ changes' = Nobody
      BY <1>3 DEF Restart, Cut, TypeOK, Stored, Declares
    <2>3. \A q \in Processes : stage'[q] = "idle" /\ job'[q] = NoJob
      BY <1>3 DEF Restart
    <2>4. /\ stage' \in [Processes -> {"idle", "load", "wait", "held", "publish", "cache"}]
          /\ job' \in [Processes -> Jobs]
      BY <1>3, <2>1 DEF Restart
    <2>5. UNCHANGED <<now, file, rows, backup, shown, calls, undo>>
      BY <1>3 DEF Restart
    <2>6. \A q \in Processes : stage'[q] \in {"held", "publish", "cache"} <=> changes' = q
      BY <2>2, <2>3
    <2>. QED
      BY <2>1, <2>2, <2>3, <2>4, <2>5, <2>6 DEF TypeOK, Processes
  <1>4. ASSUME NEW p \in Processes, Reload(p) PROVE TypeOK'
    BY <1>4, ReloadType
  <1>5. ASSUME NEW p \in Processes, Write(p) PROVE TypeOK'
    BY <1>5, WriteStepType
  <1>6. ASSUME NEW p \in Processes, Lock(p) PROVE TypeOK'
    <2>1. /\ stage[p] = "wait" /\ changes = Nobody /\ changes' = p
          /\ stage' = [stage EXCEPT ![p] = "held"]
          /\ UNCHANGED <<now, file, head, staged, fresh, rows, backup, cache, job, shown, calls,
                         cuts, undo, shadowed, torn>>
      BY <1>6 DEF Lock, Goto, filevars, store, history
    <2>2. /\ stage' \in [Processes -> {"idle", "load", "wait", "held", "publish", "cache"}]
          /\ \A q \in Processes : stage'[q] = "idle" <=> job'[q] = NoJob
          /\ \A q \in Processes : stage'[q] \in {"held", "publish", "cache"} <=> changes' = q
      BY <2>1 DEF TypeOK
    <2>. QED
      BY <2>1, <2>2 DEF TypeOK
  <1>7. ASSUME NEW p \in Processes, Drop(p) PROVE TypeOK'
    <2>1. stage[p] = "cache" => job[p].name \in Names
      BY BusyJobs DEF Roles
    <2>2. /\ torn' \subseteq Names /\ cuts' \in 0 .. MaxCuts /\ Leave(p)
          /\ UNCHANGED <<now, file, head, staged, fresh, rows, backup, cache, shown, calls, undo,
                         shadowed>>
      BY <1>7, <2>1 DEF Drop, Cut, TypeOK, filevars, store
    <2>. QED
      BY <2>2, LeaveType DEF TypeOK
  <1>8. CASE UNCHANGED vars
    BY <1>8 DEF TypeOK, vars, filevars, store, history
  <1>. QED
    BY <1>1, <1>2, <1>3, <1>4, <1>5, <1>6, <1>7, <1>8 DEF Next

\* What a step does to the stage and the job of each process.
LEMMA Moves ==
  ASSUME TypeOK, Roles, [Next]_vars, NEW q \in Processes
  PROVE  \/ stage'[q] = stage[q] /\ job'[q] = job[q]
         \/ stage'[q] = "idle" /\ job'[q] = NoJob
         \/ stage'[q] = "load" /\ (AskPreview(q) \/ AskApply(q))
         \/ stage'[q] = "wait" /\ (AskSave(q) \/ AskDelete(q) \/ AskRotate(q) \/ AskRollback(q))
         \/ stage[q] = "load" /\ Load(q)
         \/ stage[q] = "wait" /\ stage'[q] = "held" /\ job'[q] = job[q] /\ Lock(q)
         \/ stage[q] = "held" /\ stage'[q] = "publish" /\ job'[q] = job[q] /\ Check(q)
         \/ stage[q] = "held" /\ stage'[q] = "cache" /\ job'[q] = job[q] /\ Commit(q)
  <1>. USE DEF TypeOK, Goto
  <1>1. CASE Tick
    BY <1>1 DEF Tick
  <1>2. CASE Edit
    BY <1>2 DEF Edit
  <1>3. CASE Restart
    BY <1>3 DEF Restart
  <1>4. ASSUME NEW p \in Processes, NEW s, NEW j, Ask(p, s, j)
        PROVE  stage'[p] = s /\ (q # p => stage'[q] = stage[q] /\ job'[q] = job[q])
    BY <1>4 DEF Ask
  <1>5. ASSUME NEW p \in Processes, Leave(p)
        PROVE  \/ stage'[q] = stage[q] /\ job'[q] = job[q]
               \/ stage'[q] = "idle" /\ job'[q] = NoJob
    BY <1>5 DEF Leave
  <1>6. ASSUME NEW p \in Processes, AskPreview(p) \/ AskApply(p)
        PROVE  stage'[p] = "load" /\ (q # p => stage'[q] = stage[q] /\ job'[q] = job[q])
    BY <1>4, <1>6 DEF AskPreview, AskApply
  <1>7. ASSUME NEW p \in Processes, AskSave(p) \/ AskDelete(p) \/ AskRotate(p) \/ AskRollback(p)
        PROVE  stage'[p] = "wait" /\ (q # p => stage'[q] = stage[q] /\ job'[q] = job[q])
    BY <1>4, <1>7 DEF AskSave, AskDelete, AskRotate, AskRollback
  <1>8. ASSUME NEW p \in Processes, Load(p)
        PROVE  \/ stage'[q] = stage[q] /\ job'[q] = job[q]
               \/ q = p /\ stage[q] = "load"
    <2>1. stage[p] = "load"
      BY <1>8 DEF Load
    <2>2. q # p => stage'[q] = stage[q]
      BY <1>8 DEF Load
    <2>3. q # p => job'[q] = job[q]
      BY <1>8 DEF Load
    <2>. QED
      BY <2>1, <2>2, <2>3
  <1>9. ASSUME NEW p \in Processes, Check(p)
        PROVE  \/ Leave(p)
               \/ stage'[q] = stage[q] /\ job'[q] = job[q]
               \/ q = p /\ stage[q] = "held" /\ stage'[q] = "publish" /\ job'[q] = job[q]
    BY <1>9 DEF Check
  <1>10. ASSUME NEW p \in Processes, Stage(p) \/ Apply(p) \/ Cache(p) \/ Drop(p)
         PROVE  Leave(p)
    BY <1>10 DEF Stage, Apply, Cache, Drop
  <1>11. ASSUME NEW p \in Processes, Look(p)
         PROVE  stage'[q] = stage[q] /\ job'[q] = job[q]
    BY <1>11 DEF Look
  <1>12. ASSUME NEW p \in Processes, Commit(p)
         PROVE  \/ Leave(p)
                \/ stage'[q] = stage[q] /\ job'[q] = job[q]
                \/ q = p /\ stage[q] = "held" /\ stage'[q] = "cache" /\ job'[q] = job[q]
    BY <1>12 DEF Commit
  <1>13. ASSUME NEW p \in Processes, Lock(p)
         PROVE  \/ stage'[q] = stage[q] /\ job'[q] = job[q]
                \/ q = p /\ stage[q] = "wait" /\ stage'[q] = "held" /\ job'[q] = job[q]
    BY <1>13 DEF Lock
  <1>14. CASE UNCHANGED vars
    BY <1>14 DEF vars
  <1>. HIDE DEF TypeOK, Goto
  <1>. QED
    BY <1>1, <1>2, <1>3, <1>5, <1>6, <1>7, <1>8, <1>9, <1>10, <1>11, <1>12, <1>13, <1>14
       DEF Next, Reload, Write

\* Only a reload publishes, and only a write reaches the cache.
LEMMA StepRoles ==
  ASSUME TypeOK, Roles, [Next]_vars
  PROVE  Roles'
  <1>1. ASSUME NEW q \in Processes, stage'[q] \in {"load", "publish"} PROVE q \in Reloaders
    BY <1>1, Moves DEF Roles, Check, Load, AskPreview, AskApply, Goto, TypeOK
  <1>2. ASSUME NEW q \in Processes, stage'[q] = "cache" PROVE q \in Writers
    BY <1>2, Moves DEF Roles, Commit, Load, Goto, TypeOK
  <1>. QED
    BY <1>1, <1>2 DEF Roles

\* A process beyond the coordinator is alone there.
LEMMA Alone ==
  ASSUME TypeOK, NEW p \in Processes, NEW q \in Processes,
         stage[p] \in {"held", "publish", "cache"}, stage[q] \in {"held", "publish", "cache"}
  PROVE  p = q
  BY DEF TypeOK

\* Everything but the requests themselves.
data == <<head, staged, fresh, rows, backup, cache, undo, shadowed, torn>>

\* A step of requests that are not yet through.
Quiet ==
  /\ UNCHANGED <<data, shown>>
  /\ \A q \in Processes : stage[q] = "cache" => stage'[q] = "cache" /\ job'[q] = job[q]

\* Which steps change more than who stands where.
LEMMA Changes ==
  ASSUME TypeOK, Roles, [Next]_vars
  PROVE  \/ Quiet
         \/ Restart
         \/ \E p \in Reloaders : Stage(p) \/ Apply(p)
         \/ \E w \in Writers : Look(w) \/ (Commit(w) /\ Admitted(job[w])) \/ Cache(w)
         \/ \E p \in Processes : Drop(p)
  <1>. USE DEF Quiet, data, filevars, store, history
  <1>1. CASE Tick
    BY <1>1 DEF Tick
  <1>2. CASE Edit
    BY <1>2 DEF Edit
  <1>3. ASSUME NEW p \in Processes, Lock(p) \/ Load(p) \/ Check(p)
        PROVE  Quiet
    <2>1. UNCHANGED <<data, shown>> /\ stage[p] # "cache"
      BY <1>3 DEF Lock, Load, Check
    <2>2. \A q \in Processes : q # p => stage'[q] = stage[q]
      BY <1>3, LeaveType DEF Lock, Load, Check, Goto, TypeOK
    <2>3. \A q \in Processes : q # p => job'[q] = job[q]
      BY <1>3, LeaveType DEF Lock, Load, Check, TypeOK
    <2>. QED
      BY <2>1, <2>2, <2>3
  <1>4. ASSUME NEW p \in Processes, NEW s, NEW j, Ask(p, s, j) PROVE Quiet
    <2>1. UNCHANGED <<data, shown>> /\ stage[p] # "cache"
      BY <1>4 DEF Ask
    <2>2. \A q \in Processes : q # p => stage'[q] = stage[q] /\ job'[q] = job[q]
      BY <1>4 DEF Ask, Goto, TypeOK
    <2>. QED
      BY <2>1, <2>2
  <1>5. ASSUME NEW p \in Processes,
               \/ AskPreview(p) \/ AskApply(p) \/ AskSave(p)
               \/ AskDelete(p) \/ AskRotate(p) \/ AskRollback(p)
        PROVE  Quiet
    BY <1>4, <1>5 DEF AskPreview, AskApply, AskSave, AskDelete, AskRotate, AskRollback
  <1>6. ASSUME NEW p \in Processes, Commit(p), ~Admitted(job[p]) PROVE Quiet
    <2>1. UNCHANGED <<data, shown>> /\ stage[p] # "cache" /\ Leave(p)
      BY <1>6 DEF Commit
    <2>. QED
      BY <2>1, LeaveType
  <1>7. \A p \in Processes : /\ Stage(p) \/ Apply(p) => p \in Reloaders
                             /\ Look(p) \/ Commit(p) \/ Cache(p) => p \in Writers
    BY DEF Stage, Apply, Look, Commit, Cache, Roles
  <1>8. CASE UNCHANGED vars
    BY <1>8 DEF vars
  <1>. HIDE DEF Quiet, data, filevars, store, history
  <1>. QED
    BY <1>1, <1>2, <1>3, <1>5, <1>6, <1>7, <1>8 DEF Next, Reload, Write

\* Only an admitted write changes the rows, and only one name's.
LEMMA Committed ==
  ASSUME TypeOK, NEW w \in Writers, Commit(w), Admitted(job[w])
  PROVE  /\ job[w].name \in Names /\ stage[w] = "held" /\ fresh \in Nat
         /\ job[w].kind \in {"save", "create", "delete", "rotate", "rollback"}
         /\ \A n \in Names : n # job[w].name =>
              rows'[n] = rows[n] /\ backup'[n] = backup[n] /\ undo'[n] = undo[n]
         /\ rows'[job[w].name] = Written(job[w])
         /\ backup'[job[w].name] =
              (IF job[w].kind = "rotate"
               THEN [rev |-> fresh + 1, config |-> rows[job[w].name].config]
               ELSE IF job[w].kind = "rollback" THEN NoRow ELSE backup[job[w].name])
         /\ undo'[job[w].name] = (IF job[w].kind = "rotate" THEN rows[job[w].name] ELSE NoRow)
         /\ fresh' = fresh + 1
         /\ UNCHANGED <<head, staged, cache, shown, shadowed, torn, job, changes>>
         /\ stage' = [stage EXCEPT ![w] = "cache"]
  <1>1. stage[w] = "held" /\ w \in Processes
    BY DEF Commit, Processes
  <1>2. /\ job[w].name \in Names
        /\ job[w].kind \in {"save", "create", "delete", "rotate", "rollback"}
    BY <1>1, BusyJobs
  <1>3. UNCHANGED <<head, staged, cache, shown, shadowed, torn, job, changes>>
    BY DEF Commit, filevars
  <1>4. fresh' = fresh + 1 /\ stage' = [stage EXCEPT ![w] = "cache"]
    BY DEF Commit, Goto
  <1>5. rows' = [rows EXCEPT ![job[w].name] = Written(job[w])]
    BY DEF Commit
  <1>6. undo' = [undo EXCEPT ![job[w].name] =
                   IF job[w].kind = "rotate" THEN rows[job[w].name] ELSE NoRow]
    BY DEF Commit
  <1>7. backup' = [backup EXCEPT ![job[w].name] =
            IF job[w].kind = "rotate"
            THEN [rev |-> fresh + 1, config |-> rows[job[w].name].config]
            ELSE IF job[w].kind = "rollback" THEN NoRow ELSE backup[job[w].name]]
    BY <1>2 DEF Commit
  <1>. QED
    BY <1>1, <1>2, <1>3, <1>4, <1>5, <1>6, <1>7 DEF TypeOK

\* A write that leaves a row gives it a revision of its own.
LEMMA NewRevision ==
  ASSUME TypeOK, NEW w \in Writers, stage[w] # "idle", Admitted(job[w])
  PROVE  Written(job[w]) # NoRow =>
           /\ Written(job[w]).rev = fresh + 1
           /\ job[w].kind = "rotate" =>
                /\ rows[job[w].name] # NoRow
                /\ Written(job[w]).enabled = rows[job[w].name].enabled
           /\ job[w].kind = "rollback" =>
                /\ rows[job[w].name] # NoRow
                /\ Written(job[w]).enabled = rows[job[w].name].enabled
                /\ Written(job[w]).config = backup[job[w].name].config
  <1>. DEFINE j == job[w]
  <1>1. /\ j.kind \in {"save", "create", "delete", "rotate", "rollback"} /\ j.name \in Names
        /\ rows[j.name] \in Row \union {NoRow}
    BY BusyJobs DEF TypeOK, Processes
  <1>2. j.kind \in {"rotate", "rollback"} => rows[j.name] \in Row /\ rows[j.name] # NoRow
    BY <1>1 DEF Admitted, Current
  <1>. QED
    BY <1>1, <1>2 DEF Written, Row

\* Between its check and its end a reload stands on the published snapshot.
LEMMA StepPublishing ==
  ASSUME TypeOK, Roles, Generations, Publishing, [Next]_vars
  PROVE  Publishing'
  <1>. SUFFICES ASSUME NEW p \in Reloaders, stage'[p] = "publish"
                PROVE  /\ job'[p].base = head'
                       /\ KeepsOwners(job[p].base.config, job[p].candidate)'
    BY DEF Publishing
  <1>1. p \in Processes
    BY DEF Processes
  <1>2. CASE stage[p] = "publish" /\ job'[p] = job[p]
    <2>1. ~Restart
      BY <1>1 DEF Restart
    <2>2. ASSUME NEW q \in Reloaders, Stage(q) \/ Apply(q) PROVE FALSE
      <3>1. stage[q] = "publish" /\ q \in Processes /\ Leave(q)
        BY <2>2 DEF Stage, Apply, Processes
      <3>. QED
        BY <1>1, <1>2, <3>1, Alone, LeaveType
    <2>3. ASSUME NEW w \in Writers, (Commit(w) /\ Admitted(job[w])) \/ Cache(w) PROVE FALSE
      <3>1. stage[w] \in {"held", "cache"} /\ w \in Processes
        BY <2>3 DEF Commit, Cache, Processes
      <3>. QED
        BY <1>1, <1>2, <3>1, Alone
    <2>4. UNCHANGED <<head, rows>>
      BY <2>1, <2>2, <2>3, Changes DEF Quiet, data, Look, Drop, filevars, store
    <2>. QED
      BY <1>2, <2>4 DEF Publishing, KeepsOwners, Stored, Declares
  <1>3. CASE stage[p] = "held" /\ job'[p] = job[p] /\ Check(p)
    <2>1. /\ job[p].base.gen = head.gen /\ KeepsOwners(job[p].base.config, job[p].candidate)
          /\ UNCHANGED <<head, rows>>
      BY <1>1, <1>3, LeaveType DEF Check, filevars, store
    <2>2. job[p] # NoJob
      BY <1>1, <1>3 DEF TypeOK
    <2>. QED
      BY <1>3, <2>1, <2>2 DEF Generations, KeepsOwners, Stored, Declares
  <1>4. CASE stage[p] = "load" /\ Load(p)
    BY <1>1, <1>4 DEF Load, Goto, TypeOK
  <1>5. CASE stage[p] = "held" /\ Commit(p)
    BY <1>5, ProviderAssumption DEF Commit
  <1>. QED
    BY <1>1, <1>2, <1>3, <1>4, <1>5, Moves

\* A name gets a second owner at a start only.
LEMMA StepOneOwner ==
  ASSUME TypeOK, Roles, Publishing, OneOwner, [Next]_vars
  PROVE  OneOwner'
  <1>1. CASE Quiet
    BY <1>1 DEF Quiet, data, OneOwner, Stored, Declares
  <1>2. CASE Restart
    BY <1>2 DEF Restart, OneOwner, Stored, Declares
  <1>3. ASSUME NEW p \in Reloaders, Stage(p) PROVE OneOwner'
    BY <1>3 DEF Stage, OneOwner, Stored, Declares, store, history
  <1>4. ASSUME NEW p \in Reloaders, Apply(p) PROVE OneOwner'
    <2>1. UNCHANGED <<rows, shadowed>>
      BY <1>4 DEF Apply, store, history
    <2>2. job[p].base = head /\ KeepsOwners(head.config, job[p].candidate)
      BY <1>4 DEF Apply, Publishing
    <2>3. head' = head \/ head'.config = job[p].candidate
      BY <1>4 DEF Apply, filevars
    <2>. QED
      BY <2>1, <2>2, <2>3 DEF OneOwner, KeepsOwners, Stored, Declares
  <1>5. ASSUME NEW w \in Writers, Look(w) \/ Cache(w) PROVE OneOwner'
    BY <1>5 DEF Look, Cache, OneOwner, Stored, Declares, store, history, filevars
  <1>6. ASSUME NEW w \in Writers, Commit(w), Admitted(job[w]) PROVE OneOwner'
    <2>1. job[w].kind # "delete" => job[w].name \notin Declares(head.config)
      BY <1>6, Committed DEF Admitted, Free
    <2>2. job[w].kind = "delete" => rows'[job[w].name] = NoRow
      BY <1>6, Committed DEF Written
    <2>3. Declares(head.config)' = Declares(head.config) /\ shadowed' = shadowed
      BY <1>6, Committed DEF Declares
    <2>4. Stored' \subseteq Stored \union {job[w].name}
      BY <1>6, Committed DEF Stored
    <2>. QED
      BY <2>1, <2>2, <2>3, <2>4 DEF OneOwner, Stored
  <1>7. ASSUME NEW p \in Processes, Drop(p) PROVE OneOwner'
    BY <1>7 DEF Drop, OneOwner, Stored, Declares, store, filevars
  <1>. QED
    BY <1>1, <1>2, <1>3, <1>4, <1>5, <1>6, <1>7, Changes

\* While a write stands before the cache, the rest of the store stands still.
LEMMA CacheHeld ==
  ASSUME TypeOK, Roles, [Next]_vars, NEW w \in Writers, stage[w] = "cache", stage'[w] = "cache"
  PROVE  UNCHANGED <<rows, cache>> /\ torn \subseteq torn'
  <1>1. w \in Processes /\ ~Restart
    BY DEF Processes, Restart
  <1>2. ASSUME NEW v \in Writers, (Commit(v) /\ Admitted(job[v])) \/ Cache(v) PROVE FALSE
    <2>1. stage[v] \in {"held", "cache"} /\ v \in Processes
      BY <1>2 DEF Commit, Cache, Processes
    <2>2. v = w
      BY <1>1, <2>1, Alone
    <2>3. Cache(w) => Leave(w)
      BY DEF Cache
    <2>. QED
      BY <1>1, <1>2, <2>2, <2>3, LeaveType DEF Commit
  <1>3. ASSUME NEW v \in Writers, Look(v) PROVE UNCHANGED <<rows, cache, torn>>
    BY <1>3 DEF Look, store, history
  <1>4. ASSUME NEW p \in Reloaders, Stage(p) \/ Apply(p) PROVE UNCHANGED <<rows, cache, torn>>
    BY <1>4 DEF Stage, Apply, store, history
  <1>5. ASSUME NEW p \in Processes, Drop(p) PROVE UNCHANGED <<rows, cache>> /\ torn \subseteq torn'
    BY <1>5 DEF Drop, store
  <1>6. Quiet => UNCHANGED <<rows, cache, torn>>
    BY DEF Quiet, data
  <1>. QED
    BY <1>1, <1>2, <1>3, <1>4, <1>5, <1>6, Changes

\* A write reaches the cache from its commit only.
LEMMA ToCache ==
  ASSUME TypeOK, Roles, [Next]_vars, NEW w \in Writers, stage'[w] = "cache"
  PROVE  /\ job'[w] = job[w]
         /\ \/ stage[w] = "cache"
            \/ Commit(w) /\ Admitted(job[w])
  <1>1. w \in Processes
    BY DEF Processes
  <1>2. ASSUME Commit(w), ~Admitted(job[w]) PROVE FALSE
    <2>1. Leave(w)
      BY <1>2 DEF Commit
    <2>. QED
      BY <1>1, <2>1, LeaveType
  <1>3. ~Load(w)
    BY <1>1 DEF Load, Goto, TypeOK
  <1>. QED
    BY <1>1, <1>2, <1>3, Moves

\* No rotation puts a provider that is off into the cache.
LEMMA StepCaching ==
  ASSUME TypeOK, Roles, Caching, CacheAgrees, [Next]_vars
  PROVE  Caching'
  <1>. SUFFICES ASSUME NEW w \in Writers, stage'[w] = "cache",
                       job'[w].kind \notin {"save", "create"},
                       rows'[job'[w].name] # NoRow, ~rows'[job'[w].name].enabled,
                       job'[w].name \notin torn'
                PROVE  cache'[job'[w].name] = NoRow
    BY DEF Caching
  <1>1. job'[w] = job[w] /\ w \in Processes
    BY ToCache DEF Processes
  <1>2. CASE stage[w] = "cache"
    BY <1>1, <1>2, CacheHeld DEF Caching
  <1>3. CASE Commit(w) /\ Admitted(job[w])
    <2>. DEFINE n == job[w].name
    <2>1. Commit(w) /\ Admitted(job[w])
      BY <1>3
    <2>2. /\ n \in Names /\ stage[w] = "held" /\ UNCHANGED <<cache, torn>>
          /\ rows'[n] = Written(job[w])
          /\ job[w].kind \in {"save", "create", "delete", "rotate", "rollback"}
      BY <2>1, Committed
    <2>3. /\ n \in Names /\ stage[w] = "held" /\ n \notin torn /\ cache' = cache
          /\ rows'[n] = Written(job[w])
          /\ job[w].kind \in {"save", "create", "delete", "rotate", "rollback"}
      BY <1>1, <2>2
    <2>4. job[w].kind \in {"rotate", "rollback"}
      BY <1>1, <2>3 DEF Written
    <2>5. rows[n] # NoRow /\ ~rows[n].enabled
      BY <1>1, <1>3, <2>3, <2>4, NewRevision
    <2>6. \A v \in Writers : stage[v] # "cache"
      BY <1>1, <2>3, Alone DEF Processes
    <2>. QED
      BY <1>1, <2>3, <2>5, <2>6 DEF CacheAgrees
  <1>. QED
    BY <1>2, <1>3, ToCache

\* The cache differs from the rows only where a write is still on its way.
LEMMA StepCacheAgrees ==
  ASSUME TypeOK, Roles, Revisions, Caching, CacheAgrees, [Next]_vars
  PROVE  CacheAgrees'
  <1>. SUFFICES ASSUME NEW n \in Names, n \notin torn',
                       \A w \in Writers : ~(stage'[w] = "cache" /\ job'[w].name = n)
                PROVE  cache'[n] =
                         (IF rows'[n] # NoRow /\ rows'[n].enabled THEN rows'[n] ELSE NoRow)
    BY DEF CacheAgrees
  <1>1. CASE Restart
    BY <1>1 DEF Restart
  <1>2. ASSUME NEW w \in Writers, Cache(w), job[w].name = n
        PROVE  cache'[n] = (IF rows'[n] # NoRow /\ rows'[n].enabled THEN rows'[n] ELSE NoRow)
    <2>1. /\ stage[w] = "cache" /\ rows' = rows /\ cache'[n] = Cached(job[w])
      BY <1>2 DEF Cache, TypeOK
    <2>2. CASE rows[n] # NoRow /\ ~rows[n].enabled
      <3>1. CASE job[w].kind \in {"save", "create"}
        BY <1>2, <2>1, <2>2, <3>1 DEF Cached
      <3>2. CASE job[w].kind \notin {"save", "create"}
        <4>1. cache'[n] = cache[n]
          BY <1>2, <2>1, <2>2, <3>2 DEF Cached
        <4>2. cache[n] # rows[n]
          BY <2>2 DEF Revisions
        <4>3. n \notin torn
          BY <1>2, <2>1, <3>2, <4>1, <4>2 DEF Cache
        <4>. QED
          BY <1>2, <2>1, <2>2, <3>2, <4>1, <4>3 DEF Caching
      <3>. QED
        BY <3>1, <3>2
    <2>3. CASE ~(rows[n] # NoRow /\ ~rows[n].enabled)
      BY <1>2, <2>1, <2>3 DEF Cached, TypeOK, Row
    <2>. QED
      BY <2>2, <2>3
  <1>3. ASSUME NEW w \in Writers, Cache(w), job[w].name # n
        PROVE  cache'[n] = (IF rows'[n] # NoRow /\ rows'[n].enabled THEN rows'[n] ELSE NoRow)
    <2>1. stage[w] = "cache" /\ w \in Processes /\ rows' = rows /\ cache'[n] = cache[n]
      BY <1>3 DEF Cache, TypeOK, Processes
    <2>2. n \notin torn
      BY <1>3 DEF Cache
    <2>3. \A v \in Writers : stage[v] = "cache" => v = w
      BY <2>1, Alone DEF Processes
    <2>. QED
      BY <1>3, <2>1, <2>2, <2>3 DEF CacheAgrees
  <1>4. ASSUME NEW w \in Writers, Commit(w), Admitted(job[w])
        PROVE  cache'[n] = (IF rows'[n] # NoRow /\ rows'[n].enabled THEN rows'[n] ELSE NoRow)
    <2>1. /\ stage[w] = "held" /\ w \in Processes
          /\ stage' = [stage EXCEPT ![w] = "cache"] /\ job' = job
      BY <1>4, Committed DEF Processes
    <2>2. stage[w] = "held" /\ w \in Processes /\ stage'[w] = "cache" /\ job' = job
      BY <2>1 DEF TypeOK
    <2>3. n # job[w].name
      BY <2>2
    <2>4. rows'[n] = rows[n] /\ cache' = cache /\ torn' = torn
      BY <1>4, <2>3, Committed
    <2>5. \A v \in Writers : stage[v] # "cache"
      BY <2>2, Alone DEF Processes
    <2>. QED
      BY <2>4, <2>5 DEF CacheAgrees
  <1>5. ASSUME NEW p \in Processes, Drop(p)
        PROVE  cache'[n] = (IF rows'[n] # NoRow /\ rows'[n].enabled THEN rows'[n] ELSE NoRow)
    <2>1. UNCHANGED <<rows, cache>> /\ torn \subseteq torn' /\ Leave(p)
      BY <1>5 DEF Drop, store
    <2>2. ~(stage[p] = "cache" /\ job[p].name = n)
      BY <1>5 DEF Drop
    <2>3. \A w \in Writers : stage[w] = "cache" /\ job[w].name = n =>
            stage'[w] = "cache" /\ job'[w] = job[w]
      BY <2>1, <2>2, LeaveType DEF Processes
    <2>. QED
      BY <2>1, <2>3 DEF CacheAgrees
  <1>6. ASSUME NEW p \in Reloaders, Stage(p) \/ Apply(p)
        PROVE  cache'[n] = (IF rows'[n] # NoRow /\ rows'[n].enabled THEN rows'[n] ELSE NoRow)
    <2>1. UNCHANGED <<rows, cache, torn>> /\ Leave(p) /\ p \in Processes /\ stage[p] = "publish"
      BY <1>6 DEF Stage, Apply, store, history, Processes
    <2>2. \A w \in Writers : stage[w] # "cache"
      BY <2>1, Alone DEF Processes
    <2>. QED
      BY <2>1, <2>2 DEF CacheAgrees
  <1>7. ASSUME NEW w \in Writers, Look(w)
        PROVE  cache'[n] = (IF rows'[n] # NoRow /\ rows'[n].enabled THEN rows'[n] ELSE NoRow)
    BY <1>7 DEF Look, store, history, CacheAgrees
  <1>8. CASE Quiet
    BY <1>8 DEF Quiet, data, CacheAgrees, Processes
  <1>. QED
    BY <1>1, <1>2, <1>3, <1>4, <1>5, <1>6, <1>7, <1>8, Changes

\* A reload keeps the base that it started from, and it starts from the head.
LEMMA NewJob ==
  ASSUME TypeOK, Roles, [Next]_vars, NEW p \in Reloaders, job'[p] # NoJob
  PROVE  \/ job[p] # NoJob /\ job'[p].base = job[p].base /\ job'[p].kind = job[p].kind
         \/ job[p] = NoJob /\ job'[p].base = head /\ (job'[p].kind = "apply" => shown[p] # NoPlan)
  <1>1. p \in Processes /\ p \notin Writers
    BY ProviderAssumption DEF Processes
  <1>2. CASE AskPreview(p) \/ AskApply(p)
    <2>1. job[p] = NoJob
      BY <1>1, <1>2 DEF AskPreview, AskApply, Ask, TypeOK
    <2>2. \/ job'[p] = [kind |-> "preview", base |-> head, candidate |-> file]
          \/ job'[p] = [kind |-> "apply", base |-> head, candidate |-> file] /\ shown[p] # NoPlan
      BY <1>1, <1>2 DEF AskPreview, AskApply, Ask, TypeOK
    <2>. QED
      BY <2>1, <2>2
  <1>3. CASE Load(p)
    <2>1. stage[p] = "load" /\ job' = [job EXCEPT ![p].candidate = file]
      BY <1>3 DEF Load
    <2>2. job[p] # NoJob /\ job[p] \in Jobs /\ job[p].kind \in {"preview", "apply"}
      BY <1>1, <2>1, BusyJobs DEF TypeOK
    <2>3. job'[p] = [job[p] EXCEPT !.candidate = file]
      BY <1>1, <2>1 DEF TypeOK
    <2>4. job'[p].base = job[p].base /\ job'[p].kind = job[p].kind
      BY <2>2, <2>3 DEF Jobs
    <2>. QED
      BY <2>2, <2>4
  <1>4. ~(AskSave(p) \/ AskDelete(p) \/ AskRotate(p) \/ AskRollback(p) \/ Commit(p))
    BY <1>1 DEF AskSave, AskDelete, AskRotate, AskRollback, Commit
  <1>. QED
    BY <1>1, <1>2, <1>3, <1>4, Moves

\* No number is kept that was not given out.
LEMMA StepGivenOut ==
  ASSUME TypeOK, Roles, GivenOut, [Next]_vars
  PROVE  GivenOut'
  <1>. DEFINE Kept == /\ head.gen <= fresh
                      /\ staged # NoPlan => staged.gen <= fresh
                      /\ \A n \in Names : /\ rows[n] # NoRow => rows[n].rev <= fresh
                                          /\ cache[n] # NoRow => cache[n].rev <= fresh
                                          /\ backup[n] # NoRow => backup[n].rev <= fresh
              Seen == /\ \A p \in Reloaders : shown[p] # NoPlan => shown[p].plan.gen <= fresh
                      /\ \A w \in Writers : shown[w] # NoPlan => shown[w].row.rev <= fresh
  <1>1. Kept /\ Seen
    BY DEF GivenOut
  <1>2. /\ fresh \in Nat /\ head.gen \in Nat
        /\ staged # NoPlan => staged.gen \in Nat
        /\ \A n \in Names : /\ rows[n] # NoRow => rows[n].rev \in Nat
                            /\ cache[n] # NoRow => cache[n].rev \in Nat
                            /\ backup[n] # NoRow => backup[n].rev \in Nat
        /\ \A p \in Reloaders : shown[p] # NoPlan => shown[p].plan.gen \in Nat
        /\ \A w \in Writers : shown[w] # NoPlan => shown[w].row.rev \in Nat
    BY DEF TypeOK, Row, Plan, Preview, Metadata
  <1>3. fresh' \in Nat /\ fresh <= fresh'
    <2>1. ASSUME NEW p \in Processes, Drop(p) PROVE fresh' = fresh
      BY <2>1 DEF Drop
    <2>2. ASSUME NEW w \in Writers, Look(w) \/ Cache(w) PROVE fresh' = fresh
      BY <2>2 DEF Look, Cache
    <2>3. ASSUME NEW p \in Reloaders, Stage(p) \/ Apply(p) PROVE fresh' \in {fresh, fresh + 1}
      BY <2>3 DEF Stage, Apply
    <2>4. ASSUME NEW w \in Writers, Commit(w), Admitted(job[w]) PROVE fresh' = fresh + 1
      BY <2>4, Committed
    <2>5. Restart => fresh' = fresh + 1
      BY DEF Restart
    <2>6. Quiet => fresh' = fresh
      BY DEF Quiet, data
    <2>7. fresh' \in {fresh, fresh + 1}
      BY <2>1, <2>2, <2>3, <2>4, <2>5, <2>6, Changes
    <2>. QED
      BY <1>2, <2>7
  <1>4. Kept' /\ Seen'
    <2>1. CASE Quiet
      BY <1>1, <2>1 DEF Quiet, data
    <2>2. CASE Restart
      <3>1. /\ fresh' = fresh + 1 /\ head'.gen = fresh + 1 /\ staged' = NoPlan
            /\ UNCHANGED <<rows, backup, shown>>
        BY <2>2 DEF Restart
      <3>2. \A n \in Names : cache'[n] # NoRow => cache'[n] = rows[n]
        BY <2>2 DEF Restart
      <3>. QED
        BY <1>1, <1>2, <3>1, <3>2
    <2>3. ASSUME NEW p \in Reloaders, Stage(p) PROVE Kept' /\ Seen'
      <3>1. /\ fresh' = fresh + 1 /\ staged'.gen = fresh + 1
            /\ shown' = [shown EXCEPT ![p] = [plan |-> staged', base |-> job[p].base.config]]
            /\ UNCHANGED <<head, rows, backup, cache>> /\ p \in Processes
        BY <2>3 DEF Stage, store, Processes
      <3>2. /\ shown'[p].plan.gen = fresh + 1
            /\ \A q \in Processes : q # p => shown'[q] = shown[q]
        BY <3>1 DEF TypeOK
      <3>. QED
        BY <1>1, <1>2, <3>1, <3>2, ProviderAssumption DEF Processes
    <2>4. ASSUME NEW p \in Reloaders, Apply(p) PROVE Kept' /\ Seen'
      <3>1. /\ head'.gen = head.gen \/ (staged # NoPlan /\ head'.gen = staged.gen)
            /\ staged' \in {NoPlan, staged} /\ UNCHANGED <<fresh, rows, backup, cache, shown>>
        BY <2>4 DEF Apply, Matches, filevars, store
      <3>. QED
        BY <1>1, <3>1
    <2>5. ASSUME NEW w \in Writers, Look(w) PROVE Kept' /\ Seen'
      <3>1. UNCHANGED <<head, staged, fresh, rows, backup, cache>>
        BY <2>5 DEF Look, filevars, store
      <3>2. PICK n \in Names : \E r \in {rows[n], cache[n]} \ {NoRow} :
              shown' = [shown EXCEPT ![w] = [name |-> n, row |-> r]]
        BY <2>5 DEF Look
      <3>3. PICK r \in {rows[n], cache[n]} \ {NoRow} :
              shown' = [shown EXCEPT ![w] = [name |-> n, row |-> r]]
        BY <3>2
      <3>4. r.rev <= fresh
        BY <1>1, <3>3
      <3>5. shown'[w].row = r /\ \A q \in Processes : q # w => shown'[q] = shown[q]
        BY <3>3 DEF TypeOK, Processes
      <3>. QED
        BY <1>1, <3>1, <3>4, <3>5, ProviderAssumption DEF Processes
    <2>6. ASSUME NEW w \in Writers, Commit(w), Admitted(job[w]) PROVE Kept' /\ Seen'
      <3>1. /\ \A n \in Names : /\ rows'[n] # NoRow => rows'[n].rev <= fresh + 1
                                /\ backup'[n] # NoRow => backup'[n].rev <= fresh + 1
        <4>. SUFFICES ASSUME NEW n \in Names
                      PROVE  /\ rows'[n] # NoRow => rows'[n].rev <= fresh + 1
                             /\ backup'[n] # NoRow => backup'[n].rev <= fresh + 1
          OBVIOUS
        <4>1. CASE n # job[w].name
          <5>1. rows'[n] = rows[n] /\ backup'[n] = backup[n]
            BY <2>6, <4>1, Committed
          <5>. QED
            BY <1>1, <1>2, <5>1
        <4>2. CASE n = job[w].name
          <5>1. rows'[n] # NoRow => rows'[n].rev = fresh + 1
            BY <2>6, <4>2, Committed, NewRevision
          <5>2. backup'[n] \in {[rev |-> fresh + 1, config |-> rows[n].config], NoRow, backup[n]}
            BY <2>6, <4>2, Committed
          <5>. QED
            BY <1>1, <1>2, <5>1, <5>2
        <4>. QED
          BY <4>1, <4>2
      <3>2. fresh' = fresh + 1 /\ UNCHANGED <<head, staged, cache, shown>>
        BY <2>6, Committed
      <3>. QED
        BY <1>1, <1>2, <3>1, <3>2
    <2>7. ASSUME NEW w \in Writers, Cache(w) PROVE Kept' /\ Seen'
      <3>1. /\ UNCHANGED <<head, staged, fresh, rows, backup>>
            /\ cache' = [cache EXCEPT ![job[w].name] = Cached(job[w])]
            /\ shown' = [shown EXCEPT ![w] = IF rows[job[w].name] = NoRow THEN NoPlan
                           ELSE [name |-> job[w].name, row |-> rows[job[w].name]]]
            /\ job[w].name \in Names
        BY <2>7, BusyJobs DEF Cache, filevars, Processes
      <3>2. \A n \in Names : cache'[n] \in {cache[n], rows[n], NoRow}
        BY <3>1 DEF TypeOK, Cached
      <3>3. /\ shown'[w] # NoPlan => rows[job[w].name] # NoRow /\ shown'[w].row = rows[job[w].name]
            /\ \A q \in Processes : q # w => shown'[q] = shown[q]
        BY <3>1 DEF TypeOK, Processes
      <3>. QED
        BY <1>1, <3>1, <3>2, <3>3, ProviderAssumption DEF Processes
    <2>8. ASSUME NEW p \in Processes, Drop(p) PROVE Kept' /\ Seen'
      BY <1>1, <2>8 DEF Drop, filevars, store
    <2>. QED
      BY <2>1, <2>2, <2>3, <2>4, <2>5, <2>6, <2>7, <2>8, Changes
  <1>5. \A p \in Reloaders : job'[p] # NoJob => job'[p].base.gen <= fresh'
    <2>. SUFFICES ASSUME NEW p \in Reloaders, job'[p] # NoJob
                  PROVE  job'[p].base.gen <= fresh'
      OBVIOUS
    <2>1. job'[p].base = head \/ (job[p] # NoJob /\ job'[p].base = job[p].base)
      BY NewJob
    <2>2. job[p] # NoJob => job[p].base.gen \in Nat /\ job[p].base.gen <= fresh
      BY BusyJobs DEF TypeOK, GivenOut, Processes
    <2>. QED
      BY <1>1, <1>2, <1>3, <2>1, <2>2
  <1>. QED
    BY <1>4, <1>5 DEF GivenOut

\* A generation keeps naming one snapshot or one plan.
LEMMA StepGenerations ==
  ASSUME TypeOK, Roles, GivenOut, Generations, Asked, Publishing, [Next]_vars
  PROVE  Generations'
  <1>. DEFINE Bases == \A p \in Reloaders : job[p] # NoJob =>
                         /\ job[p].base.gen = head.gen => job[p].base = head
                         /\ staged # NoPlan => staged.gen # job[p].base.gen
              Shows == \A p \in Reloaders :
                         shown[p] # NoPlan /\ staged # NoPlan /\ shown[p].plan.gen = staged.gen =>
                           /\ shown[p].plan = staged
                           /\ staged.base = head.gen => shown[p].base = head.config
              Apart == staged # NoPlan => staged.gen # head.gen
              Goal  == (Apart /\ Bases /\ Shows)'
  <1>1. Apart /\ Bases /\ Shows
    BY DEF Generations
  <1>2. \A p \in Reloaders : job'[p] # NoJob =>
          \/ job[p] # NoJob /\ job'[p].base = job[p].base
          \/ job'[p].base = head
    BY NewJob
  <1>3. ASSUME UNCHANGED <<head, staged>>, \A p \in Reloaders : shown'[p] = shown[p] PROVE Goal
    BY <1>1, <1>2, <1>3
  <1>4. ASSUME Quiet PROVE Goal
    BY <1>3, <1>4 DEF Quiet, data
  <1>5. ASSUME Restart PROVE Goal
    <2>1. staged' = NoPlan
      BY <1>5 DEF Restart
    <2>2. \A p \in Reloaders : job'[p] = NoJob
      BY <1>5 DEF Restart, Processes
    <2>. QED
      BY <2>1, <2>2
  <1>6. ASSUME NEW p \in Reloaders, Stage(p) PROVE Goal
    <2>1. /\ staged' = [gen |-> fresh + 1, base |-> job[p].base.gen,
                        config |-> job[p].candidate, at |-> now]
          /\ shown' = [shown EXCEPT ![p] = [plan |-> staged', base |-> job[p].base.config]]
          /\ head' = head /\ p \in Processes /\ fresh \in Nat /\ job[p].base = head
      BY <1>6 DEF Stage, Processes, TypeOK, Publishing
    <2>2. /\ shown'[p].plan = staged' /\ shown'[p].base = head.config
          /\ \A q \in Reloaders : q # p => shown'[q] = shown[q]
      BY <2>1 DEF TypeOK, Processes
    <2>3. staged'.gen = fresh + 1 /\ head.gen \in Nat /\ head.gen <= fresh
      BY <2>1 DEF TypeOK, GivenOut
    <2>4. \A q \in Reloaders : job[q] # NoJob => job[q].base.gen \in Nat /\ job[q].base.gen <= fresh
      BY BusyJobs DEF TypeOK, GivenOut, Processes
    <2>5. \A q \in Reloaders : shown[q] # NoPlan =>
            shown[q].plan.gen \in Nat /\ shown[q].plan.gen <= fresh
      BY DEF TypeOK, GivenOut, Preview, Plan
    <2>6. Apart'
      BY <2>1, <2>3
    <2>7. Bases'
      BY <1>1, <1>2, <2>1, <2>3, <2>4
    <2>8. Shows'
      BY <2>1, <2>2, <2>3, <2>5
    <2>. QED
      BY <2>6, <2>7, <2>8
  <1>7. ASSUME NEW p \in Reloaders, Apply(p) PROVE Goal
    <2>1. shown' = shown
      BY <1>7 DEF Apply
    <2>2. CASE UNCHANGED <<head, staged>>
      BY <1>3, <2>1, <2>2
    <2>3. CASE staged # NoPlan /\ staged' = NoPlan /\ head' = head
      BY <1>1, <1>2, <2>3
    <2>4. CASE staged # NoPlan /\ staged' = NoPlan /\ head'.gen = staged.gen
      <3>1. Bases'
        <4>. SUFFICES ASSUME NEW q \in Reloaders, job'[q] # NoJob
                      PROVE  job'[q].base.gen # head'.gen
          BY <2>4
        <4>. QED
          BY <1>1, <1>2, <2>4
      <3>. QED
        BY <2>4, <3>1
    <2>. QED
      BY <1>7, <2>2, <2>3, <2>4 DEF Apply, Matches, filevars
  <1>8. ASSUME NEW w \in Writers, Look(w) \/ Cache(w) PROVE Goal
    <2>1. UNCHANGED <<head, staged>>
      BY <1>8 DEF Look, Cache, filevars
    <2>2. \E x : shown' = [shown EXCEPT ![w] = x]
      BY <1>8 DEF Look, Cache
    <2>3. \A p \in Reloaders : shown'[p] = shown[p]
      BY <2>2, ProviderAssumption DEF TypeOK, Processes
    <2>. QED
      BY <1>3, <2>1, <2>3
  <1>9. ASSUME NEW w \in Writers, Commit(w), Admitted(job[w]) PROVE Goal
    BY <1>3, <1>9, Committed
  <1>10. ASSUME NEW p \in Processes, Drop(p) PROVE Goal
    BY <1>3, <1>10 DEF Drop, filevars
  <1>11. Goal
    <2>. HIDE DEF Goal
    <2>. QED
      BY <1>4, <1>5, <1>6, <1>7, <1>8, <1>9, <1>10, Changes
  <1>. QED
    BY <1>11 DEF Generations

\* A revision keeps naming one row.
LEMMA StepRevisions ==
  ASSUME TypeOK, Roles, GivenOut, Revisions, [Next]_vars
  PROVE  Revisions'
  <1>. DEFINE Served == \A n \in Names : cache[n] # NoRow =>
                          /\ cache[n].enabled
                          /\ rows[n] # NoRow /\ cache[n].rev = rows[n].rev => cache[n] = rows[n]
              Told   == \A w \in Writers : shown[w] # NoPlan =>
                          (rows[shown[w].name] # NoRow
                           /\ shown[w].row.rev = rows[shown[w].name].rev
                             => shown[w].row = rows[shown[w].name])
              Undone == \A n \in Names :
                          backup[n] # NoRow /\ rows[n] # NoRow /\ backup[n].rev = rows[n].rev =>
                            undo[n] # NoRow /\ undo[n].config = backup[n].config
              Goal   == (Served /\ Told /\ Undone)'
  <1>1. Served /\ Told /\ Undone
    BY DEF Revisions
  <1>2. ASSUME UNCHANGED <<rows, backup, cache, undo>>, \A w \in Writers : shown'[w] = shown[w]
        PROVE Goal
    BY <1>1, <1>2
  <1>3. ASSUME Quiet PROVE Goal
    BY <1>2, <1>3 DEF Quiet, data
  <1>4. ASSUME Restart PROVE Goal
    <2>1. UNCHANGED <<rows, backup, undo, shown>>
      BY <1>4 DEF Restart
    <2>2. \A n \in Names : cache'[n] # NoRow => rows[n].enabled /\ cache'[n] = rows[n]
      BY <1>4 DEF Restart
    <2>. QED
      BY <1>1, <2>1, <2>2
  <1>5. ASSUME NEW p \in Reloaders, Stage(p) \/ Apply(p) PROVE Goal
    <2>1. UNCHANGED <<rows, backup, cache, undo>>
      BY <1>5 DEF Stage, Apply, store, history
    <2>2. \E x : shown' = [shown EXCEPT ![p] = x] \/ shown' = shown
      BY <1>5 DEF Stage, Apply
    <2>3. \A w \in Writers : shown'[w] = shown[w]
      BY <2>2, ProviderAssumption DEF TypeOK, Processes
    <2>. QED
      BY <1>2, <2>1, <2>3
  <1>6. ASSUME NEW w \in Writers, Look(w) PROVE Goal
    <2>1. UNCHANGED <<rows, backup, cache, undo>>
      BY <1>6 DEF Look, store, history
    <2>2. PICK n \in Names : \E r \in {rows[n], cache[n]} \ {NoRow} :
            shown' = [shown EXCEPT ![w] = [name |-> n, row |-> r]]
      BY <1>6 DEF Look
    <2>3. PICK r \in {rows[n], cache[n]} \ {NoRow} :
            shown' = [shown EXCEPT ![w] = [name |-> n, row |-> r]]
      BY <2>2
    <2>4. rows[n] # NoRow /\ r.rev = rows[n].rev => r = rows[n]
      BY <1>1, <2>3
    <2>5. /\ shown'[w].name = n /\ shown'[w].row = r
          /\ \A v \in Writers : v # w => shown'[v] = shown[v]
      BY <2>3 DEF TypeOK, Processes
    <2>6. Told'
      BY <1>1, <2>1, <2>4, <2>5
    <2>. QED
      BY <1>1, <2>1, <2>6
  <1>7. ASSUME NEW w \in Writers, Commit(w), Admitted(job[w]) PROVE Goal
    <2>. DEFINE m == job[w].name
    <2>1. /\ m \in Names /\ fresh \in Nat /\ UNCHANGED <<cache, shown>>
          /\ \A n \in Names : n # m =>
               rows'[n] = rows[n] /\ backup'[n] = backup[n] /\ undo'[n] = undo[n]
      BY <1>7, Committed
    <2>2. rows'[m] # NoRow => rows'[m].rev = fresh + 1
      BY <1>7, Committed, NewRevision
    <2>3. \A n \in Names : cache[n] # NoRow => cache[n].rev \in Nat /\ cache[n].rev <= fresh
      BY DEF TypeOK, Row, GivenOut
    <2>4. \A v \in Writers : shown[v] # NoPlan =>
            shown[v].name \in Names /\ shown[v].row.rev \in Nat /\ shown[v].row.rev <= fresh
      BY DEF TypeOK, Metadata, Row, GivenOut
    <2>5. Served'
      BY <1>1, <2>1, <2>2, <2>3
    <2>6. Told'
      BY <1>1, <2>1, <2>2, <2>4
    <2>7. backup'[m] # NoRow /\ rows'[m] # NoRow /\ backup'[m].rev = rows'[m].rev =>
            undo'[m] # NoRow /\ undo'[m].config = backup'[m].config
      <3>1. CASE job[w].kind = "rotate"
        <4>1. Admitted(job[w]) /\ rows[m] # NoRow
          BY <1>7, <3>1 DEF Admitted, Current
        <4>2. /\ backup'[m] = [rev |-> fresh + 1, config |-> rows[m].config]
              /\ undo'[m] = rows[m]
          BY <1>7, <3>1, Committed
        <4>. QED
          BY <4>1, <4>2
      <3>2. CASE job[w].kind = "rollback"
        <4>1. backup'[m] = NoRow
          BY <1>7, <3>2, Committed
        <4>. QED
          BY <4>1
      <3>3. CASE job[w].kind \notin {"rotate", "rollback"}
        <4>1. backup'[m] = backup[m]
          BY <1>7, <3>3, Committed
        <4>2. backup[m] # NoRow => backup[m].rev \in Nat /\ backup[m].rev <= fresh
          BY <2>1 DEF TypeOK, GivenOut
        <4>. QED
          BY <2>1, <2>2, <4>1, <4>2
      <3>. QED
        BY <3>1, <3>2, <3>3
    <2>8. Undone'
      <3>. SUFFICES ASSUME NEW n \in Names, backup'[n] # NoRow, rows'[n] # NoRow,
                           backup'[n].rev = rows'[n].rev
                    PROVE  undo'[n] # NoRow /\ undo'[n].config = backup'[n].config
        OBVIOUS
      <3>1. CASE n = m
        BY <2>7, <3>1
      <3>2. CASE n # m
        BY <1>1, <2>1, <3>2
      <3>. QED
        BY <3>1, <3>2
    <2>. QED
      BY <2>5, <2>6, <2>8
  <1>8. ASSUME NEW w \in Writers, Cache(w) PROVE Goal
    <2>. DEFINE m == job[w].name
    <2>1. /\ UNCHANGED <<rows, backup, undo>>
          /\ cache' = [cache EXCEPT ![m] = Cached(job[w])]
          /\ shown' = [shown EXCEPT ![w] = IF rows[m] = NoRow THEN NoPlan
                         ELSE [name |-> m, row |-> rows[m]]]
          /\ m \in Names
      BY <1>8, BusyJobs DEF Cache, Processes
    <2>2. Cached(job[w]) \in {NoRow, cache[m]} \/ (Cached(job[w]) = rows[m] /\ rows[m].enabled)
          \/ rows[m] = NoRow
      BY <2>1 DEF Cached, TypeOK, Row
    <2>3. rows[m] = NoRow => Cached(job[w]) = NoRow
      BY DEF Cached
    <2>4. /\ cache'[m] = Cached(job[w])
          /\ \A n \in Names : n # m => cache'[n] = cache[n]
      BY <2>1 DEF TypeOK
    <2>5. Served'
      BY <1>1, <2>1, <2>2, <2>3, <2>4
    <2>6. /\ shown'[w] # NoPlan => shown'[w] = [name |-> m, row |-> rows[m]]
          /\ \A v \in Writers : v # w => shown'[v] = shown[v]
      BY <2>1 DEF TypeOK, Processes
    <2>7. Told'
      BY <1>1, <2>1, <2>6
    <2>. QED
      BY <1>1, <2>1, <2>5, <2>7
  <1>9. ASSUME NEW p \in Processes, Drop(p) PROVE Goal
    BY <1>2, <1>9 DEF Drop, store
  <1>10. Goal
    <2>. HIDE DEF Goal
    <2>. QED
      BY <1>3, <1>4, <1>5, <1>6, <1>7, <1>8, <1>9, Changes
  <1>. QED
    BY <1>10 DEF Revisions

\* Who asks for a change by its number was shown that number.
LEMMA StepAsked ==
  ASSUME TypeOK, Roles, Asked, [Next]_vars
  PROVE  Asked'
  <1>1. ASSUME NEW p \in Processes, job'[p] # NoJob, job[p] # NoJob PROVE shown'[p] = shown[p]
    <2>1. ASSUME NEW q \in Processes, Leave(q) PROVE p # q
      BY <1>1, <2>1, LeaveType
    <2>2. ASSUME NEW q \in Reloaders, Stage(q) \/ Apply(q) PROVE shown'[p] = shown[p]
      <3>1. p # q
        BY <2>1, <2>2 DEF Stage, Apply, Processes
      <3>2. \E x : shown' = [shown EXCEPT ![q] = x] \/ shown' = shown
        BY <2>2 DEF Stage, Apply
      <3>. QED
        BY <3>1, <3>2 DEF TypeOK
    <2>3. ASSUME NEW w \in Writers, Look(w) \/ Cache(w) PROVE shown'[p] = shown[p]
      <3>1. Look(w) => job[w] = NoJob
        BY DEF Look, TypeOK, Processes
      <3>2. p # w
        BY <1>1, <2>1, <2>3, <3>1 DEF Cache, Processes
      <3>3. \E x : shown' = [shown EXCEPT ![w] = x]
        BY <2>3 DEF Look, Cache
      <3>. QED
        BY <3>2, <3>3 DEF TypeOK
    <2>4. ASSUME NEW w \in Writers, Commit(w), Admitted(job[w]) PROVE shown' = shown
      BY <2>4, Committed
    <2>5. (Quiet \/ Restart \/ \E q \in Processes : Drop(q)) => shown' = shown
      BY DEF Quiet, Restart, Drop
    <2>. QED
      BY <2>2, <2>3, <2>4, <2>5, Changes
  <1>2. ASSUME NEW p \in Processes,
               \/ AskPreview(p) \/ AskApply(p) \/ AskSave(p)
               \/ AskDelete(p) \/ AskRotate(p) \/ AskRollback(p)
        PROVE  shown' = shown
    BY <1>2 DEF AskPreview, AskApply, AskSave, AskDelete, AskRotate, AskRollback, Ask
  <1>3. ASSUME NEW p \in Reloaders, job'[p].kind = "apply" PROVE shown'[p] # NoPlan
    <2>1. job'[p] # NoJob /\ p \in Processes
      BY <1>3 DEF NoJob, Processes
    <2>2. CASE job[p] # NoJob /\ job'[p].kind = job[p].kind
      BY <1>1, <1>3, <2>1, <2>2 DEF Asked
    <2>3. CASE job[p] = NoJob /\ shown[p] # NoPlan
      <3>1. AskPreview(p) \/ AskApply(p) \/ (job'[p] = job[p])
        BY <2>1, <2>3, Moves, ProviderAssumption
           DEF Load, AskSave, AskDelete, AskRotate, AskRollback, TypeOK
      <3>. QED
        BY <1>2, <2>1, <2>3, <3>1
    <2>. QED
      BY <1>3, <2>1, <2>2, <2>3, NewJob
  <1>4. ASSUME NEW w \in Writers, job'[w].kind \in {"rotate", "rollback"}
        PROVE  /\ shown'[w] # NoPlan
               /\ shown'[w].name = job'[w].name /\ shown'[w].row.rev = job'[w].rev
    <2>1. job'[w] # NoJob /\ w \in Processes /\ w \notin Reloaders
      BY <1>4, ProviderAssumption DEF NoJob, Processes
    <2>2. CASE job'[w] = job[w]
      BY <1>1, <1>4, <2>1, <2>2 DEF Asked
    <2>3. CASE AskSave(w) \/ AskDelete(w)
      <3>1. job'[w].kind \in {"save", "create", "delete"}
        BY <2>1, <2>3 DEF AskSave, AskDelete, Ask, TypeOK
      <3>. QED
        BY <1>4, <3>1
    <2>4. CASE AskRotate(w) \/ AskRollback(w)
      <3>1. /\ shown[w] # NoPlan /\ shown' = shown
            /\ job'[w].name = shown[w].name /\ job'[w].rev = shown[w].row.rev
        BY <1>2, <2>1, <2>4 DEF AskRotate, AskRollback, Ask, TypeOK
      <3>. QED
        BY <3>1
    <2>5. ~AskPreview(w) /\ ~AskApply(w) /\ ~Load(w)
      BY <2>1 DEF AskPreview, AskApply, Load, Roles
    <2>. QED
      BY <2>1, <2>2, <2>3, <2>4, <2>5, Moves
  <1>. QED
    BY <1>3, <1>4 DEF Asked

\* The invariant holds at the start.
LEMMA InitIInv == Init => IInv
  <1>. SUFFICES ASSUME Init PROVE IInv
    OBVIOUS
  <1>1. TypeOK
    BY InitType
  <1>2. /\ \A p \in Processes : stage[p] = "idle" /\ job[p] = NoJob /\ shown[p] = NoPlan
        /\ \A n \in Names : rows[n] = NoRow /\ backup[n] = NoRow /\ cache[n] = NoRow
        /\ head.gen = 0 /\ staged = NoPlan /\ fresh = 0
    BY DEF Init
  <1>3. Roles /\ GivenOut
    BY <1>2 DEF Roles, GivenOut, Processes
  <1>4. Generations /\ Revisions
    BY <1>2 DEF Generations, Revisions, Processes
  <1>5. Asked /\ Publishing /\ Caching
    BY <1>2 DEF Asked, Publishing, Caching, Processes, NoJob
  <1>6. OneOwner /\ CacheAgrees
    BY <1>2 DEF OneOwner, CacheAgrees, Stored
  <1>. QED
    BY <1>1, <1>3, <1>4, <1>5, <1>6 DEF IInv

\* Every step keeps the invariant.
LEMMA StepIInv == IInv /\ [Next]_vars => IInv'
  BY StepType, StepRoles, StepGivenOut, StepGenerations, StepRevisions, StepAsked,
     StepPublishing, StepCaching, StepOneOwner, StepCacheAgrees DEF IInv

\* The invariant holds in every state of every run.
LEMMA Invariance == Spec => []IInv
  BY InitIInv, StepIInv, PTL DEF Spec

\* No handler, reload, drop or restart takes any variable out of its type, and
\* only the holder of `changes` ever stands beyond it (RoutingState::reload,
\* the handlers of admin_providers).
THEOREM TypeCorrect == Spec => []TypeOK
  <1>1. IInv => TypeOK
    BY DEF IInv
  <1>. QED
    BY <1>1, Invariance, PTL

\* Whatever files are edited and however many administrators preview, apply,
\* save and delete at once, no running gateway gives a name a second owner
\* (keeps_sources and check_managed, under `changes`).
THEOREM NamesKeepOneOwner == Spec => []OneOwner
  <1>1. IInv => OneOwner
    BY DEF IInv
  <1>. QED
    BY <1>1, Invariance, PTL

\* The served rows are the stored ones between any writes of any number of
\* administrators, but for what a dropped handler left (save_provider,
\* change_credential).
THEOREM CacheFollowsStore == Spec => []CacheAgrees
  <1>1. IInv => CacheAgrees
    BY DEF IInv
  <1>. QED
    BY <1>1, Invariance, PTL

\* A write is committed by Commit, and only if it is admitted.
LEMMA CommitsAdmitted ==
  ASSUME TypeOK, Roles, [Next]_vars, NEW w \in Writers, NEW K, Commits(w, K)
  PROVE  Commit(w) /\ Admitted(job[w])
  <1>1. stage[w] = "held" /\ stage'[w] = "cache"
    BY DEF Commits
  <1>. QED
    BY <1>1, ToCache

\* A reload publishes the previewed file over the previewed base and in time,
\* whatever others edit, preview and apply meanwhile (RoutingState::reload).
THEOREM ReloadAppliesPreview == Spec => AppliedAsShown
  <1>1. ASSUME IInv, [Next]_vars, head' # head, cuts' = cuts
        PROVE  \E p \in Reloaders :
                 /\ shown[p] # NoPlan
                 /\ head'.config = shown[p].plan.config /\ head.config = shown[p].base
                 /\ now <= shown[p].plan.at + Ttl
    <2>1. PICK p \in Reloaders : Apply(p)
      <3>1. ~Restart
        BY <1>1 DEF Restart, Cut, IInv, TypeOK
      <3>2. ASSUME NEW w \in Writers, Look(w) \/ (Commit(w) /\ Admitted(job[w])) \/ Cache(w)
            PROVE  head' = head
        BY <3>2, <1>1, Committed DEF Look, Cache, filevars, IInv
      <3>3. ASSUME NEW q \in Processes, Drop(q) \/ Stage(q) PROVE head' = head
        BY <3>3 DEF Drop, Stage, filevars
      <3>4. Quiet => head' = head
        BY DEF Quiet, data
      <3>. QED
        BY <1>1, <3>1, <3>2, <3>3, <3>4, Changes DEF IInv, Processes
    <2>2. /\ stage[p] = "publish" /\ job[p].kind = "apply" /\ Matches(p)
          /\ head'.config = job[p].candidate
      BY <1>1, <2>1 DEF Apply, filevars
    <2>3. shown[p] # NoPlan /\ job[p].base = head
      BY <1>1, <2>2 DEF IInv, Asked, Publishing
    <2>4. /\ staged # NoPlan /\ shown[p].plan.gen = staged.gen /\ staged.base = head.gen
          /\ now - staged.at <= Ttl /\ staged.config = job[p].candidate
      BY <2>2, <2>3 DEF Matches
    <2>5. shown[p].plan = staged /\ shown[p].base = head.config
      BY <1>1, <2>3, <2>4 DEF IInv, Generations
    <2>6. now \in Nat /\ staged.at \in Nat /\ Ttl \in Nat
      BY <1>1, <2>4, ProviderAssumption DEF IInv, TypeOK, Plan
    <2>. QED
      BY <2>2, <2>3, <2>4, <2>5, <2>6
  <1>2. IInv /\ [Next]_vars =>
          [head' # head /\ cuts' = cuts => \E p \in Reloaders :
             /\ shown[p] # NoPlan
             /\ head'.config = shown[p].plan.config /\ head.config = shown[p].base
             /\ now <= shown[p].plan.at + Ttl]_vars
    BY <1>1
  <1>. QED
    BY <1>2, Invariance, PTL DEF Spec, AppliedAsShown

\* A key is rotated or rolled back only on the row its administrator was shown
\* (change_credential, check_expected_revision).
THEOREM RevisionsNameRows == Spec => RevisionNamesRow
  <1>1. ASSUME IInv, [Next]_vars, NEW w \in Writers, Commits(w, {"rotate", "rollback"})
        PROVE  rows[job[w].name] = shown[w].row
    <2>1. Admitted(job[w]) /\ job[w].kind \in {"rotate", "rollback"}
      BY <1>1, CommitsAdmitted DEF Commits, IInv
    <2>2. Current(job[w].name, job[w].rev)
      BY <2>1 DEF Admitted
    <2>3. shown[w] # NoPlan /\ shown[w].name = job[w].name /\ shown[w].row.rev = job[w].rev
      BY <1>1, <2>1 DEF IInv, Asked
    <2>. QED
      BY <1>1, <2>2, <2>3 DEF IInv, Revisions, Current
  <1>2. IInv /\ [Next]_vars =>
          [\A w \in Writers : Commits(w, {"rotate", "rollback"}) =>
             rows[job[w].name] = shown[w].row]_vars
    BY <1>1
  <1>. QED
    BY <1>2, Invariance, PTL DEF Spec, RevisionNamesRow

\* A rollback restores the configuration that the rotation just before it
\* replaced (provider_credential_rollback is keyed by the rotation's revision).
THEOREM RollbackIsExact == Spec => RollbackUndoesRotation
  <1>1. ASSUME IInv, [Next]_vars, NEW w \in Writers, Commits(w, {"rollback"})
        PROVE  /\ undo[job[w].name] # NoRow
               /\ rows'[job[w].name].config = undo[job[w].name].config
    <2>. DEFINE n == job[w].name
    <2>1. Commit(w) /\ Admitted(job[w]) /\ job[w].kind = "rollback" /\ stage[w] = "held"
      BY <1>1, CommitsAdmitted DEF Commits, IInv
    <2>2. /\ rows[n] # NoRow /\ rows[n].rev = job[w].rev
          /\ backup[n] # NoRow /\ backup[n].rev = job[w].rev
      BY <2>1 DEF Admitted, Current, BackedUp
    <2>3. n \in Names /\ rows'[n] = Written(job[w])
      BY <1>1, <2>1, Committed DEF IInv
    <2>4. undo[n] # NoRow /\ undo[n].config = backup[n].config
      BY <1>1, <2>2, <2>3 DEF IInv, Revisions
    <2>5. Written(job[w]) \in Row
      BY <1>1, <2>1, WriteType DEF IInv
    <2>6. Written(job[w]) # NoRow
      BY <2>5, ProviderAssumption
    <2>7. Written(job[w]).config = backup[n].config
      BY <1>1, <2>1, <2>6, NewRevision DEF IInv
    <2>. QED
      BY <2>3, <2>4, <2>7
  <1>2. IInv /\ [Next]_vars =>
          [\A w \in Writers : Commits(w, {"rollback"}) =>
             /\ undo[job[w].name] # NoRow
             /\ rows'[job[w].name].config = undo[job[w].name].config]_vars
    BY <1>1
  <1>. QED
    BY <1>2, Invariance, PTL DEF Spec, RollbackUndoesRotation
=============================================================================
