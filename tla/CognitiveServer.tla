--------------------------- MODULE CognitiveServer ---------------------------
(***************************************************************************)
(* The cognitive server: requests that read or build a PM's heuristic      *)
(* model (server.py, ecef/equilibrium.py), batches of interaction events   *)
(* written in the background (ingest/interaction_logger.py), the lazily    *)
(* created connection pool both go through (db/connection.py) and the two  *)
(* tables they share.  Every database call is an await at which the other  *)
(* tasks run; a crash loses the tasks and keeps the tables.                *)
(*                                                                         *)
(* Of a model's content only the request that built it is kept, next to    *)
(* its version and whether its loop was over: two builds of one version    *)
(* differ, and no request builds a version twice.  Whether an iteration    *)
(* converges is a choice.                                                  *)
(***************************************************************************)
EXTENDS Integers

CONSTANTS
  PM,          \* the portfolio managers
  Requests,    \* the requests for a profile, an analysis or a suggestion
  Batches,     \* the calls of POST /ingest and /ingest/batch
  BatchLimit,  \* the largest batch accepted (500)
  NIterations, \* DEFAULT_N_ITERATIONS
  MaxCrashes,  \* bound on the crashes of the process
  None

Model == [version : Nat \ {0}, final : BOOLEAN, by : Requests]

\* HeuristicModel(pm_sub): of version 1 too, but built from nothing and not stored.
Empty == [version |-> 1, final |-> TRUE, by |-> None]

ASSUME CognitiveAssumption ==
  /\ BatchLimit \in Nat /\ NIterations \in Nat \ {0} /\ MaxCrashes \in Nat
  /\ None \notin Model \cup Requests \cup {Empty}

VARIABLES
  pool,     \* _pool is set
  opened,   \* the pools this process has created
  rows,     \* rows[p], the rows of p in pm_interactions
  models,   \* models[p], the rows of p in pm_heuristic_models, by version
  pc,       \* pc[r]: "new", the await r is at, or "done"
  kind,     \* kind[r]: "suggest", "profile", "analysis" or "history"
  pm,       \* pm[r], the PM r is about
  model,    \* model[r], the model r is iterating on
  iter,     \* iter[r], the iterations r has run
  reply,    \* reply[r], the model r was answered with, or None: nothing yet, no
            \* model or an error
  bpc,      \* bpc[b]: "new", "ready", "connect", "write", "done" or "lost"
  size, written, failed,  \* the events of batch b: accepted, written, given up
  crashes

requestVars == <<pc, kind, pm, model, iter, reply>>
batchVars == <<bpc, size, written, failed>>
vars == <<pool, opened, rows, models, requestVars, batchVars, crashes>>

Versions(p) == DOMAIN models[p]
LatestVersion(p) == CHOOSE v \in Versions(p) : \A w \in Versions(p) : w <= v
Latest(p) == models[p][LatestVersion(p)]
-----------------------------------------------------------------------------
Init ==
  /\ pool = FALSE /\ opened = 0
  /\ rows = [p \in PM |-> 0]
  /\ models = [p \in PM |-> [v \in {} |-> None]]
  /\ pc = [r \in Requests |-> "new"]
  /\ kind = [r \in Requests |-> None]
  /\ pm = [r \in Requests |-> None]
  /\ model = [r \in Requests |-> None]
  /\ iter = [r \in Requests |-> 0]
  /\ reply = [r \in Requests |-> None]
  /\ bpc = [b \in Batches |-> "new"]
  /\ size = [b \in Batches |-> 0]
  /\ written = [b \in Batches |-> 0]
  /\ failed = [b \in Batches |-> 0]
  /\ crashes = 0

Goto(r, l) == pc' = [pc EXCEPT ![r] = l]

Answer(r, a) ==
  /\ Goto(r, "done")
  /\ reply' = [reply EXCEPT ![r] = a]
  /\ model' = [model EXCEPT ![r] = None]
  /\ iter' = [iter EXCEPT ![r] = 0]
  /\ UNCHANGED <<kind, pm>>

\* The first query: a suggestion loads the model, the others fetch the history.
FirstQuery(k) == IF k = "suggest" THEN "load" ELSE "fetch"
-----------------------------------------------------------------------------
\* A tool is called; its first acquire() finds the pool or begins to create it.
Request(r, k, p) ==
  /\ pc[r] = "new"
  /\ kind' = [kind EXCEPT ![r] = k]
  /\ pm' = [pm EXCEPT ![r] = p]
  /\ Goto(r, IF pool THEN FirstQuery(k) ELSE "connect")
  /\ UNCHANGED <<pool, opened, rows, models, model, iter, reply, batchVars, crashes>>

\* create_pool returns and its pool becomes the shared one, whatever was.
Connected(r) ==
  /\ pc[r] = "connect"
  /\ pool' = TRUE /\ opened' = opened + 1
  /\ Goto(r, FirstQuery(kind[r]))
  /\ UNCHANGED <<rows, models, kind, pm, model, iter, reply, batchVars, crashes>>

\* The history is fetched: for its own sake, or before the model is looked up.
Fetch(r) ==
  /\ pc[r] = "fetch"
  /\ IF kind[r] = "history" \/ (kind[r] = "profile" /\ rows[pm[r]] = 0)
     THEN Answer(r, None)
     ELSE Goto(r, "load") /\ UNCHANGED <<kind, pm, model, iter, reply>>
  /\ UNCHANGED <<pool, opened, rows, models, batchVars, crashes>>

\* get_or_build_model finds a model ...
Load(r) ==
  /\ pc[r] = "load" /\ Versions(pm[r]) # {}
  /\ Answer(r, Latest(pm[r]))
  /\ UNCHANGED <<pool, opened, rows, models, batchVars, crashes>>

\* ... or none, and calls iterate.
LoadNone(r) ==
  /\ pc[r] = "load" /\ Versions(pm[r]) = {}
  /\ Goto(r, "interactions")
  /\ UNCHANGED <<pool, opened, rows, models, kind, pm, model, iter, reply, batchVars, crashes>>

\* iterate loads the interactions; without any it returns the empty model, which
\* it does not persist.
LoadInteractions(r) ==
  /\ pc[r] = "interactions"
  /\ IF rows[pm[r]] = 0
     THEN Answer(r, Empty)
     ELSE Goto(r, "prior") /\ UNCHANGED <<kind, pm, model, iter, reply>>
  /\ UNCHANGED <<pool, opened, rows, models, batchVars, crashes>>

\* build_model: the version after that of the model it starts from.
NextVersion(m) == IF m = None THEN 1 ELSE m.version + 1

\* One iteration up to its persist: m is what it starts from, n its number.  The
\* loop is over with the last iteration, or, from the second, when the gap closes.
Iterate(r, m, n) ==
  \E final \in IF n = NIterations THEN {TRUE} ELSE IF n = 1 THEN {FALSE} ELSE BOOLEAN :
    /\ model' = [model EXCEPT ![r] =
                    [version |-> NextVersion(m), final |-> final, by |-> r]]
    /\ iter' = [iter EXCEPT ![r] = n]
    /\ Goto(r, "persist")

\* The prior model is loaded once more: another request may have persisted one
\* since LoadNone.
LoadPrior(r) ==
  /\ pc[r] = "prior"
  /\ Iterate(r, IF Versions(pm[r]) = {} THEN None ELSE Latest(pm[r]), 1)
  /\ UNCHANGED <<pool, opened, rows, models, kind, pm, reply, batchVars, crashes>>

\* Variant: one row per PM, the last one persisted.
UpsertOnly(table, m) == [v \in {m.version} |-> m]

\* INSERT ... ON CONFLICT (pm_sub, version) DO UPDATE.
Upsert(table, m) ==
  [v \in DOMAIN table \cup {m.version} |-> IF v = m.version THEN m ELSE table[v]]

\* iterate returns the model when its loop is over, or goes on from it.
GoOn(r) ==
  IF model[r].final
  THEN Answer(r, model[r])
  ELSE Iterate(r, model[r], iter[r] + 1) /\ UNCHANGED <<kind, pm, reply>>

\* Variant: the model returned is not persisted.
PersistEarlier(r) ==
  /\ pc[r] = "persist"
  /\ models' = [models EXCEPT ![pm[r]] = IF model[r].final THEN @ ELSE Upsert(@, model[r])]
  /\ GoOn(r)
  /\ UNCHANGED <<pool, opened, rows, batchVars, crashes>>

\* Each iteration persists its model.
Persist(r) ==
  /\ pc[r] = "persist"
  /\ models' = [models EXCEPT ![pm[r]] = Upsert(@, model[r])]
  /\ GoOn(r)
  /\ UNCHANGED <<pool, opened, rows, batchVars, crashes>>

\* Variant: a failed query makes the model be looked up again.
QueryFailsReloading(r) ==
  /\ pc[r] \in {"fetch", "load", "interactions", "prior", "persist"}
  /\ Goto(r, "load")
  /\ model' = [model EXCEPT ![r] = None]
  /\ iter' = [iter EXCEPT ![r] = 0]
  /\ UNCHANGED <<pool, opened, rows, models, kind, pm, reply, batchVars, crashes>>

\* Variant: interactions that cannot be loaded are taken for none.
QueryFailsUnnoticed(r) ==
  /\ pc[r] \in {"connect", "fetch", "load", "interactions", "prior", "persist"}
  /\ \/ pc[r] = "persist" /\ models' = [models EXCEPT ![pm[r]] = Upsert(@, model[r])]
     \/ UNCHANGED models
  /\ Answer(r, IF pc[r] = "interactions" THEN Empty ELSE None)
  /\ UNCHANGED <<pool, opened, rows, batchVars, crashes>>

\* A query fails and the tool with it; a persist may have been executed.
QueryFails(r) ==
  /\ pc[r] \in {"connect", "fetch", "load", "interactions", "prior", "persist"}
  /\ \/ pc[r] = "persist" /\ models' = [models EXCEPT ![pm[r]] = Upsert(@, model[r])]
     \/ UNCHANGED models
  /\ Answer(r, None)
  /\ UNCHANGED <<pool, opened, rows, batchVars, crashes>>
-----------------------------------------------------------------------------
\* A batch too large is refused (413) ...
BatchRefused(b, n) ==
  /\ bpc[b] = "new" /\ n > BatchLimit
  /\ bpc' = [bpc EXCEPT ![b] = "done"]
  /\ UNCHANGED <<pool, opened, rows, models, requestVars, size, written, failed, crashes>>

\* ... and any other accepted (202): its writes are left to background tasks.
BatchAccepted(b, n) ==
  /\ bpc[b] = "new" /\ n <= BatchLimit
  /\ size' = [size EXCEPT ![b] = n]
  /\ bpc' = [bpc EXCEPT ![b] = "ready"]
  /\ UNCHANGED <<pool, opened, rows, models, requestVars, written, failed, crashes>>

Left(b) == size[b] - written[b] - failed[b]

\* The background tasks of a batch run one after the other.
NextWrite(b) ==
  /\ bpc[b] = "ready"
  /\ bpc' = [bpc EXCEPT ![b] =
               IF Left(b) = 0 THEN "done" ELSE IF pool THEN "write" ELSE "connect"]
  /\ UNCHANGED <<pool, opened, rows, models, requestVars, size, written, failed, crashes>>

WriterConnected(b) ==
  /\ bpc[b] = "connect"
  /\ pool' = TRUE /\ opened' = opened + 1
  /\ bpc' = [bpc EXCEPT ![b] = "write"]
  /\ UNCHANGED <<rows, models, requestVars, size, written, failed, crashes>>

Write(b, p) ==
  /\ bpc[b] = "write"
  /\ rows' = [rows EXCEPT ![p] = @ + 1]
  /\ written' = [written EXCEPT ![b] = @ + 1]
  /\ bpc' = [bpc EXCEPT ![b] = "ready"]
  /\ UNCHANGED <<pool, opened, models, requestVars, size, failed, crashes>>

\* Variant: the write raises, and with it the batch's background tasks.
WriteFailsRaising(b) ==
  /\ bpc[b] \in {"connect", "write"}
  /\ failed' = [failed EXCEPT ![b] = @ + 1]
  /\ bpc' = [bpc EXCEPT ![b] = "done"]
  /\ UNCHANGED <<pool, opened, rows, models, requestVars, size, written, crashes>>

\* A failed write is logged and forgotten; the next event is written.
WriteFails(b) ==
  /\ bpc[b] \in {"connect", "write"}
  /\ failed' = [failed EXCEPT ![b] = @ + 1]
  /\ bpc' = [bpc EXCEPT ![b] = "ready"]
  /\ UNCHANGED <<pool, opened, rows, models, requestVars, size, written, crashes>>
-----------------------------------------------------------------------------
\* The process dies and is restarted: the tables are what is left.
Crash ==
  /\ crashes < MaxCrashes /\ crashes' = crashes + 1
  /\ pool' = FALSE /\ opened' = 0
  /\ pc' = [r \in Requests |-> IF pc[r] = "new" THEN "new" ELSE "done"]
  /\ model' = [r \in Requests |-> None]
  /\ iter' = [r \in Requests |-> 0]
  /\ bpc' = [b \in Batches |-> IF bpc[b] \in {"new", "done"} THEN bpc[b] ELSE "lost"]
  /\ UNCHANGED <<rows, models, kind, pm, reply, size, written, failed>>

Progress(r) ==
  \/ Connected(r) \/ Fetch(r) \/ Load(r) \/ LoadNone(r)
  \/ LoadInteractions(r) \/ LoadPrior(r) \/ Persist(r) \/ QueryFails(r)

WriterProgress(b) ==
  \/ NextWrite(b) \/ WriterConnected(b) \/ WriteFails(b)
  \/ \E p \in PM : Write(b, p)

Next ==
  \/ \E r \in Requests :
       \/ Progress(r)
       \/ \E k \in {"suggest", "profile", "analysis", "history"}, p \in PM : Request(r, k, p)
  \/ \E b \in Batches :
       \/ WriterProgress(b)
       \/ \E n \in 1..(BatchLimit + 1) : BatchRefused(b, n) \/ BatchAccepted(b, n)
  \/ Crash

Spec == Init /\ [][Next]_vars

\* asyncpg answers or raises within its command_timeout of 30 s.
FairSpec ==
  /\ Spec
  /\ \A r \in Requests : WF_vars(Progress(r))
  /\ \A b \in Batches : WF_vars(WriterProgress(b))
-----------------------------------------------------------------------------
TypeOK ==
  /\ pool \in BOOLEAN /\ opened \in Nat /\ crashes \in 0..MaxCrashes
  /\ rows \in [PM -> Nat] /\ DOMAIN models = PM
  /\ pc \in [Requests -> {"new", "connect", "fetch", "load", "interactions", "prior",
                          "persist", "done"}]
  /\ model \in [Requests -> Model \cup {None}]
  /\ iter \in [Requests -> 0..NIterations]
  /\ reply \in [Requests -> Model \cup {None, Empty}]
  /\ bpc \in [Batches -> {"new", "ready", "connect", "write", "done", "lost"}]
  /\ pm \in [Requests -> PM \cup {None}]
  /\ \A r \in Requests : pc[r] # "new" => pm[r] \in PM
  /\ size \in [Batches -> 0..BatchLimit]
  /\ written \in [Batches -> 0..BatchLimit]
  /\ failed \in [Batches -> 0..BatchLimit]

\* The versions of a PM are 1 to the latest, whichever builds raced for them, and each
\* row is the model of its version.
VersionsContiguous ==
  \A p \in PM : Versions(p) # {} =>
    /\ LatestVersion(p) \in Nat /\ Versions(p) = 1..LatestVersion(p)
    /\ \A v \in Versions(p) : models[p][v] \in Model /\ models[p][v].version = v

\* The table has a model, unless another build has overwritten it since.
Persisted(m, p) ==
  /\ m.version \in Versions(p)
  /\ LET row == models[p][m.version] IN row = m \/ row.by # m.by

\* What is answered, unless it is the empty model, is in the table: a tool never shows
\* a model that a restart would forget.  The row of its version is that very model, or
\* has been overwritten by another build that arrived at the same version, and never by
\* a later iteration of the one that built it.
AnswersPersisted ==
  \A r \in Requests : reply[r] \in Model => Persisted(reply[r], pm[r])

\* A model is older than what its build holds, if that has not ended.
Behind(m) ==
  \/ pc[m.by] = "done"
  \/ pc[m.by] = "persist" /\ m.version < model[m.by].version

\* A build holds a model of its own, at most one version past the table, and there is
\* none without interactions to build from.
BuildInv(r) ==
  /\ pc[r] # "done" => reply[r] = None
  /\ pc[r] \in {"prior", "persist"} => rows[pm[r]] > 0
  /\ pc[r] = "persist" => /\ model[r] # None /\ model[r].by = r
                          /\ model[r].final \/ iter[r] < NIterations
                          /\ 1..(model[r].version - 1) \subseteq Versions(pm[r])

TableInv(p) ==
  /\ Versions(p) # {} => rows[p] > 0
  /\ \A v \in Versions(p) : Behind(models[p][v])

BatchInv(b) ==
  /\ written[b] + failed[b] <= size[b]
  /\ bpc[b] = "new" => size[b] = 0
  /\ bpc[b] \in {"connect", "write"} => written[b] + failed[b] < size[b]

\* What makes these inductive: no build gets further ahead of the table than the
\* version it is about to write, and none writes a version twice.
StoreInv ==
  /\ TypeOK /\ VersionsContiguous /\ AnswersPersisted
  /\ \A r \in Requests : BuildInv(r) /\ (reply[r] \in Model => Behind(reply[r]))
  /\ \A p \in PM : TableInv(p)
  /\ \A b \in Batches : BatchInv(b)

\* The empty model, which says that nothing is known of the PM, is shown only while
\* no model of the PM is stored, though other requests may have built one since the
\* look-up that found none.
EmptyMeansNoModel ==
  [][\A r \in Requests : reply'[r] = Empty /\ reply[r] # Empty => Versions(pm[r])' = {}]_vars

\* Each event of an accepted batch is written or given up by itself: the failure
\* of one does not block the rest, unless the process dies.
BatchDrains ==
  \A b \in Batches :
    size[b] > 0 ~> bpc[b] = "lost" \/ (bpc[b] = "done" /\ Left(b) = 0)

\* A request is answered, building the model included.
RequestsEnd == \A r \in Requests : pc[r] # "new" ~> pc[r] = "done"

\* "A single pool is created on first use and reused for the lifetime of the
\* process."
SinglePool == opened <= 1
=============================================================================
