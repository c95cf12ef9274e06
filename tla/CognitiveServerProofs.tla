----------------------- MODULE CognitiveServerProofs -----------------------
(***************************************************************************)
(* StoreInv is inductive for any number of PMs, requests and batches: what *)
(* the races between builds, readers and crashes cannot do to the table of *)
(* models.  VersionsContiguous alone is not inductive: a version written   *)
(* must be at most one past the latest, whichever model the build started  *)
(* from and however far others have got since.  Nor is AnswersPersisted:   *)
(* the row of an answer stays what it was, or another build's, because a   *)
(* build in progress is past all it has written (Behind).                  *)
(***************************************************************************)
EXTENDS CognitiveServer, TLAPS

\* When the versions come to be 1 to n, n is the latest.
LEMMA LatestOfInterval ==
  ASSUME NEW p, NEW n \in Nat \ {0}, Versions(p)' = 1..n
  PROVE  LatestVersion(p)' = n
<1> DEFINE V == Versions(p)'
<1> HIDE DEF V
<1>1. V = 1..n
  BY DEF V
<1>2. n \in V /\ \A w \in V : w <= n
  BY <1>1
<1>3. LatestVersion(p)' \in V /\ \A w \in V : w <= LatestVersion(p)'
  BY <1>2 DEF LatestVersion, V
<1> QED
  BY <1>1, <1>2, <1>3

\* The versions of a PM after an upsert of a version at most one past the latest.
LEMMA UpsertContiguous ==
  ASSUME NEW p \in PM, NEW m \in Model, VersionsContiguous,
         1..(m.version - 1) \subseteq Versions(p),
         models'[p] = Upsert(models[p], m)
  PROVE  /\ LatestVersion(p)' \in Nat \ {0}
         /\ Versions(p)' = 1..LatestVersion(p)'
         /\ m.version \in Versions(p)' /\ Versions(p) \subseteq Versions(p)'
         /\ \A v \in Versions(p)' : models'[p][v] \in Model /\ models'[p][v].version = v
         /\ Versions(p) # {} => LatestVersion(p)' >= LatestVersion(p)
<1> DEFINE k == m.version
<1>1. k \in Nat \ {0}
  BY DEF Model
<1>2. Versions(p)' = Versions(p) \cup {k}
  BY DEF Versions, Upsert
<1>3. \A v \in Versions(p)' : models'[p][v] \in Model /\ models'[p][v].version = v
  BY <1>2 DEF VersionsContiguous, Versions, Upsert
<1>4. k > 1 => k - 1 \in Versions(p)
  <2>1. k > 1 => k - 1 \in 1..(k - 1)
    BY <1>1
  <2> QED
    BY <2>1
<1>5. CASE Versions(p) = {}
  <2>1. Versions(p)' = 1..k
    BY <1>1, <1>2, <1>4, <1>5
  <2>2. LatestVersion(p)' = k
    BY <1>1, <2>1, LatestOfInterval
  <2> QED
    BY <1>1, <1>2, <1>3, <1>5, <2>1, <2>2
<1>6. CASE Versions(p) # {}
  <2> DEFINE n == LatestVersion(p)
  <2>1. n \in Nat \ {0} /\ Versions(p) = 1..n
    BY <1>6 DEF VersionsContiguous
  <2> HIDE DEF n
  <2>2. k <= n + 1
    BY <1>1, <1>4, <2>1
  <2>3. CASE k <= n
    <3>1. Versions(p)' = 1..n
      BY <1>1, <1>2, <2>1, <2>3
    <3>2. LatestVersion(p)' = n
      BY <2>1, <3>1, LatestOfInterval
    <3> QED
      BY <1>2, <1>3, <2>1, <3>1, <3>2 DEF n
  <2>4. CASE k = n + 1
    <3>1. Versions(p)' = 1..k
      BY <1>1, <1>2, <2>1, <2>4
    <3>2. LatestVersion(p)' = k
      BY <1>1, <3>1, LatestOfInterval
    <3> QED
      BY <1>1, <1>2, <1>3, <2>1, <2>4, <3>1, <3>2 DEF n
  <2> QED
    BY <1>1, <2>1, <2>2, <2>3, <2>4
<1> QED
  BY <1>5, <1>6

\* The latest model of a PM that has one, with all the versions up to its own.
LEMMA LatestIsAModel ==
  ASSUME VersionsContiguous, NEW p \in PM, Versions(p) # {}
  PROVE  /\ Latest(p) \in Model /\ Latest(p).version = LatestVersion(p)
         /\ Latest(p).version \in Versions(p)
         /\ 1..Latest(p).version \subseteq Versions(p)
<1>1. LatestVersion(p) \in Nat /\ Versions(p) = 1..LatestVersion(p)
  BY DEF VersionsContiguous
<1>2. LatestVersion(p) \in Versions(p)
  BY <1>1
<1>3. Latest(p) \in Model /\ Latest(p).version = LatestVersion(p)
  BY <1>2 DEF VersionsContiguous, Latest
<1> QED
  BY <1>1, <1>2, <1>3
-----------------------------------------------------------------------------
\* Both tables and both kinds of tasks start empty.
THEOREM InitInv == Init => StoreInv
<1> SUFFICES ASSUME Init PROVE StoreInv
  OBVIOUS
<1>1. \A p \in PM : Versions(p) = {}
  BY DEF Init, Versions
<1>2. VersionsContiguous
  BY <1>1 DEF VersionsContiguous
<1>3. TypeOK
  <2>1. DOMAIN models = PM
    BY DEF Init
  <2>5. pool \in BOOLEAN
    BY DEF Init
  <2>2. /\ opened \in Nat /\ crashes \in 0..MaxCrashes
        /\ rows \in [PM -> Nat] /\ iter \in [Requests -> 0..NIterations]
        /\ size \in [Batches -> 0..BatchLimit]
        /\ written \in [Batches -> 0..BatchLimit]
        /\ failed \in [Batches -> 0..BatchLimit]
    BY CognitiveAssumption DEF Init
  <2>3. /\ model \in [Requests -> Model \cup {None}]
        /\ reply \in [Requests -> Model \cup {None, Empty}]
        /\ pm \in [Requests -> PM \cup {None}]
        /\ \A r \in Requests : pc[r] = "new"
    BY DEF Init
  <2>4. pc \in [Requests -> {"new"}] /\ bpc \in [Batches -> {"new"}]
    BY DEF Init
  <2> QED
    BY <2>1, <2>2, <2>3, <2>4, <2>5 DEF TypeOK
<1>4. \A r \in Requests : pc[r] = "new" /\ reply[r] = None
  BY DEF Init
<1>5. \A b \in Batches : bpc[b] = "new" /\ size[b] = 0 /\ written[b] = 0 /\ failed[b] = 0
  BY DEF Init
<1>6. AnswersPersisted /\ \A r \in Requests : BuildInv(r) /\ reply[r] \notin Model
  BY <1>4, CognitiveAssumption DEF AnswersPersisted, BuildInv
<1>7. \A p \in PM : TableInv(p)
  BY <1>1 DEF TableInv
<1>8. \A b \in Batches : BatchInv(b)
  BY <1>5 DEF BatchInv
<1> QED
  BY <1>2, <1>3, <1>6, <1>7, <1>8 DEF StoreInv

\* What an upsert by request r leaves of the invariant's parts that speak of the
\* tables, for the PM r is about and, unchanged, for the others.
LEMMA UpsertKeeps ==
  ASSUME StoreInv, NEW r \in Requests, pc[r] = "persist",
         models' = [models EXCEPT ![pm[r]] = Upsert(@, model[r])]
  PROVE  /\ VersionsContiguous' /\ DOMAIN models' = PM
         /\ \A q \in PM : Versions(q) \subseteq Versions(q)'
         /\ \A q \in PM : q = pm[r] => 1..model[r].version \subseteq Versions(q)'
         /\ \A q \in PM : Versions(q) # {} => LatestVersion(q)' >= LatestVersion(q)
<1>1. model[r] \in Model /\ pm[r] \in PM /\ 1..(model[r].version - 1) \subseteq Versions(pm[r])
  BY DEF StoreInv, TypeOK, BuildInv
<1>2. VersionsContiguous /\ DOMAIN models = PM
  BY DEF StoreInv, TypeOK
<1>3. PICK p \in PM, m \in Model : p = pm[r] /\ m = model[r]
  BY <1>1
<1>4. models'[p] = Upsert(models[p], m) /\ 1..(m.version - 1) \subseteq Versions(p)
  BY <1>1, <1>2, <1>3
<1>5. /\ LatestVersion(p)' \in Nat \ {0}
      /\ Versions(p)' = 1..LatestVersion(p)'
      /\ m.version \in Versions(p)' /\ Versions(p) \subseteq Versions(p)'
      /\ \A v \in Versions(p)' : models'[p][v] \in Model /\ models'[p][v].version = v
      /\ Versions(p) # {} => LatestVersion(p)' >= LatestVersion(p)
  BY <1>2, <1>4, UpsertContiguous
<1>6. DOMAIN models' = PM /\ \A q \in PM : q # p => models'[q] = models[q]
  BY <1>2, <1>3
<1>7. \A q \in PM : q # p => Versions(q)' = Versions(q) /\ LatestVersion(q)' = LatestVersion(q)
  BY <1>6 DEF Versions, LatestVersion
<1>8. VersionsContiguous'
  BY <1>2, <1>5, <1>6, <1>7 DEF VersionsContiguous
<1>9. 1..m.version \subseteq Versions(p)'
  BY <1>5
<1>10. \A q \in PM : Versions(q) # {} => LatestVersion(q)' >= LatestVersion(q)
  BY <1>2, <1>5, <1>7 DEF VersionsContiguous
<1> QED
  BY <1>3, <1>5, <1>6, <1>7, <1>8, <1>9, <1>10
\* The tables stay as they are in a step that leaves them alone.
LEMMA TablesUnchanged ==
  ASSUME models' = models
  PROVE  /\ VersionsContiguous => VersionsContiguous'
         /\ \A p : Versions(p)' = Versions(p) /\ LatestVersion(p)' = LatestVersion(p)
BY DEF VersionsContiguous, Versions, LatestVersion

\* What Iterate does, for one outcome of the convergence check.
Begun(r, m, n, f) ==
  /\ model' = [model EXCEPT ![r] = [version |-> NextVersion(m), final |-> f, by |-> r]]
  /\ iter' = [iter EXCEPT ![r] = n]
  /\ pc' = [pc EXCEPT ![r] = "persist"]
  /\ n = NIterations => f = TRUE

\* An iteration is over or not, and is over when it is the last.
LEMMA IterateBegins ==
  ASSUME NEW r \in Requests, NEW m, NEW n, Iterate(r, m, n)
  PROVE  \E f \in BOOLEAN : Begun(r, m, n, f)
<1>1. CASE n = NIterations
  BY <1>1 DEF Iterate, Begun, Goto
<1>2. CASE n # NIterations
  BY <1>2 DEF Iterate, Begun, Goto
<1> QED
  BY <1>1, <1>2

\* The version built from a model is the one after it.
LEMMA NextVersionFollows ==
  ASSUME NEW m \in Model \cup {None}, NEW f \in BOOLEAN, NEW r \in Requests
  PROVE  /\ [version |-> NextVersion(m), final |-> f, by |-> r] \in Model \ {None}
         /\ m = None => NextVersion(m) = 1
         /\ m # None => NextVersion(m) - 1 = m.version
BY CognitiveAssumption DEF NextVersion, Model

\* The empty model is not one that was built.
LEMMA EmptyIsNoModel == Empty \notin Model /\ None \notin Model /\ Empty # None
BY CognitiveAssumption DEF Empty, Model

\* A build ends or gets on: it does not go back to a version it has passed.
Advances ==
  \A r \in Requests :
    /\ pc[r] = "done" => pc'[r] = "done"
    /\ pc[r] = "persist" =>
         pc'[r] = "done" \/ (pc'[r] = "persist" /\ model'[r].version >= model[r].version)

\* What a build has passed stays behind it.
LEMMA BehindKept ==
  ASSUME StoreInv, TypeOK', \A r \in Requests : BuildInv(r)', Advances,
         NEW m \in Model, Behind(m)
  PROVE  Behind(m)'
<1> DEFINE r == m.by
<1>1. r \in Requests /\ m.version \in Nat
  BY DEF Model
<1>2. pc[r] = "persist" => model[r].version \in Nat
  BY <1>1 DEF StoreInv, TypeOK, BuildInv, Model
<1>3. pc'[r] = "persist" => model'[r].version \in Nat
  BY <1>1 DEF TypeOK, BuildInv, Model
<1> QED
  BY <1>1, <1>2, <1>3 DEF Advances, Behind

\* A step that leaves the table of models alone, and answers nothing but what is in
\* it, keeps what the invariant says of the table and the answers.
LEMMA TableKept ==
  ASSUME StoreInv, TypeOK', models' = models, Advances,
         \A p \in PM : rows'[p] >= rows[p],
         \A r \in Requests : BuildInv(r)',
         \A b \in Batches : BatchInv(b)',
         \A r \in Requests : reply'[r] \in Model =>
           /\ pm'[r] \in PM
           /\ \/ reply'[r] = reply[r] /\ pm'[r] = pm[r]
              \/ \E v \in Versions(pm'[r]) : reply'[r] = models[pm'[r]][v]
  PROVE  StoreInv'
<1>1. VersionsContiguous' /\ \A p : Versions(p)' = Versions(p)
  BY TablesUnchanged DEF StoreInv
<1>2. ASSUME NEW m \in Model, NEW p \in PM, Persisted(m, p) PROVE Persisted(m, p)'
  BY <1>1, <1>2 DEF Persisted
<1>3. ASSUME NEW p \in PM, NEW v \in Versions(p)
      PROVE  /\ models[p][v] \in Model /\ Persisted(models[p][v], p)
             /\ Behind(models[p][v]) /\ Behind(models[p][v])'
  <2>1. models[p][v] \in Model /\ models[p][v].version = v
    BY DEF StoreInv, VersionsContiguous
  <2>2. PICK m \in Model : m = models[p][v]
    BY <2>1
  <2>3. Behind(m)
    BY <2>2 DEF StoreInv, TableInv
  <2>4. Behind(m)'
    BY <2>3, BehindKept
  <2>5. m = models'[p][v]
    BY <2>2
  <2>6. Persisted(m, p)
    BY <2>1, <2>2 DEF Persisted
  <2>7. Behind(models[p][v])'
    BY <2>4, <2>5 DEF Behind
  <2> QED
    BY <2>1, <2>2, <2>3, <2>6, <2>7
<1>4. ASSUME NEW r \in Requests, reply'[r] \in Model
      PROVE  Persisted(reply[r], pm[r])' /\ Behind(reply[r])'
  <2>1. PICK m \in Model : m = reply'[r]
    BY <1>4
  <2>2. PICK p \in PM : p = pm'[r]
    BY <1>4
  <2>3. CASE reply'[r] = reply[r] /\ pm'[r] = pm[r]
    <3>1. Persisted(m, p) /\ Behind(m)
      BY <2>1, <2>2, <2>3 DEF StoreInv, AnswersPersisted
    <3>2. Persisted(m, p)' /\ Behind(m)'
      BY <3>1, <1>2, BehindKept
    <3> QED
      BY <2>1, <2>2, <3>2 DEF Persisted, Behind, Versions
  <2>4. CASE \E v \in Versions(pm'[r]) : reply'[r] = models[pm'[r]][v]
    <3>1. PICK v \in Versions(p) : m = models[p][v]
      BY <2>1, <2>2, <2>4
    <3>2. Persisted(m, p) /\ Behind(m)
      BY <1>3, <3>1
    <3>3. Persisted(m, p)' /\ Behind(m)'
      BY <3>2, <1>2, BehindKept
    <3> QED
      BY <2>1, <2>2, <3>3 DEF Persisted, Behind, Versions
  <2> QED
    BY <1>4, <2>3, <2>4
<1>5. ASSUME NEW p \in PM PROVE TableInv(p)'
  <2>1. Versions(p)' # {} => rows'[p] > 0
    BY <1>1 DEF StoreInv, TypeOK, TableInv
  <2>2. \A v \in Versions(p)' : Behind(models[p][v])'
    BY <1>1, <1>3
  <2> QED
    BY <2>1, <2>2 DEF TableInv
<1> QED
  BY <1>1, <1>4, <1>5 DEF StoreInv, AnswersPersisted

\* The upsert of a build, with which the build goes on or ends: no other row changes,
\* and the row it overwrites is not its own.
LEMMA TableWritten ==
  ASSUME StoreInv, TypeOK', Advances, rows' = rows, pm' = pm,
         NEW r \in Requests, pc[r] = "persist",
         models' = [models EXCEPT ![pm[r]] = Upsert(@, model[r])],
         pc'[r] = "done" \/ (pc'[r] = "persist" /\ model'[r].version > model[r].version),
         \A s \in Requests : BuildInv(s)',
         \A b \in Batches : BatchInv(b)',
         \A s \in Requests : reply'[s] \in Model => \/ reply'[s] = reply[s]
                                                    \/ s = r /\ reply'[s] = model[r]
  PROVE  StoreInv'
<1>1. PICK p \in PM, m \in Model : /\ p = pm[r] /\ m = model[r] /\ m.by = r
                                   /\ rows[p] > 0
  BY DEF StoreInv, TypeOK, BuildInv
<1>2. /\ VersionsContiguous' /\ DOMAIN models' = PM
      /\ \A q \in PM : Versions(q) \subseteq Versions(q)'
  BY UpsertKeeps
<1>3. /\ \A q \in PM : q # p => models'[q] = models[q]
      /\ models'[p] = Upsert(models[p], m)
  BY <1>1 DEF StoreInv, TypeOK
<1>4. /\ Versions(p)' = Versions(p) \cup {m.version}
      /\ models'[p][m.version] = m
      /\ \A v \in Versions(p) : v # m.version => models'[p][v] = models[p][v]
      /\ \A q \in PM : q # p => Versions(q)' = Versions(q)
  BY <1>3 DEF Versions, Upsert
<1>5. Behind(m)'
  BY <1>1 DEF Behind
<1>6. ASSUME NEW x \in Model, NEW q \in PM, Persisted(x, q), Behind(x) PROVE Persisted(x, q)'
  <2>1. x.version \in Versions(q)'
    BY <1>2, <1>6 DEF Persisted
  <2>2. CASE q # p \/ x.version # m.version
    BY <1>3, <1>4, <1>6, <2>1, <2>2 DEF Persisted
  <2>3. CASE q = p /\ x.version = m.version
    <3>1. x.by # r
      BY <1>1, <1>6, <2>3 DEF Behind, Model
    <3> QED
      BY <1>1, <1>4, <2>1, <2>3, <3>1 DEF Persisted
  <2> QED
    BY <2>2, <2>3
<1>7. ASSUME NEW s \in Requests, reply'[s] \in Model
      PROVE  Persisted(reply[s], pm[s])' /\ Behind(reply[s])'
  <2>1. PICK x \in Model : x = reply'[s]
    BY <1>7
  <2>2. pm'[s] = pm[s]
    OBVIOUS
  <2>3. CASE s = r /\ reply'[s] = model[r]
    <3>1. x = m /\ pm'[s] = p
      BY <1>1, <2>1, <2>3
    <3>2. Persisted(x, p)' /\ Behind(x)'
      BY <1>4, <1>5, <3>1 DEF Persisted
    <3> QED
      BY <2>1, <3>1, <3>2 DEF Persisted, Behind, Versions
  <2>4. CASE reply'[s] = reply[s]
    <3>1. pm[s] \in PM
      <4>1. pc[s] # "new"
        BY <2>1, <2>4, EmptyIsNoModel DEF StoreInv, BuildInv
      <4> QED
        BY <4>1 DEF StoreInv, TypeOK
    <3>2. PICK q \in PM : q = pm[s]
      BY <3>1
    <3>3. Persisted(x, q) /\ Behind(x)
      BY <2>1, <2>4, <3>2 DEF StoreInv, AnswersPersisted
    <3>4. Persisted(x, q)' /\ Behind(x)'
      BY <1>6, <3>3, BehindKept
    <3> QED
      BY <2>1, <2>2, <3>2, <3>4 DEF Persisted, Behind, Versions
  <2> QED
    BY <1>7, <2>3, <2>4
<1>8. ASSUME NEW q \in PM PROVE TableInv(q)'
  <2>1. Versions(q)' # {} => rows'[q] > 0
    BY <1>1, <1>4 DEF StoreInv, TableInv
  <2>2. ASSUME NEW v \in Versions(q)' PROVE Behind(models[q][v])'
    <3>1. CASE q = p /\ v = m.version
      BY <1>4, <1>5, <3>1 DEF Behind
    <3>2. CASE q # p \/ v # m.version
      <4>1. v \in Versions(q) /\ models'[q][v] = models[q][v]
        BY <1>3, <1>4, <2>2, <3>2
      <4>2. PICK x \in Model : x = models[q][v] /\ Behind(x)
        BY <4>1 DEF StoreInv, VersionsContiguous, TableInv
      <4>3. Behind(x)'
        BY <4>2, BehindKept
      <4> QED
        BY <4>1, <4>2, <4>3 DEF Behind
    <3> QED
      BY <3>1, <3>2
  <2> QED
    BY <2>1, <2>2 DEF TableInv
<1> QED
  BY <1>2, <1>7, <1>8 DEF StoreInv, AnswersPersisted

\* Every step of a request, a batch and the process preserves the invariant.
THEOREM StepInv == StoreInv /\ [Next]_vars => StoreInv'
<1> SUFFICES ASSUME StoreInv, [Next]_vars PROVE StoreInv'
  OBVIOUS
<1> USE CognitiveAssumption DEF requestVars, batchVars
<1> DEFINE Still == \A b \in Batches : BatchInv(b)'
<1>0. /\ TypeOK /\ VersionsContiguous
      /\ rows \in [PM -> Nat] /\ \A p \in PM : rows[p] \in Nat /\ rows[p] >= rows[p]
      /\ \A r \in Requests : BuildInv(r)
      /\ \A b \in Batches : BatchInv(b)
  BY DEF StoreInv, TypeOK
<1>1. ASSUME NEW r \in Requests, NEW p \in PM,
             NEW k \in {"suggest", "profile", "analysis", "history"}, Request(r, k, p)
      PROVE  StoreInv'
  <2>1. TypeOK' /\ models' = models
    BY <1>0, <1>1 DEF Request, Goto, FirstQuery, TypeOK
  <2>2. Advances /\ \A q \in Requests : BuildInv(q)'
    BY <1>0, <1>1, TablesUnchanged
    DEF Request, Goto, FirstQuery, TypeOK, Advances, BuildInv, Model
  <2>3. Still
    BY <1>0, <1>1 DEF Request, BatchInv
  <2>4. \A q \in Requests : reply'[q] \in Model => pm'[q] = pm[q] /\ pm[q] \in PM
    BY <1>0, <1>1, EmptyIsNoModel DEF Request, TypeOK, BuildInv
  <2> QED
    BY <1>1, <2>1, <2>2, <2>3, <2>4, TableKept DEF Request, StoreInv, TypeOK
<1>2. ASSUME NEW r \in Requests, Connected(r) \/ LoadNone(r) PROVE StoreInv'
  <2>1. TypeOK' /\ models' = models
    <3>1. CASE Connected(r)
      <4>1. pool' \in BOOLEAN /\ pc' = [pc EXCEPT ![r] = FirstQuery(kind[r])]
        BY <3>1 DEF Connected, Goto
      <4>2. FirstQuery(kind[r]) \in {"load", "fetch"}
        BY DEF FirstQuery
      <4> QED
        BY <1>0, <3>1, <4>1, <4>2 DEF Connected, TypeOK
    <3>2. CASE LoadNone(r)
      BY <1>0, <3>2 DEF LoadNone, Goto, TypeOK
    <3> QED
      BY <1>2, <3>1, <3>2
  <2>2. Advances /\ \A q \in Requests : BuildInv(q)'
    BY <1>0, <1>2, TablesUnchanged
    DEF Connected, LoadNone, Goto, FirstQuery, TypeOK, Advances, BuildInv, Model
  <2>3. Still
    BY <1>0, <1>2 DEF Connected, LoadNone, BatchInv
  <2>4. \A q \in Requests : reply'[q] \in Model => pm'[q] = pm[q] /\ pm[q] \in PM
    BY <1>0, <1>2, EmptyIsNoModel DEF Connected, LoadNone, TypeOK, BuildInv
  <2> QED
    BY <1>2, <2>1, <2>2, <2>3, <2>4, TableKept DEF Connected, LoadNone, StoreInv, TypeOK
<1>3. ASSUME NEW r \in Requests, NEW a, Answer(r, a), pc[r] \notin {"new", "done"},
             models' = models, UNCHANGED <<rows, crashes, batchVars, pool, opened>>,
             \/ a \in {None, Empty}
             \/ \E v \in Versions(pm[r]) : a = models[pm[r]][v]
      PROVE  StoreInv'
  <2>1. a \in Model \cup {None, Empty}
    <3>1. pm[r] \in PM
      BY <1>0, <1>3 DEF TypeOK
    <3>2. \A v \in Versions(pm[r]) : models[pm[r]][v] \in Model
      BY <1>0, <3>1 DEF VersionsContiguous
    <3> QED
      BY <1>3, <3>2
  <2>2. /\ pc' = [pc EXCEPT ![r] = "done"] /\ reply' = [reply EXCEPT ![r] = a]
        /\ model' = [model EXCEPT ![r] = None] /\ iter' = [iter EXCEPT ![r] = 0]
        /\ kind' = kind /\ pm' = pm
    BY <1>3 DEF Answer, Goto
  <2>3. TypeOK'
    BY <1>0, <1>3, <2>1, <2>2 DEF TypeOK
  <2>4. Advances /\ \A q \in Requests : BuildInv(q)'
    BY <1>0, <1>3, <2>2, TablesUnchanged DEF TypeOK, Advances, BuildInv, Model
  <2>5. Still
    BY <1>0, <1>3 DEF BatchInv
  <2>6. ASSUME NEW q \in Requests, reply'[q] \in Model
        PROVE  /\ pm'[q] \in PM
               /\ \/ reply'[q] = reply[q] /\ pm'[q] = pm[q]
                  \/ \E v \in Versions(pm'[q]) : reply'[q] = models[pm'[q]][v]
    <3>1. CASE q = r
      BY <1>0, <1>3, <2>2, <2>6, <3>1, EmptyIsNoModel DEF TypeOK
    <3>2. CASE q # r
      BY <1>0, <2>2, <2>6, <3>2, EmptyIsNoModel DEF TypeOK, BuildInv
    <3> QED
      BY <3>1, <3>2
  <2> QED
    BY <1>0, <1>3, <2>3, <2>4, <2>5, <2>6, TableKept
<1>4. ASSUME NEW r \in Requests, Fetch(r) PROVE StoreInv'
  <2>1. CASE Answer(r, None)
    BY <1>3, <1>4, <2>1 DEF Fetch
  <2>2. CASE Goto(r, "load") /\ UNCHANGED <<kind, pm, model, iter, reply>>
    <3>1. TypeOK' /\ models' = models
      BY <1>0, <1>4, <2>2 DEF Fetch, Goto, TypeOK
    <3>2. Advances /\ \A q \in Requests : BuildInv(q)'
      BY <1>0, <1>4, <2>2, TablesUnchanged DEF Fetch, Goto, TypeOK, Advances, BuildInv, Model
    <3>3. Still
      BY <1>0, <1>4 DEF Fetch, BatchInv
    <3>4. \A q \in Requests : reply'[q] \in Model => pm'[q] = pm[q] /\ pm[q] \in PM
      BY <1>0, <2>2, EmptyIsNoModel DEF TypeOK, BuildInv
    <3> QED
      BY <1>0, <1>4, <2>2, <3>1, <3>2, <3>3, <3>4, TableKept DEF Fetch
  <2> QED
    BY <1>4, <2>1, <2>2 DEF Fetch
<1>5. ASSUME NEW r \in Requests, Load(r) PROVE StoreInv'
  <2>1. pm[r] \in PM /\ Versions(pm[r]) # {}
    BY <1>0, <1>5 DEF Load, TypeOK
  <2>2. Latest(pm[r]).version \in Versions(pm[r])
    BY <1>0, <2>1, LatestIsAModel
  <2>3. Latest(pm[r]) = models[pm[r]][LatestVersion(pm[r])]
        /\ LatestVersion(pm[r]) \in Versions(pm[r])
    BY <1>0, <2>1, <2>2, LatestIsAModel DEF Latest
  <2> QED
    BY <1>3, <1>5, <2>3 DEF Load
<1>6. ASSUME NEW r \in Requests, LoadInteractions(r) PROVE StoreInv'
  <2>1. CASE Answer(r, Empty)
    BY <1>3, <1>6, <2>1 DEF LoadInteractions
  <2>2. CASE /\ rows[pm[r]] # 0
             /\ Goto(r, "prior") /\ UNCHANGED <<kind, pm, model, iter, reply>>
    <3>1. TypeOK' /\ models' = models /\ pm[r] \in PM
      BY <1>0, <1>6, <2>2 DEF LoadInteractions, Goto, TypeOK
    <3>2. rows' = rows /\ rows[pm[r]] > 0
      BY <1>0, <1>6, <2>2, <3>1 DEF LoadInteractions
    <3>3. Advances /\ \A q \in Requests : BuildInv(q)'
      BY <1>0, <1>6, <2>2, <3>2, TablesUnchanged
      DEF LoadInteractions, Goto, TypeOK, Advances, BuildInv, Model
    <3>4. Still
      BY <1>0, <1>6 DEF LoadInteractions, BatchInv
    <3>5. \A q \in Requests : reply'[q] \in Model => pm'[q] = pm[q] /\ pm[q] \in PM
      BY <1>0, <2>2, EmptyIsNoModel DEF TypeOK, BuildInv
    <3> QED
      BY <1>0, <2>2, <3>1, <3>2, <3>3, <3>4, <3>5, TableKept
  <2> QED
    BY <1>6, <2>1, <2>2 DEF LoadInteractions
<1>7. ASSUME NEW r \in Requests, LoadPrior(r) PROVE StoreInv'
  <2> DEFINE prior == IF Versions(pm[r]) = {} THEN None ELSE Latest(pm[r])
  <2>1. pm[r] \in PM /\ pc[r] = "prior" /\ Iterate(r, prior, 1)
    BY <1>0, <1>7 DEF LoadPrior, TypeOK
  <2>2. prior # None => prior \in Model /\ 1..prior.version \subseteq Versions(pm[r])
    BY <1>0, <2>1, LatestIsAModel
  <2>3. prior \in Model \cup {None}
    BY <1>0, <2>1, LatestIsAModel
  <2> HIDE DEF prior
  <2>4. PICK f \in BOOLEAN : Begun(r, prior, 1, f)
    BY <2>1, IterateBegins
  <2> DEFINE next == [version |-> NextVersion(prior), final |-> f, by |-> r]
  <2>5. /\ next \in Model \ {None} /\ next.by = r /\ next.final = f
        /\ 1..(next.version - 1) \subseteq Versions(pm[r])
    BY <2>2, <2>3, NextVersionFollows
  <2>6. /\ models' = models
        /\ UNCHANGED <<pool, opened, rows, kind, pm, reply, batchVars, crashes>>
    BY <1>7 DEF LoadPrior
  <2>7. /\ model' = [model EXCEPT ![r] = next] /\ iter' = [iter EXCEPT ![r] = 1]
        /\ pc' = [pc EXCEPT ![r] = "persist"] /\ (1 = NIterations => f = TRUE)
    BY <2>4 DEF Begun
  <2> HIDE DEF next
  <2>8. TypeOK'
    <3>1. /\ pool' \in BOOLEAN /\ opened' \in Nat /\ crashes' \in 0..MaxCrashes
          /\ rows' \in [PM -> Nat] /\ DOMAIN models' = PM
      BY <1>0, <2>6 DEF TypeOK
    <3>2. /\ pc' \in [Requests -> {"new", "connect", "fetch", "load", "interactions",
                                   "prior", "persist", "done"}]
          /\ \A q \in Requests : pc'[q] # "new" => pm'[q] \in PM
      BY <1>0, <2>1, <2>6, <2>7 DEF TypeOK
    <3>3. /\ model' \in [Requests -> Model \cup {None}]
          /\ iter' \in [Requests -> 0..NIterations]
      BY <1>0, <2>5, <2>7 DEF TypeOK
    <3> QED
      BY <1>0, <2>6, <3>1, <3>2, <3>3 DEF TypeOK
  <2>9. Advances /\ \A q \in Requests : BuildInv(q)'
    BY <1>0, <2>1, <2>5, <2>6, <2>7, TablesUnchanged DEF TypeOK, Advances, BuildInv, Model
  <2>10. Still
    BY <1>0, <2>6 DEF BatchInv
  <2>11. \A q \in Requests : reply'[q] \in Model => pm'[q] = pm[q] /\ pm[q] \in PM
    BY <1>0, <2>6, EmptyIsNoModel DEF TypeOK, BuildInv
  <2> QED
    BY <1>0, <2>6, <2>8, <2>9, <2>10, <2>11, TableKept
<1>8. ASSUME NEW r \in Requests, Persist(r) PROVE StoreInv'
  <2>1. /\ pc[r] = "persist"
        /\ models' = [models EXCEPT ![pm[r]] = Upsert(@, model[r])]
        /\ UNCHANGED <<pool, opened, rows, kind, pm, batchVars, crashes>>
    BY <1>8 DEF Persist, GoOn, Answer
  <2>2. PICK p \in PM, m \in Model : p = pm[r] /\ m = model[r]
    BY <1>0, <2>1 DEF TypeOK, BuildInv
  <2>3. /\ DOMAIN models' = PM
        /\ \A q \in PM : Versions(q) \subseteq Versions(q)'
        /\ 1..m.version \subseteq Versions(p)'
    BY <2>1, <2>2, UpsertKeeps
  <2>4. Still
    BY <1>0, <2>1 DEF BatchInv
  <2>5. CASE model[r].final
    <3>1. /\ pc' = [pc EXCEPT ![r] = "done"] /\ reply' = [reply EXCEPT ![r] = m]
          /\ model' = [model EXCEPT ![r] = None] /\ iter' = [iter EXCEPT ![r] = 0]
      BY <1>8, <2>2, <2>5 DEF Persist, GoOn, Goto, Answer
    <3>2. TypeOK'
      BY <1>0, <2>1, <2>3, <3>1 DEF TypeOK
    <3>3. Advances /\ \A q \in Requests : BuildInv(q)'
      BY <1>0, <2>1, <2>3, <3>1 DEF TypeOK, Advances, BuildInv, Model
    <3>4. /\ pc'[r] = "done"
          /\ \A s \in Requests : reply'[s] = reply[s] \/ (s = r /\ reply'[s] = model[r])
      BY <1>0, <2>2, <3>1 DEF TypeOK
    <3> QED
      BY <2>1, <2>4, <3>2, <3>3, <3>4, TableWritten
  <2>6. CASE ~model[r].final
    <3>1. Iterate(r, model[r], iter[r] + 1) /\ reply' = reply
      BY <1>8, <2>6 DEF Persist, GoOn
    <3>2. iter[r] + 1 \in 0..NIterations
      BY <1>0, <2>1, <2>6 DEF TypeOK, BuildInv
    <3>3. PICK f \in BOOLEAN : Begun(r, m, iter[r] + 1, f)
      BY <2>2, <3>1, IterateBegins
    <3> DEFINE next == [version |-> NextVersion(m), final |-> f, by |-> r]
    <3>4. /\ next \in Model \ {None}
          /\ next.version - 1 = m.version /\ next.final = f /\ next.by = r
      BY NextVersionFollows
    <3>5. /\ model' = [model EXCEPT ![r] = next]
          /\ iter' = [iter EXCEPT ![r] = iter[r] + 1]
          /\ pc' = [pc EXCEPT ![r] = "persist"]
          /\ next.final \/ iter[r] + 1 < NIterations
      BY <3>2, <3>3, <3>4 DEF Begun
    <3> HIDE DEF next
    <3>6. TypeOK'
      BY <1>0, <2>1, <2>3, <3>1, <3>2, <3>4, <3>5 DEF TypeOK
    <3>7. Advances
      <4>1. next.version >= m.version
        BY <3>4 DEF Model
      <4>2. \A s \in Requests : pc[s] = "persist" => model[s].version >= model[s].version
        BY <1>0 DEF TypeOK, BuildInv, Model
      <4>3. pc \in [Requests -> {"new", "connect", "fetch", "load", "interactions",
                                "prior", "persist", "done"}]
            /\ DOMAIN model = Requests
        BY <1>0 DEF TypeOK
      <4> QED
        BY <2>1, <2>2, <3>5, <4>1, <4>2, <4>3 DEF Advances
    <3>8. ASSUME NEW s \in Requests PROVE BuildInv(s)'
      <4>1. CASE s = r
        BY <1>0, <2>1, <2>2, <2>3, <3>1, <3>4, <3>5, <4>1 DEF TypeOK, BuildInv
      <4>2. CASE s # r
        BY <1>0, <2>1, <2>3, <3>1, <3>5, <4>2 DEF TypeOK, BuildInv
      <4> QED
        BY <4>1, <4>2
    <3>9. pc'[r] = "persist" /\ model'[r].version > model[r].version
      BY <1>0, <2>2, <3>4, <3>5 DEF TypeOK, Model
    <3> QED
      BY <2>1, <2>4, <3>1, <3>6, <3>7, <3>8, <3>9, TableWritten
  <2> QED
    BY <2>5, <2>6
<1>9. ASSUME NEW r \in Requests, QueryFails(r) PROVE StoreInv'
  <2>1. CASE models' = models
    BY <1>3, <1>9, <2>1 DEF QueryFails
  <2>2. CASE pc[r] = "persist" /\ models' = [models EXCEPT ![pm[r]] = Upsert(@, model[r])]
    <3>1. /\ pc' = [pc EXCEPT ![r] = "done"] /\ reply' = [reply EXCEPT ![r] = None]
          /\ model' = [model EXCEPT ![r] = None] /\ iter' = [iter EXCEPT ![r] = 0]
          /\ UNCHANGED <<pool, opened, rows, kind, pm, batchVars, crashes>>
      BY <1>9 DEF QueryFails, Answer, Goto
    <3>2. DOMAIN models' = PM /\ \A q \in PM : Versions(q) \subseteq Versions(q)'
      BY <2>2, UpsertKeeps
    <3>3. TypeOK'
      <4>1. /\ pool' \in BOOLEAN /\ opened' \in Nat /\ crashes' \in 0..MaxCrashes
            /\ rows' \in [PM -> Nat] /\ bpc' = bpc /\ batchVars' = batchVars
        BY <1>0, <3>1 DEF TypeOK
      <4>2. /\ pc' \in [Requests -> {"new", "connect", "fetch", "load", "interactions",
                                     "prior", "persist", "done"}]
            /\ \A q \in Requests : pc'[q] # "new" => pm'[q] \in PM
        BY <1>0, <2>2, <3>1 DEF TypeOK
      <4>3. /\ model' \in [Requests -> Model \cup {None}]
            /\ reply' \in [Requests -> Model \cup {None, Empty}]
            /\ iter' \in [Requests -> 0..NIterations]
        BY <1>0, <3>1 DEF TypeOK
      <4> QED
        BY <1>0, <3>1, <3>2, <4>1, <4>2, <4>3 DEF TypeOK
    <3>4. Advances /\ \A q \in Requests : BuildInv(q)'
      BY <1>0, <3>1, <3>2 DEF TypeOK, Advances, BuildInv, Model
    <3>5. Still
      BY <1>0, <3>1 DEF BatchInv
    <3>6. /\ pc'[r] = "done"
          /\ \A s \in Requests : reply'[s] \in Model => reply'[s] = reply[s]
      BY <1>0, <3>1, EmptyIsNoModel DEF TypeOK
    <3> QED
      BY <2>2, <3>1, <3>3, <3>4, <3>5, <3>6, TableWritten
  <2> QED
    BY <1>9, <2>1, <2>2 DEF QueryFails
<1>10. ASSUME UNCHANGED <<models, requestVars>>, TypeOK', Still,
              \A p \in PM : rows'[p] >= rows[p]
       PROVE  StoreInv'
  <2>1. Advances
    BY <1>0, <1>10 DEF Advances, TypeOK, BuildInv, Model
  <2>2. \A q \in Requests : BuildInv(q)'
    BY <1>0, <1>10, TablesUnchanged DEF TypeOK, BuildInv
  <2>3. \A q \in Requests : reply'[q] \in Model => pm'[q] = pm[q] /\ pm[q] \in PM
    BY <1>0, <1>10, EmptyIsNoModel DEF TypeOK, BuildInv
  <2> QED
    BY <1>10, <2>1, <2>2, <2>3, TableKept
<1>11. ASSUME NEW b \in Batches, NEW n \in 1..(BatchLimit + 1),
              BatchRefused(b, n) \/ BatchAccepted(b, n)
       PROVE  StoreInv'
  <2>1. TypeOK' /\ Still
    BY <1>0, <1>11 DEF BatchRefused, BatchAccepted, TypeOK, BatchInv
  <2> QED
    BY <1>0, <1>10, <1>11, <2>1 DEF BatchRefused, BatchAccepted
<1>12. ASSUME NEW b \in Batches, NextWrite(b) \/ WriterConnected(b) \/ WriteFails(b)
       PROVE  StoreInv'
  <2>1. NextWrite(b) => TypeOK' /\ Still
    BY <1>0, CognitiveAssumption DEF NextWrite, Left, TypeOK, BatchInv
  <2>2. ASSUME WriterConnected(b) PROVE TypeOK' /\ Still
    <3>1. pool' \in BOOLEAN /\ bpc' = [bpc EXCEPT ![b] = "write"]
      BY <2>2 DEF WriterConnected
    <3> QED
      BY <1>0, <2>2, <3>1 DEF WriterConnected, TypeOK, BatchInv
  <2>3. WriteFails(b) => TypeOK' /\ Still
    BY <1>0 DEF WriteFails, TypeOK, BatchInv
  <2>4. TypeOK' /\ Still
    BY <1>12, <2>1, <2>2, <2>3
  <2> QED
    BY <1>0, <1>10, <1>12, <2>4 DEF NextWrite, WriterConnected, WriteFails
<1>13. ASSUME NEW b \in Batches, NEW p \in PM, Write(b, p) PROVE StoreInv'
  <2>1. TypeOK' /\ Still
    BY <1>0, <1>13 DEF Write, TypeOK, BatchInv
  <2> QED
    BY <1>0, <1>10, <1>13, <2>1 DEF Write
<1>14. CASE Crash
  <2>1. \A r \in Requests : /\ pc'[r] = IF pc[r] = "new" THEN "new" ELSE "done"
                            /\ model'[r] = None /\ iter'[r] = 0
    BY <1>14 DEF Crash
  <2>2. \A b \in Batches : bpc'[b] = IF bpc[b] \in {"new", "done"} THEN bpc[b] ELSE "lost"
    BY <1>14 DEF Crash
  <2>3. TypeOK'
    <3>1. /\ pc' \in [Requests -> {"new", "done"}]
          /\ model' \in [Requests -> Model \cup {None}]
          /\ iter' \in [Requests -> 0..NIterations]
      BY <1>14 DEF Crash
    <3>2. bpc' \in [Batches -> {"new", "done", "lost"}]
      BY <1>14, <2>2 DEF Crash
    <3>3. pool' \in BOOLEAN
      BY <1>14 DEF Crash
    <3>4. opened' \in Nat /\ crashes' \in 0..MaxCrashes
      BY <1>0, <1>14 DEF Crash, TypeOK
    <3>5. \A r \in Requests : pc'[r] # "new" => pm'[r] \in PM
      BY <1>0, <1>14, <2>1 DEF Crash, TypeOK
    <3> QED
      BY <1>0, <1>14, <3>1, <3>2, <3>3, <3>4, <3>5 DEF Crash, TypeOK
  <2>4. Advances
    BY <2>1 DEF Advances
  <2>5. \A r \in Requests : BuildInv(r)'
    BY <1>0, <1>14, <2>1 DEF Crash, BuildInv
  <2>6. Still
    BY <1>0, <1>14, <2>2 DEF Crash, BatchInv
  <2>7. \A q \in Requests : reply'[q] \in Model => pm'[q] = pm[q] /\ pm[q] \in PM
    BY <1>0, <1>14, EmptyIsNoModel DEF Crash, TypeOK, BuildInv
  <2> QED
    BY <1>0, <1>14, <2>3, <2>4, <2>5, <2>6, <2>7, TableKept DEF Crash
<1>15. CASE UNCHANGED vars
  <2>1. TypeOK' /\ Still
    BY <1>0, <1>15 DEF vars, TypeOK, BatchInv
  <2> QED
    BY <1>0, <1>10, <1>15, <2>1 DEF vars
<1> QED
  BY <1>1, <1>2, <1>4, <1>5, <1>6, <1>7, <1>8, <1>9, <1>11, <1>12, <1>13, <1>14, <1>15
  DEF Next, Progress, WriterProgress
-----------------------------------------------------------------------------
\* StoreInv holds in every reachable state, for any number of PMs, requests and
\* batches (equilibrium.py, interaction_logger.py).
THEOREM StoreInvariant == Spec => []StoreInv
<1>1. Init => StoreInv
  BY InitInv
<1>2. StoreInv /\ [Next]_vars => StoreInv'
  BY StepInv
<1> QED
  BY <1>1, <1>2, PTL DEF Spec

\* However builds race, the versions a PM has are 1 to the latest
\* (equilibrium.py:223-255, schema.sql:40).
THEOREM VersionsAreContiguous == Spec => []VersionsContiguous
<1>1. StoreInv => VersionsContiguous
  BY DEF StoreInv
<1> QED
  BY <1>1, StoreInvariant, PTL

\* A model a request was answered with is the row of its version, or that row is
\* another build's by now (equilibrium.py:48-60, 163-169, 228-269).
THEOREM AnswersArePersisted == Spec => []AnswersPersisted
<1>1. StoreInv => AnswersPersisted
  BY DEF StoreInv
<1> QED
  BY <1>1, StoreInvariant, PTL

\* The unpersisted empty model is answered only while the PM has no model, whatever
\* was built since the look-up (equilibrium.py:163-169, 202-206).
THEOREM EmptyWhenNone == Spec => EmptyMeansNoModel
<1> DEFINE Told == \A r \in Requests :
                     reply'[r] = Empty /\ reply[r] # Empty => Versions(pm[r])' = {}
<1>1. StoreInv /\ [Next]_vars => [Told]_vars
  <2> SUFFICES ASSUME StoreInv, Next PROVE Told
    OBVIOUS
  <2>1. ASSUME NEW r \in Requests, NEW a, Answer(r, a), a # Empty PROVE Told
    BY <2>1 DEF Answer, StoreInv, TypeOK
  <2>2. ASSUME NEW r \in Requests, Answer(r, Empty), pm[r] \in PM, rows[pm[r]] = 0,
               models' = models
        PROVE  Told
    <3>1. Versions(pm[r]) = {}
      BY <2>2 DEF StoreInv, TableInv
    <3>2. pm' = pm /\ \A q \in Requests \ {r} : reply'[q] = reply[q]
      BY <2>2 DEF Answer, StoreInv, TypeOK
    <3> QED
      BY <2>2, <3>1, <3>2 DEF Versions
  <2>3. CASE reply' = reply
    BY <2>3
  <2>4. ASSUME NEW r \in Requests, Load(r) PROVE Told
    <3>1. pm[r] \in PM /\ Versions(pm[r]) # {}
      BY <2>4 DEF Load, StoreInv, TypeOK
    <3>2. Latest(pm[r]) # Empty
      BY <3>1, LatestIsAModel, EmptyIsNoModel DEF StoreInv
    <3> QED
      BY <2>1, <2>4, <3>2 DEF Load
  <2>5. ASSUME NEW r \in Requests, LoadInteractions(r) PROVE Told
    <3>1. pm[r] \in PM
      BY <2>5 DEF LoadInteractions, StoreInv, TypeOK
    <3> QED
      BY <2>2, <2>3, <2>5, <3>1 DEF LoadInteractions
  <2>6. ASSUME NEW r \in Requests, Persist(r) PROVE Told
    <3>1. model[r] # Empty
      BY <2>6, EmptyIsNoModel DEF Persist, StoreInv, TypeOK, BuildInv
    <3> QED
      BY <2>1, <2>3, <2>6, <3>1 DEF Persist, GoOn
  <2>7. ASSUME NEW r \in Requests, Fetch(r) \/ QueryFails(r) PROVE Told
    BY <2>1, <2>3, <2>7, EmptyIsNoModel DEF Fetch, QueryFails
  <2>8. ASSUME NEW r \in Requests, Connected(r) \/ LoadNone(r) \/ LoadPrior(r)
        PROVE  reply' = reply
    BY <2>8 DEF Connected, LoadNone, LoadPrior
  <2>9. ASSUME NEW b \in Batches, WriterProgress(b) PROVE reply' = reply
    BY <2>9 DEF WriterProgress, NextWrite, WriterConnected, WriteFails, Write, requestVars
  <2> QED
    BY <2>3, <2>4, <2>5, <2>6, <2>7, <2>8, <2>9
    DEF Next, Progress, Request, BatchRefused, BatchAccepted, Crash, requestVars
<1> QED
  BY <1>1, StoreInvariant, PTL DEF Spec, EmptyMeansNoModel
=============================================================================
