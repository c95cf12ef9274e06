------------------------------- MODULE Learning -------------------------------
(***************************************************************************)
(* What the cognitive server learns of one PM: the calls of the PM's       *)
(* sessions reach pm_interactions late, in any order, never or, in a batch *)
(* replayed, again; the tools build, score, persist and read the model of  *)
(* transitions meanwhile (ecef/equilibrium.py, tools/suggest.py,           *)
(* tools/profile.py).  Every query is an await, and may fail.              *)
(*                                                                         *)
(* The table is read by timestamp.  A producer may stamp its events with   *)
(* the time of the call; the stamp of an event without one is the time it  *)
(* arrived, and then the order of the table may be any.                    *)
(***************************************************************************)
EXTENDS TransitionModel

CONSTANTS
  Histories,    \* the sequences of calls [tool, session, interval] considered
  Requests,     \* the requests
  MaxRows,      \* bound on the rows in pm_interactions
  NIterations   \* DEFAULT_N_ITERATIONS

ASSUME LearningAssumption ==
  /\ \A h \in Histories :
       h \in Seq([tool : Tool, session : {h[n].session : n \in DOMAIN h}, interval : Int])
  /\ NIterations \in Nat \ {0} /\ MaxRows \in Nat

VARIABLES
  calls,      \* the calls of the PM, in time order
  stamped,    \* the producer stamps its events with the time of the call
  delivered,  \* pm_interactions: the index of the call of each row, by timestamp
  store,      \* the persisted models, by version
  pc,         \* pc[r]: "new", the await r is at, or "done"
  profile,    \* profile[r]: a profile is asked, not a suggestion
  history,    \* history[r], the rows a profile has fetched
  train, held,  \* the rows r trains on and scores with
  model,      \* model[r], the model r persists next
  iter,       \* iter[r], the iterations before it
  previous,   \* previous[r], the accuracy of the iteration before it
  lone,       \* ghost: r found no prior model
  rich,       \* ghost: suggestion r was asked when the table held two calls of a
              \* session, and no other request was running
  answer      \* the answer the last step gave, or None

buildVars == <<train, held, model, iter, previous, lone>>
askVars == <<profile, rich>>
vars == <<calls, stamped, delivered, store, pc, history, buildVars, askVars, answer>>

\* The producer gives each event the tool called before it in its session.
Preceding(i) ==
  LET before == {j \in 1..i - 1 : calls[j].session = calls[i].session}
  IN IF before = {} THEN None ELSE calls[Max(before)].tool

Row(i) ==
  [tool |-> calls[i].tool, session |-> calls[i].session, prec |-> Preceding(i),
   interval |-> IF Preceding(i) = None THEN None ELSE calls[i].interval]

Rows(indices) == [n \in DOMAIN indices |-> Row(indices[n])]

\* Rows stamped with the time of the call are in the order of the calls.
InOrder(indices) ==
  stamped => \A m, n \in DOMAIN indices : m < n => indices[m] <= indices[n]

Latest == store[Max(DOMAIN store)]
Goto(r, l) == pc' = [pc EXCEPT ![r] = l]
-----------------------------------------------------------------------------
Init ==
  /\ calls \in Histories /\ stamped \in BOOLEAN /\ delivered = <<>>
  /\ store = [v \in {} |-> None]
  /\ pc = [r \in Requests |-> "new"]
  /\ profile = [r \in Requests |-> FALSE] /\ rich = [r \in Requests |-> FALSE]
  /\ history = [r \in Requests |-> <<>>]
  /\ train = [r \in Requests |-> <<>>] /\ held = [r \in Requests |-> <<>>]
  /\ model = [r \in Requests |-> None]
  /\ iter = [r \in Requests |-> 0] /\ previous = [r \in Requests |-> <<0, 1>>]
  /\ lone = [r \in Requests |-> FALSE]
  /\ answer = None

\* An event is written to pm_interactions, whether or not it was before.
Deliver(i) ==
  /\ Len(delivered) < MaxRows
  /\ \E n \in 1..Len(delivered) + 1 : delivered' = InsertAt(delivered, n, i)
  /\ InOrder(delivered')
  /\ answer' = None
  /\ UNCHANGED <<calls, stamped, store, pc, history, buildVars, askVars>>

\* suggest_next_action (p = FALSE) or get_pm_profile (p = TRUE).
Ask(r, p) ==
  /\ pc[r] = "new"
  /\ profile' = [profile EXCEPT ![r] = p]
  /\ rich' = [rich EXCEPT ![r] =
       /\ ~p /\ \A q \in Requests \ {r} : pc[q] \in {"new", "done"}
       /\ \E i, j \in Range(delivered) : i # j /\ calls[i].session = calls[j].session]
  /\ Goto(r, IF p THEN "fetch" ELSE "load")
  /\ answer' = None
  /\ UNCHANGED <<calls, stamped, delivered, store, history, buildVars>>

\* The request ends, and its locals with it.
Answer(r, kind, shown) ==
  /\ answer' = [kind |-> kind, shown |-> shown, rich |-> rich[r]]
  /\ Goto(r, "done")
  /\ profile' = [profile EXCEPT ![r] = FALSE] /\ rich' = [rich EXCEPT ![r] = FALSE]
  /\ history' = [history EXCEPT ![r] = <<>>]
  /\ train' = [train EXCEPT ![r] = <<>>] /\ held' = [held EXCEPT ![r] = <<>>]
  /\ model' = [model EXCEPT ![r] = None]
  /\ iter' = [iter EXCEPT ![r] = 0] /\ previous' = [previous EXCEPT ![r] = <<0, 1>>]
  /\ lone' = [lone EXCEPT ![r] = FALSE]

\* The answer read from a model.  The current tool of a suggestion, an argument
\* nothing reads before, is chosen here.
AnswerFrom(r, transitions, triggers) ==
  \/ /\ profile[r]
     /\ \E shown \in Profiles(Rows(history[r]), transitions, triggers) : Answer(r, "shown", shown)
  \/ /\ ~profile[r] /\ transitions = NoTransitions
     /\ Answer(r, "insufficient", {})
  \/ /\ ~profile[r] /\ transitions # NoTransitions
     /\ \E current \in Tool \cup {None} : \E shown \in Suggestions(transitions, current) :
          Answer(r, "shown", shown)

\* get_pm_profile fetches the history: there may be none.
Fetch(r) ==
  /\ pc[r] = "fetch"
  /\ IF delivered = <<>>
     THEN Answer(r, "shown", {})
     ELSE /\ history' = [history EXCEPT ![r] = delivered]
          /\ Goto(r, "load")
          /\ answer' = None
          /\ UNCHANGED <<buildVars, askVars>>
  /\ UNCHANGED <<calls, stamped, delivered, store>>

\* get_or_build_model.
Load(r) ==
  /\ pc[r] = "load"
  /\ IF DOMAIN store = {}
     THEN Goto(r, "interactions") /\ answer' = None /\ UNCHANGED <<history, buildVars, askVars>>
     ELSE AnswerFrom(r, Latest.transitions, Latest.triggers)
  /\ UNCHANGED <<calls, stamped, delivered, store>>

\* iterate: the rows are loaded and split; without any, an empty model that is
\* not persisted is the answer.
LoadInteractions(r) ==
  LET n == Split(Len(delivered))
  IN /\ pc[r] = "interactions"
     /\ IF delivered = <<>>
        THEN AnswerFrom(r, NoTransitions, {})
        ELSE /\ train' = [train EXCEPT ![r] = SubSeq(delivered, 1, n)]
             /\ held' = [held EXCEPT ![r] = SubSeq(delivered, n + 1, Len(delivered))]
             /\ Goto(r, "prior")
             /\ answer' = None
             /\ UNCHANGED <<history, model, iter, previous, lone, askVars>>
     /\ UNCHANGED <<calls, stamped, delivered, store>>
-----------------------------------------------------------------------------
\* build_model and evaluate: the models the next iteration may yield, from the
\* prior one or None.  With nothing held out the training rows are scored.
Built(r, prior, alone) ==
  LET transitions == Transitions(Rows(train[r]), IF prior = None THEN NoTransitions ELSE prior.transitions)
  IN {[version |-> IF prior = None THEN 1 ELSE prior.version + 1,
       transitions |-> transitions,
       triggers |-> Triggers(Rows(train[r])),
       accuracy |-> a, lone |-> alone, train |-> train[r]] :
        a \in Accuracies(transitions, Rows(IF held[r] = <<>> THEN train[r] ELSE held[r]))}

\* The prior model is loaded after the interactions: another request may have
\* persisted one since.
LoadPrior(r) ==
  /\ pc[r] = "prior"
  /\ \E m \in Built(r, IF DOMAIN store = {} THEN None ELSE Latest, DOMAIN store = {}) :
       model' = [model EXCEPT ![r] = m]
  /\ lone' = [lone EXCEPT ![r] = DOMAIN store = {}]
  /\ Goto(r, "persist")
  /\ answer' = None
  /\ UNCHANGED <<calls, stamped, delivered, store, history, train, held, iter, previous, askVars>>

\* Variant: prev_accuracy is not remembered from one iteration to the next.
ConvergedForgetting(n, accuracy, before) == n > 0 /\ Within(accuracy, <<0, 1>>)

\* The gap closes the loop from the second iteration on.
Converged(n, accuracy, before) == n > 0 /\ Within(accuracy, before)

Upsert(m) ==
  store' = [v \in DOMAIN store \cup {m.version} |-> IF v = m.version THEN m ELSE store[v]]

\* _persist_model, then the end of the loop or its next iteration.
Persist(r) ==
  /\ pc[r] = "persist"
  /\ Upsert(model[r])
  /\ IF Converged(iter[r], model[r].accuracy, previous[r]) \/ iter[r] + 1 = NIterations
     THEN AnswerFrom(r, model[r].transitions, model[r].triggers)
     ELSE /\ \E m \in Built(r, model[r], lone[r]) : model' = [model EXCEPT ![r] = m]
          /\ iter' = [iter EXCEPT ![r] = @ + 1]
          /\ previous' = [previous EXCEPT ![r] = model[r].accuracy]
          /\ answer' = None
          /\ UNCHANGED <<pc, history, train, held, lone, askVars>>
  /\ UNCHANGED <<calls, stamped, delivered>>

\* The query a request awaits raises; the row may have been written.
QueryFails(r) ==
  /\ pc[r] \in {"fetch", "load", "interactions", "prior", "persist"}
  /\ \/ UNCHANGED store
     \/ pc[r] = "persist" /\ Upsert(model[r])
  /\ Answer(r, "failed", {})
  /\ UNCHANGED <<calls, stamped, delivered>>

Next ==
  \/ \E i \in DOMAIN calls : Deliver(i)
  \/ \E r \in Requests :
       \/ \E p \in BOOLEAN : Ask(r, p)
       \/ Fetch(r) \/ Load(r) \/ LoadInteractions(r) \/ LoadPrior(r)
       \/ Persist(r) \/ QueryFails(r)

Spec == Init /\ [][Next]_vars
-----------------------------------------------------------------------------
\* Calls as the table may order and repeat them: in their order if they are stamped,
\* and each only once if none is in the table twice.
Recorded(place) == InOrder(place) /\ (IsInjective(delivered) => IsInjective(place))

\* The tools of the sequence are those of calls of one session.
Happened(sequence) ==
  \E place \in [DOMAIN sequence -> DOMAIN calls] :
    /\ \A k \in DOMAIN sequence :
         /\ calls[place[k]].tool = sequence[k]
         /\ calls[place[k]].session = calls[place[1]].session
    /\ Recorded(place)

\* Whatever a suggestion or a profile shows as a sequence of tools was called within one
\* session of the PM: no transition, chain or trigger is put together from two sessions,
\* whichever rows were missing, late or repeated, and whichever models of earlier builds
\* were blended in.  It was called in that order if the producer stamps its events, and
\* is no call followed by itself unless a row is in the table twice.
ShowsWhatHappened ==
  answer # None => \A sequence \in answer.shown : Happened(sequence)

\* No tool has two most probable successors.
Untied(m) ==
  \A from \in Known(m.transitions) : Cardinality(Predictions(m.transitions[from], 1)) = 1

\* A model built from nothing predicts exactly what its training rows count,
\* however often its loop blended it with itself; and unless two successors of a
\* tool tie, its accuracy then repeats and the loop is over by the second version.
LoneBuildSettles ==
  \A v \in DOMAIN store : store[v].lone =>
    LET m == store[v]
    IN /\ m.transitions = Counted(Rows(m.train))
       /\ v > 2 => ~Untied(m)

\* suggest.py tells the PM there is too little history only when there is: no two
\* calls of one session were in the table when the suggestion was asked, or
\* another request was at work.
InsufficientMeansInsufficient ==
  answer # None /\ answer.kind = "insufficient" => ~answer.rich
=============================================================================
