--------------------------- MODULE TransitionModel ---------------------------
(***************************************************************************)
(* The numerics of the cognitive server, as functions of the rows of one   *)
(* PM in time order: the transition matrix (ecef/constructor.py), its      *)
(* score (ecef/evaluator.py), the suggestions read from it                 *)
(* (tools/suggest.py), the recurring chains (patterns/sequential.py) and   *)
(* the most called tools (patterns/frequency.py).                          *)
(*                                                                         *)
(* A row of the matrix is exact: integer weights without a common divisor, *)
(* whose quotients by their sum are the code's probabilities.  The row of  *)
(* a tool with no transition, which the code leaves out, is all zeros.     *)
(* Which of several most probable tools comes first is a choice.           *)
(***************************************************************************)
EXTENDS Integers, SequencesExt

CONSTANTS
  Tool,
  Window,            \* DEFAULT_WINDOW, the length of a chain
  MinFrequency,      \* how often a chain is seen to be kept
  TriggerThreshold,  \* TRIGGER_INTERVAL_THRESHOLD_MS
  TopK,              \* the suggestions made, 3
  None

ASSUME TransitionAssumption ==
  /\ IsFiniteSet(Tool) /\ None \notin Tool
  /\ {Window, MinFrequency, TopK} \subseteq Nat \ {0} /\ TriggerThreshold \in Nat

\* Variant: the sessions are not told apart.
OfEverySession(rows, s) == rows

\* The rows of one session, in order (_group_by_session).
Of(rows, s) ==
  FlattenSeq([n \in DOMAIN rows |-> IF rows[n].session = s THEN <<rows[n]>> ELSE <<>>])

Sessions(rows) == {rows[n].session : n \in DOMAIN rows}
Tools(rows) == [i \in DOMAIN rows |-> rows[i].tool]

\* The n consecutive calls that begin at each place (session, index).
Windows(rows, n) ==
  UNION {LET tools == Tools(Of(rows, s))
         IN {[at |-> <<s, i>>, chain |-> SubSeq(tools, i, i + n - 1)] : i \in 1..Len(tools) - n + 1} :
           s \in Sessions(rows)}

\* How often a chain is among the windows.
Seen(windows, chain) == Cardinality({w \in windows : w.chain = chain})
-----------------------------------------------------------------------------
Weight(row) == SumFunctionOnSet(row, Tool)

\* Arithmetic of this representation, of which the code has none: a row of probabilities
\* is the smallest row of natural numbers in their proportion, so that equal rows are one
\* value.
gcd[x \in Nat \X Nat] == IF x[2] = 0 THEN x[1] ELSE gcd[<<x[2], x[1] % x[2]>>]

Normalised(row) ==
  LET d == FoldFunction(LAMBDA a, b : gcd[<<a, b>>], 0, row)
  IN [t \in Tool |-> IF d = 0 THEN 0 ELSE row[t] \div d]

\* The matrix of the rows alone.
Counted(rows) ==
  LET windows == Windows(rows, 2)
  IN [from \in Tool |-> Normalised([to \in Tool |-> Seen(windows, <<from, to>>)])]

\* 3/10 of the new row and 7/10 of the prior one, or the only one there is.
BlendRow(prior, new) ==
  IF Weight(prior) = 0 THEN new
  ELSE IF Weight(new) = 0 THEN prior
  ELSE Normalised([t \in Tool |-> 3 * new[t] * Weight(prior) + 7 * prior[t] * Weight(new)])

NoTransitions == [from \in Tool |-> [to \in Tool |-> 0]]

\* build_model: prior is NoTransitions when there is no prior model.
Transitions(rows, prior) ==
  LET new == Counted(rows) IN [from \in Tool |-> BlendRow(prior[from], new[from])]

\* The k of those scored that score best, fewer when there are fewer: ties are a choice.
Best(score, k) ==
  LET S == DOMAIN score
  IN {T \in SUBSET S : /\ Cardinality(T) = (IF Cardinality(S) < k THEN Cardinality(S) ELSE k)
                       /\ \A x \in T, y \in S \ T : score[x] >= score[y]}

\* The rows that say at which interval tool t was called after tool p.
Timed(rows, p, t) ==
  {i \in DOMAIN rows : rows[i].prec = p /\ rows[i].tool = t /\ rows[i].interval # None}

\* Their intervals, sorted.
Intervals(rows, p, t) ==
  LET order == SetToSortSeq(Timed(rows, p, t),
                 LAMBDA i, j : rows[i].interval < rows[j].interval
                               \/ (rows[i].interval = rows[j].interval /\ i < j))
  IN [n \in 1..Len(order) |-> rows[order[n]].interval]

\* The pairs timed twice or more, with a median interval within the threshold.
Triggers(rows) ==
  {[pair |-> pair, frequency |-> Cardinality(Timed(rows, pair[1], pair[2]))] :
     pair \in {x \in Tool \X Tool :
       LET n == Cardinality(Timed(rows, x[1], x[2]))
           times == Intervals(rows, x[1], x[2])
       IN n >= 2 /\ times[(n + 1) \div 2] + times[n \div 2 + 1] <= 2 * TriggerThreshold}}

\* The recurring chains, and the tools by their calls.
Chains(windows) == {w.chain : w \in {x \in windows : Seen(windows, x.chain) >= MinFrequency}}
Calls(rows, t) == Cardinality({i \in DOMAIN rows : rows[i].tool = t})
-----------------------------------------------------------------------------
Known(matrix) == {from \in Tool : Weight(matrix[from]) > 0}
Following(row) == {to \in Tool : row[to] > 0}

\* predict_next, and evaluate's argmax with k = 1.
Predictions(row, k) == Best([t \in Following(row) |-> row[t]], k)

\* The accuracies evaluate may return, as <<correct, predictions>>: a prediction
\* for each row whose preceding tool has transitions, the same one each time.
Accuracies(matrix, rows) ==
  LET known == Known(matrix)
      first == [from \in known |-> Predictions(matrix[from], 1)]
      tried == {i \in DOMAIN rows : rows[i].prec \in known}
      guesses == {g \in [known -> Tool] : \A from \in known : {g[from]} \in first[from]}
  IN IF tried = {} THEN {<<0, 1>>}
     ELSE {<<Cardinality({i \in tried : g[rows[i].prec] = rows[i].tool}), Cardinality(tried)>> :
             g \in guesses}

\* |a - b| < 1/100.
Within(a, b) ==
  LET d == 100 * (a[1] * b[2] - b[1] * a[2]) IN -(a[2] * b[2]) < d /\ d < a[2] * b[2]

\* The first 70 %, rounded up, are trained on.
Split(n) == (7 * n + 9) \div 10

\* The summed probability of a tool, over the product of the weights.
Score(matrix, t) ==
  MapThenSumSet(LAMBDA from :
      matrix[from][t] * FoldSet(LAMBDA f, w : w * Weight(matrix[f]), 1, Known(matrix) \ {from}),
    Known(matrix))

\* suggest_next_action, as the sets of sequences it may show: current then each
\* suggestion, or each suggestion alone when there is no current tool.
Suggestions(matrix, current) ==
  IF current = None
  THEN {{<<t>> : t \in T} : T \in
         Best([t \in UNION {Following(matrix[f]) : f \in Tool} |-> Score(matrix, t)], TopK)}
  ELSE {{<<current, t>> : t \in T} : T \in Predictions(matrix[current], TopK)}

\* What a profile shows: the primary tools, the chains, the triggers and the
\* matrix of the model.
Profiles(rows, matrix, triggers) ==
  LET windows == Windows(rows, Window)
  IN {{<<t>> : t \in P} \cup C \cup {x.pair : x \in R} \cup {pair \in Tool \X Tool : matrix[pair[1]][pair[2]] > 0} :
       P \in Best([t \in {u \in Tool : Calls(rows, u) > 0} |-> Calls(rows, t)], TopK),
       C \in Best([c \in Chains(windows) |-> Seen(windows, c)], TopK),
       R \in Best([x \in triggers |-> x.frequency], TopK)}
=============================================================================
