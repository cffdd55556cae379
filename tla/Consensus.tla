------------------------------ MODULE Consensus ------------------------------
(***************************************************************************)
(* How the answers of a consensus call are scored, scoreAgreement in       *)
(* packages/router/src/consensus.ts: one scoring per output type, and a    *)
(* flag low_confidence below the threshold 0.7.                            *)
(*                                                                         *)
(* Answers are numbered by participant.  A text is a number (its rank in   *)
(* the order of texts), a numeric answer an integer or NaN, a JSON answer  *)
(* a function from keys to values or Malformed.  For freeform answers the  *)
(* input is the matrix of cosine similarities, in tenths, which is all the *)
(* scoring reads of the TF-IDF vectors.  Scores are compared as fractions; *)
(* the rounding of the code's floating point numbers is left out.          *)
(***************************************************************************)
EXTENDS Sums, SequencesExt

CONSTANTS NaN, Malformed, Blank

\* Mutant of Scored: the majority of three is enough.
ScoredByMajority(response, outliers, num, den) ==
  [response |-> response, outliers |-> outliers, low |-> 10 * num < 6 * den]

\* A score of num/den, and whether it is below CONSENSUS_THRESHOLD.
Scored(response, outliers, num, den) ==
  [response |-> response, outliers |-> outliers, low |-> 10 * num < 7 * den]

-----------------------------------------------------------------------------
(* categorical: the majority, ties broken by the order of the texts        *)

Holders(answers, v) == {i \in DOMAIN answers : answers[i] = v}

TopCount(answers) == Max({Cardinality(Holders(answers, v)) : v \in ToSet(answers)})

ScoreCategorical(answers) ==
  LET top == TopCount(answers)
      winner == Min({v \in ToSet(answers) : Cardinality(Holders(answers, v)) = top})
  IN  Scored(winner, DOMAIN answers \ Holders(answers, winner), top, Len(answers))

-----------------------------------------------------------------------------
(* freeform: the answer closest to all others, and the least similarity    *)

\* The k-th smallest of the integers a function takes, repetitions counted.
Ranked(f, k) ==
  CHOOSE v \in {f[x] : x \in DOMAIN f} :
    /\ Cardinality({x \in DOMAIN f : f[x] < v}) < k
    /\ Cardinality({x \in DOMAIN f : f[x] <= v}) >= k

\* Twice their median.
TwiceMedian(f) ==
  LET n == Cardinality(DOMAIN f)
  IN  Ranked(f, (n + 1) \div 2) + Ranked(f, n \div 2 + 1)

Pairs(n) == {e \in SUBSET (1 .. n) : Cardinality(e) = 2}

ScoreFreeform(sim, n) ==
  LET near(i) == {sim[e] : e \in {d \in Pairs(n) : i \in d}}
      closeness(i) == SumOver({d \in Pairs(n) : i \in d}, sim)
      best == Max({closeness(i) : i \in 1 .. n})
  IN  IF sim = Blank
      THEN Scored(1, 1 .. n, 0, 1)
      ELSE Scored(Min({i \in 1 .. n : closeness(i) = best}),
                  {i \in 1 .. n : 2 * Max(near(i)) < TwiceMedian(sim)},
                  Min({sim[e] : e \in Pairs(n)}), 10)

-----------------------------------------------------------------------------
(* numeric: the mean of what is within 1.5 deviations, standard or median  *)

\* n^2 times the sum of the squared distances from the mean of n answers.
SquaredSpread(answers, S) ==
  Total([i \in S |-> (Cardinality(S) * answers[i] - SumOver(S, answers)) ^ 2])

Distance(x, y) == IF x > y THEN x - y ELSE y - x

FarAnswers(answers, parsed) ==
  LET n == Cardinality(parsed)
      median == TwiceMedian([i \in parsed |-> answers[i]])
      gap(v) == Distance(2 * v, median)
      mad == TwiceMedian([i \in parsed |-> gap(answers[i])])
      spread == SquaredSpread(answers, parsed)
      sdFlag(v) == 4 * n * (n * v - SumOver(parsed, answers)) ^ 2 > 9 * spread
      madFlag(v) == mad > 0 /\ 4 * gap(v) > 3 * mad
  IN  IF spread = 0 THEN {} ELSE {i \in parsed : sdFlag(answers[i]) \/ madFlag(answers[i])}

\* (1 - sd/|mean|) * valid/total < 7/10, for the standard deviation and the
\* mean of the answers in S.
TooScattered(answers, S, valid, total) ==
  LET m == Cardinality(S)
      room == 10 * valid - 7 * total
      spread == SquaredSpread(answers, S)
  IN  \/ room < 0
      \/ spread > 0 /\ 100 * valid ^ 2 * spread > m * SumOver(S, answers) ^ 2 * room ^ 2

ScoreNumeric(answers) ==
  LET total == Len(answers)
      parsed == {i \in 1 .. total : answers[i] # NaN}
      far == FarAnswers(answers, parsed)
      inliers == parsed \ far
      used == IF inliers = {} THEN parsed ELSE inliers
      outliers == 1 .. total \ inliers
  IN  CASE parsed = {} -> Scored(NaN, 1 .. total, 0, 1)
        [] Cardinality(parsed) = 1 ->
             Scored(<<SumOver(parsed, answers), 1>>, outliers,
                    IF outliers = {} THEN 1 ELSE 0, 1)
        [] OTHER ->
             [response |-> <<SumOver(used, answers), Cardinality(used)>>,
              outliers |-> outliers,
              low      |-> \/ inliers = {}
                           \/ TooScattered(answers, inliers, Cardinality(inliers), total)]

-----------------------------------------------------------------------------
(* json: key by key, the commonest value, ties broken by first appearance  *)

ScoreJson(answers) ==
  LET total == Len(answers)
      parsed == {i \in 1 .. total : answers[i] # Malformed}
      keys == UNION {DOMAIN answers[i] : i \in parsed}
      with(k) == {i \in parsed : k \in DOMAIN answers[i]}
      backers(k, i) == {j \in with(k) : answers[j][k] = answers[i][k]}
      top(k) == Max({Cardinality(backers(k, i)) : i \in with(k)})
      first(k) == Min({i \in with(k) : Cardinality(backers(k, i)) = top(k)})
      deviations(i) == {k \in keys : i \notin backers(k, first(k))}
      bad == 1 .. total \ parsed
  IN  CASE parsed = {} -> Scored(NaN, 1 .. total, 0, 1)
        [] parsed # {} /\ keys = {} -> Scored(<<>>, bad, Cardinality(parsed), total)
        [] OTHER ->
             Scored([k \in keys |-> answers[first(k)][k]],
                    bad \cup {i \in parsed : 2 * Cardinality(deviations(i)) > Cardinality(keys)},
                    Total([k \in keys |-> top(k)]), total * Cardinality(keys))

=============================================================================
