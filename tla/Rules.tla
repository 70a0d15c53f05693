-------------------------------- MODULE Rules --------------------------------
(***************************************************************************)
(* RuleBasedTriage: the fallback of every triage, and what classifies the    *)
(* demo data. Of a text it only matters how many keywords of each category   *)
(* occur in it, whether a word of high or of low priority does, and how long *)
(* its summary would be and whether it would be one line.                    *)
(***************************************************************************)
EXTENDS Naturals

\* The keys of KEYWORDS in the order they are declared, and how many keywords
\* each of them has.
Declared == <<"water", "electricity", "sanitation", "roads", "streetlights">>
Keywords == <<12, 13, 13, 11, 7>>
Keyworded == 1..5

Category == {Declared[i] : i \in Keyworded} \cup {"other"}
Priority == {"high", "normal", "low"}
SUMMARY_MAX == 140

\* score[i]: keywords of the category i in the text; length: of the summary with
\* its prefix, before it is cut; oneLine: what is kept of it is one line. (The
\* white space of the text is normalised, that inside the location is not.)
Text ==
  {t \in [score : [Keyworded -> Nat], high : BOOLEAN, low : BOOLEAN, length : Nat \ {0},
          oneLine : BOOLEAN] :
     \A i \in Keyworded : t.score[i] <= Keywords[i]}

\* What the schema accepts as a TriageResult, confidence in tenths.
TriageResult ==
  [category : Category, priority : Priority, summary : [length : 1..SUMMARY_MAX, oneLine : {TRUE}],
   confidence : 0..10]

\* Mutant: max() of the last maximum.
Best_Last(score) ==
  CHOOSE i \in Keyworded :
    /\ \A j \in Keyworded : score[j] <= score[i]
    /\ \A j \in Keyworded : j > i => score[j] < score[i]

\* max() returns the first maximum, in the order of the dictionary.
Best(score) ==
  CHOOSE i \in Keyworded :
    /\ \A j \in Keyworded : score[j] <= score[i]
    /\ \A j \in Keyworded : j < i => score[j] < score[i]

CategoryOf(t) ==
  IF t.score[Best(t.score)] > 0 THEN Declared[Best(t.score)] ELSE "other"

PriorityOf(t) == IF t.high THEN "high" ELSE IF t.low THEN "low" ELSE "normal"

ConfidenceOf(t) ==
  IF CategoryOf(t) = "other" THEN 3
  ELSE IF t.score[Best(t.score)] < 4 THEN 5 + t.score[Best(t.score)] ELSE 9

\* A summary that is too long is cut. (Without blanks at the cut, that is.)
triage(t) ==
  [category |-> CategoryOf(t), priority |-> PriorityOf(t),
   summary |-> [length |-> IF t.length > SUMMARY_MAX THEN SUMMARY_MAX ELSE t.length,
                oneLine |-> t.oneLine],
   confidence |-> ConfidenceOf(t)]
=============================================================================
