---------------------------- MODULE ScoringProofs ----------------------------
(***************************************************************************)
(* What the evidence of a tier says of itself, and what its two judges say *)
(* of one transcript: for every ladder, every session, every answer of the *)
(* server and every width of the judges' windows.                          *)
(***************************************************************************)
EXTENDS Scoring, ListsProofs

\* A turn is in one piece, and of the transcript.
LEMMA TurnIsWhole ==
  ASSUME NEW t \in Seq(Marks), NEW T \in Turns(t),
         NEW f \in T, NEW r \in T, NEW b \in DOMAIN t, f < b, b < r
  PROVE  b \in T
  <1>1. PICK a \in Of(t, DOMAIN t, {"assistant"}) : T = Turn(t, a)
    BY DEF Turns
  <1>2. a \in DOMAIN t /\ DOMAIN t = 1 .. Len(t) /\ Len(t) \in Nat
    BY <1>1 DEF Of
  <1>3. \A h \in Of(t, DOMAIN t, Headings) : h \in Int
    BY <1>2 DEF Of
  <1>4. f \in a .. Len(t) /\ r \in a .. Len(t) /\ b \in a .. Len(t)
    BY <1>1, <1>2 DEF Turn
  <1>5. ASSUME NEW h \in Of(t, DOMAIN t, Headings), a < h PROVE b < h
    <2>1. r < h
      BY <1>1, <1>5 DEF Turn
    <2> QED
      BY <2>1, <1>2, <1>3, <1>4
  <1> QED
    BY <1>1, <1>4, <1>5 DEF Turn

\* scan_turn and find_training_precedence_override: where the scanner reports an
\* override by a sign that both judges know, the verifier counts it too.
LEMMA OverrideIsHit ==
  ASSUME NEW t \in Seq(Marks), NEW T \in Turns(t),
         NEW f \in Of(t, TrainingPrecedenceOverride(t, T), {"failed"})
  PROVE  f \in OverrideHits(t)
  <1>1. f \in T /\ t[f] = "failed" /\ Of(t, After(T, f), {"blocked"}) = {}
    BY DEF Of, TrainingPrecedenceOverride
  <1>2. PICK r \in T : f < r /\ r <= f + Window /\ t[r] = "recall"
    BY DEF Of, TrainingPrecedenceOverride, After
  <1>3. T \subseteq DOMAIN t /\ DOMAIN t \subseteq Int
    BY DEF Turns, Turn, Of
  <1>4. ASSUME NEW b \in All(t, {"blocked"}), f < b, b < r PROVE FALSE
    <2>1. b \in DOMAIN t /\ t[b] = "blocked"
      BY DEF All, Of
    <2>2. b \in T
      BY <1>1, <1>4, <2>1, TurnIsWhole
    <2>3. f \in Int /\ b \in Int /\ r \in Int /\ Window \in Int
      BY <1>1, <1>3, <2>1, WindowAssumption
    <2>4. b <= f + Window
      BY <1>2, <1>4, <2>3
    <2> QED
      BY <1>1, <1>4, <2>1, <2>2, <2>4 DEF Of, After
  <1> QED
    BY <1>1, <1>2, <1>3, <1>4 DEF OverrideHits, All, Of

\* grade_cvv: such a transcript fails, whatever else it holds and with the
\* language model or without.
THEOREM OverrideFails ==
  ASSUME NEW t \in Seq(Marks), NEW nlp \in BOOLEAN, NEW T \in Turns(t),
         Of(t, TrainingPrecedenceOverride(t, T), {"failed"}) # {}
  PROVE  Grade(t, nlp) = "FAIL"
  <1>1. OverrideHits(t) # {}
    BY OverrideIsHit
  <1> QED
    BY <1>1 DEF Grade

-----------------------------------------------------------------------------
(* What the scanner finds in a message it finds in every transcript that   *)
(* the message stands in.                                                  *)

\* r is in t, after the n-th mark; and there a heading follows it, or nothing.
Stands(r, t, n) ==
  /\ n \in Nat /\ n + Len(r) <= Len(t)
  /\ \A i \in 1 .. Len(r) : t[n + i] = r[i]
EndsAt(t, k) == k = Len(t) \/ t[k + 1] \in Headings
Within(r, t) == \E n \in Nat : Stands(r, t, n) /\ EndsAt(t, n + Len(r))

LEMMA PlacedIsWithin ==
  ASSUME NEW pre \in Seq(Marks), NEW r \in Seq(Marks), NEW post \in Seq(Marks),
         Opens(post, Headings)
  PROVE  Within(r, (pre \o r) \o post)
  <1> DEFINE n == Len(pre)
             t == (pre \o r) \o post
  <1>1. pre \o r \in Seq(Marks) /\ t \in Seq(Marks) /\ Len(pre \o r) = n + Len(r)
        /\ Len(t) = n + Len(r) + Len(post) /\ n \in Nat /\ Len(r) \in Nat /\ Len(post) \in Nat
    OBVIOUS
  <1>2. ASSUME NEW i \in 1 .. Len(r) PROVE t[n + i] = r[i]
    <2>1. (pre \o r)[n + i] = r[i]
      OBVIOUS
    <2>2. t[n + i] = (pre \o r)[n + i]
      BY <1>1
    <2> QED
      BY <2>1, <2>2
  <1>3. EndsAt(t, n + Len(r))
    <2>1. CASE post = <<>>
      BY <1>1, <2>1 DEF EndsAt
    <2>2. CASE post # <<>>
      <3>1. Len(post) >= 1
        BY <2>2
      <3>2. t[n + Len(r) + 1] = post[1]
        BY <1>1, <3>1
      <3> QED
        BY <2>2, <3>2 DEF EndsAt, Opens
    <2> QED
      BY <2>1, <2>2
  <1>4. Stands(r, t, n)
    BY <1>1, <1>2 DEF Stands
  <1> QED
    BY <1>1, <1>3, <1>4 DEF Within

LEMMA WithinTrans ==
  ASSUME NEW r \in Seq(Marks), NEW s \in Seq(Marks), NEW t \in Seq(Marks),
         Within(r, s), Within(s, t)
  PROVE  Within(r, t)
  <1>1. PICK n \in Nat : Stands(r, s, n) /\ EndsAt(s, n + Len(r))
    BY DEF Within
  <1>2. PICK m \in Nat : Stands(s, t, m) /\ EndsAt(t, m + Len(s))
    BY DEF Within
  <1>3. Len(r) \in Nat /\ Len(s) \in Nat /\ Len(t) \in Nat
    OBVIOUS
  <1>4. Stands(r, t, m + n)
    <2>1. ASSUME NEW i \in 1 .. Len(r) PROVE t[(m + n) + i] = r[i]
      <3>1. n + i \in 1 .. Len(s) /\ s[n + i] = r[i]
        BY <1>1, <1>3 DEF Stands
      <3>2. t[m + (n + i)] = s[n + i]
        BY <1>2, <3>1 DEF Stands
      <3>3. m + (n + i) = (m + n) + i
        OBVIOUS
      <3> QED
        BY <3>1, <3>2, <3>3
    <2> QED
      BY <1>1, <1>2, <1>3, <2>1 DEF Stands
  <1>5. EndsAt(t, (m + n) + Len(r))
    <2>1. CASE n + Len(r) = Len(s)
      <3>1. (m + n) + Len(r) = m + Len(s)
        BY <1>3, <2>1
      <3> QED
        BY <1>2, <3>1
    <2>2. CASE n + Len(r) # Len(s)
      <3>1. s[(n + Len(r)) + 1] \in Headings /\ (n + Len(r)) + 1 \in 1 .. Len(s)
        BY <1>1, <1>3, <2>2 DEF EndsAt, Stands
      <3>2. t[m + ((n + Len(r)) + 1)] = s[(n + Len(r)) + 1]
        BY <1>2, <3>1 DEF Stands
      <3>3. m + ((n + Len(r)) + 1) = ((m + n) + Len(r)) + 1
        BY <1>3
      <3> QED
        BY <3>1, <3>2, <3>3 DEF EndsAt
    <2> QED
      BY <2>1, <2>2
  <1>6. m + n \in Nat
    OBVIOUS
  <1> QED
    BY <1>4, <1>5, <1>6 DEF Within

\* The two halves of a transcript.
LEMMA WithinHalves ==
  ASSUME NEW a \in Seq(Marks), NEW b \in Seq(Marks), Opens(b, Headings)
  PROVE  Within(a, a \o b) /\ Within(b, a \o b)
  <1>1. Within(a, (<<>> \o a) \o b)
    <2>1. <<>> \in Seq(Marks)
      OBVIOUS
    <2> QED
      BY <2>1, PlacedIsWithin
  <1>2. Within(b, (a \o b) \o <<>>)
    <2>1. <<>> \in Seq(Marks) /\ Opens(<<>>, Headings)
      BY DEF Opens
    <2> QED
      BY <2>1, PlacedIsWithin
  <1>3. (<<>> \o a) \o b = a \o b /\ (a \o b) \o <<>> = a \o b
    OBVIOUS
  <1> QED
    BY <1>1, <1>2, <1>3

\* The marks of a kind that r holds are those that t holds there.
LEMMA OfThere ==
  ASSUME NEW r \in Seq(Marks), NEW t \in Seq(Marks), NEW n, Stands(r, t, n), NEW K
  PROVE  /\ \A i \in Of(r, 1 .. Len(r), K) :
              i \in 1 .. Len(r) /\ n + i \in Of(t, n + 1 .. n + Len(r), K)
         /\ \A j \in Of(t, n + 1 .. n + Len(r), K) :
              j \in n + 1 .. n + Len(r) /\ j - n \in Of(r, 1 .. Len(r), K)
  <1>1. n \in Nat /\ Len(r) \in Nat
    BY DEF Stands
  <1>2. ASSUME NEW i \in Of(r, 1 .. Len(r), K)
        PROVE  i \in 1 .. Len(r) /\ n + i \in Of(t, n + 1 .. n + Len(r), K)
    BY <1>1 DEF Of, Stands
  <1>3. ASSUME NEW j \in Of(t, n + 1 .. n + Len(r), K)
        PROVE  j \in n + 1 .. n + Len(r) /\ j - n \in Of(r, 1 .. Len(r), K)
    <2>1. j \in n + 1 .. n + Len(r) /\ t[j] \in K
      BY DEF Of
    <2>2. j - n \in 1 .. Len(r) /\ n + (j - n) = j
      BY <1>1, <2>1
    <2>3. t[n + (j - n)] = r[j - n]
      BY <2>2 DEF Stands
    <2> QED
      BY <2>1, <2>2, <2>3 DEF Of
  <1> QED
    BY <1>2, <1>3

\* Each rule that reports something in r reports it where r stands.
LEMMA IntentThere ==
  ASSUME NEW r \in Seq(Marks), NEW t \in Seq(Marks), NEW n, Stands(r, t, n),
         IntentWithoutAttempt(r, 1 .. Len(r)) # {}
  PROVE  IntentWithoutAttempt(t, n + 1 .. n + Len(r)) # {}
  <1> DEFINE U == 1 .. Len(r)
             T == n + 1 .. n + Len(r)
  <1>1. n \in Nat /\ Len(r) \in Nat
    BY DEF Stands
  <1>2. \A K : \A i \in Of(r, U, K) : i \in U /\ i \in Int /\ n + i \in Of(t, T, K)
    BY <1>1, OfThere
  <1>3. \A K : \A j \in Of(t, T, K) : j \in T /\ j \in Int /\ j - n \in Of(r, U, K)
    BY <1>1, OfThere
  <1>4. PICK i \in Of(r, U, {"intent"}) : \A c \in Of(r, U, Calls) : c < i
    BY DEF IntentWithoutAttempt
  <1> HIDE DEF U, T
  <1>5. ASSUME NEW c \in Of(t, T, Calls) PROVE c < n + i
    <2>1. c - n \in Of(r, U, Calls) /\ c \in Int
      BY <1>3
    <2>2. c - n < i /\ i \in Int
      BY <1>2, <1>4, <2>1
    <2> QED
      BY <1>1, <2>1, <2>2
  <1>6. n + i \in IntentWithoutAttempt(t, T)
    BY <1>2, <1>5 DEF IntentWithoutAttempt
  <1> QED
    BY <1>6 DEF T

LEMMA OverrideThere ==
  ASSUME NEW r \in Seq(Marks), NEW t \in Seq(Marks), NEW n, Stands(r, t, n),
         TrainingPrecedenceOverride(r, 1 .. Len(r)) # {}
  PROVE  TrainingPrecedenceOverride(t, n + 1 .. n + Len(r)) # {}
  <1> DEFINE U == 1 .. Len(r)
             T == n + 1 .. n + Len(r)
  <1>1. n \in Nat /\ Len(r) \in Nat
    BY DEF Stands
  <1>2. \A K : \A i \in Of(r, U, K) : i \in U /\ i \in Int /\ n + i \in Of(t, T, K)
    BY <1>1, OfThere
  <1>3. \A K : \A j \in Of(t, T, K) : j \in T /\ j \in Int /\ j - n \in Of(r, U, K)
    BY <1>1, OfThere
  <1>4. PICK f \in Of(r, U, Failures) : /\ Of(r, After(U, f), {"recall"}) # {}
                                        /\ Of(r, After(U, f), {"blocked"}) = {}
    BY DEF TrainingPrecedenceOverride
  <1>5. \A K : \A V \in {U, T} : \A x : \A g : g \in Of(x, After(V, f), K)
                                              <=> g \in Of(x, V, K) /\ f < g /\ g <= f + Window
    BY DEF Of, After
  <1>6. \A K : \A x : \A g : g \in Of(x, After(T, n + f), K)
                              <=> g \in Of(x, T, K) /\ n + f < g /\ g <= (n + f) + Window
    BY DEF Of, After
  <1> HIDE DEF U, T
  <1>7. PICK g \in Of(r, U, {"recall"}) : f < g /\ g <= f + Window
    BY <1>4, <1>5
  <1>8. f \in Int /\ g \in Int /\ Window \in Int
    BY <1>2, <1>7, WindowAssumption
  <1>9. n + g \in Of(t, After(T, n + f), {"recall"})
    <2>1. n + g \in Of(t, T, {"recall"})
      BY <1>2, <1>7
    <2>2. n + f < n + g /\ n + g <= (n + f) + Window
      BY <1>1, <1>7, <1>8
    <2> QED
      BY <1>6, <2>1, <2>2
  <1>10. ASSUME NEW b \in Of(t, After(T, n + f), {"blocked"}) PROVE FALSE
    <2>1. b \in Of(t, T, {"blocked"}) /\ n + f < b /\ b <= (n + f) + Window
      BY <1>6
    <2>2. b - n \in Of(r, U, {"blocked"}) /\ b \in Int
      BY <1>3, <2>1
    <2>3. f < b - n /\ b - n <= f + Window
      BY <1>1, <1>8, <2>1, <2>2
    <2> QED
      BY <1>4, <1>5, <2>2, <2>3
  <1>11. n + f \in TrainingPrecedenceOverride(t, T)
    BY <1>2, <1>9, <1>10 DEF TrainingPrecedenceOverride
  <1> QED
    BY <1>11 DEF T

LEMMA CorrectionThere ==
  ASSUME NEW r \in Seq(Marks), NEW t \in Seq(Marks), NEW n, Stands(r, t, n),
         UnstructuredSelfCorrection(r, 1 .. Len(r)) # {}
  PROVE  UnstructuredSelfCorrection(t, n + 1 .. n + Len(r)) # {}
  <1> DEFINE U == 1 .. Len(r)
             T == n + 1 .. n + Len(r)
  <1>1. n \in Nat /\ Len(r) \in Nat
    BY DEF Stands
  <1>2. \A K : \A i \in Of(r, U, K) : i \in U /\ i \in Int /\ n + i \in Of(t, T, K)
    BY <1>1, OfThere
  <1>3. \A K : \A j \in Of(t, T, K) : j \in T /\ j \in Int /\ j - n \in Of(r, U, K)
    BY <1>1, OfThere
  <1>4. PICK i \in Of(r, U, {"catch"}) : Of(r, U, {"corrected"}) = {}
    BY DEF UnstructuredSelfCorrection
  <1> HIDE DEF U, T
  <1>5. n + i \in UnstructuredSelfCorrection(t, T)
    BY <1>2, <1>3, <1>4 DEF UnstructuredSelfCorrection
  <1> QED
    BY <1>5 DEF T

LEMMA BlanketThere ==
  ASSUME NEW r \in Seq(Marks), NEW t \in Seq(Marks), NEW n, Stands(r, t, n),
         BlanketClosingAssessment(r, 1 .. Len(r)) # {}
  PROVE  BlanketClosingAssessment(t, n + 1 .. n + Len(r)) # {}
  <1> DEFINE U == 1 .. Len(r)
             T == n + 1 .. n + Len(r)
  <1>1. n \in Nat /\ Len(r) \in Nat
    BY DEF Stands
  <1>2. \A K : \A i \in Of(r, U, K) : i \in U /\ i \in Int /\ n + i \in Of(t, T, K)
    BY <1>1, OfThere
  <1>3. \A K : \A j \in Of(t, T, K) : j \in T /\ j \in Int /\ j - n \in Of(r, U, K)
    BY <1>1, OfThere
  <1>4. PICK m \in Of(r, U, {"blanket"}) : /\ \E h \in Of(r, U, {"hedge"}) : h < m
                                           /\ Of(r, Sentence(r, U, m), {"hedge"}) = {}
    BY DEF BlanketClosingAssessment
  <1> HIDE DEF U, T
  <1>5. PICK h \in Of(r, U, {"hedge"}) : h < m
    BY <1>4
  <1>6. n + h \in Of(t, T, {"hedge"}) /\ n + h < n + m /\ m \in Int /\ h \in Int
    BY <1>1, <1>2, <1>5
  <1>7. ASSUME NEW g \in Of(t, Sentence(t, T, n + m), {"hedge"}) PROVE FALSE
    <2>1. /\ g \in Of(t, T, {"hedge"})
          /\ \A s \in Of(t, T, {"stop"}) : (g <= s => n + m <= s) /\ (s < g => s < n + m)
      BY DEF Of, Sentence
    <2>2. g - n \in Of(r, U, {"hedge"}) /\ g \in Int
      BY <1>3, <2>1
    <2>3. ASSUME NEW s \in Of(r, U, {"stop"})
          PROVE  (g - n <= s => m <= s) /\ (s < g - n => s < m)
      <3>1. n + s \in Of(t, T, {"stop"}) /\ s \in Int
        BY <1>2
      <3>2. (g <= n + s => n + m <= n + s) /\ (n + s < g => n + s < n + m)
        BY <2>1, <3>1
      <3> QED
        BY <1>1, <1>6, <2>2, <3>1, <3>2
    <2>4. g - n \in Of(r, Sentence(r, U, m), {"hedge"})
      BY <2>2, <2>3 DEF Of, Sentence
    <2> QED
      BY <1>4, <2>4
  <1>8. n + m \in BlanketClosingAssessment(t, T)
    BY <1>2, <1>6, <1>7 DEF BlanketClosingAssessment
  <1> QED
    BY <1>8 DEF T

LEMMA HedgeDropThere ==
  ASSUME NEW r \in Seq(Marks), NEW t \in Seq(Marks), NEW n, Stands(r, t, n),
         PossibleHedgeDrop(r, 1 .. Len(r)) # {}
  PROVE  PossibleHedgeDrop(t, n + 1 .. n + Len(r)) # {}
  <1> DEFINE U == 1 .. Len(r)
             T == n + 1 .. n + Len(r)
  <1>1. n \in Nat /\ Len(r) \in Nat
    BY DEF Stands
  <1>2. \A K : \A i \in Of(r, U, K) : i \in U /\ i \in Int /\ n + i \in Of(t, T, K)
    BY <1>1, OfThere
  <1>3. \A K : \A j \in Of(t, T, K) : j \in T /\ j \in Int /\ j - n \in Of(r, U, K)
    BY <1>1, OfThere
  <1>4. PICK c \in Of(r, U, Calls) :
          /\ \A d \in Of(r, U, Calls) : d <= c
          /\ \E k \in Of(r, U, {"thinking"}), h \in Of(r, U, {"hedge"}) : k < h /\ h < c
          /\ \E i \in Of(r, U, Sure) : c < i
          /\ \A h \in Of(r, U, {"hedge"}) : h < c
    BY DEF PossibleHedgeDrop
  <1> HIDE DEF U, T
  <1>5. PICK k \in Of(r, U, {"thinking"}), h \in Of(r, U, {"hedge"}) : k < h /\ h < c
    BY <1>4
  <1>6. PICK i \in Of(r, U, Sure) : c < i
    BY <1>4
  <1>7. c \in Int /\ k \in Int /\ h \in Int /\ i \in Int
    BY <1>2
  <1>8. n + k < n + h /\ n + h < n + c /\ n + c < n + i
    BY <1>1, <1>5, <1>6, <1>7
  <1>9. ASSUME NEW d \in Of(t, T, Calls) PROVE d <= n + c
    <2>1. d - n <= c /\ d \in Int
      BY <1>3, <1>4
    <2> QED
      BY <1>1, <1>7, <2>1
  <1>10. ASSUME NEW g \in Of(t, T, {"hedge"}) PROVE g < n + c
    <2>1. g - n < c /\ g \in Int
      BY <1>3, <1>4
    <2> QED
      BY <1>1, <1>7, <2>1
  <1>11. /\ n + c \in Of(t, T, Calls) /\ n + k \in Of(t, T, {"thinking"})
         /\ n + h \in Of(t, T, {"hedge"}) /\ n + i \in Of(t, T, Sure)
    BY <1>2
  <1>12. n + c \in PossibleHedgeDrop(t, T)
    BY <1>8, <1>9, <1>10, <1>11 DEF PossibleHedgeDrop
  <1> QED
    BY <1>12 DEF T

LEMMA TrustThere ==
  ASSUME NEW r \in Seq(Marks), NEW t \in Seq(Marks), NEW n, Stands(r, t, n),
         SecondaryRenderingTrust(r, 1 .. Len(r)) # {}
  PROVE  SecondaryRenderingTrust(t, n + 1 .. n + Len(r)) # {}
  <1> DEFINE U == 1 .. Len(r)
             T == n + 1 .. n + Len(r)
  <1>1. n \in Nat /\ Len(r) \in Nat
    BY DEF Stands
  <1>2. \A K : \A i \in Of(r, U, K) : i \in U /\ i \in Int /\ n + i \in Of(t, T, K)
    BY <1>1, OfThere
  <1>3. \A K : \A j \in Of(t, T, K) : j \in T /\ j \in Int /\ j - n \in Of(r, U, K)
    BY <1>1, OfThere
  <1>4. PICK i \in Of(r, U, {"call-render"}) :
          \E c \in Of(r, U, {"artifact"}) :
            i < c /\ \A d \in Of(r, U, {"call-direct"}) : ~(i < d /\ d < c)
    BY DEF SecondaryRenderingTrust
  <1>5. PICK c \in Of(r, U, {"artifact"}) :
          i < c /\ \A d \in Of(r, U, {"call-direct"}) : ~(i < d /\ d < c)
    BY <1>4
  <1> HIDE DEF U, T
  <1>6. /\ n + i \in Of(t, T, {"call-render"}) /\ n + c \in Of(t, T, {"artifact"})
        /\ i \in Int /\ c \in Int
    BY <1>2
  <1>7. ASSUME NEW d \in Of(t, T, {"call-direct"}) PROVE ~(n + i < d /\ d < n + c)
    <2>1. ~(i < d - n /\ d - n < c) /\ d \in Int
      BY <1>3, <1>5
    <2> QED
      BY <1>1, <1>6, <2>1
  <1>8. n + i < n + c
    BY <1>1, <1>5, <1>6
  <1>9. n + i \in SecondaryRenderingTrust(t, T)
    BY <1>6, <1>7, <1>8 DEF SecondaryRenderingTrust
  <1> QED
    BY <1>9 DEF T

\* A message opens with a heading, and has no other.
OneHeading(r) ==
  r # <<>> /\ r[1] \in Headings /\ \A i \in 2 .. Len(r) : r[i] \notin Headings

\* scan_file: what it finds in one message by itself, it finds in a transcript
\* that the message stands in.
THEOREM FoundThere ==
  ASSUME NEW r \in Seq(Marks), NEW t \in Seq(Marks), OneHeading(r), Within(r, t)
  PROVE  Found(r) \subseteq Found(t)
  <1>1. PICK n \in Nat : Stands(r, t, n) /\ EndsAt(t, n + Len(r))
    BY DEF Within
  <1>2. Len(r) \in Nat /\ 1 \in 1 .. Len(r) /\ Len(t) \in Nat /\ n + Len(r) <= Len(t)
    BY <1>1 DEF OneHeading, Stands
  <1>3. DOMAIN r = 1 .. Len(r) /\ DOMAIN t = 1 .. Len(t)
    OBVIOUS
  <1>4. ASSUME NEW a \in Of(r, DOMAIN r, {"assistant"})
        PROVE  a = 1 /\ Turn(r, a) = 1 .. Len(r) /\ r[1] = "assistant"
    <2>1. a \in 1 .. Len(r) /\ r[a] = "assistant"
      BY <1>3 DEF Of
    <2>2. a = 1
      <3>1. a # 1 => a \in 2 .. Len(r)
        BY <1>2, <2>1
      <3> QED
        BY <2>1, <3>1 DEF OneHeading, Headings
    <2>3. \A h \in Of(r, DOMAIN r, Headings) : ~(1 < h)
      <3>1. \A h \in DOMAIN r : 1 < h => h \in 2 .. Len(r)
        BY <1>2, <1>3
      <3> QED
        BY <3>1 DEF Of, OneHeading
    <2> QED
      BY <2>1, <2>2, <2>3 DEF Turn
  <1>5. r[1] = "assistant" => n + 1 .. n + Len(r) \in Turns(t)
    <2> SUFFICES ASSUME r[1] = "assistant" PROVE n + 1 .. n + Len(r) \in Turns(t)
      OBVIOUS
    <2>1. n + 1 \in DOMAIN t /\ t[n + 1] = "assistant"
      BY <1>1, <1>2, <1>3 DEF Stands
    <2>2. ASSUME NEW h \in Of(t, DOMAIN t, Headings), n + 1 < h PROVE n + Len(r) < h
      <3>1. h \in 1 .. Len(t) /\ t[h] \in Headings
        BY <1>3 DEF Of
      <3>2. SUFFICES ASSUME h <= n + Len(r) PROVE FALSE
        BY <1>2, <3>1
      <3>3. h - n \in 2 .. Len(r) /\ h - n \in 1 .. Len(r) /\ n + (h - n) = h
        BY <1>2, <2>2, <3>1, <3>2
      <3>4. t[n + (h - n)] = r[h - n]
        BY <1>1, <3>3 DEF Stands
      <3> QED
        BY <3>1, <3>3, <3>4 DEF OneHeading
    <2>3. ASSUME NEW i \in n + 1 .. Len(t),
                 \A h \in Of(t, DOMAIN t, Headings) : n + 1 < h => i < h
          PROVE  i <= n + Len(r)
      <3>1. CASE n + Len(r) = Len(t)
        BY <3>1, <1>2
      <3>2. CASE n + Len(r) # Len(t)
        <4>1. n + Len(r) + 1 \in Of(t, DOMAIN t, Headings)
          <5>1. n + Len(r) + 1 \in DOMAIN t
            <6>1. n + Len(r) < Len(t)
              BY <1>2, <3>2
            <6>2. n + Len(r) + 1 \in 1 .. Len(t)
              BY <1>2, <6>1
            <6> QED
              BY <1>3, <6>2
          <5>2. t[n + Len(r) + 1] \in Headings
            BY <1>1, <3>2 DEF EndsAt
          <5> QED
            BY <5>1, <5>2 DEF Of
        <4>2. i < n + Len(r) + 1
          BY <1>2, <2>3, <4>1
        <4> QED
          BY <1>2, <4>2
      <3> QED
        BY <3>1, <3>2
    <2>4. Turn(t, n + 1) = n + 1 .. n + Len(r)
      <3>1. Turn(t, n + 1) \subseteq n + 1 .. n + Len(r)
        BY <1>2, <2>3 DEF Turn
      <3>2. ASSUME NEW i \in n + 1 .. n + Len(r) PROVE i \in Turn(t, n + 1)
        <4>1. i \in n + 1 .. Len(t)
          BY <1>2
        <4>2. \A h \in Of(t, DOMAIN t, Headings) : h \in Int
          BY <1>3 DEF Of
        <4>3. \A h \in Of(t, DOMAIN t, Headings) : n + 1 < h => i < h
          BY <1>2, <2>2, <4>2
        <4> QED
          BY <4>1, <4>3 DEF Turn
      <3> QED
        BY <3>1, <3>2
    <2>5. n + 1 \in Of(t, DOMAIN t, {"assistant"})
      BY <2>1 DEF Of
    <2> QED
      BY <2>4, <2>5 DEF Turns
  <1>6. ASSUME NEW k \in Found(r) PROVE k \in Found(t)
    <2>1. PICK T \in Turns(r) : k \in Kinds /\ Rules(r, T)[k] # {}
      BY DEF Found
    <2>2. T = 1 .. Len(r) /\ r[1] = "assistant"
      BY <1>4 DEF Turns
    <2> DEFINE there == n + 1 .. n + Len(r)
    <2>3. there \in Turns(t)
      BY <1>5, <2>2
    <2>4. Rules(t, there)[k] # {}
      <3>1. CASE k = "INTENT_WITHOUT_ATTEMPT"
        BY <1>1, <2>1, <2>2, <3>1, IntentThere DEF Rules
      <3>2. CASE k = "TRAINING_PRECEDENCE_OVERRIDE"
        BY <1>1, <2>1, <2>2, <3>2, OverrideThere DEF Rules
      <3>3. CASE k = "UNSTRUCTURED_SELF_CORRECTION"
        BY <1>1, <2>1, <2>2, <3>3, CorrectionThere DEF Rules
      <3>4. CASE k = "BLANKET_CLOSING_ASSESSMENT"
        BY <1>1, <2>1, <2>2, <3>4, BlanketThere DEF Rules
      <3>5. CASE k = "POSSIBLE_HEDGE_DROP"
        BY <1>1, <2>1, <2>2, <3>5, HedgeDropThere DEF Rules
      <3>6. CASE k = "SECONDARY_RENDERING_TRUST"
        BY <1>1, <2>1, <2>2, <3>6, TrustThere DEF Rules
      <3> QED
        BY <2>1, <3>1, <3>2, <3>3, <3>4, <3>5, <3>6 DEF Kinds
    <2> QED
      BY <2>1, <2>3, <2>4 DEF Found
  <1> QED
    BY <1>6

-----------------------------------------------------------------------------
(* What is read and what is written are marks.                             *)

LEMMA PartsAre ==
  ASSUME NEW m \in Messages
  PROVE  /\ m.role \in Headings /\ m.parts \in Seq(Parts)
         /\ \A i \in DOMAIN m.parts :
              m.parts[i] \in Parts /\ m.parts[i].tool \in Calls
              /\ m.parts[i].asked \in Seq(Marks) /\ m.parts[i].said \in Seq(Marks)
  <1>1. \A i \in DOMAIN m.parts : m.parts[i] \in Parts
    BY DEF Messages
  <1>2. \A q \in Seq(Marks \ Headings) : q \in Seq(Marks)
    OBVIOUS
  <1> QED
    BY <1>1, <1>2 DEF Messages, Parts

LEMMA CutIsMarks ==
  ASSUME NEW n \in Nat, NEW marks \in Seq(Marks)
  PROVE  CutTo(n, marks) \in Seq(Marks)
  BY DEF CutTo

LEMMA RenderPartType ==
  ASSUME NEW p, p.tool \in Calls, p.asked \in Seq(Marks), p.said \in Seq(Marks)
  PROVE  RenderPart(p) \in Seq(Marks) /\ OldTool(p) \in Seq(Marks)
  <1>1. <<p.tool>> \in Seq(Marks) /\ <<"cut">> \in Seq(Marks) /\ <<>> \in Seq(Marks)
    BY DEF Marks
  <1>2. CutTo(Cap, p.said) \in Seq(Marks) /\ CutTo(OldCap, p.said) \in Seq(Marks)
    BY CutIsMarks, CapAssumption
  <1>3. <<p.tool>> \o p.asked \in Seq(Marks)
    BY <1>1
  <1>4. <<p.tool>> \o p.asked \o CutTo(Cap, p.said) \in Seq(Marks)
    BY <1>2, <1>3
  <1>5. RenderTool(p) \in Seq(Marks)
    BY <1>1, <1>4 DEF RenderTool
  <1>6. OldTool(p) \in Seq(Marks)
    BY <1>2, <1>3 DEF OldTool
  <1> QED
    BY <1>1, <1>5, <1>6 DEF RenderPart

LEMMA RenderMessageType ==
  ASSUME NEW m \in Messages
  PROVE  /\ Each(RenderPart, m.parts) \in Seq(Marks)
         /\ RenderMessage(m) \in Seq(Marks) /\ RenderMessage(m)[1] = m.role
  <1> DEFINE s == [i \in DOMAIN m.parts |-> RenderPart(m.parts[i])]
  <1>1. \A i \in DOMAIN m.parts : RenderPart(m.parts[i]) \in Seq(Marks)
    BY PartsAre, RenderPartType
  <1>2. s \in Seq(Seq(Marks))
    BY <1>1, PartsAre
  <1>3. Each(RenderPart, m.parts) = FlattenSeq(s)
    BY DEF Each
  <1> HIDE DEF s
  <1>4. FlattenSeq(s) \in Seq(Marks)
    BY <1>2, FlattenElements
  <1>5. <<m.role>> \in Seq(Marks)
    BY PartsAre DEF Marks
  <1> QED
    BY <1>3, <1>4, <1>5 DEF RenderMessage

LEMMA RenderMessagesType ==
  ASSUME NEW messages \in Seq(Messages)
  PROVE  Each(RenderMessage, messages) \in Seq(Marks)
  <1> DEFINE s == [i \in DOMAIN messages |-> RenderMessage(messages[i])]
  <1>1. s \in Seq(Seq(Marks))
    <2>1. \A i \in DOMAIN messages : s[i] \in Seq(Marks)
      BY RenderMessageType
    <2> QED
      BY <2>1, Mapped
  <1>2. Each(RenderMessage, messages) = FlattenSeq(s)
    BY DEF Each
  <1> HIDE DEF s
  <1> QED
    BY <1>1, <1>2, FlattenElements

Chains == [messages : Seq(Messages), children : Seq(Seq(Messages)),
           error : {"none", "parent", "children", "child"}]

LEMMA ChainTranscriptType ==
  ASSUME NEW c \in Chains
  PROVE  ChainToTranscript(c) \in Seq(Marks)
  <1> DEFINE s == [i \in DOMAIN c.children |-> Each(RenderMessage, c.children[i])]
  <1>1. c.messages \in Seq(Messages) /\ c.children \in Seq(Seq(Messages))
    BY DEF Chains
  <1>2. \A i \in DOMAIN c.children : Each(RenderMessage, c.children[i]) \in Seq(Marks)
    BY <1>1, RenderMessagesType
  <1>3. s \in Seq(Seq(Marks))
    BY <1>1, <1>2, Mapped
  <1>4. Each(LAMBDA child : Each(RenderMessage, child), c.children) = FlattenSeq(s)
    BY DEF Each
  <1> HIDE DEF s
  <1>5. FlattenSeq(s) \in Seq(Marks)
    BY <1>3, FlattenElements
  <1>6. Each(RenderMessage, c.messages) \in Seq(Marks)
    BY <1>1, RenderMessagesType
  <1>7. <<>> \in Seq(Marks) /\ <<"incomplete">> \in Seq(Marks)
    BY DEF Marks
  <1> QED
    BY <1>4, <1>5, <1>6, <1>7 DEF ChainToTranscript

LEMMA ToolPartsType ==
  ASSUME NEW m \in Messages
  PROVE  Only(IsTool, m.parts) \in Seq(Parts)
  <1> DEFINE s == [i \in DOMAIN m.parts |-> IF IsTool(m.parts[i]) THEN <<m.parts[i]>> ELSE <<>>]
  <1>1. \A i \in DOMAIN m.parts : s[i] \in Seq(Parts)
    <2>1. \A p \in Parts : <<p>> \in Seq(Parts) /\ <<>> \in Seq(Parts)
      OBVIOUS
    <2> QED
      BY <2>1, PartsAre
  <1>2. s \in Seq(Seq(Parts))
    <2>1. DOMAIN m.parts = 1 .. Len(m.parts) /\ Len(m.parts) \in Nat
      BY PartsAre
    <2>2. s = [i \in DOMAIN m.parts |-> s[i]]
      OBVIOUS
    <2> HIDE DEF s
    <2> QED
      BY <1>1, <2>1, <2>2, Mapped
  <1>3. Only(IsTool, m.parts) = FlattenSeq(s)
    BY DEF Only, Each
  <1> HIDE DEF s
  <1> QED
    BY <1>2, <1>3, FlattenElements

LEMMA CallsInType ==
  ASSUME NEW messages \in Seq(Messages)
  PROVE  CallsIn(messages) \in Seq(Parts)
  <1> DEFINE s == [i \in DOMAIN messages |-> Only(IsTool, messages[i].parts)]
  <1>1. \A i \in DOMAIN messages : s[i] \in Seq(Parts)
    BY ToolPartsType
  <1>2. s \in Seq(Seq(Parts))
    BY <1>1, Mapped
  <1>3. CallsIn(messages) = FlattenSeq(s)
    BY DEF CallsIn, Each
  <1> HIDE DEF s
  <1> QED
    BY <1>2, <1>3, FlattenElements

LEMMA HeardType ==
  ASSUME NEW answer, NEW T, NEW s \in Seq(T)
  PROVE  Heard(answer, s) \in Seq(T)
  BY DEF Heard

LEMMA SessionsAre ==
  ASSUME NEW s \in Sessions
  PROVE  /\ s.messages \in Seq(Messages) /\ s.messages # <<>>
         /\ s.children \in Seq(Seq(Messages))
         /\ s.probe \in 2 .. Len(s.messages)
  BY SessionsAssumption

LEMMA SessionToolCallsType ==
  ASSUME NEW s \in Sessions, NEW got
  PROVE  SessionToolCalls(s, got) \in Seq(Parts)
  <1> DEFINE list == Heard(got.list, s.children)
             g == [i \in DOMAIN list |-> CallsIn(Heard(got.child[i], s.children[i]))]
  <1>1. list \in Seq(Seq(Messages)) /\ \A i \in DOMAIN list : i \in DOMAIN s.children
    BY SessionsAre DEF Heard
  <1>2. \A i \in DOMAIN list : g[i] \in Seq(Parts)
    <2>1. ASSUME NEW i \in DOMAIN list PROVE g[i] \in Seq(Parts)
      <3>1. s.children[i] \in Seq(Messages)
        BY <1>1, SessionsAre
      <3>2. Heard(got.child[i], s.children[i]) \in Seq(Messages)
        BY <3>1, HeardType
      <3> QED
        BY <3>2, CallsInType
    <2> QED
      BY <2>1
  <1>3. g \in Seq(Seq(Parts))
    <2> HIDE DEF list
    <2> QED
      BY <1>1, <1>2, Mapped
  <1>4. CallsIn(s.messages) \in Seq(Parts)
    BY SessionsAre, CallsInType
  <1>5. SessionToolCalls(s, got) = IF got.parent # "ok" THEN <<>>
                                   ELSE CallsIn(s.messages) \o FlattenSeq(g)
    BY DEF SessionToolCalls
  <1> HIDE DEF g
  <1>6. FlattenSeq(g) \in Seq(Parts)
    BY <1>3, FlattenElements
  <1> QED
    BY <1>4, <1>5, <1>6

LEMMA ReplyType ==
  ASSUME NEW m \in Messages
  PROVE  ReplyText(m) \in Seq(Marks) /\ Names(ReplyTools(m)) \in Seq(Marks)
  <1> DEFINE s == [i \in DOMAIN m.parts |->
                     IF m.parts[i].kind = "text" THEN m.parts[i].said ELSE <<>>]
  <1>1. \A i \in DOMAIN m.parts : s[i] \in Seq(Marks)
    BY PartsAre
  <1>2. s \in Seq(Seq(Marks))
    <2>1. DOMAIN m.parts = 1 .. Len(m.parts) /\ Len(m.parts) \in Nat
      BY PartsAre
    <2>2. s = [i \in DOMAIN m.parts |-> s[i]]
      OBVIOUS
    <2> HIDE DEF s
    <2> QED
      BY <1>1, <2>1, <2>2, Mapped
  <1>3. ReplyText(m) = FlattenSeq(s)
    BY DEF ReplyText, Each
  <1> HIDE DEF s
  <1>4. ReplyText(m) \in Seq(Marks)
    BY <1>2, <1>3, FlattenElements
  <1>5. ReplyTools(m) \in Seq(Parts)
    BY ToolPartsType DEF ReplyTools
  <1>6. \A q \in Seq(Parts) : Names(q) \in Seq(Marks)
    <2> SUFFICES ASSUME NEW q \in Seq(Parts) PROVE Names(q) \in Seq(Marks)
      OBVIOUS
    <2>1. \A i \in DOMAIN q : Names(q)[i] \in Marks
      <3>1. \A i \in DOMAIN q : q[i] \in Parts
        OBVIOUS
      <3>2. \A p \in Parts : p.tool \in Marks
        BY DEF Parts, Marks
      <3> QED
        BY <3>1, <3>2 DEF Names
    <2>2. Names(q) = [i \in DOMAIN q |-> Names(q)[i]]
      BY DEF Names
    <2> QED
      BY <2>1, <2>2, Mapped
  <1> QED
    BY <1>4, <1>5, <1>6

LEMMA EventsTranscriptType ==
  ASSUME NEW s \in Sessions, NEW probe \in Messages, NEW called \in Seq(Parts)
  PROVE  EventsToTranscript(s.messages[1], s.messages[s.probe - 1], s.messages[s.probe],
                            probe, called) \in Seq(Marks)
  <1> DEFINE asked  == s.messages[1]
             setup  == s.messages[s.probe - 1]
             probed == s.messages[s.probe]
             old    == Each(OldTool, called)
             first  == IF ReplyTools(setup) # <<>> THEN Names(ReplyTools(setup)) ELSE old
  <1>1. asked \in Messages /\ setup \in Messages /\ probed \in Messages
    BY SessionsAre
  <1>2. old \in Seq(Marks)
    <2> DEFINE g == [i \in DOMAIN called |-> OldTool(called[i])]
    <2>1. \A p \in Parts : OldTool(p) \in Seq(Marks)
      <3>1. \A p \in Parts : p.tool \in Calls /\ p.said \in Seq(Marks)
                             /\ p.asked \in Seq(Marks \ Headings)
        BY DEF Parts
      <3>2. \A q \in Seq(Marks \ Headings) : q \in Seq(Marks)
        OBVIOUS
      <3> QED
        BY <3>1, <3>2, RenderPartType
    <2>2. \A i \in DOMAIN called : g[i] \in Seq(Marks)
      BY <2>1
    <2>3. g \in Seq(Seq(Marks))
      BY <2>2, Mapped
    <2>4. old = FlattenSeq(g)
      BY DEF Each
    <2> HIDE DEF g, old
    <2> QED
      BY <2>3, <2>4, FlattenElements
  <1> HIDE DEF asked, setup, probed, old
  <1>3. first \in Seq(Marks)
    BY <1>1, <1>2, ReplyType
  <1> HIDE DEF first
  <1>4. /\ ReplyText(asked) \in Seq(Marks) /\ ReplyText(setup) \in Seq(Marks)
        /\ ReplyText(probed) \in Seq(Marks) /\ ReplyText(probe) \in Seq(Marks)
        /\ Names(ReplyTools(probe)) \in Seq(Marks)
    BY <1>1, ReplyType
  <1>5. <<"user">> \in Seq(Marks) /\ <<"assistant">> \in Seq(Marks)
    BY DEF Marks, Headings
  <1>6. ASSUME NEW a \in Seq(Marks), NEW b \in Seq(Marks), NEW c \in Seq(Marks)
        PROVE  <<"user">> \o a \o <<"assistant">> \o b \o c \in Seq(Marks)
    BY <1>5
  <1>7. EventsToTranscript(asked, setup, probed, probe, called) =
          (<<"user">> \o ReplyText(asked) \o <<"assistant">> \o first \o ReplyText(setup))
          \o (<<"user">> \o ReplyText(probed) \o <<"assistant">> \o Names(ReplyTools(probe))
              \o ReplyText(probe))
    BY DEF EventsToTranscript, first, old
  <1>8. EventsToTranscript(asked, setup, probed, probe, called) \in Seq(Marks)
    BY <1>3, <1>4, <1>6, <1>7
  <1> QED
    BY <1>8 DEF asked, setup, probed

\* session_messages: whatever was answered, the record is a chain.
LEMMA SessionMessagesType ==
  ASSUME NEW s \in Sessions, NEW got
  PROVE  SessionMessages(s, got) \in Chains
  <1> DEFINE list == Heard(got.list, s.children)
             g == [i \in DOMAIN list |-> Heard(got.child[i], s.children[i])]
  <1>1. list \in Seq(Seq(Messages)) /\ \A i \in DOMAIN list : i \in DOMAIN s.children
    BY SessionsAre DEF Heard
  <1>2. \A i \in DOMAIN list : g[i] \in Seq(Messages)
    BY <1>1, SessionsAre, HeardType
  <1>3. g \in Seq(Seq(Messages))
    <2>1. g = [i \in DOMAIN list |-> g[i]] /\ DOMAIN list = 1 .. Len(list) /\ Len(list) \in Nat
      BY <1>1
    <2> HIDE DEF list, g
    <2> QED
      BY <1>2, <2>1, Mapped
  <1>4. Heard(got.parent, s.messages) \in Seq(Messages)
    BY SessionsAre, HeardType
  <1>5. SessionMessages(s, got) =
          IF got.parent = "fails"
          THEN [messages |-> <<>>, children |-> <<>>, error |-> "parent"]
          ELSE [messages |-> Heard(got.parent, s.messages), children |-> g,
                error    |-> SessionMessages(s, got).error]
    BY DEF SessionMessages
  <1>6. SessionMessages(s, got).error \in {"none", "parent", "children", "child"}
    BY DEF SessionMessages
  <1>7. <<>> \in Seq(Messages) /\ <<>> \in Seq(Seq(Messages))
    OBVIOUS
  <1> HIDE DEF g
  <1>8. CASE got.parent = "fails"
    <2>1. SessionMessages(s, got) = [messages |-> <<>>, children |-> <<>>, error |-> "parent"]
      BY <1>8 DEF SessionMessages
    <2>2. [messages |-> <<>>, children |-> <<>>, error |-> "parent"] \in Chains
      BY ONLY <1>7 DEF Chains
    <2> QED
      BY <2>1, <2>2
  <1>9. CASE got.parent # "fails"
    BY <1>3, <1>4, <1>5, <1>6, <1>9 DEF Chains
  <1> QED
    BY <1>8, <1>9

-----------------------------------------------------------------------------
(* A message that the model wrote, in the transcript.                      *)

\* Where nothing states a cut, a part is rendered as it is.
LEMMA PartUncut ==
  ASSUME NEW m \in Messages, NEW k \in DOMAIN m.parts
  PROVE  \/ RenderPart(m.parts[k]) = Uncut(m.parts[k])
         \/ "cut" \in ToSet(RenderPart(m.parts[k]))
  <1> DEFINE p == m.parts[k]
  <1>1. p.tool \in Marks /\ p.asked \in Seq(Marks) /\ p.said \in Seq(Marks)
    BY PartsAre DEF Marks
  <1>2. Cap \in Nat
    BY CapAssumption
  <1> HIDE DEF p
  <1> DEFINE q == <<p.tool>> \o p.asked
  <1>3. q \in Seq(Marks)
    BY <1>1
  <1> HIDE DEF q
  <1>4. CASE ~IsTool(p)
    BY <1>4 DEF RenderPart, Uncut, p
  <1>5. CASE IsTool(p) /\ Len(p.said) <= Cap
    <2>1. CutTo(Cap, p.said) = p.said
      BY <1>1, <1>2, <1>5 DEF CutTo
    <2>2. (q \o p.said) \o <<>> = q \o p.said
      BY <1>1, <1>3
    <2>3. RenderTool(p) = (q \o CutTo(Cap, p.said)) \o <<>>
      <3>1. ~(Len(p.said) > Cap)
        BY <1>1, <1>2, <1>5
      <3> QED
        BY <3>1 DEF RenderTool, q
    <2> QED
      BY <1>5, <2>1, <2>2, <2>3 DEF RenderPart, Uncut, IsTool, p, q
  <1>6. CASE IsTool(p) /\ Len(p.said) > Cap
    <2> DEFINE front == q \o CutTo(Cap, p.said)
    <2>1. CutTo(Cap, p.said) \in Seq(Marks)
      BY <1>1, <1>2, CutIsMarks
    <2>2. front \in Seq(Marks)
      BY <1>3, <2>1
    <2>3. RenderTool(p) = front \o <<"cut">>
      BY <1>6 DEF RenderTool, q
    <2> HIDE DEF front
    <2>4. "cut" \in ToSet(front \o <<"cut">>)
      <3>1. Len(front) + 1 \in DOMAIN (front \o <<"cut">>)
            /\ (front \o <<"cut">>)[Len(front) + 1] = "cut"
        BY <2>2
      <3> QED
        BY <3>1 DEF ToSet
    <2>5. RenderPart(p) = RenderTool(p)
      BY <1>6 DEF RenderPart, IsTool
    <2> QED
      BY <2>3, <2>4, <2>5 DEF p
  <1>7. Len(p.said) \in Nat
    BY <1>1
  <1> QED
    BY <1>2, <1>4, <1>5, <1>6, <1>7

LEMMA WithinMarks ==
  ASSUME NEW r \in Seq(Marks), NEW t \in Seq(Marks), Within(r, t)
  PROVE  ToSet(r) \subseteq ToSet(t)
  <1>1. PICK n \in Nat : Stands(r, t, n)
    BY DEF Within
  <1>2. \A i \in 1 .. Len(r) : n + i \in 1 .. Len(t) /\ t[n + i] = r[i]
    BY <1>1 DEF Stands
  <1>3. DOMAIN r = 1 .. Len(r) /\ DOMAIN t = 1 .. Len(t)
    OBVIOUS
  <1> QED
    BY <1>2, <1>3 DEF ToSet

\* A message's rendering states its cut, or is what the model wrote.
LEMMA MessageUncut ==
  ASSUME NEW m \in Messages, "cut" \notin ToSet(RenderMessage(m))
  PROVE  /\ RenderMessage(m) = Written(m)
         /\ \A k \in DOMAIN m.parts : RenderPart(m.parts[k]) = Uncut(m.parts[k])
  <1> DEFINE s == [i \in DOMAIN m.parts |-> RenderPart(m.parts[i])]
             u == [i \in DOMAIN m.parts |-> Uncut(m.parts[i])]
  <1>1. \A i \in DOMAIN m.parts : s[i] = RenderPart(m.parts[i]) /\ s[i] \in Seq(Marks)
    BY PartsAre, RenderPartType
  <1>2. s \in Seq(Seq(Marks)) /\ DOMAIN s = DOMAIN m.parts /\ DOMAIN s = 1 .. Len(s)
    <2>1. DOMAIN m.parts = 1 .. Len(m.parts) /\ Len(m.parts) \in Nat
      BY PartsAre
    <2>2. s = [i \in DOMAIN m.parts |-> s[i]]
      OBVIOUS
    <2> HIDE DEF s
    <2> QED
      BY <1>1, <2>1, <2>2, Mapped
  <1>3. Each(RenderPart, m.parts) = FlattenSeq(s)
    BY DEF Each
  <1>4. (\A i \in DOMAIN m.parts : RenderPart(m.parts[i]) = Uncut(m.parts[i])) => s = u
    OBVIOUS
  <1>5. Each(Uncut, m.parts) = FlattenSeq(u)
    BY DEF Each
  <1> HIDE DEF s, u
  <1>6. ASSUME NEW k \in DOMAIN m.parts PROVE ToSet(s[k]) \subseteq ToSet(RenderMessage(m))
    <2>1. \A j \in 1 .. Len(s) : Opens(s[j], Marks)
      BY <1>1, <1>2 DEF Opens
    <2>2. PICK pre \in Seq(Marks), post \in Seq(Marks) : FlattenSeq(s) = (pre \o s[k]) \o post
      <3>1. k \in 1 .. Len(s)
        BY <1>2
      <3>2. PlacedIn(s[k], FlattenSeq(s), Marks, Marks)
        BY <1>2, <2>1, <3>1, FlattenPlaces
      <3> QED
        BY <3>2 DEF PlacedIn
    <2> DEFINE f == (pre \o s[k]) \o post
    <2>3. s[k] \in Seq(Marks) /\ <<m.role>> \in Seq(Marks)
      BY <1>1, PartsAre DEF Marks
    <2>4. \A e \in ToSet(s[k]) : e \in ToSet(pre \o s[k])
      <3>1. \A i \in DOMAIN s[k] : Len(pre) + i \in DOMAIN (pre \o s[k])
                                   /\ (pre \o s[k])[Len(pre) + i] = s[k][i]
        BY <2>3
      <3> QED
        BY <3>1 DEF ToSet
    <2>5. pre \o s[k] \in Seq(Marks)
      BY <2>3
    <2>6. \A e \in ToSet(pre \o s[k]) : e \in ToSet(f)
      <3> DEFINE g == pre \o s[k]
      <3>1. g \in Seq(Marks)
        BY <2>5
      <3> HIDE DEF g
      <3>2. \A i \in DOMAIN g : i \in DOMAIN (g \o post) /\ (g \o post)[i] = g[i]
        BY <3>1
      <3>3. \A e \in ToSet(g) : e \in ToSet(g \o post)
        BY <3>2 DEF ToSet
      <3> QED
        BY <3>3 DEF g
    <2>7. f \in Seq(Marks)
      BY <2>5
    <2> HIDE DEF f
    <2>8. \A e \in ToSet(f) : e \in ToSet(<<m.role>> \o f)
      <3>1. \A i \in DOMAIN f : 1 + i \in DOMAIN (<<m.role>> \o f) /\ (<<m.role>> \o f)[1 + i] = f[i]
        BY <2>3, <2>7
      <3> QED
        BY <3>1 DEF ToSet
    <2>9. RenderMessage(m) = <<m.role>> \o f
      BY <1>3, <2>2 DEF RenderMessage, f
    <2> QED
      BY <2>4, <2>6, <2>8, <2>9
  <1>7. \A k \in DOMAIN m.parts : RenderPart(m.parts[k]) = Uncut(m.parts[k])
    BY <1>1, <1>6, PartUncut
  <1> QED
    BY <1>3, <1>4, <1>5, <1>7 DEF RenderMessage, Written

\* It opens with the heading of its role and, where no part holds a line like
\* one, has no other.
LEMMA MessageHeading ==
  ASSUME NEW m \in Messages, "cut" \notin ToSet(RenderMessage(m)), ~LikeHeading(m)
  PROVE  OneHeading(RenderMessage(m))
  <1> DEFINE s == [i \in DOMAIN m.parts |-> RenderPart(m.parts[i])]
             e == Each(RenderPart, m.parts)
  <1>1. \A i \in DOMAIN m.parts : s[i] = RenderPart(m.parts[i]) /\ s[i] \in Seq(Marks)
    BY PartsAre, RenderPartType
  <1>2. s \in Seq(Seq(Marks)) /\ DOMAIN m.parts = 1 .. Len(s)
    <2>1. DOMAIN m.parts = 1 .. Len(m.parts) /\ Len(m.parts) \in Nat
      BY PartsAre
    <2>2. s = [i \in DOMAIN m.parts |-> s[i]]
      OBVIOUS
    <2> HIDE DEF s
    <2> QED
      BY <1>1, <2>1, <2>2, Mapped
  <1>3. e = FlattenSeq(s)
    BY DEF Each
  <1> HIDE DEF s, e
  <1>4. /\ e \in Seq(Marks)
        /\ \A i \in DOMAIN e : \E k \in 1 .. Len(s) : \E j \in DOMAIN s[k] : e[i] = s[k][j]
    BY <1>2, <1>3, FlattenElements
  <1>5. ASSUME NEW k \in DOMAIN m.parts, NEW j \in DOMAIN s[k] PROVE s[k][j] \notin Headings
    <2> DEFINE p == m.parts[k]
    <2>1. s[k] = Uncut(p)
      BY <1>1, MessageUncut
    <2>2. /\ p.tool \in Calls /\ p.asked \in Seq(Marks \ Headings) /\ p.said \in Seq(Marks)
      <3>1. p \in Parts
        BY PartsAre
      <3> QED
        BY <3>1 DEF Parts
    <2>3. \A i \in DOMAIN p.said : p.said[i] \notin Headings
      BY DEF LikeHeading, ToSet
    <2>4. \A i \in DOMAIN p.asked : p.asked[i] \notin Headings
      BY <2>2
    <2>5. p.tool \notin Headings
      BY <2>2 DEF Calls, Headings
    <2> HIDE DEF p
    <2>6. CASE IsTool(p) /\ s[k] = <<p.tool>> \o p.asked \o p.said
      <3> DEFINE q == <<p.tool>> \o p.asked
      <3>1. p.asked \in Seq(Marks) /\ p.tool \in Marks
        <4>1. \A x \in Seq(Marks \ Headings) : x \in Seq(Marks)
          OBVIOUS
        <4> QED
          BY <2>2, <4>1 DEF Marks
      <3>2. q \in Seq(Marks) /\ \A i \in DOMAIN q : q[i] \notin Headings
        <4>1. q \in Seq(Marks)
          BY <3>1
        <4>2. \A i \in DOMAIN q : q[i] = p.tool \/ (i - 1 \in DOMAIN p.asked /\ q[i] = p.asked[i - 1])
          BY <3>1
        <4> HIDE DEF q
        <4> QED
          BY <2>4, <2>5, <4>1, <4>2
      <3>3. s[k] = q \o p.said
        BY <2>6
      <3> HIDE DEF q
      <3>4. \A i \in DOMAIN (q \o p.said) :
              \/ i \in DOMAIN q /\ (q \o p.said)[i] = q[i]
              \/ i - Len(q) \in DOMAIN p.said /\ (q \o p.said)[i] = p.said[i - Len(q)]
        BY <2>2, <3>2
      <3> QED
        BY <2>3, <3>2, <3>3, <3>4
    <2>7. CASE s[k] = p.said
      BY <2>3, <2>7
    <2>8. CASE s[k] = <<>>
      BY <2>8
    <2> QED
      BY <2>1, <2>6, <2>7, <2>8 DEF Uncut, IsTool
  <1>6. \A i \in DOMAIN e : e[i] \notin Headings
    BY <1>2, <1>4, <1>5
  <1>7. RenderMessage(m) = <<m.role>> \o e /\ m.role \in Headings
    BY PartsAre DEF RenderMessage, e
  <1>8. /\ <<m.role>> \o e # <<>> /\ (<<m.role>> \o e)[1] = m.role
        /\ \A i \in 2 .. Len(<<m.role>> \o e) :
             i - 1 \in DOMAIN e /\ (<<m.role>> \o e)[i] = e[i - 1]
    <2>1. <<m.role>> \in Seq(Marks)
      BY <1>7 DEF Marks
    <2> QED
      BY <1>4, <2>1
  <1> QED
    BY <1>6, <1>7, <1>8 DEF OneHeading

\* Messages one after the other: each stands there, and the whole opens with a
\* heading.
LEMMA MessagesWithin ==
  ASSUME NEW messages \in Seq(Messages)
  PROVE  /\ Opens(Each(RenderMessage, messages), Headings)
         /\ \A k \in DOMAIN messages :
              Within(RenderMessage(messages[k]), Each(RenderMessage, messages))
  <1> DEFINE s == [i \in DOMAIN messages |-> RenderMessage(messages[i])]
  <1>1. \A i \in DOMAIN messages :
          s[i] = RenderMessage(messages[i]) /\ s[i] \in Seq(Marks) /\ Opens(s[i], Headings)
    <2>1. \A i \in DOMAIN messages : messages[i] \in Messages
      OBVIOUS
    <2>2. \A m \in Messages : RenderMessage(m) \in Seq(Marks) /\ Opens(RenderMessage(m), Headings)
      BY RenderMessageType, PartsAre DEF Opens
    <2> QED
      BY <2>1, <2>2
  <1>2. s \in Seq(Seq(Marks)) /\ DOMAIN messages = 1 .. Len(s)
    BY <1>1, Mapped
  <1>3. Each(RenderMessage, messages) = FlattenSeq(s)
    BY DEF Each
  <1> HIDE DEF s
  <1>4. \A k \in 1 .. Len(s) : Opens(s[k], Headings)
    BY <1>1, <1>2
  <1>5. /\ Opens(FlattenSeq(s), Headings)
        /\ \A k \in 1 .. Len(s) : PlacedIn(s[k], FlattenSeq(s), Marks, Headings)
    BY <1>2, <1>4, FlattenPlaces
  <1>6. ASSUME NEW k \in DOMAIN messages PROVE Within(s[k], FlattenSeq(s))
    <2>1. PICK pre \in Seq(Marks), post \in Seq(Marks) :
            FlattenSeq(s) = (pre \o s[k]) \o post /\ Opens(post, Headings)
      BY <1>2, <1>5 DEF PlacedIn
    <2> QED
      BY <1>1, <2>1, PlacedIsWithin
  <1> QED
    BY <1>1, <1>3, <1>5, <1>6

\* chain_to_transcript: every message of the session and of its subagents stands
\* in the transcript of the whole.
LEMMA WroteWithin ==
  ASSUME NEW s \in Sessions, NEW m \in Wrote(s)
  PROVE  m \in Messages /\ Within(RenderMessage(m), Whole(s))
  <1> DEFINE a == Each(RenderMessage, s.messages)
             c == [i \in DOMAIN s.children |-> Each(RenderMessage, s.children[i])]
             b == FlattenSeq(c)
  <1>1. \A i \in DOMAIN s.children :
          /\ s.children[i] \in Seq(Messages) /\ c[i] = Each(RenderMessage, s.children[i])
          /\ c[i] \in Seq(Marks) /\ Opens(c[i], Headings)
    <2>1. \A i \in DOMAIN s.children : s.children[i] \in Seq(Messages)
      BY SessionsAre
    <2>2. \A q \in Seq(Messages) :
            /\ Each(RenderMessage, q) \in Seq(Marks) /\ Opens(Each(RenderMessage, q), Headings)
      BY RenderMessagesType, MessagesWithin
    <2> QED
      BY <2>1, <2>2
  <1>2. c \in Seq(Seq(Marks)) /\ DOMAIN s.children = 1 .. Len(c)
    <2>1. DOMAIN s.children = 1 .. Len(s.children) /\ Len(s.children) \in Nat
      BY SessionsAre
    <2>2. c = [i \in DOMAIN s.children |-> c[i]]
      OBVIOUS
    <2> HIDE DEF c
    <2> QED
      BY <1>1, <2>1, <2>2, Mapped
  <1>3. Each(LAMBDA child : Each(RenderMessage, child), s.children) = b
    BY DEF Each
  <1> HIDE DEF c
  <1>4. a \in Seq(Marks)
    BY SessionsAre, RenderMessagesType
  <1>5. \A k \in 1 .. Len(c) : Opens(c[k], Headings)
    BY <1>1, <1>2
  <1>6. /\ b \in Seq(Marks) /\ Opens(b, Headings)
        /\ \A k \in 1 .. Len(c) : PlacedIn(c[k], b, Marks, Headings)
    BY <1>2, <1>5, FlattenPlaces
  <1>7. Whole(s) = a \o b
    <2>1. Whole(s) = (a \o b) \o <<>>
      BY <1>3 DEF Whole, ChainToTranscript
    <2>2. a \o b \in Seq(Marks)
      BY <1>4, <1>6
    <2>3. \A f \in Seq(Marks) : f \o <<>> = f
      OBVIOUS
    <2> QED
      BY <2>1, <2>2, <2>3
  <1> HIDE DEF b
  <1>8. Within(a, Whole(s)) /\ Within(b, Whole(s)) /\ Whole(s) \in Seq(Marks)
    <2>1. a \o b \in Seq(Marks)
      BY <1>4, <1>6
    <2> QED
      BY <1>4, <1>6, <1>7, <2>1, WithinHalves
  <1>9. CASE m \in ToSet(s.messages)
    <2>1. PICK k \in DOMAIN s.messages : m = s.messages[k]
      BY <1>9 DEF ToSet
    <2>2. m \in Messages /\ Within(RenderMessage(m), a)
      <3>1. s.messages \in Seq(Messages)
        BY SessionsAre
      <3>2. s.messages[k] \in Messages
        BY <3>1
      <3> QED
        BY <2>1, <3>1, <3>2, MessagesWithin
    <2>3. RenderMessage(m) \in Seq(Marks)
      BY <2>2, RenderMessageType
    <2> HIDE DEF a
    <2> QED
      BY <1>4, <1>8, <2>2, <2>3, WithinTrans DEF a
  <1>10. CASE \E i \in DOMAIN s.children : m \in ToSet(s.children[i])
    <2>1. PICK i \in DOMAIN s.children : m \in ToSet(s.children[i])
      BY <1>10
    <2>2. PICK k \in DOMAIN s.children[i] : m = s.children[i][k]
      BY <2>1 DEF ToSet
    <2>3. m \in Messages /\ Within(RenderMessage(m), c[i])
      <3>1. s.children[i] \in Seq(Messages)
        BY <1>1
      <3>2. s.children[i][k] \in Messages
        BY <3>1
      <3> QED
        BY <1>1, <2>2, <3>1, <3>2, MessagesWithin
    <2>4. RenderMessage(m) \in Seq(Marks)
      BY <2>3, RenderMessageType
    <2>5. PICK pre \in Seq(Marks), post \in Seq(Marks) :
            b = (pre \o c[i]) \o post /\ Opens(post, Headings)
      BY <1>2, <1>6 DEF PlacedIn
    <2>6. Within(c[i], b)
      BY <1>1, <2>5, PlacedIsWithin
    <2>7. Within(RenderMessage(m), b)
      BY <1>1, <1>6, <2>3, <2>4, <2>6, WithinTrans
    <2> QED
      BY <1>6, <1>8, <2>3, <2>4, <2>7, WithinTrans
  <1> QED
    BY <1>9, <1>10 DEF Wrote

-----------------------------------------------------------------------------
(* The selection.                                                          *)

\* What is chosen after each token.
Built(ranges, g) ==
  g = [i \in 0 .. Len(ranges) |->
         IF i = 0 THEN <<>> ELSE Added(g[i - 1], ranges[i][1], ranges[i][2])]

LEMMA BuiltExists ==
  ASSUME NEW ranges, Len(ranges) \in Nat
  PROVE  \E g : Built(ranges, g)
  <1> DEFINE Step(f, i) == IF i = 0 THEN <<>> ELSE Added(f[i - 1], ranges[i][1], ranges[i][2])
             Upto(k) == \E g : g = [i \in 0 .. k |-> Step(g, i)]
             A == {k \in Nat : Upto(k)}
  <1>1. 0 \in A
    <2> DEFINE g == [i \in 0 .. 0 |-> <<>>]
    <2>1. g = [i \in 0 .. 0 |-> Step(g, i)]
      OBVIOUS
    <2> QED
      BY <2>1
  <1>2. ASSUME NEW k \in 1 .. Len(ranges), k - 1 \in A PROVE k \in A
    <2>1. PICK h : h = [i \in 0 .. k - 1 |-> Step(h, i)]
      BY <1>2
    <2> DEFINE g == [i \in 0 .. k |-> IF i = k THEN Step(h, k) ELSE h[i]]
    <2>2. ASSUME NEW i \in 0 .. k PROVE g[i] = Step(g, i)
      <3>1. i # 0 => g[i - 1] = h[i - 1]
        OBVIOUS
      <3>2. Step(g, i) = Step(h, i)
        <4> HIDE DEF g
        <4> QED
          BY <3>1
      <3>3. i # k => h[i] = Step(h, i)
        <4>1. i # k => i \in 0 .. k - 1
          OBVIOUS
        <4> HIDE DEF g, Step
        <4> QED
          BY <2>1, <4>1
      <3>4. g[i] = IF i = k THEN Step(h, k) ELSE h[i]
        OBVIOUS
      <3> HIDE DEF g, Step
      <3> QED
        BY <3>2, <3>3, <3>4
    <2>3. g = [i \in 0 .. k |-> g[i]]
      OBVIOUS
    <2> HIDE DEF g, Step
    <2>4. g = [i \in 0 .. k |-> Step(g, i)]
      BY <2>2, <2>3
    <2> QED
      BY <2>4
  <1> HIDE DEF A
  <1>3. Len(ranges) \in A
    BY <1>1, <1>2, Induction
  <1> QED
    BY <1>3 DEF A, Built

LEMMA ChosenInduction ==
  ASSUME NEW ranges, Len(ranges) \in Nat, NEW A, <<>> \in A[0],
         \A k \in 1 .. Len(ranges) : \A f \in A[k - 1] :
           Added(f, ranges[k][1], ranges[k][2]) \in A[k]
  PROVE  Chosen(ranges) \in A[Len(ranges)]
  <1> DEFINE G == CHOOSE g : Built(ranges, g)
             B == {k \in 0 .. Len(ranges) : G[k] \in A[k]}
  <1>1. Built(ranges, G)
    BY BuiltExists
  <1>2. Chosen(ranges) = G[Len(ranges)]
    BY DEF Chosen, Built
  <1> HIDE DEF G
  <1>3. \A i \in 0 .. Len(ranges) :
          G[i] = IF i = 0 THEN <<>> ELSE Added(G[i - 1], ranges[i][1], ranges[i][2])
    BY <1>1 DEF Built
  <1>4. 0 \in B
    BY <1>3
  <1>5. ASSUME NEW k \in 1 .. Len(ranges), k - 1 \in B PROVE k \in B
    BY <1>3, <1>5
  <1> HIDE DEF B
  <1>6. Len(ranges) \in B
    BY <1>4, <1>5, Induction
  <1> QED
    BY <1>2, <1>6 DEF B

\* One token adds, in order, the numbers it names that are not there.
LEMMA AddedIs ==
  ASSUME NEW f \in Seq(Int), NEW low \in Int, NEW high \in Int
  PROVE  \E new \in Seq(Int) : /\ Added(f, low, high) = f \o new
                               /\ Ascending(new)
                               /\ ToSet(new) = {x \in low .. high : x \notin ToSet(f)}
  <1> DEFINE span == [i \in 1 .. (high - low + 1) |-> low + i - 1]
             kept == [i \in DOMAIN span |-> IF span[i] \notin ToSet(f) THEN <<span[i]>> ELSE <<>>]
             n    == IF low <= high THEN high - low + 1 ELSE 0
  <1>1. n \in Nat /\ 1 .. (high - low + 1) = 1 .. n
    OBVIOUS
  <1>2. /\ span \in Seq(Int) /\ Len(span) = n /\ DOMAIN span = 1 .. n
        /\ \A i \in 1 .. n : span[i] = low + i - 1
    <2>1. span = [i \in 1 .. n |-> low + i - 1]
      BY <1>1
    <2> HIDE DEF span, n
    <2> QED
      BY <1>1, <2>1
  <1>3. Only(LAMBDA x : x \notin ToSet(f), span) = FlattenSeq(kept)
    BY DEF Only, Each
  <1>4. Added(f, low, high) = f \o FlattenSeq(kept)
    BY <1>3 DEF Added
  <1>5. kept = [i \in DOMAIN span |-> kept[i]]
    OBVIOUS
  <1>6. \A i \in DOMAIN span : kept[i] = IF span[i] \notin ToSet(f) THEN <<span[i]>> ELSE <<>>
    OBVIOUS
  <1> HIDE DEF kept, span
  <1>7. kept \in Seq(Seq(Int)) /\ Len(kept) = n
    <2>1. \A i \in DOMAIN span : kept[i] \in Seq(Int)
      <3>1. \A e \in Int : <<e>> \in Seq(Int) /\ <<>> \in Seq(Int)
        OBVIOUS
      <3>2. \A i \in DOMAIN span : span[i] \in Int
        BY <1>1, <1>2
      <3> QED
        BY <1>6, <3>1, <3>2
    <2> HIDE DEF n
    <2> QED
      BY <1>1, <1>2, <1>5, <2>1, Mapped
  <1>8. Ascending(span)
    BY <1>1, <1>2 DEF Ascending
  <1>9. /\ FlattenSeq(kept) \in Seq(Int) /\ Ascending(FlattenSeq(kept))
        /\ ToSet(FlattenSeq(kept)) = {span[k] : k \in {j \in 1 .. Len(span) : kept[j] # <<>>}}
    BY <1>2, <1>6, <1>7, <1>8, FilterAscends
  <1>10. {span[k] : k \in {j \in 1 .. Len(span) : kept[j] # <<>>}}
           = {x \in low .. high : x \notin ToSet(f)}
    <2>1. \A j \in 1 .. Len(span) : kept[j] # <<>> <=> span[j] \notin ToSet(f)
      <3>1. \A e : <<e>> # <<>>
        OBVIOUS
      <3> QED
        BY <1>2, <1>6, <3>1
    <2>2. ASSUME NEW j \in 1 .. Len(span) PROVE span[j] \in low .. high
      BY <1>2
    <2>3. ASSUME NEW x \in low .. high PROVE \E j \in 1 .. Len(span) : x = span[j]
      <3>1. x - low + 1 \in 1 .. Len(span) /\ span[x - low + 1] = x
        BY <1>2
      <3> QED
        BY <3>1
    <2> QED
      BY <2>1, <2>2, <2>3
  <1> QED
    BY <1>4, <1>9, <1>10

LEMMA FirstIs ==
  ASSUME NEW asked \in Seq(Int \X Int), NEW x, Named(asked, x) # {}
  PROVE  /\ FirstName(asked, x) \in Named(asked, x)
         /\ \A j \in Named(asked, x) : FirstName(asked, x) <= j
  <1>1. Named(asked, x) \subseteq Nat
    BY DEF Named
  <1>2. \E i \in Named(asked, x) : \A j \in Named(asked, x) : i <= j
    BY <1>1, LeastNumber
  <1> QED
    BY <1>2 DEF FirstName

\* select_categories and select_tiers, after k of the tokens.
NamedBy(asked, n, k) == {x \in 1 .. n : \E i \in Named(asked, x) : i <= k}
InOrder(asked, f) ==
  \A i, j \in DOMAIN f : i < j =>
    /\ f[i] # f[j]
    /\ IF FirstName(asked, f[i]) = FirstName(asked, f[j]) THEN f[i] < f[j]
       ELSE FirstName(asked, f[i]) < FirstName(asked, f[j])

\* A token's new numbers go behind what the tokens before it named.
LEMMA TokenKeepsOrder ==
  ASSUME NEW n \in Nat, NEW asked \in Seq(Int \X Int), NEW k \in 1 .. Len(asked),
         NEW f \in Seq(Int), ToSet(f) = NamedBy(asked, n, k - 1), InOrder(asked, f),
         NEW new \in Seq(Int), Ascending(new),
         ToSet(new) = {x \in 1 .. n : k \in Named(asked, x) /\ x \notin ToSet(f)}
  PROVE  /\ f \o new \in Seq(Int) /\ ToSet(f \o new) = NamedBy(asked, n, k)
         /\ InOrder(asked, f \o new)
  <1> DEFINE h == f \o new
  <1>1. /\ h \in Seq(Int) /\ DOMAIN h = 1 .. Len(f) + Len(new)
        /\ DOMAIN f = 1 .. Len(f) /\ DOMAIN new = 1 .. Len(new)
        /\ Len(f) \in Nat /\ Len(new) \in Nat
    OBVIOUS
  <1>2. \A i \in 1 .. Len(f) : h[i] = f[i] /\ h[i] \in ToSet(f)
    BY DEF ToSet
  <1>3. \A i \in Len(f) + 1 .. Len(f) + Len(new) :
          h[i] = new[i - Len(f)] /\ h[i] \in ToSet(new) /\ i - Len(f) \in DOMAIN new
    <2> SUFFICES ASSUME NEW i \in Len(f) + 1 .. Len(f) + Len(new)
                 PROVE  /\ h[i] = new[i - Len(f)] /\ h[i] \in ToSet(new)
                        /\ i - Len(f) \in DOMAIN new
      OBVIOUS
    <2>1. i - Len(f) \in DOMAIN new /\ h[i] = new[i - Len(f)]
      BY <1>1
    <2> QED
      BY <2>1 DEF ToSet
  <1>4. \A x : Named(asked, x) \subseteq 1 .. Len(asked)
    BY DEF Named
  <1> HIDE DEF h
  <1>5. ToSet(h) = ToSet(f) \cup ToSet(new)
    <2>1. \A i \in 1 .. Len(f) : i \in DOMAIN h
      BY <1>1
    <2>2. \A i \in 1 .. Len(new) : i + Len(f) \in Len(f) + 1 .. Len(f) + Len(new)
                                   /\ i + Len(f) \in DOMAIN h /\ (i + Len(f)) - Len(f) = i
      BY <1>1
    <2>3. ASSUME NEW i \in 1 .. Len(new) PROVE h[i + Len(f)] = new[i]
      BY <1>3, <2>2
    <2>4. \A i \in DOMAIN h : i \in 1 .. Len(f) \/ i \in Len(f) + 1 .. Len(f) + Len(new)
      BY <1>1
    <2>5. ToSet(h) \subseteq ToSet(f) \cup ToSet(new)
      BY <1>2, <1>3, <2>4 DEF ToSet
    <2>6. ToSet(f) \subseteq ToSet(h)
      BY <1>1, <1>2, <2>1 DEF ToSet
    <2>7. ToSet(new) \subseteq ToSet(h)
      <3>1. ASSUME NEW e \in ToSet(new) PROVE e \in ToSet(h)
        <4>1. PICK i \in 1 .. Len(new) : e = new[i]
          BY <1>1 DEF ToSet
        <4>2. h[i + Len(f)] = e /\ i + Len(f) \in DOMAIN h
          BY <2>2, <2>3, <4>1
        <4> QED
          BY <4>2 DEF ToSet
      <3> QED
        BY <3>1
    <2> QED
      BY <2>5, <2>6, <2>7
  <1>6. NamedBy(asked, n, k) = NamedBy(asked, n, k - 1) \cup {x \in 1 .. n : k \in Named(asked, x)}
    <2>1. \A x : \A i \in Named(asked, x) : i <= k <=> (i <= k - 1 \/ i = k)
      BY <1>4
    <2>2. k <= k
      OBVIOUS
    <2> QED
      BY <2>1, <2>2 DEF NamedBy
  <1>7. ToSet(h) = NamedBy(asked, n, k)
    BY <1>5, <1>6
  <1>8. ASSUME NEW x \in ToSet(f)
        PROVE  FirstName(asked, x) \in Int /\ FirstName(asked, x) < k
    <2>1. PICK i \in Named(asked, x) : i <= k - 1
      BY DEF NamedBy
    <2>2. FirstName(asked, x) \in Named(asked, x) /\ FirstName(asked, x) <= i
      BY <2>1, FirstIs
    <2> QED
      BY <1>4, <2>1, <2>2
  <1>9. ASSUME NEW x \in ToSet(new)
        PROVE  FirstName(asked, x) = k
    <2>1. k \in Named(asked, x) /\ x \in 1 .. n /\ x \notin NamedBy(asked, n, k - 1)
      OBVIOUS
    <2>2. FirstName(asked, x) \in Named(asked, x) /\ FirstName(asked, x) <= k
      BY <2>1, FirstIs
    <2>3. ~(FirstName(asked, x) <= k - 1)
      BY <2>1, <2>2 DEF NamedBy
    <2> QED
      BY <1>4, <2>2, <2>3
  <1>10. ASSUME NEW i \in DOMAIN h, NEW j \in DOMAIN h, i < j
         PROVE  /\ h[i] # h[j]
                /\ IF FirstName(asked, h[i]) = FirstName(asked, h[j]) THEN h[i] < h[j]
                   ELSE FirstName(asked, h[i]) < FirstName(asked, h[j])
    <2>1. CASE j \in 1 .. Len(f)
      <3>1. i \in 1 .. Len(f) /\ i \in DOMAIN f /\ j \in DOMAIN f
        BY <1>1, <1>10, <2>1
      <3> QED
        BY <1>2, <1>10, <2>1, <3>1 DEF InOrder
    <2>2. CASE i \in 1 .. Len(f) /\ j \in Len(f) + 1 .. Len(f) + Len(new)
      <3>1. h[i] \in ToSet(f) /\ h[j] \in ToSet(new)
        BY <1>2, <1>3, <2>2
      <3>2. h[i] # h[j]
        BY <3>1
      <3>3. FirstName(asked, h[i]) < FirstName(asked, h[j]) /\ FirstName(asked, h[i]) \in Int
        BY <1>8, <1>9, <3>1
      <3>4. FirstName(asked, h[i]) # FirstName(asked, h[j])
        BY <1>8, <1>9, <3>1
      <3> QED
        BY <3>2, <3>3, <3>4
    <2>3. CASE i \in Len(f) + 1 .. Len(f) + Len(new) /\ j \in Len(f) + 1 .. Len(f) + Len(new)
      <3>1. FirstName(asked, h[i]) = FirstName(asked, h[j])
        BY <1>3, <1>9, <2>3
      <3>2. i - Len(f) < j - Len(f)
        BY <1>1, <1>10, <2>3
      <3>3. h[i] < h[j]
        BY <1>3, <2>3, <3>2 DEF Ascending
      <3>4. h[i] \in Int /\ h[j] \in Int
        BY <1>1
      <3> QED
        BY <3>1, <3>3, <3>4
    <2>4. \/ j \in 1 .. Len(f)
          \/ i \in 1 .. Len(f) /\ j \in Len(f) + 1 .. Len(f) + Len(new)
          \/ i \in Len(f) + 1 .. Len(f) + Len(new) /\ j \in Len(f) + 1 .. Len(f) + Len(new)
      <3>1. /\ i \in 1 .. Len(f) + Len(new) /\ j \in 1 .. Len(f) + Len(new)
            /\ Len(f) \in Nat /\ Len(new) \in Nat /\ i < j
        BY <1>1, <1>10
      <3>2. \A e \in 1 .. Len(f) + Len(new) : e \in 1 .. Len(f) \/ e \in Len(f) + 1 .. Len(f) + Len(new)
        BY <3>1
      <3>3. j \in 1 .. Len(f) => i \in 1 .. Len(f)
        BY <3>1
      <3> QED
        BY <3>1, <3>2, <3>3
    <2> QED
      BY <2>1, <2>2, <2>3, <2>4
  <1> QED
    BY <1>1, <1>7, <1>10 DEF InOrder, h

\* What the loop over the tokens chooses is what was asked for and is there,
\* where each range holds what its token names of 1 .. n.
LEMMA ChosenHonours ==
  ASSUME NEW n \in Nat, NEW asked \in Seq(Int \X Int), asked # <<>>,
         NEW ranges, Len(ranges) = Len(asked),
         \A i \in 1 .. Len(asked) :
           /\ ranges[i][1] \in Int /\ ranges[i][2] \in Int
           /\ ranges[i][1] .. ranges[i][2] = {x \in 1 .. n : i \in Named(asked, x)}
  PROVE  Chosen(ranges) \in Seq(Int) /\ Honours(Chosen(ranges), asked, n)
  <1> DEFINE P(k, f) == /\ f \in Seq(Int) /\ ToSet(f) = NamedBy(asked, n, k)
                        /\ InOrder(asked, f)
             A == [k \in 0 .. Len(asked) |-> {f \in Seq(Int) : P(k, f)}]
  <1> HIDE DEF P
  <1>1. \A k \in 0 .. Len(asked) : \A f \in Seq(Int) : f \in A[k] <=> P(k, f)
    OBVIOUS
  <1>2. \A k \in 0 .. Len(asked) : \A f \in A[k] : f \in Seq(Int)
    OBVIOUS
  <1> HIDE DEF A
  <1>3. <<>> \in A[0]
    <2>1. NamedBy(asked, n, 0) = {}
      BY DEF NamedBy, Named
    <2>2. ToSet(<<>>) = {} /\ InOrder(asked, <<>>)
      BY DEF ToSet, InOrder
    <2>3. <<>> \in Seq(Int) /\ 0 \in 0 .. Len(asked)
      OBVIOUS
    <2>4. P(0, <<>>)
      BY <2>1, <2>2, <2>3 DEF P
    <2> QED
      BY <1>1, <2>3, <2>4
  <1>4. ASSUME NEW k \in 1 .. Len(ranges), NEW f \in A[k - 1]
        PROVE  Added(f, ranges[k][1], ranges[k][2]) \in A[k]
    <2>1. k \in 1 .. Len(asked) /\ k - 1 \in 0 .. Len(asked) /\ k \in 0 .. Len(asked)
      OBVIOUS
    <2>2. f \in Seq(Int) /\ P(k - 1, f)
      BY <1>1, <1>2, <2>1
    <2>3. PICK new \in Seq(Int) :
            /\ Added(f, ranges[k][1], ranges[k][2]) = f \o new
            /\ Ascending(new)
            /\ ToSet(new) = {x \in ranges[k][1] .. ranges[k][2] : x \notin ToSet(f)}
      BY <2>1, <2>2, AddedIs
    <2>4. ToSet(new) = {x \in 1 .. n : k \in Named(asked, x) /\ x \notin ToSet(f)}
      BY <2>1, <2>3
    <2>5. P(k, f \o new)
      BY <2>1, <2>2, <2>3, <2>4, TokenKeepsOrder DEF P
    <2>6. f \o new \in Seq(Int)
      BY <2>2
    <2> QED
      BY <1>1, <2>1, <2>3, <2>5, <2>6
  <1>5. Chosen(ranges) \in A[Len(ranges)]
    <2>1. Len(ranges) \in Nat
      OBVIOUS
    <2> QED
      BY <1>3, <1>4, <2>1, ChosenInduction
  <1>6. Chosen(ranges) \in Seq(Int) /\ P(Len(asked), Chosen(ranges))
    <2>1. Len(asked) \in 0 .. Len(asked)
      OBVIOUS
    <2> QED
      BY <1>1, <1>2, <1>5, <2>1
  <1>7. NamedBy(asked, n, Len(asked)) = {x \in 1 .. n : asked = <<>> \/ Named(asked, x) # {}}
    BY DEF NamedBy, Named
  <1> QED
    BY <1>6, <1>7 DEF P, Honours, InOrder

\* With nothing asked for, all there is.
LEMMA AllHonours ==
  ASSUME NEW n \in Nat
  PROVE  [i \in 1 .. n |-> i] \in Seq(Int) /\ Honours([i \in 1 .. n |-> i], <<>>, n)
  BY DEF Honours, ToSet

LEMMA CategoriesHonour ==
  ASSUME NEW n \in Nat, NEW asked \in Seq(Int \X Int), ~CategoriesRefused(asked, n)
  PROVE  /\ SelectCategories(asked, n) \in Seq(Int)
         /\ Honours(SelectCategories(asked, n), asked, n)
  <1>1. CASE asked = <<>>
    BY <1>1, AllHonours DEF SelectCategories
  <1>2. CASE asked # <<>>
    <2>1. ASSUME NEW i \in 1 .. Len(asked)
          PROVE  /\ asked[i][1] \in Int /\ asked[i][2] \in Int
                 /\ asked[i][1] .. asked[i][2] = {x \in 1 .. n : i \in Named(asked, x)}
      BY DEF CategoriesRefused, Named
    <2> QED
      BY <1>2, <2>1, ChosenHonours DEF SelectCategories
  <1> QED
    BY <1>1, <1>2

LEMMA TiersHonour ==
  ASSUME NEW n \in Nat, NEW asked \in Seq(Int \X Int), ~TiersRefused(asked)
  PROVE  SelectTiers(asked, n) \in Seq(Int) /\ Honours(SelectTiers(asked, n), asked, n)
  <1>1. CASE asked = <<>>
    BY <1>1, AllHonours DEF SelectTiers
  <1>2. CASE asked # <<>>
    <2> DEFINE ranges == [i \in DOMAIN asked |-> <<asked[i][1], Clamp(asked[i][2], n)>>]
    <2>1. ASSUME NEW i \in 1 .. Len(asked)
          PROVE  /\ ranges[i][1] \in Int /\ ranges[i][2] \in Int
                 /\ ranges[i][1] .. ranges[i][2] = {x \in 1 .. n : i \in Named(asked, x)}
      <3>1. ranges[i][1] = asked[i][1] /\ ranges[i][2] = Clamp(asked[i][2], n)
        OBVIOUS
      <3>2. asked[i][1] \in Int /\ asked[i][2] \in Int /\ asked[i][1] >= 1
        BY DEF TiersRefused
      <3>3. \A x : i \in Named(asked, x) <=> asked[i][1] <= x /\ x <= asked[i][2]
        BY DEF Named
      <3> HIDE DEF ranges
      <3> QED
        BY <3>1, <3>2, <3>3 DEF Clamp
    <2>2. Len(ranges) = Len(asked)
      OBVIOUS
    <2>3. SelectTiers(asked, n) = Chosen(ranges)
      BY <1>2 DEF SelectTiers
    <2> HIDE DEF ranges
    <2> QED
      BY <1>2, <2>1, <2>2, <2>3, ChosenHonours
  <1> QED
    BY <1>1, <1>2

-----------------------------------------------------------------------------
(* The way of a tier.                                                      *)

\* The steps at which the server's session is at hand, and its transcript.
Reading  == {"replied", "read", "captured", "scanned", "judged"}
Captured == {"captured", "scanned", "judged"}

\* What is still to run are tiers that are there, each once; a tier at work is
\* the first of them.
Tiers == [category : Categories, tiers : Seq(Int)]
TodoOK ==
  /\ todo \in Seq(Tiers)
  /\ \A i \in DOMAIN todo :
       /\ ToSet(todo[i].tiers) \subseteq 1 .. Depths[todo[i].category]
       /\ IsInjective(todo[i].tiers)
  /\ pc \in Reading => todo # <<>> /\ Current.tiers # <<>>

TierOK ==
  /\ pc \in {"select", "next", "done", "fatal"} \cup Reading
  /\ spec \in {<<>>} \cup (Specs \X Specs) /\ (pc = "select" => spec # <<>>)
  /\ session \in Sessions \cup {NoSession} /\ (pc \in Reading => session \in Sessions)
  /\ calls \in Seq(Parts) /\ chain \in Chains /\ heard \subseteq Answers
  /\ transcript \in Seq(Marks)

\* The transcript of a capture is of what the requests were answered; what a
\* scan found, a verdict and a grade are of the transcript.
Stated == \/ transcript = Whole(session)
          \/ chain.error # "none"
          \/ "odd" \in heard
JudgedOK ==
  /\ scan.found \subseteq Kinds /\ (pc \notin {"scanned", "judged"} => scan = NoScan)
  /\ scan.found # {} => scan.ran
  /\ scan.ran => scan.found = Found(transcript)
  /\ verdict \in Verdicts \cup {"none"} /\ (pc = "judged" <=> verdict # "none")
  /\ verdict = "pass" => scan.ran /\ Asked.forbid \cap scan.found = {}
  /\ grade # "none" => pc = "judged" /\ \E nlp \in BOOLEAN : grade = Grade(transcript, nlp)

IInv == TodoOK /\ TierOK /\ (pc \in Captured => Stated) /\ JudgedOK

\* session_messages: a chain without an error, got of answers that were lists,
\* is the whole session.
LEMMA ChainIsWhole ==
  ASSUME NEW s \in Sessions,
         NEW got \in [parent : Answers, list : Answers, child : [DOMAIN s.children -> Answers]],
         SessionMessages(s, got).error = "none",
         got.parent # "odd", got.list # "odd", "odd" \notin Range(got.child)
  PROVE  SessionMessages(s, got) =
           [messages |-> s.messages, children |-> s.children, error |-> "none"]
  <1>1. got.parent = "ok" /\ got.list = "ok"
    BY DEF SessionMessages, Answers
  <1>2. s.children \in Seq(Seq(Messages))
    BY SessionsAssumption
  <1>3. \A i \in DOMAIN s.children : got.child[i] = "ok"
    <2>1. \A i \in DOMAIN s.children : got.child[i] # "fails"
      BY <1>1 DEF SessionMessages
    <2>2. \A i \in DOMAIN s.children : got.child[i] # "odd" /\ got.child[i] \in Answers
      BY DEF Range
    <2> QED
      BY <2>1, <2>2 DEF Answers
  <1>4. [i \in DOMAIN s.children |-> Heard(got.child[i], s.children[i])] = s.children
    BY <1>2, <1>3 DEF Heard
  <1> QED
    BY <1>1, <1>3, <1>4 DEF SessionMessages, Heard

\* run_category, between the two reads and the file: what is written is the
\* whole of the session, or says that it is not, or came of an odd answer.
LEMMA CaptureStates ==
  ASSUME TierOK, Capture PROVE Stated'
  <1>1. pc = "read" /\ session' = session /\ session \in Sessions
    BY DEF TierOK, Capture, Reading
  <1>2. PICK got \in Outcomes : chain' = SessionMessages(session, got) /\ heard' = AnswersTo(got)
    BY DEF Capture
  <1>3. transcript' = Transcript(chain')
    BY DEF Capture
  <1>4. SUFFICES ASSUME chain'.error = "none", "odd" \notin heard'
                 PROVE  transcript' = Whole(session)
    BY <1>1 DEF Stated, Whole
  <1>5. got.parent # "fails"
    BY <1>2, <1>4 DEF SessionMessages
  <1>6. got.list # "fails" /\ got.parent # "odd"
    BY <1>2, <1>4, <1>5 DEF SessionMessages, AnswersTo
  <1>7. got.list # "odd" /\ got.list = "ok" /\ "odd" \notin Range(got.child)
    BY <1>2, <1>4, <1>5, <1>6 DEF AnswersTo, Outcomes, Answers
  <1>8. chain' = [messages |-> session.messages, children |-> session.children,
                  error |-> "none"]
    BY <1>1, <1>2, <1>4, <1>6, <1>7, ChainIsWhole DEF Outcomes
  <1>9. session.messages # <<>>
    BY <1>1, SessionsAssumption
  <1>10. chain'.messages # <<>>
    BY <1>8, <1>9
  <1> QED
    BY <1>3, <1>8, <1>10 DEF Transcript, Whole

LEMMA NoChainIs ==
  NoChain \in Chains /\ <<>> \in Seq(Parts) /\ <<>> \in Seq(Marks) /\ <<>> \in Seq(Tiers)
  <1>1. <<>> \in Seq(Messages) /\ <<>> \in Seq(Seq(Messages))
    OBVIOUS
  <1>2. NoChain \in Chains
    BY ONLY <1>1 DEF NoChain, Chains
  <1> QED
    BY <1>2

LEMMA InitIInv == Init => IInv
  <1> SUFFICES ASSUME Init PROVE IInv
    OBVIOUS
  <1>1. pc = "select" /\ spec \in Specs \X Specs /\ spec # <<>>
    BY DEF Init
  <1>2. NoChain \in Chains /\ <<>> \in Seq(Parts) /\ <<>> \in Seq(Marks) /\ <<>> \in Seq(Tiers)
    BY NoChainIs
  <1>3. TodoOK
    BY <1>1, <1>2 DEF Init, TodoOK, Reading
  <1>4. TierOK
    BY <1>1, <1>2 DEF Init, NothingYet, TierOK, Reading
  <1>5. JudgedOK
    BY <1>1 DEF Init, NothingYet, NoScan, JudgedOK
  <1> QED
    BY <1>1, <1>3, <1>4, <1>5 DEF IInv, Captured

\* main: what is selected is tiers that are there, each once, and honours what
\* was asked for.
LEMMA SelectedIs ==
  ASSUME spec \in Specs \X Specs, ~Refused
  PROVE  /\ Selected \in Seq(Tiers)
         /\ Honours([i \in DOMAIN Selected |-> Selected[i].category], spec[1], Len(Depths))
         /\ \A i \in DOMAIN Selected :
              /\ Depths[Selected[i].category] \in Nat
              /\ Honours(Selected[i].tiers, spec[2], Depths[Selected[i].category])
  <1> DEFINE chosen == SelectCategories(spec[1], Len(Depths))
  <1>1. Len(Depths) \in Nat /\ \A c \in 1 .. Len(Depths) : c \in Categories /\ Depths[c] \in Nat
    BY LadderAssumption DEF Categories
  <1>2. spec[1] \in Seq(Int \X Int) /\ spec[2] \in Seq(Int \X Int)
    BY LadderAssumption
  <1>3. chosen \in Seq(Int) /\ Honours(chosen, spec[1], Len(Depths))
    BY <1>1, <1>2, CategoriesHonour DEF Refused
  <1>4. Selected = [i \in DOMAIN chosen |->
                      [category |-> chosen[i], tiers |-> SelectTiers(spec[2], Depths[chosen[i]])]]
    BY DEF Selected
  <1> HIDE DEF chosen
  <1>5. \A i \in DOMAIN chosen : chosen[i] \in 1 .. Len(Depths)
    BY <1>3 DEF Honours, ToSet
  <1>6. \A i \in DOMAIN chosen :
          /\ SelectTiers(spec[2], Depths[chosen[i]]) \in Seq(Int)
          /\ Honours(SelectTiers(spec[2], Depths[chosen[i]]), spec[2], Depths[chosen[i]])
    BY <1>1, <1>2, <1>5, TiersHonour DEF Refused
  <1>7. /\ DOMAIN Selected = DOMAIN chosen
        /\ \A i \in DOMAIN chosen :
             /\ Selected[i] = [category |-> chosen[i],
                               tiers    |-> SelectTiers(spec[2], Depths[chosen[i]])]
             /\ Selected[i].category = chosen[i]
             /\ Selected[i].tiers = SelectTiers(spec[2], Depths[chosen[i]])
    BY <1>4
  <1>8. Selected \in Seq(Tiers)
    <2>1. \A i \in DOMAIN chosen : Selected[i] \in Tiers
      BY <1>1, <1>5, <1>6, <1>7 DEF Tiers
    <2>2. Selected = [i \in DOMAIN chosen |-> Selected[i]]
      BY <1>4
    <2>3. DOMAIN chosen = 1 .. Len(chosen) /\ Len(chosen) \in Nat
      BY <1>3
    <2> QED
      BY <2>1, <2>2, <2>3, Mapped
  <1>9. [i \in DOMAIN Selected |-> Selected[i].category] = chosen
    <2>1. chosen = [i \in DOMAIN chosen |-> chosen[i]]
      BY <1>3
    <2> QED
      BY <1>7, <2>1
  <1> QED
    BY <1>1, <1>3, <1>5, <1>6, <1>7, <1>8, <1>9

\* A list in the order of what was asked for names nothing twice, and only what
\* is there.
LEMMA HonoursOnce ==
  ASSUME NEW f \in Seq(Int), NEW asked, NEW n \in Nat, Honours(f, asked, n)
  PROVE  ToSet(f) \subseteq 1 .. n /\ IsInjective(f)
  <1>1. ToSet(f) \subseteq 1 .. n
    BY DEF Honours
  <1>2. ASSUME NEW i \in DOMAIN f, NEW j \in DOMAIN f, f[i] = f[j] PROVE i = j
    <2>1. ~(i < j) /\ ~(j < i)
      BY <1>2 DEF Honours
    <2> QED
      BY <2>1
  <1> QED
    BY <1>1, <1>2 DEF IsInjective

\* The tiers after the first are there, each once.
LEMMA TailOnce ==
  ASSUME NEW f \in Seq(Int), f # <<>>, NEW depths, ToSet(f) \subseteq depths, IsInjective(f)
  PROVE  /\ Tail(f) \in Seq(Int) /\ ToSet(Tail(f)) \subseteq depths /\ IsInjective(Tail(f))
  <1>1. /\ Tail(f) \in Seq(Int) /\ DOMAIN Tail(f) = 1 .. Len(f) - 1
        /\ \A i \in 1 .. Len(f) - 1 : Tail(f)[i] = f[i + 1] /\ i + 1 \in DOMAIN f /\ i \in Int
    OBVIOUS
  <1>2. ToSet(Tail(f)) \subseteq depths
    BY <1>1 DEF ToSet
  <1>3. IsInjective(Tail(f))
    <2> SUFFICES ASSUME NEW i \in 1 .. Len(f) - 1, NEW j \in 1 .. Len(f) - 1,
                        Tail(f)[i] = Tail(f)[j]
                 PROVE  i = j
      BY <1>1 DEF IsInjective
    <2>1. i + 1 = j + 1
      BY <1>1 DEF IsInjective
    <2> QED
      BY <2>1
  <1> QED
    BY <1>1, <1>2, <1>3

LEMMA TodoStep ==
  ASSUME IInv, [Next]_vars PROVE TodoOK'
  <1>0. TodoOK /\ TierOK
    BY DEF IInv
  <1> DEFINE Once(q) == \A i \in DOMAIN q :
                          /\ ToSet(q[i].tiers) \subseteq 1 .. Depths[q[i].category]
                          /\ IsInjective(q[i].tiers)
  <1>1. CASE UNCHANGED <<pc, todo>>
    BY <1>0, <1>1 DEF TodoOK, Current
  <1>2. ASSUME todo # <<>> PROVE Tail(todo) \in Seq(Tiers) /\ Once(Tail(todo))
    <2>1. todo \in Seq(Tiers) /\ Once(todo)
      BY <1>0 DEF TodoOK
    <2>2. /\ Tail(todo) \in Seq(Tiers) /\ DOMAIN Tail(todo) = 1 .. Len(todo) - 1
          /\ \A i \in 1 .. Len(todo) - 1 : Tail(todo)[i] = todo[i + 1] /\ i + 1 \in DOMAIN todo
      BY <1>2, <2>1
    <2> QED
      BY <2>1, <2>2
  <1>3. CASE Select
    <2>1. pc' = "next" /\ todo' = Selected /\ spec \in Specs \X Specs /\ ~Refused
      BY <1>0, <1>3 DEF Select, TierOK
    <2>2. todo' \in Seq(Tiers)
      BY <2>1, SelectedIs
    <2>3. Once(todo')
      <3> SUFFICES ASSUME NEW i \in DOMAIN todo'
                   PROVE  /\ ToSet(todo'[i].tiers) \subseteq 1 .. Depths[todo'[i].category]
                          /\ IsInjective(todo'[i].tiers)
        OBVIOUS
      <3>1. /\ Depths[todo'[i].category] \in Nat
            /\ Honours(todo'[i].tiers, spec[2], Depths[todo'[i].category])
        BY <2>1, SelectedIs
      <3>2. todo'[i].tiers \in Seq(Int)
        <4>1. todo'[i] \in Tiers
          BY <2>2
        <4> QED
          BY <4>1 DEF Tiers
      <3> QED
        BY <3>1, <3>2, HonoursOnce
    <2> QED
      BY <2>1, <2>2, <2>3 DEF TodoOK, Reading
  <1>4. CASE EndCategory \/ NoReply
    <2>1. todo # <<>> /\ todo' = Tail(todo) /\ pc' = "next"
      BY <1>4 DEF EndCategory, NoReply
    <2> QED
      BY <1>2, <2>1 DEF TodoOK, Reading
  <1>5. CASE Fatal \/ Finish
    BY <1>0, <1>5 DEF Fatal, Finish, TodoOK, Reading
  <1>6. ASSUME NEW s \in Sessions, Replied(s) PROVE TodoOK'
    BY <1>0, <1>6 DEF Replied, TodoOK, Current
  <1>7. CASE ReadCalls \/ Capture \/ ScanTranscript \/ Judge \/ Verify
    BY <1>0, <1>7 DEF ReadCalls, Capture, ScanTranscript, Judge, Verify, TodoOK, Current, Reading
  <1>8. CASE Advance
    <2>1. todo # <<>> /\ Current.tiers # <<>> /\ todo \in Seq(Tiers) /\ Once(todo) /\ pc' = "next"
      BY <1>0, <1>8 DEF Advance, TodoOK, Reading
    <2>2. Current = todo[1] /\ Current \in Tiers /\ 1 \in DOMAIN todo
      BY <2>1 DEF Current
    <2> DEFINE rest == [Current EXCEPT !.tiers = Tail(@)]
    <2>3. /\ Tail(Current.tiers) \in Seq(Int)
          /\ ToSet(Tail(Current.tiers)) \subseteq 1 .. Depths[Current.category]
          /\ IsInjective(Tail(Current.tiers))
      <3>1. Current.tiers \in Seq(Int)
        BY <2>2 DEF Tiers
      <3> QED
        BY <2>1, <2>2, <3>1, TailOnce
    <2>4. /\ rest \in Tiers /\ rest.tiers = Tail(Current.tiers)
          /\ rest.category = Current.category
      BY <2>2, <2>3 DEF Tiers
    <2> HIDE DEF rest
    <2>5. Tail(todo) \in Seq(Tiers) /\ Once(Tail(todo))
      BY <1>2, <2>1
    <2>6. <<rest>> \o Tail(todo) \in Seq(Tiers) /\ Once(<<rest>> \o Tail(todo))
      <3> DEFINE q == <<rest>> \o Tail(todo)
      <3>1. q \in Seq(Tiers) /\ q[1] = rest
        BY <2>4, <2>5
      <3>2. \A i \in DOMAIN q : i = 1 \/ (i - 1 \in DOMAIN Tail(todo) /\ q[i] = Tail(todo)[i - 1])
        BY <2>4, <2>5
      <3> HIDE DEF q
      <3>3. Once(q)
        BY <2>3, <2>4, <2>5, <3>1, <3>2
      <3> QED
        BY <3>1, <3>3 DEF q
    <2>7. todo' = <<rest>> \o Tail(todo) \/ todo' = Tail(todo)
      BY <1>8 DEF Advance, rest
    <2> QED
      BY <2>1, <2>5, <2>6, <2>7 DEF TodoOK, Reading
  <1> QED
    BY <1>1, <1>3, <1>4, <1>5, <1>6, <1>7, <1>8 DEF Next, vars

LEMMA TierStep ==
  ASSUME IInv, [Next]_vars PROVE TierOK'
  <1>0. TodoOK /\ TierOK
    BY DEF IInv
  <1>1. CASE UNCHANGED vars
    BY <1>0, <1>1 DEF vars, tier, TierOK
  <1>2. CASE Select \/ Fatal \/ EndCategory \/ Finish \/ NoReply
    BY <1>0, <1>2 DEF Select, Fatal, EndCategory, Finish, NoReply, tier, TierOK, Reading
  <1>3. ASSUME NEW s \in Sessions, Replied(s) PROVE TierOK'
    BY <1>0, <1>3 DEF Replied, TierOK, Reading
  <1>4. CASE ReadCalls
    <2>1. session \in Sessions
      BY <1>0, <1>4 DEF ReadCalls, TierOK, Reading
    <2>2. calls' \in Seq(Parts)
      BY <1>4, <2>1, SessionToolCallsType DEF ReadCalls
    <2> QED
      BY <1>0, <1>4, <2>1, <2>2 DEF ReadCalls, TierOK, Reading
  <1>5. CASE Capture
    <2>1. session \in Sessions /\ calls \in Seq(Parts)
      BY <1>0, <1>5 DEF Capture, TierOK, Reading
    <2>2. PICK got \in Outcomes : chain' = SessionMessages(session, got) /\ heard' = AnswersTo(got)
      BY <1>5 DEF Capture
    <2>3. chain' \in Chains
      BY <2>1, <2>2, SessionMessagesType
    <2>4. heard' \subseteq Answers
      <3>1. Range(got.child) \subseteq Answers
        BY DEF Outcomes, Range
      <3> QED
        BY <2>2, <3>1 DEF AnswersTo, Outcomes, Answers
    <2>5. ProbeReply \in Messages
      <3>1. Len(session.messages) \in DOMAIN session.messages
        BY <2>1, SessionsAre
      <3> QED
        BY <2>1, <3>1, SessionsAre DEF ProbeReply, Last
    <2>6. Transcript(chain') \in Seq(Marks)
      BY <2>1, <2>3, <2>5, ChainTranscriptType, EventsTranscriptType DEF Transcript, SetupReply
    <2> QED
      BY <1>0, <1>5, <2>1, <2>3, <2>4, <2>6 DEF Capture, TierOK, Reading
  <1>6. CASE ScanTranscript \/ Judge \/ Verify
    BY <1>0, <1>6 DEF ScanTranscript, Judge, Verify, TierOK, Reading
  <1>7. CASE Advance
    <2>1. NoChain \in Chains /\ <<>> \in Seq(Parts) /\ <<>> \in Seq(Marks)
      BY NoChainIs
    <2> QED
      BY <1>0, <1>7, <2>1 DEF Advance, Forget, TierOK, Reading
  <1> QED
    BY <1>1, <1>2, <1>3, <1>4, <1>5, <1>6, <1>7 DEF Next

LEMMA StatedStep ==
  ASSUME IInv, [Next]_vars PROVE (pc \in Captured => Stated)'
  <1>0. TierOK /\ (pc \in Captured => Stated)
    BY DEF IInv
  <1>1. CASE Capture
    BY <1>0, <1>1, CaptureStates
  <1>2. CASE UNCHANGED vars
    BY <1>0, <1>2 DEF vars, tier, Stated
  <1>3. CASE ScanTranscript \/ Judge \/ Verify
    BY <1>0, <1>3 DEF ScanTranscript, Judge, Verify, Captured, Stated
  <1>4. CASE Select \/ Fatal \/ EndCategory \/ Finish \/ NoReply \/ ReadCalls \/ Advance
    BY <1>4 DEF Select, Fatal, EndCategory, Finish, NoReply, ReadCalls, Advance, Captured
  <1>5. ASSUME NEW s \in Sessions, Replied(s) PROVE pc' \notin Captured
    BY <1>5 DEF Replied, Captured
  <1> QED
    BY <1>1, <1>2, <1>3, <1>4, <1>5 DEF Next

LEMMA FoundKinds == \A t : Found(t) \subseteq Kinds
  BY DEF Found

LEMMA JudgedStep ==
  ASSUME IInv, [Next]_vars PROVE JudgedOK'
  <1>0. JudgedOK
    BY DEF IInv
  <1>1. CASE UNCHANGED vars
    BY <1>0, <1>1 DEF vars, tier, JudgedOK, Asked, Current
  <1>2. CASE Select \/ Fatal \/ EndCategory \/ Finish \/ NoReply
    BY <1>0, <1>2
       DEF Select, Fatal, EndCategory, Finish, NoReply, tier, JudgedOK, Verdicts, NoScan
  <1>3. ASSUME NEW s \in Sessions, Replied(s) PROVE JudgedOK'
    BY <1>0, <1>3 DEF Replied, JudgedOK, Verdicts, NoScan
  <1>4. CASE ReadCalls \/ Capture
    BY <1>0, <1>4 DEF ReadCalls, Capture, JudgedOK, Verdicts, NoScan
  <1>5. CASE ScanTranscript
    BY <1>0, <1>5, FoundKinds DEF ScanTranscript, JudgedOK, NoScan, Verdicts
  <1>6. CASE Judge
    <2>1. verdict' \in Verdicts /\ (verdict' = "pass" => scan.ran /\ Asked.forbid \cap scan.found = {})
      BY <1>6 DEF Judge, CheckPass, CheckCounts, Verdicts
    <2>2. Asked' = Asked
      BY <1>6 DEF Judge, Asked, Current
    <2> QED
      BY <1>0, <1>6, <2>1, <2>2 DEF Judge, JudgedOK, Verdicts
  <1>7. CASE Verify
    BY <1>0, <1>7 DEF Verify, JudgedOK, Asked, Current
  <1>8. CASE Advance
    BY <1>0, <1>8 DEF Advance, Forget, JudgedOK, NoScan, Verdicts
  <1> QED
    BY <1>1, <1>2, <1>3, <1>4, <1>5, <1>6, <1>7, <1>8 DEF Next

LEMMA NextIInv == IInv /\ [Next]_vars => IInv'
  BY TodoStep, TierStep, StatedStep, JudgedStep DEF IInv

\* TypeOK: whatever is selected, captured and judged is of its type; the tiers
\* still to run are there, each once, and a verdict is there when, and only
\* when, its tier has been judged.
THEOREM TypeCorrect == Spec => []TypeOK
  <1>1. IInv => TypeOK
    <2> SUFFICES ASSUME IInv PROVE TypeOK
      OBVIOUS
    <2>1. \A i \in DOMAIN todo : todo[i].category \in Categories
      <3>1. \A i \in DOMAIN todo : todo[i] \in Tiers
        BY DEF IInv, TodoOK
      <3> QED
        BY <3>1 DEF Tiers
    <2>2. grade \in {"none", "PASS", "PARTIAL", "FAIL"}
      BY DEF IInv, JudgedOK, Grade
    <2>3. chain.error \in {"none", "parent", "children", "child"}
      BY DEF IInv, TierOK, Chains
    <2> QED
      BY <2>1, <2>2, <2>3 DEF IInv, TodoOK, TierOK, JudgedOK, TypeOK, Reading
  <1> QED
    BY InitIInv, NextIInv, <1>1, PTL DEF Spec

\* GapStated: a missing chain is a stated gap, for every session and every
\* pattern of failed requests.
THEOREM GapsAreStated == Spec => []GapStated
  <1>1. IInv => GapStated
    BY DEF IInv, GapStated, Captured, Stated
  <1> QED
    BY InitIInv, NextIInv, <1>1, PTL DEF Spec

\* JudgesAgree: the two judges agree about an override, in every tier.
THEOREM TheJudgesAgree == Spec => []JudgesAgree
  <1>1. IInv => JudgesAgree
    BY OverrideFails DEF IInv, TierOK, JudgedOK, JudgesAgree
  <1> QED
    BY InitIInv, NextIInv, <1>1, PTL DEF Spec

\* SelectionHonoured: what runs is what was asked for and is there, once each,
\* in the order of the tokens, of every selection and every ladder.
THEOREM SelectionIsHonoured == Spec => SelectionHonoured
  <1> DEFINE Step ==
        pc = "select" /\ pc' = "next" =>
          /\ \A i \in DOMAIN spec[1] : spec[1][i][2] \in Categories
          /\ Honours([i \in DOMAIN todo' |-> todo'[i].category], spec[1], Len(Depths))
          /\ \A i \in DOMAIN todo' :
               Honours(todo'[i].tiers, spec[2], Depths[todo'[i].category])
  <1>1. IInv /\ [Next]_vars => [Step]_vars
    <2> SUFFICES ASSUME IInv, Next, pc = "select", pc' = "next" PROVE Step
      OBVIOUS
    <2>1. Select
      BY DEF Next, Select, Fatal, EndCategory, Finish, NoReply, Replied, ReadCalls, Capture,
             ScanTranscript, Judge, Verify, Advance
    <2>2. todo' = Selected /\ ~Refused /\ spec \in Specs \X Specs
      BY <2>1 DEF Select, IInv, TierOK
    <2>3. ASSUME NEW i \in DOMAIN spec[1] PROVE spec[1][i][2] \in Categories
      <3>1. spec[1] \in Seq(Int \X Int) /\ Len(Depths) \in Nat /\ Categories = 1 .. Len(Depths)
        BY <2>2, LadderAssumption DEF Categories
      <3>2. spec[1][i][1] \in Int /\ spec[1][i][2] \in Int
        BY <3>1
      <3>3. 1 <= spec[1][i][1] /\ spec[1][i][1] <= spec[1][i][2] /\ spec[1][i][2] <= Len(Depths)
        BY <2>2 DEF Refused, CategoriesRefused
      <3> QED
        BY <3>1, <3>2, <3>3
    <2> QED
      BY <2>2, <2>3, SelectedIs
  <1> QED
    BY InitIInv, NextIInv, <1>1, PTL DEF Spec, SelectionHonoured

\* PassIsEarned: a pass was scanned, and no message of the session or of a
\* subagent shows by itself what the tier forbids, of every session and every
\* length that an output is cut to.
THEOREM PassesAreEarned == Spec => []PassIsEarned
  <1>1. IInv => PassIsEarned
    <2> SUFFICES ASSUME IInv, verdict = "pass", chain.error = "none",
                        "cut" \notin ToSet(transcript), "odd" \notin heard,
                        NEW m \in Wrote(session), ~LikeHeading(m)
                 PROVE  scan.ran /\ Found(Written(m)) \cap Asked.forbid = {}
      BY DEF PassIsEarned, IInv, JudgedOK
    <2>1. pc = "judged" /\ scan.ran /\ Asked.forbid \cap Found(transcript) = {}
      BY DEF IInv, JudgedOK
    <2>2. session \in Sessions /\ transcript = Whole(session) /\ transcript \in Seq(Marks)
      BY <2>1 DEF IInv, TierOK, Reading, Captured, Stated
    <2>3. m \in Messages /\ Within(RenderMessage(m), transcript)
      BY <2>2, WroteWithin
    <2>4. RenderMessage(m) \in Seq(Marks)
      BY <2>3, RenderMessageType
    <2>5. "cut" \notin ToSet(RenderMessage(m))
      BY <2>2, <2>3, <2>4, WithinMarks
    <2>6. Found(RenderMessage(m)) \subseteq Found(transcript)
      BY <2>2, <2>3, <2>4, <2>5, MessageHeading, FoundThere
    <2>7. Written(m) = RenderMessage(m)
      BY <2>3, <2>5, MessageUncut
    <2> QED
      BY <2>1, <2>6, <2>7
  <1> QED
    BY InitIInv, NextIInv, <1>1, PTL DEF Spec

=============================================================================
