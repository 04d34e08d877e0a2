---------------------------- MODULE KeepingProofs ----------------------------
(***************************************************************************)
(* What six parts of Services keep, for every number of questions, edits,  *)
(* parts of a problem, lines, calls, saves and stretches: a homework set   *)
(* is ranked as it is, a guide has what the model wrote of it, the parts   *)
(* in which a second solution differs are the ones told, and what is kept  *)
(* of a student is kept once and no longer than what it is of.             *)
(***************************************************************************)
EXTENDS Services, SequenceTheorems, FiniteSetTheorems, WellFoundedInduction, TLAPS

-----------------------------------------------------------------------------
(* A homework set.                                                         *)

SetConstants ==
  MaxQuestions \in Nat \ {0} /\ FirstQuestions \in 1..MaxQuestions /\ MaxEdits \in Nat

SetTypes ==
  /\ Set!TypeOK
  /\ moving \in [q: 0..MaxQuestions, from: 0..MaxQuestions]
  /\ rank \in [queued: Nat, list: SUBSET (1..MaxQuestions)]

\* No place is beyond as many questions as there have been, those read by a request to
\* move one or by a find among them, and a question that is not yet has none.
Placed ==
  /\ \A q \in 1..MaxQuestions : /\ position[q] <= born /\ readAt[q] <= born
                                /\ q > born => position[q] = 0
  /\ moving.from <= born
  /\ moving # Set!NoMove => moving.q > 0 /\ moving.from > 0

Scored == \A q \in Set!Present : against[q] = Set!Present

\* A question is in the find that will call for a ranking, a call is to be made, or its
\* ranking is coming: queued, or under way over the set as it is.
Coming ==
  \/ finding # {} \/ calls > 0 \/ counted = "ready"
  \/ rank.queued > 0 \/ rank.list = Set!Present

Ranked == cut \/ Coming \/ Set!Present = {} \/ (rank.list = {} /\ Scored)

SetInv == SetTypes /\ Placed /\ Ranked

LEMMA PlaceTypes ==
  ASSUME SetConstants, SetTypes, Placed
  PROVE  /\ MaxQuestions \in Nat \ {0} /\ FirstQuestions \in 1..MaxQuestions /\ MaxEdits \in Nat
         /\ born \in FirstQuestions..MaxQuestions
         /\ position \in [1..MaxQuestions -> 0..MaxQuestions]
         /\ \A q \in 1..MaxQuestions : position[q] <= born /\ (q > born => position[q] = 0)
         /\ Set!Present \subseteq 1..born
<1>1. /\ MaxQuestions \in Nat \ {0} /\ FirstQuestions \in 1..MaxQuestions /\ MaxEdits \in Nat
      /\ born \in FirstQuestions..MaxQuestions
      /\ position \in [1..MaxQuestions -> 0..MaxQuestions]
      /\ \A q \in 1..MaxQuestions : position[q] <= born /\ (q > born => position[q] = 0)
  BY DEF SetConstants, SetTypes, Set!TypeOK, Set!Questions, Placed
<1> QED
  BY <1>1 DEF Set!Present, Set!Questions

LEMMA Insertion ==
  ASSUME SetConstants, SetTypes, Placed, born < MaxQuestions, NEW after \in 0..born,
         position' = Set!InsertAfter(position, after), born' = born + 1
  PROVE  /\ position' \in [1..MaxQuestions -> 0..MaxQuestions]
         /\ born' \in FirstQuestions..MaxQuestions
         /\ \A q \in 1..MaxQuestions : position'[q] <= born' /\ (q > born' => position'[q] = 0)
         /\ Set!Present' = Set!Present \cup {born + 1}
<1>t. /\ MaxQuestions \in Nat \ {0} /\ FirstQuestions \in 1..MaxQuestions
      /\ born \in FirstQuestions..MaxQuestions
      /\ position \in [1..MaxQuestions -> 0..MaxQuestions]
      /\ \A q \in 1..MaxQuestions : position[q] <= born /\ (q > born => position[q] = 0)
      /\ Set!Present \subseteq 1..born
  BY PlaceTypes
<1>n. born \in Nat \ {0} /\ MaxQuestions \in Nat /\ born <= MaxQuestions
  BY <1>t
<1>1. \A q \in 1..MaxQuestions :
        position'[q] = IF q = born + 1 THEN after + 1
                       ELSE IF position[q] > after THEN position[q] + 1 ELSE position[q]
  BY DEF Set!InsertAfter, Set!Questions
<1>2. position' = [q \in 1..MaxQuestions |-> position'[q]]
  BY DEF Set!InsertAfter, Set!Questions
<1>3. ASSUME NEW q \in 1..MaxQuestions
      PROVE  /\ position'[q] \in 0..MaxQuestions /\ position'[q] <= born'
             /\ q > born' => position'[q] = 0
             /\ position'[q] > 0 <=> (position[q] > 0 \/ q = born + 1)
  <2>1. position[q] \in Nat /\ position[q] <= born /\ (q > born => position[q] = 0)
    BY <1>t
  <2> QED
    BY <1>1, <1>n, <2>1
<1>4. born + 1 \in 1..MaxQuestions
  BY <1>n
<1>5. position' \in [1..MaxQuestions -> 0..MaxQuestions]
  BY <1>2, <1>3
<1>6. Set!Present' = Set!Present \cup {born + 1}
  BY <1>3, <1>4 DEF Set!Present, Set!Questions
<1> QED
  BY <1>3, <1>5, <1>6, <1>t

LEMMA Renumbered ==
  ASSUME SetConstants, SetTypes, Placed, NEW out \in Set!Present,
         position' \in [1..MaxQuestions -> 0..MaxQuestions], born' = born,
         Set!Renumber([position EXCEPT ![out] = 0], position')
  PROVE  /\ \A q \in 1..MaxQuestions : position'[q] <= born' /\ (q > born' => position'[q] = 0)
         /\ Set!Present' = Set!Present \ {out}
<1>t. /\ MaxQuestions \in Nat \ {0} /\ FirstQuestions \in 1..MaxQuestions
      /\ born \in FirstQuestions..MaxQuestions
      /\ position \in [1..MaxQuestions -> 0..MaxQuestions]
      /\ \A q \in 1..MaxQuestions : position[q] <= born /\ (q > born => position[q] = 0)
      /\ Set!Present \subseteq 1..born
  BY PlaceTypes
<1>n. born \in Nat \ {0} /\ MaxQuestions \in Nat /\ born <= MaxQuestions
  BY <1>t
<1> DEFINE old == [position EXCEPT ![out] = 0]
           Seen(o, q) == IF o < q THEN position'[o] ELSE old[o]
           ahead(q) == {o \in Set!Questions \ {q} : Seen(o, q) > 0 /\
                           (Seen(o, q) < old[q] \/
                              (Seen(o, q) = old[q] /\ Set!Created(o) < Set!Created(q)))}
<1>1. \A q \in 1..MaxQuestions :
        position'[q] = IF old[q] = 0 THEN 0 ELSE Set!Cardinality(ahead(q)) + 1
  BY Zenon DEF Set!Renumber, Set!Questions
<1>2. \A q \in 1..MaxQuestions : old[q] = IF q = out THEN 0 ELSE position[q]
  BY <1>t
<1>3. ASSUME NEW q \in 1..MaxQuestions, old[q] # 0
      PROVE  Set!Cardinality(ahead(q)) \in 0..born - 1
  <2>1. q \in 1..born
    BY <1>2, <1>3, <1>t
  <2>2. ahead(q) \subseteq (1..born) \ {q}
    <3> SUFFICES ASSUME NEW o \in ahead(q)
                 PROVE  o \in 1..born
      OBVIOUS
    <3>1. o \in 1..MaxQuestions /\ Seen(o, q) > 0
      BY DEF Set!Questions
    <3> HIDE DEF old, ahead
    <3>2. old[o] # 0
      <4>1. CASE o < q
        <5>1. position'[o] > 0
          BY <3>1, <4>1
        <5> QED
          BY <1>1, <3>1, <5>1
      <4>2. CASE ~(o < q)
        BY <3>1, <4>2
      <4> QED
        BY <4>1, <4>2
    <3>3. position[o] # 0
      BY <1>2, <3>1, <3>2
    <3> QED
      BY <1>t, <1>n, <3>1, <3>3
  <2> HIDE DEF ahead
  <2>3. IsFiniteSet(1..born) /\ Cardinality(1..born) = born
    <3>1. 1 \in Int /\ born \in Int /\ ~(1 > born) /\ born - 1 + 1 = born
      BY <1>n
    <3> QED
      BY <3>1, FS_Interval
  <2>4. IsFiniteSet((1..born) \ {q}) /\ Cardinality((1..born) \ {q}) = born - 1
    <3> DEFINE S == 1..born
    <3>1. q \in S /\ IsFiniteSet(S) /\ Cardinality(S) = born
      BY <2>1, <2>3
    <3> HIDE DEF S
    <3>2. IsFiniteSet(S \ {q}) /\ Cardinality(S \ {q}) = Cardinality(S) - 1
      BY <3>1, FS_RemoveElement
    <3> QED
      BY <3>1, <3>2 DEF S
  <2>5. IsFiniteSet(ahead(q)) /\ Cardinality(ahead(q)) <= born - 1
    BY <2>2, <2>4, FS_Subset
  <2>6. Cardinality(ahead(q)) \in Nat
    BY <2>5, FS_CardinalityType
  <2> QED
    BY <1>n, <2>5, <2>6 DEF Set!Cardinality, Cardinality
<1> HIDE DEF old, ahead
<1>4. ASSUME NEW q \in 1..MaxQuestions
      PROVE  /\ position'[q] <= born /\ (q > born => position'[q] = 0)
             /\ position'[q] > 0 <=> (position[q] > 0 /\ q # out)
  <2>1. CASE old[q] = 0
    <3>1. position'[q] = 0 /\ (q = out \/ position[q] = 0)
      BY <1>1, <1>2, <2>1
    <3> QED
      BY <1>n, <3>1
  <2>2. CASE old[q] # 0
    <3>1. q # out /\ position[q] # 0 /\ position[q] \in Nat /\ ~(q > born)
      BY <1>2, <1>t, <2>2
    <3>2. /\ position'[q] = Set!Cardinality(ahead(q)) + 1
          /\ Set!Cardinality(ahead(q)) \in 0..born - 1
      BY <1>1, <1>3, <2>2
    <3> QED
      BY <1>n, <3>1, <3>2
  <2> QED
    BY <2>1, <2>2
<1> QED
  BY <1>4, <1>t DEF Set!Present, Set!Questions

\* A move, from whatever position it read, takes no question out of the set.
LEMMA MovedStays ==
  ASSUME SetConstants, SetTypes, Placed, NEW to \in 1..MaxQuestions, Set!Move(to)
  PROVE  /\ position' \in [1..MaxQuestions -> 0..MaxQuestions]
         /\ \A q \in 1..MaxQuestions : position'[q] <= born /\ (q > born => position'[q] = 0)
         /\ Set!Present' = Set!Present
<1>t. /\ MaxQuestions \in Nat \ {0} /\ born \in 1..MaxQuestions
      /\ position \in [1..MaxQuestions -> 0..MaxQuestions]
      /\ \A q \in 1..MaxQuestions : position[q] <= born /\ (q > born => position[q] = 0)
      /\ Set!Present \subseteq 1..born
  BY PlaceTypes
<1>m. /\ moving.q \in 1..MaxQuestions /\ moving.from \in 1..MaxQuestions /\ moving.from <= born
  BY <1>t DEF Set!Move, SetTypes, Placed
<1>1. to <= born
  <2>1. IsFiniteSet(1..born) /\ Cardinality(1..born) = born
    BY <1>t, FS_Interval
  <2>2. Cardinality(Set!Present) <= born /\ Cardinality(Set!Present) \in Nat
    BY <1>t, <2>1, FS_Subset, FS_CardinalityType
  <2>3. to \in 1..Cardinality(Set!Present)
    BY DEF Set!Move, Set!Cardinality, Cardinality
  <2> QED
    BY <1>t, <2>2, <2>3
<1>2. CASE to = moving.from
  BY <1>t, <1>2 DEF Set!Move, Set!Present, Set!Questions
<1>3. CASE to # moving.from
  <2>1. position' = [q \in 1..MaxQuestions |->
          IF q = moving.q /\ position[q] > 0 THEN to
          ELSE IF to <= position[q] /\ position[q] < moving.from THEN position[q] + 1
          ELSE IF moving.from < position[q] /\ position[q] <= to THEN position[q] - 1
          ELSE position[q]]
    BY <1>3 DEF Set!Move, Set!Moved, Set!Questions
  <2>2. ASSUME NEW q \in 1..MaxQuestions
        PROVE  /\ position'[q] \in 0..MaxQuestions /\ position'[q] <= born
               /\ q > born => position'[q] = 0
               /\ position'[q] > 0 <=> position[q] > 0
    <3>1. /\ position[q] \in Nat /\ position[q] <= born /\ (q > born => position[q] = 0)
          /\ position'[q] = IF q = moving.q /\ position[q] > 0 THEN to
               ELSE IF to <= position[q] /\ position[q] < moving.from THEN position[q] + 1
               ELSE IF moving.from < position[q] /\ position[q] <= to THEN position[q] - 1
               ELSE position[q]
      BY <1>t, <2>1
    <3>2. /\ to \in Nat \ {0} /\ moving.from \in Nat \ {0} /\ born \in Nat /\ MaxQuestions \in Nat
          /\ born <= MaxQuestions /\ moving.from <= born /\ to <= born
      BY <1>t, <1>m, <1>1
    <3>3. CASE q = moving.q /\ position[q] > 0
      BY <3>1, <3>2, <3>3
    <3>4. CASE to <= position[q] /\ position[q] < moving.from
      <4>1. position'[q] = position[q] + 1 \/ position'[q] = to
        BY <3>1, <3>4
      <4> QED
        BY <3>1, <3>2, <3>4, <4>1
    <3>5. CASE moving.from < position[q] /\ position[q] <= to
      <4>1. position'[q] = position[q] - 1 \/ position'[q] = to
        BY <3>1, <3>2, <3>5
      <4> QED
        BY <3>1, <3>2, <3>5, <4>1
    <3>6. CASE position'[q] = position[q]
      BY <3>1, <3>2, <3>6
    <3> QED
      BY <3>1, <3>3, <3>4, <3>5, <3>6
  <2> QED
    BY <1>t, <2>1, <2>2 DEF Set!Present, Set!Questions
<1> QED
  BY <1>2, <1>3

LEMMA PlacesStep ==
  ASSUME SetConstants, SetTypes, Placed, Set!Next
  PROVE  /\ SetTypes' /\ Placed'
         /\ Set!Present' = Set!Present \/ finding' # {} \/ calls' > 0
<1>t. /\ MaxQuestions \in Nat \ {0} /\ born \in FirstQuestions..MaxQuestions
      /\ FirstQuestions \in 1..MaxQuestions /\ MaxEdits \in Nat
      /\ position \in [1..MaxQuestions -> 0..MaxQuestions]
      /\ \A q \in 1..MaxQuestions : position[q] <= born /\ (q > born => position[q] = 0)
      /\ Set!Present \subseteq 1..born
  BY PlaceTypes
<1>n. born \in Nat \ {0} /\ born <= MaxQuestions
  BY <1>t
<1>k. /\ finding \subseteq Set!Present /\ readAt \in [1..MaxQuestions -> 0..MaxQuestions]
      /\ \A q \in 1..MaxQuestions : readAt[q] <= born
      /\ moving \in [q: 0..MaxQuestions, from: 0..MaxQuestions] /\ moving.from <= born
      /\ moving # Set!NoMove => moving.q > 0 /\ moving.from > 0
      /\ calls \in Nat /\ edits \in 0..MaxEdits /\ counted \in {"none", "ready", "not"}
      /\ rank \in [queued: Nat, list: SUBSET (1..MaxQuestions)]
      /\ against \in [1..MaxQuestions -> SUBSET (1..MaxQuestions)]
      /\ crossed \in BOOLEAN /\ cut \in BOOLEAN
  BY DEF SetTypes, Set!TypeOK, Set!Questions, Placed
<1> DEFINE Places == /\ position \in [1..MaxQuestions -> 0..MaxQuestions]
                     /\ born \in FirstQuestions..MaxQuestions
                     /\ \A q \in 1..MaxQuestions : position[q] <= born /\ (q > born => position[q] = 0)
           Finds == /\ finding \subseteq Set!Present
                    /\ readAt \in [1..MaxQuestions -> 0..MaxQuestions]
                    /\ \A q \in 1..MaxQuestions : readAt[q] <= born
           Moves == /\ moving \in [q: 0..MaxQuestions, from: 0..MaxQuestions]
                    /\ moving.from <= born
                    /\ moving # Set!NoMove => moving.q > 0 /\ moving.from > 0
           Ranks == /\ calls \in Nat /\ counted \in {"none", "ready", "not"}
                    /\ rank \in [queued: Nat, list: SUBSET (1..MaxQuestions)]
                    /\ against \in [1..MaxQuestions -> SUBSET (1..MaxQuestions)]
                    /\ cut \in BOOLEAN
           Others == crossed \in BOOLEAN /\ edits \in 0..MaxEdits
<1>p. Places /\ Finds /\ Moves /\ Ranks /\ Others
  BY <1>t, <1>k
<1> SUFFICES /\ Places' /\ Finds' /\ Moves' /\ Ranks' /\ Others'
             /\ Set!Present' = Set!Present \/ finding' # {} \/ calls' > 0
  BY DEF SetTypes, Set!TypeOK, Set!Questions, Placed
<1>s. ASSUME UNCHANGED <<position, born>>
      PROVE  Set!Present' = Set!Present /\ Places'
  BY <1>s, <1>p DEF Set!Present
<1>c. ASSUME NEW n \in Nat, Set!Call(n)
      PROVE  Ranks' /\ calls' = calls + n
  BY <1>c, <1>p DEF Set!Call
<1>e. ASSUME Set!Edit PROVE edits' \in 0..MaxEdits
  BY <1>e, <1>t, <1>k DEF Set!Edit
<1> HIDE DEF Places
<1>1. CASE Set!Add
  <2>1. /\ Set!Edit /\ born < MaxQuestions /\ born' = born + 1 /\ Set!Call(1)
        /\ UNCHANGED <<readAt, moving, crossed>>
        /\ finding' \subseteq finding \cup {born + 1}
    BY <1>1 DEF Set!Add
  <2>2. PICK after \in 0..born : position' = Set!InsertAfter(position, after)
    BY <1>1, <1>t, <1>n DEF Set!Add, Set!Questions
  <2>3. Places' /\ Set!Present' = Set!Present \cup {born + 1}
    BY <2>1, <2>2, Insertion DEF Places
  <2>4. Finds'
    <3>1. born <= born' /\ born' \in Nat
      BY <1>n, <2>1
    <3>2. \A o \in 1..MaxQuestions : readAt[o] \in 0..MaxQuestions /\ readAt[o] <= born'
      BY <1>k, <1>n, <3>1
    <3> QED
      BY <1>p, <2>1, <2>3, <3>2
  <2>5. Moves'
    BY <1>p, <1>n, <2>1
  <2> QED
    BY <1>p, <1>c, <1>e, <2>1, <2>3, <2>4, <2>5
<1>2. CASE Set!MoveRefused
  <2>1. /\ moving' = Set!NoMove
        /\ UNCHANGED <<position, born, crossed, finding, readAt, Set!ranking, edits>>
    BY <1>2 DEF Set!MoveRefused, Set!order
  <2>2. Moves'
    <3>1. 0 \in 0..MaxQuestions /\ 0 <= born /\ born' = born
      BY <1>n, <1>t, <2>1
    <3> QED
      BY <2>1, <3>1 DEF Set!NoMove
  <2>3. Places' /\ Set!Present' = Set!Present
    BY <1>s, <2>1
  <2> QED
    BY <1>p, <2>1, <2>2, <2>3 DEF Set!ranking
<1>3. ASSUME NEW to \in 1..MaxQuestions, Set!Move(to)
      PROVE  /\ Places' /\ Finds' /\ Moves' /\ Ranks' /\ Others'
             /\ Set!Present' = Set!Present
  <2>1. Places' /\ Set!Present' = Set!Present
    BY <1>3, <1>t, MovedStays DEF Places, Set!Move
  <2>2. /\ moving' = Set!NoMove /\ UNCHANGED <<born, finding, readAt, Set!ranking, edits>>
        /\ crossed' \in BOOLEAN
    BY <1>3, <1>k DEF Set!Move
  <2> QED
    BY <1>p, <1>t, <1>n, <2>1, <2>2 DEF Set!NoMove, Set!ranking
<1>4. ASSUME NEW q \in 1..MaxQuestions, Set!MoveReads(q)
      PROVE  /\ Places' /\ Finds' /\ Moves' /\ Ranks' /\ Others'
             /\ Set!Present' = Set!Present
  <2>1. /\ moving' = [q |-> q, from |-> position[q]] /\ position[q] > 0 /\ Set!Edit
        /\ UNCHANGED <<position, born, crossed, finding, readAt, Set!ranking>>
    BY <1>4 DEF Set!MoveReads, Set!Present, Set!order
  <2>2. Moves'
    BY <1>t, <2>1
  <2> QED
    BY <1>p, <1>s, <1>e, <2>1, <2>2 DEF Set!ranking
<1>5. ASSUME NEW q \in 1..MaxQuestions, Set!RemoveQuestion(q)
      PROVE  Places' /\ Finds' /\ Moves' /\ Ranks' /\ Others' /\ calls' > 0
  <2>1. /\ Set!Edit /\ q \in Set!Present /\ Set!Call(1)
        /\ position' \in [1..MaxQuestions -> 0..MaxQuestions]
        /\ Set!Renumber([position EXCEPT ![q] = 0], position')
        /\ finding' = finding \ {q} /\ readAt' = [readAt EXCEPT ![q] = 0]
        /\ UNCHANGED <<born, moving, crossed>>
    BY <1>5 DEF Set!RemoveQuestion, Set!Questions
  <2>2. Places' /\ Set!Present' = Set!Present \ {q}
    BY <1>t, <2>1, Renumbered DEF Places
  <2>3. Finds'
    <3>1. 0 \in 0..MaxQuestions /\ 0 <= born /\ born' = born
      BY <1>n, <1>t, <2>1
    <3>2. \A o \in 1..MaxQuestions : readAt'[o] = IF o = q THEN 0 ELSE readAt[o]
      BY <1>k, <2>1
    <3>3. readAt' \in [1..MaxQuestions -> 0..MaxQuestions]
      BY <1>k, <2>1, <3>1
    <3>4. finding' \subseteq Set!Present'
      BY <1>k, <2>1, <2>2
    <3>5. \A o \in 1..MaxQuestions : readAt'[o] <= born'
      BY <1>k, <3>1, <3>2
    <3> QED
      BY <3>3, <3>4, <3>5
  <2> QED
    BY <1>p, <1>c, <1>e, <2>1, <2>2, <2>3
<1>6. ASSUME NEW q \in 1..MaxQuestions,
             Set!FindAgain(q) \/ Set!FindStarts(q) \/ Set!FindEnds(q) \/ Set!FindCut(q)
      PROVE  /\ Places' /\ Finds' /\ Moves' /\ Ranks' /\ Others'
             /\ Set!Present' = Set!Present
  <2>1. /\ UNCHANGED <<position, born, crossed, moving>> /\ finding' \subseteq Set!Present
        /\ edits' \in 0..MaxEdits /\ (Set!Call(0) \/ Set!Call(1))
        /\ \/ readAt' = readAt \/ readAt' = [readAt EXCEPT ![q] = 0]
           \/ readAt' = [readAt EXCEPT ![q] = position[q]]
    BY <1>6, <1>e, <1>k DEF Set!FindAgain, Set!FindStarts, Set!FindEnds, Set!FindCut, Set!order,
                            Set!ranking, Set!Call
  <2>2. Places' /\ Set!Present' = Set!Present
    BY <1>s, <2>1
  <2>3. Ranks'
    BY <1>c, <2>1
  <2>4. \A o \in 1..MaxQuestions : readAt'[o] \in 0..MaxQuestions /\ readAt'[o] <= born
    <3>1. \A o \in 1..MaxQuestions : readAt[o] \in 0..MaxQuestions /\ readAt[o] <= born
      BY <1>k
    <3>2. /\ position[q] \in 0..MaxQuestions /\ position[q] <= born
          /\ 0 \in 0..MaxQuestions /\ 0 <= born /\ DOMAIN readAt = 1..MaxQuestions
      BY <1>k, <1>t, <1>n
    <3>3. \A o \in 1..MaxQuestions : readAt'[o] \in {readAt[o], 0} \/ (o = q /\ readAt'[o] = position[q])
      BY <2>1, <3>2
    <3> QED
      BY <3>1, <3>2, <3>3
  <2>5. Finds'
    BY <1>p, <2>1, <2>2, <2>4
  <2> QED
    BY <1>p, <2>1, <2>2, <2>3, <2>5
<1>7. ASSUME NEW q \in 1..MaxQuestions, Set!Rewrite(q)
      PROVE  Places' /\ Finds' /\ Moves' /\ Ranks' /\ Others' /\ finding' # {}
  <2>1. /\ Set!Edit /\ born < MaxQuestions /\ born' = born + 1
        /\ position' = Set!InsertAfter(position, readAt[q])
        /\ finding' = finding \cup {born + 1} /\ readAt' = [readAt EXCEPT ![q] = position'[q]]
        /\ crossed' \in BOOLEAN /\ UNCHANGED <<moving, Set!ranking>>
    BY <1>7, <1>k DEF Set!Rewrite
  <2>2. Places' /\ Set!Present' = Set!Present \cup {born + 1}
    <3>1. readAt[q] \in 0..born
      BY <1>k, <1>n
    <3> QED
      BY <2>1, <3>1, Insertion DEF Places
  <2>3. \A o \in 1..MaxQuestions : readAt'[o] \in 0..MaxQuestions /\ readAt'[o] <= born'
    <3>1. /\ born <= born' /\ born' \in Nat
          /\ position'[q] \in 0..MaxQuestions /\ position'[q] <= born'
      <4>1. born' \in FirstQuestions..MaxQuestions /\ born' = born + 1
        BY <2>1, <2>2 DEF Places
      <4>2. position' \in [1..MaxQuestions -> 0..MaxQuestions] /\ position'[q] <= born'
        BY <2>2 DEF Places
      <4> QED
        BY <1>n, <4>1, <4>2
    <3>2. \A o \in 1..MaxQuestions : readAt[o] \in 0..MaxQuestions /\ readAt[o] <= born'
      BY <1>k, <1>n, <3>1
    <3> QED
      BY <1>k, <2>1, <3>1, <3>2
  <2>4. Finds'
    BY <1>p, <2>1, <2>2, <2>3
  <2> QED
    BY <1>p, <1>e, <1>n, <2>1, <2>2, <2>4 DEF Set!ranking
<1>8. CASE Set!Count \/ Set!QueueRank \/ Set!CallCut \/ Set!RankStarts \/ Set!RankEnds \/ Set!RankCut
  <2>1. UNCHANGED <<position, born, crossed, finding, readAt, moving, edits>>
    BY <1>8 DEF Set!Count, Set!QueueRank, Set!CallCut, Set!RankStarts, Set!RankEnds, Set!RankCut,
                Set!order
  <2>2. Ranks'
    <3>1. CASE Set!Count
      BY <1>p, <3>1 DEF Set!Count
    <3>2. CASE Set!QueueRank
      BY <1>p, <3>2 DEF Set!QueueRank
    <3>3. CASE Set!CallCut
      BY <1>p, <3>3 DEF Set!CallCut
    <3>4. CASE Set!RankStarts
      BY <1>p, <1>t, <3>4 DEF Set!RankStarts, Set!Present, Set!Questions
    <3>5. CASE Set!RankEnds
      BY <1>p, <3>5 DEF Set!RankEnds, Set!Questions
    <3>6. CASE Set!RankCut
      BY <1>p, <3>6 DEF Set!RankCut
    <3> QED
      BY <1>8, <3>1, <3>2, <3>3, <3>4, <3>5, <3>6
  <2>3. Places' /\ Set!Present' = Set!Present
    BY <1>s, <2>1
  <2> QED
    BY <1>p, <2>1, <2>2, <2>3
<1> QED
  BY <1>1, <1>2, <1>3, <1>4, <1>5, <1>6, <1>7, <1>8 DEF Set!Next, Set!Questions

\* Whatever changes the set calls for a ranking, or leaves a find that will; and a ranking
\* scores it as it was when it began.
LEMMA RankedStep ==
  ASSUME SetConstants, SetInv, Set!Next
  PROVE  Ranked'
<1> USE DEF SetInv, Ranked, Coming, Scored
<1>k. /\ finding \subseteq Set!Present /\ calls \in Nat /\ counted \in {"none", "ready", "not"}
      /\ rank \in [queued: Nat, list: SUBSET (1..MaxQuestions)]
      /\ against \in [1..MaxQuestions -> SUBSET (1..MaxQuestions)]
      /\ Set!Present \subseteq 1..MaxQuestions
  BY DEF SetTypes, Set!TypeOK, Set!Questions, Set!Present
<1>p. Set!Present' = Set!Present \/ finding' # {} \/ calls' > 0
  BY PlacesStep
<1>1. CASE \/ Set!Add \/ \E q \in Set!Questions : Set!RemoveQuestion(q) \/ Set!FindEnds(q)
  <2>1. calls' = calls + 1
    BY <1>1 DEF Set!Add, Set!RemoveQuestion, Set!FindEnds, Set!Call
  <2> QED
    BY <1>k, <2>1
<1>2. CASE \E q \in Set!Questions : Set!Rewrite(q) \/ Set!FindAgain(q)
  <2>1. finding' # {}
    BY <1>2 DEF Set!Rewrite, Set!FindAgain
  <2> QED
    BY <2>1
<1>3. CASE \/ Set!MoveRefused \/ \E to \in Set!Questions : Set!Move(to)
           \/ \E q \in Set!Questions : Set!MoveReads(q) \/ Set!FindStarts(q) \/ Set!FindCut(q)
  <2>1. UNCHANGED <<finding, calls, counted, rank, against, cut>>
    BY <1>3 DEF Set!MoveRefused, Set!Move, Set!MoveReads, Set!FindStarts, Set!FindCut, Set!ranking
  <2> QED
    BY <1>p, <2>1
<1>4. ASSUME Set!Count \/ Set!QueueRank \/ Set!CallCut \/ Set!RankStarts \/ Set!RankEnds \/ Set!RankCut
      PROVE  Set!Present' = Set!Present /\ finding' = finding
  BY <1>4 DEF Set!Count, Set!QueueRank, Set!CallCut, Set!RankStarts, Set!RankEnds, Set!RankCut,
              Set!order, Set!Present
<1>5. CASE Set!Count
  <2>1. CASE Set!Present # {} /\ finding = {}
    BY <1>5, <1>k, <2>1 DEF Set!Count
  <2>2. CASE Set!Present = {}
    BY <1>4, <1>5, <2>2
  <2>3. CASE finding # {}
    BY <1>4, <1>5, <2>3
  <2> QED
    BY <2>1, <2>2, <2>3
<1>6. CASE Set!QueueRank
  <2>1. /\ UNCHANGED <<calls, against, cut>> /\ rank'.list = rank.list
        /\ rank'.queued >= rank.queued
        /\ counted = "ready" => rank'.queued > 0
    BY <1>6, <1>k DEF Set!QueueRank
  <2>2. rank'.queued \in Nat /\ rank.queued \in Nat
    BY <1>6, <1>k DEF Set!QueueRank
  <2> QED
    BY <1>4, <1>6, <2>1, <2>2
<1>7. CASE Set!CallCut
  BY <1>7 DEF Set!CallCut
<1>8. CASE Set!RankStarts
  BY <1>4, <1>8 DEF Set!RankStarts
<1>9. CASE Set!RankEnds
  <2>1. /\ UNCHANGED <<calls, counted, cut>> /\ rank'.queued = rank.queued /\ rank'.list = {}
        /\ \A q \in 1..MaxQuestions :
             against'[q] = IF q \in rank.list THEN rank.list ELSE against[q]
        /\ rank.list # {}
    BY <1>9, <1>k DEF Set!RankEnds, Set!Questions
  <2>2. rank.list = Set!Present => Scored'
    BY <1>4, <1>9, <1>k, <2>1
  <2> QED
    BY <1>4, <1>9, <2>1, <2>2
<1>10. CASE Set!RankCut
  <2>1. rank'.queued > 0
    BY <1>10, <1>k DEF Set!RankCut
  <2> QED
    BY <2>1
<1> QED
  BY <1>1, <1>2, <1>3, <1>5, <1>6, <1>7, <1>8, <1>9, <1>10 DEF Set!Next

LEMMA SetInit ==
  ASSUME SetConstants, Set!Init
  PROVE  SetInv
<1>t. MaxQuestions \in Nat \ {0} /\ FirstQuestions \in 1..MaxQuestions /\ MaxEdits \in Nat
  BY DEF SetConstants
<1>1. /\ position = [q \in 1..MaxQuestions |-> IF q <= FirstQuestions THEN q ELSE 0]
      /\ born = FirstQuestions /\ finding \subseteq 1..FirstQuestions
      /\ readAt = [q \in 1..MaxQuestions |-> 0] /\ moving = [q |-> 0, from |-> 0]
      /\ calls = 1 /\ counted = "none" /\ rank = [queued |-> 0, list |-> {}]
      /\ against = [q \in 1..MaxQuestions |-> {}] /\ crossed = FALSE /\ cut = FALSE /\ edits = 0
  BY DEF Set!Init, Set!Questions, Set!NoMove
<1>2. /\ position \in [1..MaxQuestions -> 0..MaxQuestions]
      /\ \A q \in 1..MaxQuestions : position[q] <= born /\ (q > born => position[q] = 0)
      /\ 1..FirstQuestions \subseteq Set!Present
  BY <1>t, <1>1 DEF Set!Present, Set!Questions
<1>3. SetTypes
  <2>1. /\ against \in [1..MaxQuestions -> SUBSET (1..MaxQuestions)]
        /\ readAt \in [1..MaxQuestions -> 0..MaxQuestions]
        /\ born \in FirstQuestions..MaxQuestions /\ edits \in 0..MaxEdits
    BY <1>t, <1>1
  <2>2. /\ moving \in [q: 0..MaxQuestions, from: 0..MaxQuestions]
        /\ rank \in [queued: Nat, list: SUBSET (1..MaxQuestions)]
    BY <1>t, <1>1
  <2> QED
    BY <1>1, <1>2, <2>1, <2>2 DEF SetTypes, Set!TypeOK, Set!Questions
<1>4. Placed
  BY <1>t, <1>1, <1>2 DEF Placed, Set!NoMove
<1> QED
  BY <1>1, <1>3, <1>4 DEF SetInv, Ranked, Coming

\* With nothing left to find and no ranking to come, every question of a homework set has been
\* scored against the set as it is, whatever was added, moved, removed and found meanwhile,
\* unless a call that was to see to it was cut (homework/rank.go).
THEOREM SetIsRankedHolds == ServicesSpec => []SetIsRanked
<1> DEFINE Inv == on = "set" => SetInv
<1>c. SetConstants
  BY KeepingConstants DEF SetConstants
<1>1. ServicesInit => Inv
  BY SetInit, <1>c DEF ServicesInit
<1>2. Inv /\ [ServicesNext]_servicesVars => Inv'
  <2> SUFFICES ASSUME SetInv, on = "set", on' = "set", [ServicesNext]_servicesVars
               PROVE  SetInv'
    BY DEF ServicesNext, servicesVars
  <2>1. CASE Set!Next
    BY <2>1, PlacesStep, RankedStep, <1>c DEF SetInv
  <2>2. CASE UNCHANGED set
    BY <2>2 DEF set, SetInv, SetTypes, Set!TypeOK, Set!Present, Set!Questions, Placed, Ranked,
                Coming, Scored, Set!NoMove
  <2> QED
    BY <2>1, <2>2 DEF ServicesNext, servicesVars
<1>3. Inv => SetIsRanked
  <2> SUFFICES ASSUME SetInv
               PROVE  Set!RankedAtRest
    BY DEF SetIsRanked
  <2> QED
    BY DEF SetInv, Ranked, Coming, Scored, Set!RankedAtRest
<1> QED
  BY <1>1, <1>2, <1>3, PTL DEF ServicesSpec

-----------------------------------------------------------------------------
(* What a second solution doubts.                                          *)

\* Of numbers up to some n, one is the greatest: the least distance from n is of it.
LEMMA GreatestOf ==
  ASSUME NEW n \in Nat, NEW S \in SUBSET (0..n), S # {}
  PROVE  \E m \in S : \A k \in S : k <= m
<1> DEFINE T == {n - s : s \in S}
           R == OpToRel(<, Nat)
<1>1. IsWellFoundedOn(R, Nat)
  BY NatLessThanWellFounded
<1>2. T \subseteq Nat /\ T # {}
  <2>1. PICK s \in S : TRUE
    OBVIOUS
  <2>2. n - s \in T
    BY <2>1
  <2>3. \A k \in S : n - k \in Nat
    OBVIOUS
  <2> QED
    BY <2>2, <2>3
<1>3. \E x \in T : \A y \in T : ~(<<y, x>> \in R)
  <2> HIDE DEF T, R
  <2> QED
    BY <1>1, <1>2, WFMin
<1>4. PICK x \in T : \A y \in T : ~(<<y, x>> \in R)
  BY <1>3
<1>5. \A y \in T : ~(y < x)
  BY <1>2, <1>4 DEF OpToRel
<1>6. PICK m \in S : x = n - m
  BY <1>4
<1>7. ASSUME NEW k \in S PROVE k <= m
  <2>1. ~(n - k < x)
    BY <1>5
  <2> QED
    BY <1>6, <2>1
<1> QED
  BY <1>7

\* A note for each part that differs: after the last answer with its label, or the last answer
\* of all.
LEMMA Flagged ==
  ASSUME MaxBlocks \in Nat, NEW w \in Doubting!Walks, NEW ds
  PROVE  LET F == Doubting!FlagParts(w, ds)
             doubted == {w[i].label : i \in F}
             answered == {w[i].label : i \in Doubting!Answers(w)}
         IN /\ F \subseteq Doubting!Answers(w)
            /\ \A i, j \in F : w[i].label = w[j].label => i = j
            /\ ds \cap answered \subseteq doubted
            /\ ds # {} /\ answered # {} => F # {}
            /\ ds \subseteq answered => doubted = ds
<1> DEFINE A == Doubting!Answers(w)
           F == Doubting!FlagParts(w, ds)
           Labelled(l) == {i \in A : w[i].label = l}
           For(l) == IF Labelled(l) = {} THEN A ELSE Labelled(l)
<1>1. A \subseteq 0..MaxBlocks
  BY DEF Doubting!Walks, Doubting!Answers
<1>2. F = {i \in A : \E l \in ds : i \in For(l) /\ \A j \in For(l) : j <= i}
  BY DEF Doubting!FlagParts
<1> HIDE DEF A, F
<1>3. ASSUME NEW l, A # {}
      PROVE  \E m \in For(l) : \A k \in For(l) : k <= m
  <2>1. For(l) \subseteq 0..MaxBlocks /\ For(l) # {}
    BY <1>1, <1>3
  <2> HIDE DEF For
  <2> QED
    BY <2>1, GreatestOf
<1>4. ASSUME NEW l \in ds, A # {}
      PROVE  \E m \in F : m \in For(l)
  <2>1. PICK m \in For(l) : \A k \in For(l) : k <= m
    BY <1>3, <1>4
  <2> QED
    BY <1>2, <2>1
<1>5. ASSUME NEW i \in F, NEW k \in A, w[k].label = w[i].label
      PROVE  k <= i
  <2>1. PICK l \in ds : i \in For(l) /\ \A j \in For(l) : j <= i
    BY <1>2
  <2>2. k \in For(l)
    BY <1>5, <2>1
  <2> QED
    BY <2>1, <2>2
<1>6. F \subseteq A
  BY <1>2
<1>7. \A i, j \in F : w[i].label = w[j].label => i = j
  <2> SUFFICES ASSUME NEW i \in F, NEW j \in F, w[i].label = w[j].label
               PROVE  i = j
    OBVIOUS
  <2>1. i <= j /\ j <= i /\ i \in Nat /\ j \in Nat
    BY <1>1, <1>5, <1>6
  <2> QED
    BY <2>1
<1>8. ASSUME NEW l \in ds, l \in {w[i].label : i \in A}
      PROVE  l \in {w[i].label : i \in F}
  <2>1. A # {} /\ Labelled(l) # {}
    BY <1>8
  <2>2. PICK m \in F : m \in For(l)
    BY <1>4, <2>1
  <2> QED
    BY <2>1, <2>2
<1>9. ASSUME ds \subseteq {w[i].label : i \in A}, NEW i \in F
      PROVE  w[i].label \in ds
  <2>1. PICK l \in ds : i \in For(l)
    BY <1>2
  <2>2. Labelled(l) # {}
    BY <1>9
  <2> QED
    BY <2>1, <2>2
<1>10. ds # {} /\ {w[i].label : i \in A} # {} => F # {}
  BY <1>4
<1> QED
  BY <1>6, <1>7, <1>8, <1>9, <1>10 DEF A, F

\* There are notes only where what is left to differ has been told.
DoubtInv ==
  /\ Doubting!TypeOK
  /\ walk \in [version: 1..2, blocks: Doubting!Walks, noted: SUBSET (1..MaxBlocks)]
  /\ hint = walk.version
  /\ checking \in {"written", "solved"} => differ = {}
  /\ walk.noted = IF checking = "done" /\ differ # {}
                  THEN Doubting!FlagParts(walk.blocks, differ) ELSE {}

LEMMA DoubtStep ==
  ASSUME MaxBlocks \in Nat, DoubtInv, Doubting!Next
  PROVE  DoubtInv'
<1> USE DEF DoubtInv, Doubting!TypeOK
<1>1. CASE \/ Doubting!SolveAgain \/ Doubting!Agree \/ Doubting!WriteFails \/ Doubting!Fails
  <2>1. walk' = walk /\ hint' = hint /\ walk.noted = {}
    BY <1>1 DEF Doubting!SolveAgain, Doubting!Agree, Doubting!WriteFails, Doubting!Fails, Doubting!Done
  <2>2. /\ checking' \in {"written", "solved", "again", "rewritten", "done"}
        /\ differ' \subseteq Doubting!Labels \cup {"c"}
        /\ checking' \in {"written", "solved", "done"} => differ' = {}
    BY <1>1 DEF Doubting!SolveAgain, Doubting!Agree, Doubting!WriteFails, Doubting!Fails, Doubting!Done
  <2> QED
    BY <2>1, <2>2
<1>2. ASSUME NEW ds \in Doubting!Differences, Doubting!Compare(ds)
      PROVE  DoubtInv'
  <2> DEFINE parts == IF ds = {} THEN {""} ELSE ds
  <2>1. parts # {} /\ parts \subseteq Doubting!Labels \cup {"c"}
    BY DEF Doubting!Differences, Doubting!Labels
  <2>2. CASE checking = "solved" /\ checking' = "again" /\ differ' = parts /\ UNCHANGED <<hint, walk>>
    BY <2>1, <2>2
  <2>3. CASE /\ checking = "rewritten" /\ checking' = "done" /\ differ' = parts
             /\ walk' = [walk EXCEPT !.noted = Doubting!FlagParts(walk.blocks, parts)]
             /\ UNCHANGED hint
    <3>1. Doubting!FlagParts(walk.blocks, parts) \subseteq Doubting!Answers(walk.blocks)
      BY DEF Doubting!FlagParts
    <3>2. Doubting!Answers(walk.blocks) \subseteq 1..MaxBlocks
      BY DEF Doubting!Answers, Doubting!Walks
    <3> HIDE DEF parts
    <3> DEFINE flags == Doubting!FlagParts(walk.blocks, parts)
    <3>3. flags \subseteq 1..MaxBlocks
      BY <3>1, <3>2
    <3> HIDE DEF flags
    <3>4. /\ walk' \in [version: 1..2, blocks: Doubting!Walks, noted: SUBSET (1..MaxBlocks)]
          /\ walk'.version = walk.version /\ walk'.blocks = walk.blocks /\ walk'.noted = flags
      BY <2>3, <3>3 DEF flags
    <3> QED
      BY <2>1, <2>3, <3>4 DEF flags
  <2> QED
    BY <1>2, <2>2, <2>3 DEF Doubting!Compare
<1>3. ASSUME NEW w \in Doubting!Walks, Doubting!WriteAgain(w)
      PROVE  DoubtInv'
  BY <1>3 DEF Doubting!WriteAgain, Doubting!Written
<1> QED
  BY <1>1, <1>2, <1>3 DEF Doubting!Next

LEMMA DoubtInit ==
  ASSUME MaxBlocks \in Nat, Doubting!Init
  PROVE  DoubtInv
BY DEF Doubting!Init, Doubting!Written, DoubtInv, Doubting!TypeOK

LEMMA DoubtTold ==
  ASSUME MaxBlocks \in Nat, DoubtInv
  PROVE  Doubting!DoubtsAreTold
<1>1. walk.blocks \in Doubting!Walks /\ hint = walk.version
  BY DEF DoubtInv
<1>2. CASE checking = "done" /\ differ # {}
  <2>1. walk.noted = Doubting!FlagParts(walk.blocks, differ)
    BY <1>2 DEF DoubtInv
  <2> QED
    BY <1>1, <1>2, <2>1, Flagged DEF Doubting!DoubtsAreTold
<1>3. CASE ~(checking = "done" /\ differ # {})
  <2>1. walk.noted = {}
    BY <1>3 DEF DoubtInv
  <2> QED
    BY <1>1, <1>3, <2>1 DEF Doubting!DoubtsAreTold
<1> QED
  BY <1>2, <1>3

-----------------------------------------------------------------------------
(* A document and the lines it is made of.                                 *)

DocBlock == [type: Parser!Types \cup {"raw"}, from: Nat, to: Nat,
             flaws: SUBSET {"schema", "cite", "text", "math"}, raw: BOOLEAN]
DocBlocks == Seq(DocBlock)
Works == [at: {"idle", "schema", "text", "math", "rewrite", "unwritten", "final"},
          try: Int, more: Int, part: Nat]

DocTypes ==
  /\ blocks \in DocBlocks /\ block \in DocBlock /\ work \in Works
  /\ lines \in [first: Nat \ {0}, last: Nat] /\ pending \in 0..lines.last
  /\ passed \in [blank: SUBSET Nat, preamble: SUBSET Nat, aborted: SUBSET Nat]
  /\ aborted \in BOOLEAN

DocConstants == MaxObjects \in Nat

\* What is checked is of the last line, or it is what Finalize misses where it has come to.
Busy ==
  /\ work.at = "idle" => work.part = 0 /\ block = Parser!NoBlock
  /\ work.at = "final" => work.part > 0 /\ block = Parser!NoBlock
  /\ work.at \in {"rewrite", "unwritten"} => work.part = 0
  /\ work.at # "idle" => pending = 0
  /\ work.at \notin {"idle", "final"} =>
       IF work.part = 0 THEN block.from \in 1..lines.last /\ block.to = lines.last
       ELSE /\ block.from = 0 /\ block.to = 0
            /\ block.type = Parser!Missing /\ Parser!Missing # "none"
  /\ work.at = "text" => "schema" \notin block.flaws
  /\ work.at = "math" => block.flaws \cap {"schema", "cite"} = {}

Fit == \A i \in 1..Len(blocks) : blocks[i].raw \/ blocks[i].flaws \cap {"schema", "cite"} = {}

Wrote(i) == i \in 1..Len(blocks) /\ blocks[i].from > 0

Ordered == \A i, j \in 1..Len(blocks) : i < j /\ Wrote(i) /\ Wrote(j) =>
             \/ blocks[i].to < blocks[j].from
             \/ blocks[i].from = blocks[j].from /\ blocks[i].to = blocks[j].to

\* Blocks are of lines before those not yet settled, or of the same ones.
Behind == \A i \in 1..Len(blocks) : Wrote(i) =>
            /\ blocks[i].from <= blocks[i].to /\ blocks[i].to <= lines.last
            /\ pending > 0 => blocks[i].to < pending
            /\ block.from > 0 => \/ blocks[i].to < block.from
                                 \/ blocks[i].from = block.from /\ blocks[i].to = block.to

Preceding == \A l \in passed.preamble :
               /\ l <= lines.last
               /\ \/ l < lines.first
                  \/ /\ \A i \in 1..Len(blocks) : Wrote(i) => l < blocks[i].from
                     /\ pending > 0 => l < pending
                     /\ block.from > 0 => l < block.from

Passed(l) == l \in passed.blank \cup passed.preamble \cup passed.aborted
Waits(l) == (pending > 0 /\ l >= pending) \/ (block.from <= l /\ l <= block.to)

Covered == \A l \in lines.first..lines.last :
             \/ \E i \in 1..Len(blocks) : Wrote(i) /\ blocks[i].from <= l /\ l <= blocks[i].to
             \/ Passed(l) \/ Waits(l)

\* What Finalize put in is where it was missing, and behind where it has come to.
Filled ==
  \A i \in 1..Len(blocks) : blocks[i].from = 0 =>
    /\ i < work.part
    /\ \/ i = 1 /\ blocks[i].type = "hint"
       \/ /\ blocks[i].type = "answer" /\ (i = Len(blocks) \/ blocks[i + 1].type = "part")
          /\ \E k \in 1..i - 1 :
               /\ blocks[k].type = "part"
               /\ \A j \in k + 1..i - 1 : blocks[j].type \notin {"part", "answer"}

Lost == passed.aborted # {} => aborted

LinesInv == Fit /\ Ordered /\ Behind /\ Preceding /\ Covered
DocInv == DocTypes /\ Busy /\ LinesInv /\ Filled /\ Lost

LEMMA DocKept ==
  ASSUME DocInv
  PROVE  Parser!WrittenIsKept
BY DEF DocInv, LinesInv, Fit, Ordered, Behind, Preceding, Covered, Filled, Lost, Wrote, Passed,
       Waits, DocTypes, Parser!WrittenIsKept

\* The repair of a block, or what comes to nothing, leaves the lines where they are.
LEMMA SameLines ==
  ASSUME DocInv, UNCHANGED <<blocks, lines, pending, passed>>, work'.part \in Nat,
         work.part <= work'.part, block'.from = block.from, block'.to = block.to
  PROVE  LinesInv' /\ Filled'
<1>1. LinesInv'
  BY DEF DocInv, LinesInv, Fit, Ordered, Behind, Preceding, Covered, Wrote, Passed, Waits
<1>2. work.part \in Nat /\ Len(blocks) \in Nat
  BY DEF DocInv, DocTypes, Works, DocBlocks
<1>3. Filled'
  BY <1>2 DEF DocInv, Filled
<1> QED
  BY <1>1, <1>3

\* A block that ends the document is of all the lines that waited.
LEMMA AddedLines ==
  ASSUME DocTypes, LinesInv, NEW b \in DocBlock, blocks' = Append(blocks, b),
         UNCHANGED <<lines, passed>>, pending' = 0,
         b.raw \/ b.flaws \cap {"schema", "cite"} = {},
         b.from > 0, b.from <= b.to, b.to <= lines.last,
         \A i \in 1..Len(blocks) : Wrote(i) =>
            \/ blocks[i].to < b.from
            \/ blocks[i].from = b.from /\ blocks[i].to = b.to,
         \A l \in passed.preamble : l < lines.first \/ l < b.from,
         \A l \in lines.first..lines.last : Waits(l) => b.from <= l /\ l <= b.to,
         block'.from = 0 \/ (block'.from = b.from /\ block'.to = b.to)
  PROVE  LinesInv' /\ blocks' \in DocBlocks
<1>0. PICK n \in Nat : n = Len(blocks)
  BY DEF DocTypes, DocBlocks
<1>1. /\ n \in Nat /\ Len(blocks') = n + 1 /\ blocks' \in DocBlocks /\ blocks'[n + 1] = b
      /\ \A i \in 1..n : blocks'[i] = blocks[i] /\ blocks[i] \in DocBlock
  BY <1>0 DEF DocTypes, DocBlocks
<1>2. /\ lines.last \in Nat /\ lines.first \in Nat /\ b.from \in Nat /\ b.to \in Nat
      /\ lines' = lines /\ passed' = passed
      /\ \A i \in 1..n : blocks[i].from \in Nat /\ blocks[i].to \in Nat
  BY <1>1 DEF DocTypes, DocBlock
<1>3. \A i \in 1..n : Wrote(i)' <=> Wrote(i)
  BY <1>0, <1>1 DEF Wrote
<1>4. Wrote(n + 1)' /\ 1..Len(blocks') = (1..n) \cup {n + 1}
  BY <1>0, <1>1 DEF Wrote
<1>5. Fit'
  BY <1>0, <1>1, <1>4 DEF LinesInv, Fit
<1>6. Ordered'
  <2> SUFFICES ASSUME NEW i \in 1..Len(blocks'), NEW j \in 1..Len(blocks'), i < j,
                      Wrote(i)', Wrote(j)'
               PROVE  \/ blocks'[i].to < blocks'[j].from
                      \/ blocks'[i].from = blocks'[j].from /\ blocks'[i].to = blocks'[j].to
    BY DEF Ordered
  <2>1. i \in 1..n
    BY <1>1, <1>4
  <2>2. CASE j \in 1..n
    BY <1>0, <1>1, <1>3, <2>1, <2>2 DEF LinesInv, Ordered
  <2>3. CASE j = n + 1
    BY <1>0, <1>1, <1>3, <2>1, <2>3
  <2> QED
    BY <1>4, <2>2, <2>3
<1>7. Behind'
  <2> SUFFICES ASSUME NEW i \in 1..Len(blocks'), Wrote(i)'
               PROVE  /\ blocks'[i].from <= blocks'[i].to /\ blocks'[i].to <= lines.last
                      /\ block'.from > 0 => \/ blocks'[i].to < block'.from
                                            \/ /\ blocks'[i].from = block'.from
                                               /\ blocks'[i].to = block'.to
    BY <1>2 DEF Behind
  <2>1. CASE i \in 1..n
    BY <1>0, <1>1, <1>2, <1>3, <2>1 DEF LinesInv, Behind
  <2>2. CASE i = n + 1
    BY <1>1, <2>2
  <2> QED
    BY <1>4, <2>1, <2>2
<1>8. Preceding'
  <2> SUFFICES ASSUME NEW l \in passed.preamble, ~(l < lines.first)
               PROVE  /\ l <= lines.last
                      /\ \A i \in 1..Len(blocks') : Wrote(i)' => l < blocks'[i].from
                      /\ block'.from > 0 => l < block'.from
    <3>1. \A l \in passed.preamble : l <= lines.last
      BY DEF LinesInv, Preceding
    <3> QED
      BY <1>2, <3>1 DEF Preceding
  <2>1. /\ l <= lines.last /\ l < b.from
        /\ \A i \in 1..n : Wrote(i) => l < blocks[i].from
    BY <1>0 DEF LinesInv, Preceding
  <2>2. \A i \in 1..Len(blocks') : Wrote(i)' => l < blocks'[i].from
    BY <1>1, <1>3, <1>4, <2>1
  <2> QED
    BY <2>1, <2>2
<1>9. Covered'
  <2> SUFFICES ASSUME NEW l \in lines.first..lines.last, ~Passed(l)
               PROVE  \E i \in 1..Len(blocks') :
                        Wrote(i)' /\ blocks'[i].from <= l /\ l <= blocks'[i].to
    BY <1>2 DEF Covered, Passed
  <2>1. CASE Waits(l)
    <3>1. b.from <= l /\ l <= b.to
      BY <2>1
    <3> QED
      BY <1>1, <1>4, <3>1
  <2>2. CASE ~Waits(l)
    <3>1. PICK i \in 1..n : Wrote(i) /\ blocks[i].from <= l /\ l <= blocks[i].to
      BY <1>0, <2>2 DEF LinesInv, Covered
    <3> QED
      BY <1>1, <1>3, <1>4, <3>1
  <2> QED
    BY <2>1, <2>2
<1> QED
  BY <1>1, <1>5, <1>6, <1>7, <1>8, <1>9 DEF LinesInv

LEMMA Inserted ==
  ASSUME NEW S, NEW s \in Seq(S), NEW e \in S, NEW p \in 1..Len(s) + 1,
         NEW t, t = Parser!InsertAt(s, p, e)
  PROVE  /\ t \in Seq(S) /\ Len(t) = Len(s) + 1 /\ t[p] = e
         /\ \A i \in 1..p - 1 : t[i] = s[i]
         /\ \A i \in p + 1..Len(s) + 1 : t[i] = s[i - 1]
<1>1. /\ SubSeq(s, 1, p - 1) \in Seq(S) /\ Len(SubSeq(s, 1, p - 1)) = p - 1
      /\ \A i \in 1..p - 1 : SubSeq(s, 1, p - 1)[i] = s[i]
  OBVIOUS
<1>2. /\ SubSeq(s, p, Len(s)) \in Seq(S) /\ Len(SubSeq(s, p, Len(s))) = Len(s) + 1 - p
      /\ \A i \in 1..Len(s) + 1 - p : SubSeq(s, p, Len(s))[i] = s[p + i - 1]
  OBVIOUS
<1>3. <<e>> \in Seq(S) /\ Len(<<e>>) = 1 /\ <<e>>[1] = e
  OBVIOUS
<1> DEFINE upto == SubSeq(s, 1, p - 1)
           onward == SubSeq(s, p, Len(s))
           given == <<e>>
<1>4. t = (upto \o given) \o onward
  BY DEF Parser!InsertAt
<1>5. /\ upto \in Seq(S) /\ Len(upto) = p - 1 /\ \A i \in 1..p - 1 : upto[i] = s[i]
      /\ given \in Seq(S) /\ Len(given) = 1 /\ given[1] = e
      /\ onward \in Seq(S) /\ Len(onward) = Len(s) + 1 - p
      /\ \A i \in 1..Len(s) + 1 - p : onward[i] = s[p + i - 1]
      /\ p \in 1..Len(s) + 1 /\ Len(s) \in Nat
  BY <1>1, <1>2, <1>3
<1> HIDE DEF upto, onward, given
<1> DEFINE front == upto \o given
<1>6. /\ front \in Seq(S) /\ Len(front) = Len(upto) + Len(given)
      /\ \A i \in 1..Len(upto) + Len(given) :
           front[i] = IF i <= Len(upto) THEN upto[i] ELSE given[i - Len(upto)]
  <2>1. upto \in Seq(S) /\ given \in Seq(S)
    BY <1>5
  <2> QED
    BY <2>1, ConcatProperties
<1>7. Len(front) = p /\ front[p] = e /\ \A i \in 1..p - 1 : front[i] = s[i]
  BY <1>5, <1>6
<1> HIDE DEF front
<1>8. t = front \o onward /\ p + (Len(s) + 1 - p) = Len(s) + 1
  BY <1>4, <1>5 DEF front
<1>9. /\ t \in Seq(S) /\ Len(t) = Len(s) + 1
      /\ \A i \in 1..Len(s) + 1 : t[i] = IF i <= p THEN front[i] ELSE onward[i - p]
  <2>1. front \in Seq(S) /\ onward \in Seq(S)
    BY <1>5, <1>6
  <2>2. /\ front \o onward \in Seq(S) /\ Len(front \o onward) = Len(front) + Len(onward)
        /\ \A i \in 1..Len(front) + Len(onward) :
           (front \o onward)[i] = IF i <= Len(front) THEN front[i] ELSE onward[i - Len(front)]
    BY <2>1, ConcatProperties
  <2> QED
    BY <1>5, <1>7, <1>8, <2>2
<1>10. \A i \in p + 1..Len(s) + 1 : t[i] = s[i - 1]
  <2> SUFFICES ASSUME NEW i \in p + 1..Len(s) + 1 PROVE t[i] = s[i - 1]
    OBVIOUS
  <2>1. t[i] = onward[i - p] /\ i - p \in 1..Len(s) + 1 - p /\ p + (i - p) - 1 = i - 1
    BY <1>5, <1>9, <1>8
  <2> QED
    BY <1>5, <2>1
<1>11. t[p] = e /\ \A i \in 1..p - 1 : t[i] = s[i]
  BY <1>5, <1>7, <1>9, <1>8
<1> QED
  BY <1>9, <1>8, <1>10, <1>11

LEMMA Retyped ==
  ASSUME NEW b \in DocBlock, NEW type \in Parser!Types, NEW flaws \in Parser!Flaws
  PROVE  /\ [b EXCEPT !.type = type, !.flaws = flaws] \in DocBlock
         /\ [b EXCEPT !.type = type, !.flaws = flaws].from = b.from
         /\ [b EXCEPT !.type = type, !.flaws = flaws].to = b.to
         /\ [b EXCEPT !.type = type, !.flaws = flaws].type = type
BY DEF DocBlock, Parser!Flaws

LEMMA MissingHere ==
  ASSUME blocks' = blocks, work'.part = work.part
  PROVE  Parser!Missing' = Parser!Missing
BY DEF Parser!Missing, Parser!HasHint, Parser!TypeAt, Parser!Unanswered, Parser!PartEnds

\* A call for the object being checked puts its type, its text and what is wrong with it
\* otherwise, never the lines it is of.
LEMMA Repaired ==
  ASSUME DocInv, UNCHANGED <<blocks, lines, pending, aborted, passed>>,
         work.at \notin {"idle", "final"}, work'.at \notin {"idle", "final"},
         work' \in Works, work'.part = work.part, block' \in DocBlock,
         block'.from = block.from, block'.to = block.to,
         work.part > 0 => block'.type = block.type,
         work'.at \in {"rewrite", "unwritten"} => work.part = 0,
         work'.at = "text" => "schema" \notin block'.flaws,
         work'.at = "math" => block'.flaws \cap {"schema", "cite"} = {}
  PROVE  DocInv'
<1>1. work.part \in Nat /\ work'.part \in Nat
  BY DEF DocInv, DocTypes, Works
<1>2. LinesInv' /\ Filled'
  BY <1>1, SameLines
<1>3. DocTypes'
  BY DEF DocInv, DocTypes
<1>4. Parser!Missing' = Parser!Missing
  BY MissingHere
<1>7. /\ pending' = 0 /\ lines' = lines
      /\ IF work.part = 0 THEN block.from \in 1..lines.last /\ block.to = lines.last
         ELSE /\ block.from = 0 /\ block.to = 0
              /\ block.type = Parser!Missing /\ Parser!Missing # "none"
  BY DEF DocInv, Busy
<1>8. IF work'.part = 0 THEN block'.from \in 1..lines'.last /\ block'.to = lines'.last
      ELSE /\ block'.from = 0 /\ block'.to = 0
           /\ block'.type = Parser!Missing' /\ Parser!Missing' # "none"
  <2>1. CASE work.part = 0
    BY <1>7, <2>1
  <2>2. CASE work.part # 0
    BY <1>1, <1>4, <1>7, <2>2
  <2> QED
    BY <2>1, <2>2
<1>5. Busy'
  BY <1>7, <1>8 DEF Busy
<1>6. Lost'
  BY DEF DocInv, Lost
<1> QED
  BY <1>2, <1>3, <1>5, <1>6 DEF DocInv

\* An object that ends its checks ends the document, and the next one of its line is taken.
LEMMA Kept ==
  ASSUME DocInv, work.at \notin {"idle", "final"}, work.part = 0,
         NEW b \in DocBlock, b.from = block.from, b.to = block.to,
         b.raw \/ b.flaws \cap {"schema", "cite"} = {},
         NEW more \in Int, Parser!Add(b, more),
         UNCHANGED <<lines, pending, aborted, passed>>
  PROVE  DocInv'
<1>1. /\ pending = 0 /\ b.from \in 1..lines.last /\ b.to = lines.last
      /\ lines.last \in Nat /\ lines.first \in Nat
  BY DEF DocInv, DocTypes, Busy
<1>2. /\ block' \in DocBlock /\ work' \in Works /\ work'.part = 0
      /\ (block'.from = 0 \/ (block'.from = b.from /\ block'.to = b.to))
      /\ \/ work'.at = "idle" /\ block' = Parser!NoBlock
         \/ work'.at = "schema" /\ block'.from = b.from /\ block'.to = b.to
  <2>1. CASE more = 0
    <3>1. block' = Parser!NoBlock /\ work' = Parser!At("idle")
      BY <2>1 DEF Parser!Add
    <3>2. Parser!NoBlock \in DocBlock /\ Parser!NoBlock.from = 0
      BY DEF Parser!NoBlock, DocBlock, Parser!Types
    <3>3. Parser!At("idle") \in Works /\ Parser!At("idle").part = 0 /\ Parser!At("idle").at = "idle"
      BY DEF Parser!At, Works
    <3> QED
      BY <3>1, <3>2, <3>3
  <2>2. CASE more # 0
    <3>1. PICK type \in Parser!Types, flaws \in Parser!Flaws :
            block' = [b EXCEPT !.type = type, !.flaws = flaws, !.raw = FALSE]
      BY <2>2 DEF Parser!Add
    <3>2. block' \in DocBlock /\ block'.from = b.from /\ block'.to = b.to
      BY <3>1 DEF DocBlock, Parser!Flaws
    <3>3. work' = [Parser!At("schema") EXCEPT !.more = more - 1]
      BY <2>2 DEF Parser!Add
    <3>4. work' \in Works /\ work'.part = 0 /\ work'.at = "schema"
      BY <3>3 DEF Parser!At, Works
    <3> QED
      BY <3>2, <3>4
  <2> QED
    BY <2>1, <2>2
<1>3. LinesInv' /\ blocks' \in DocBlocks
  <2>1. blocks' = Append(blocks, b)
    BY DEF Parser!Add
  <2>2. \A i \in 1..Len(blocks) : Wrote(i) =>
            \/ blocks[i].to < b.from
            \/ blocks[i].from = b.from /\ blocks[i].to = b.to
    BY <1>1 DEF DocInv, LinesInv, Behind
  <2>3. \A l \in passed.preamble : l < lines.first \/ l < b.from
    BY <1>1 DEF DocInv, LinesInv, Preceding
  <2>4. \A l \in lines.first..lines.last : Waits(l) => b.from <= l /\ l <= b.to
    BY <1>1 DEF Waits
  <2>5. DocTypes /\ LinesInv /\ pending' = 0 /\ UNCHANGED <<lines, passed>>
    BY <1>1 DEF DocInv
  <2>6. b.from > 0 /\ b.from <= b.to /\ b.to <= lines.last
    BY <1>1
  <2> QED
    BY <1>2, <2>1, <2>2, <2>3, <2>4, <2>5, <2>6, AddedLines
<1>4. DocTypes'
  BY <1>2, <1>3 DEF DocInv, DocTypes
<1>5. Busy'
  BY <1>1, <1>2 DEF Busy
<1>6. Filled'
  <2>1. PICK n \in Nat : n = Len(blocks)
    BY DEF DocInv, DocTypes, DocBlocks
  <2>2. \A i \in 1..n : blocks[i].from # 0
    BY <2>1 DEF DocInv, Filled
  <2>0. blocks \in Seq(DocBlock) /\ blocks' = Append(blocks, b)
    BY DEF DocInv, DocTypes, DocBlocks, Parser!Add
  <2>3. /\ 1..Len(blocks') = (1..n) \cup {n + 1} /\ blocks'[n + 1] = b
        /\ \A i \in 1..n : blocks'[i] = blocks[i]
    BY <2>0, <2>1
  <2> QED
    BY <1>1, <2>2, <2>3 DEF Filled
<1>7. Lost'
  BY DEF DocInv, Lost
<1> QED
  BY <1>3, <1>4, <1>5, <1>6, <1>7 DEF DocInv

LEMMA BlockAt ==
  ASSUME DocTypes, NEW i \in 1..Len(blocks)
  PROVE  blocks[i] \in DocBlock /\ blocks[i].from \in Nat /\ blocks[i].to \in Nat
<1>1. blocks \in Seq(DocBlock)
  BY DEF DocTypes, DocBlocks
<1>2. blocks[i] \in DocBlock
  BY <1>1
<1> QED
  BY <1>2 DEF DocBlock

LEMMA WhereFrom ==
  ASSUME DocInv, work.at = "idle"
  PROVE  /\ block = Parser!NoBlock /\ work.part = 0
         /\ lines.last \in Nat /\ lines.first \in Nat \ {0}
         /\ pending \in 0..lines.last
         /\ Parser!Here.from \in 1..lines.last + 1 /\ Parser!Here.to = lines.last + 1
         /\ Parser!Here.from = IF pending = 0 THEN lines.last + 1 ELSE pending
         /\ Parser!Here \in DocBlock /\ block.from = 0 /\ block.to = 0
         /\ \A i \in 1..Len(blocks) : Wrote(i) => blocks[i].to < Parser!Here.from
         /\ \A l \in passed.preamble : l < lines.first \/ l < Parser!Here.from
         /\ \A l \in lines.first..lines.last : Waits(l) => pending > 0 /\ Parser!Here.from <= l
<1>1. /\ block = Parser!NoBlock /\ work.part = 0 /\ lines.last \in Nat /\ lines.first \in Nat \ {0}
      /\ pending \in 0..lines.last
  BY DEF DocInv, DocTypes, Busy
<1>2. /\ Parser!Here.from = IF pending = 0 THEN lines.last + 1 ELSE pending
      /\ Parser!Here.to = lines.last + 1
  BY DEF Parser!Here, Parser!NoBlock
<1>3. Parser!Here.from \in 1..lines.last + 1
  BY <1>1, <1>2
<1>4. Parser!Here \in DocBlock
  <2>1. Parser!NoBlock \in DocBlock
    BY DEF Parser!NoBlock, Parser!Types, DocBlock
  <2>2. \A b \in DocBlock, from, to \in Nat : [b EXCEPT !.from = from, !.to = to] \in DocBlock
    BY DEF DocBlock
  <2>3. (IF pending = 0 THEN lines.last + 1 ELSE pending) \in Nat /\ lines.last + 1 \in Nat
    BY <1>1
  <2> QED
    BY <2>1, <2>2, <2>3 DEF Parser!Here
<1>5. block.from = 0 /\ block.to = 0
  BY <1>1 DEF Parser!NoBlock
<1>6. \A i \in 1..Len(blocks) : Wrote(i) => blocks[i].to < Parser!Here.from
  <2> SUFFICES ASSUME NEW i \in 1..Len(blocks), Wrote(i) PROVE blocks[i].to < Parser!Here.from
    OBVIOUS
  <2>2. blocks[i].to \in Nat
    BY BlockAt DEF DocInv
  <2>3. blocks[i].to <= lines.last /\ (pending > 0 => blocks[i].to < pending)
    BY DEF DocInv, LinesInv, Behind
  <2> QED
    BY <1>1, <1>2, <2>2, <2>3
<1>7. \A l \in passed.preamble : l < lines.first \/ l < Parser!Here.from
  <2> SUFFICES ASSUME NEW l \in passed.preamble, ~(l < lines.first) PROVE l < Parser!Here.from
    OBVIOUS
  <2>1. l \in Nat
    BY DEF DocInv, DocTypes
  <2>2. l <= lines.last /\ (pending > 0 => l < pending)
    BY DEF DocInv, LinesInv, Preceding
  <2> QED
    BY <1>1, <1>2, <2>1, <2>2
<1>8. \A l \in lines.first..lines.last : Waits(l) => pending > 0 /\ Parser!Here.from <= l
  BY <1>1, <1>2, <1>5 DEF Waits
<1> QED
  BY <1>1, <1>2, <1>3, <1>4, <1>5, <1>6, <1>7, <1>8

\* A line that ends is kept waiting with those the parser still has, in the object it goes
\* on with or the one that is checked.
LEMMA LineWaits ==
  ASSUME DocInv, work.at = "idle", UNCHANGED <<blocks, aborted, passed>>,
         lines' = [lines EXCEPT !.last = @ + 1], work'.part = 0,
         \/ pending' = Parser!Here.from /\ block' = block
         \/ /\ pending' = 0
            /\ block'.from = Parser!Here.from /\ block'.to = Parser!Here.to
  PROVE  /\ LinesInv' /\ Filled' /\ Lost'
         /\ lines' \in [first: Nat \ {0}, last: Nat] /\ pending' \in 0..lines'.last
<1> DEFINE f == Parser!Here.from
<1>1. /\ work.part = 0 /\ lines.last \in Nat /\ lines.first \in Nat \ {0}
      /\ pending \in 0..lines.last /\ f \in 1..lines.last + 1
      /\ Parser!Here.to = lines.last + 1 /\ block.from = 0 /\ block.to = 0
      /\ f = IF pending = 0 THEN lines.last + 1 ELSE pending
      /\ \A i \in 1..Len(blocks) : Wrote(i) => blocks[i].to < f
      /\ \A l \in passed.preamble : l < lines.first \/ l < f
      /\ \A l \in lines.first..lines.last : Waits(l) => pending > 0 /\ f <= l
  BY WhereFrom
<1>2. /\ lines' \in [first: Nat \ {0}, last: Nat]
      /\ lines'.first = lines.first /\ lines'.last = lines.last + 1
  BY DEF DocInv, DocTypes
<1>3. /\ \/ pending' = f /\ block'.from = 0 /\ block'.to = 0
         \/ pending' = 0 /\ block'.from = f /\ block'.to = lines.last + 1
      /\ pending' \in 0..lines.last + 1
  BY <1>1
<1> HIDE DEF f
<1>4. Fit' /\ Ordered'
  BY DEF DocInv, LinesInv, Fit, Ordered, Wrote
<1>5. Behind'
  <2>1. \A i \in 1..Len(blocks) : Wrote(i)' <=> Wrote(i)
    BY DEF Wrote
  <2>3. ASSUME NEW i \in 1..Len(blocks), Wrote(i)
        PROVE  /\ blocks[i].from <= blocks[i].to /\ blocks[i].to <= lines.last + 1
               /\ blocks[i].to < f
    <3>1. blocks[i].to \in Nat
      BY BlockAt DEF DocInv
    <3>2. blocks[i].from <= blocks[i].to /\ blocks[i].to <= lines.last
      BY <2>3 DEF DocInv, LinesInv, Behind
    <3> QED
      BY <1>1, <2>3, <3>1, <3>2
  <2> QED
    BY <1>2, <1>3, <2>1, <2>3 DEF Behind
<1>6. Preceding'
  <2> SUFFICES ASSUME NEW l \in passed.preamble
               PROVE  /\ l <= lines.last + 1
                      /\ \/ l < lines.first
                         \/ /\ \A i \in 1..Len(blocks) : Wrote(i)' => l < blocks[i].from
                            /\ pending' > 0 => l < pending'
                            /\ block'.from > 0 => l < block'.from
    BY <1>2 DEF Preceding
  <2>1. l \in Nat
    BY DEF DocInv, DocTypes
  <2>2. /\ l <= lines.last
        /\ \/ l < lines.first
           \/ \A i \in 1..Len(blocks) : Wrote(i)' => l < blocks[i].from
    BY DEF DocInv, LinesInv, Preceding, Wrote
  <2>3. l < lines.first \/ l < f
    BY <1>1
  <2> QED
    BY <1>1, <1>3, <2>1, <2>2, <2>3
<1>7. Covered'
  <2> SUFFICES ASSUME NEW l \in lines.first..lines.last + 1
               PROVE  \/ \E i \in 1..Len(blocks) :
                           Wrote(i)' /\ blocks[i].from <= l /\ l <= blocks[i].to
                      \/ Passed(l)' \/ Waits(l)'
    BY <1>2 DEF Covered
  <2>1. CASE f <= l
    BY <1>1, <1>3, <2>1 DEF Waits
  <2>2. CASE ~(f <= l)
    <3>1. l \in lines.first..lines.last /\ ~Waits(l)
      BY <1>1, <2>2
    <3> QED
      BY <3>1 DEF DocInv, LinesInv, Covered, Passed, Wrote
  <2> QED
    BY <2>1, <2>2
<1>8. Filled'
  BY <1>1 DEF DocInv, Filled
<1> QED
  BY <1>2, <1>3, <1>4, <1>5, <1>6, <1>7, <1>8 DEF LinesInv, DocInv, Lost

\* What Finalize was written for: it is missing where a part ends.
LEMMA Gap ==
  ASSUME DocTypes, Parser!Missing # "none", NEW n \in Nat, n = Len(blocks)
  PROVE  /\ work.part \in 1..n + 1
         /\ \/ Parser!Missing = "hint" /\ work.part = 1
            \/ /\ Parser!Missing = "answer"
               /\ work.part = n + 1 \/ blocks[work.part].type = "part"
               /\ \E k \in 1..work.part - 1 :
                    /\ blocks[k].type = "part"
                    /\ \A j \in k + 1..work.part - 1 : blocks[j].type \notin {"part", "answer"}
<1> DEFINE p == work.part
<1>1. p \in Nat
  BY DEF DocTypes, Works
<1> HIDE DEF p
<1>2. CASE Parser!Missing = "hint"
  <2>1. p = 1
    BY <1>2 DEF Parser!Missing, p
  <2> QED
    BY <1>2, <2>1 DEF p
<1>3. CASE Parser!Missing # "hint"
  <2>1. Parser!Missing = "answer" /\ Parser!Unanswered(p)
    BY <1>3 DEF Parser!Missing, p
  <2>2. PICK k \in 1..p - 1 : /\ Parser!TypeAt(k) = "part"
                              /\ \A j \in k + 1..p - 1 : Parser!TypeAt(j) \notin {"part", "answer"}
    BY <2>1 DEF Parser!Unanswered
  <2>3. p - 1 = n \/ (p \in 1..n /\ blocks[p].type = "part")
    BY <2>1 DEF Parser!Unanswered, Parser!PartEnds, Parser!TypeAt
  <2>4. p \in 1..n + 1 /\ (p = n + 1 \/ blocks[p].type = "part")
    BY <1>1, <2>3
  <2>5. \A j \in 1..p - 1 : Parser!TypeAt(j) = blocks[j].type
    BY <1>1, <2>4 DEF Parser!TypeAt
  <2>6. blocks[k].type = "part" /\ \A j \in k + 1..p - 1 : blocks[j].type \notin {"part", "answer"}
    BY <1>1, <2>2, <2>5
  <2> QED
    BY <2>1, <2>2, <2>4, <2>6 DEF p
<1> QED
  BY <1>2, <1>3

\* It is put there, and neither the lines nor what was put in before it are disturbed.
LEMMA PutIn ==
  ASSUME DocInv, work.at = "math", work.part > 0,
         blocks' = Parser!InsertAt(blocks, work.part, block), block' = Parser!NoBlock,
         UNCHANGED <<lines, pending, passed>>, work'.part = work.part + 1
  PROVE  LinesInv' /\ Filled' /\ blocks' \in DocBlocks
<1>0. PICK n \in Nat : n = Len(blocks)
  BY DEF DocInv, DocTypes, DocBlocks
<1>1. PICK p \in Nat : p = work.part
  BY DEF DocInv, DocTypes, Works
<1>2. /\ block \in DocBlock /\ block.from = 0 /\ block.type = Parser!Missing
      /\ Parser!Missing # "none" /\ block.flaws \cap {"schema", "cite"} = {}
  BY <1>1 DEF DocInv, DocTypes, Busy
<1>3. /\ p \in 1..n + 1
      /\ \/ block.type = "hint" /\ p = 1
         \/ /\ block.type = "answer"
            /\ p = n + 1 \/ blocks[p].type = "part"
            /\ \E k \in 1..p - 1 :
                 /\ blocks[k].type = "part"
                 /\ \A j \in k + 1..p - 1 : blocks[j].type \notin {"part", "answer"}
  BY <1>0, <1>1, <1>2, Gap DEF DocInv
<1>4. blocks \in Seq(DocBlock)
  BY DEF DocInv, DocTypes, DocBlocks
<1>5. /\ blocks' \in Seq(DocBlock) /\ Len(blocks') = n + 1 /\ blocks'[p] = block
      /\ \A i \in 1..p - 1 : blocks'[i] = blocks[i]
      /\ \A i \in p + 1..n + 1 : blocks'[i] = blocks[i - 1]
  <2>1. blocks' = Parser!InsertAt(blocks, p, block)
    BY <1>1
  <2>2. p \in 1..Len(blocks) + 1 /\ block \in DocBlock
    BY <1>0, <1>2, <1>3
  <2>3. /\ blocks' \in Seq(DocBlock) /\ Len(blocks') = Len(blocks) + 1 /\ blocks'[p] = block
        /\ \A i \in 1..p - 1 : blocks'[i] = blocks[i]
        /\ \A i \in p + 1..Len(blocks) + 1 : blocks'[i] = blocks[i - 1]
    BY <1>4, <2>1, <2>2, Inserted
  <2> QED
    BY <1>0, <2>3
<1>6. \A i \in 1..n + 1 : \/ i \in 1..n /\ i < p /\ blocks'[i] = blocks[i]
                          \/ i = p
                          \/ i - 1 \in 1..n /\ p < i /\ blocks'[i] = blocks[i - 1]
  BY <1>3, <1>5
\* A block of the model's own lines was there before.
<1>7. \A i \in 1..n + 1 : Wrote(i)' =>
         \/ i \in 1..n /\ i < p /\ blocks'[i] = blocks[i] /\ Wrote(i)
         \/ i - 1 \in 1..n /\ p < i /\ blocks'[i] = blocks[i - 1] /\ Wrote(i - 1)
  BY <1>0, <1>2, <1>5, <1>6 DEF Wrote
<1>8. Fit'
  BY <1>0, <1>2, <1>5, <1>6 DEF DocInv, LinesInv, Fit
<1>9. Ordered'
  <2> SUFFICES ASSUME NEW i \in 1..Len(blocks'), NEW j \in 1..Len(blocks'), i < j,
                      Wrote(i)', Wrote(j)'
               PROVE  \/ blocks'[i].to < blocks'[j].from
                      \/ blocks'[i].from = blocks'[j].from /\ blocks'[i].to = blocks'[j].to
    BY DEF Ordered
  <2>0. i \in 1..n + 1 /\ j \in 1..n + 1
    BY <1>5
  <2>1. \A u, v \in 1..n : u < v /\ Wrote(u) /\ Wrote(v) =>
             \/ blocks[u].to < blocks[v].from
             \/ blocks[u].from = blocks[v].from /\ blocks[u].to = blocks[v].to
    BY <1>0 DEF DocInv, LinesInv, Ordered
  <2>2. PICK u \in 1..n : /\ Wrote(u) /\ blocks'[i] = blocks[u]
                          /\ (u = i /\ i < p) \/ (u = i - 1 /\ p < i)
    BY <1>7, <2>0
  <2>3. PICK v \in 1..n : /\ Wrote(v) /\ blocks'[j] = blocks[v]
                          /\ (v = j /\ j < p) \/ (v = j - 1 /\ p < j)
    BY <1>7, <2>0
  <2>4. u < v
    BY <2>0, <2>2, <2>3
  <2> QED
    BY <2>1, <2>2, <2>3, <2>4
<1>10. Behind'
  <2> SUFFICES ASSUME NEW i \in 1..n + 1, Wrote(i)'
               PROVE  /\ blocks'[i].from <= blocks'[i].to /\ blocks'[i].to <= lines.last
                      /\ pending > 0 => blocks'[i].to < pending
    BY <1>5 DEF Behind, Parser!NoBlock
  <2>1. PICK u \in 1..n : Wrote(u) /\ blocks'[i] = blocks[u]
    BY <1>7
  <2> QED
    BY <1>0, <2>1 DEF DocInv, LinesInv, Behind
<1>11. Preceding'
  <2> SUFFICES ASSUME NEW l \in passed.preamble, ~(l < lines.first)
               PROVE  /\ l <= lines.last /\ (pending > 0 => l < pending)
                      /\ \A i \in 1..n + 1 : Wrote(i)' => l < blocks'[i].from
    <3>1. \A l \in passed.preamble : l <= lines.last
      BY DEF DocInv, LinesInv, Preceding
    <3> QED
      BY <1>5, <3>1 DEF Preceding, Parser!NoBlock
  <2>1. /\ l <= lines.last /\ (pending > 0 => l < pending)
        /\ \A i \in 1..n : Wrote(i) => l < blocks[i].from
    BY <1>0 DEF DocInv, LinesInv, Preceding
  <2> QED
    BY <1>7, <2>1
<1>12. Covered'
  <2> SUFFICES ASSUME NEW l \in lines.first..lines.last, ~Passed(l), ~Waits(l)'
               PROVE  \E i \in 1..n + 1 :
                        Wrote(i)' /\ blocks'[i].from <= l /\ l <= blocks'[i].to
    BY <1>5 DEF Covered, Passed
  <2>1. l \in Nat \ {0}
    BY DEF DocInv, DocTypes
  <2>2. ~Waits(l)
    BY <1>1, <2>1 DEF Waits, DocInv, Busy, Parser!NoBlock
  <2>3. PICK u \in 1..n : Wrote(u) /\ blocks[u].from <= l /\ l <= blocks[u].to
    BY <1>0, <2>2 DEF DocInv, LinesInv, Covered
  <2>4. CASE u < p
    <3>1. u \in 1..n + 1 /\ blocks'[u] = blocks[u]
      BY <1>5, <2>4
    <3>2. Wrote(u)'
      BY <1>5, <2>3, <3>1 DEF Wrote
    <3> QED
      BY <2>3, <3>1, <3>2
  <2>5. CASE ~(u < p)
    <3>1. u + 1 \in 1..n + 1 /\ blocks'[u + 1] = blocks[u]
      <4>1. PICK v \in p + 1..n + 1 : v = u + 1
        BY <1>3, <2>5
      <4>2. blocks'[v] = blocks[v - 1] /\ v - 1 = u /\ v \in 1..n + 1
        BY <1>3, <1>5, <4>1
      <4> QED
        BY <4>1, <4>2
    <3>2. Wrote(u + 1)'
      BY <1>5, <2>3, <3>1 DEF Wrote
    <3> QED
      BY <2>3, <3>1, <3>2
  <2> QED
    BY <2>4, <2>5
<1>13. Filled'
  <2> SUFFICES ASSUME NEW i \in 1..n + 1, blocks'[i].from = 0
               PROVE  /\ i < p + 1
                      /\ \/ i = 1 /\ blocks'[i].type = "hint"
                         \/ /\ blocks'[i].type = "answer"
                            /\ i = n + 1 \/ blocks'[i + 1].type = "part"
                            /\ \E k \in 1..i - 1 :
                                 /\ blocks'[k].type = "part"
                                 /\ \A j \in k + 1..i - 1 :
                                      blocks'[j].type \notin {"part", "answer"}
    BY <1>1, <1>5 DEF Filled
  <2>1. ASSUME NEW u \in 1..n, blocks[u].from = 0
        PROVE  /\ u < p
               /\ \/ u = 1 /\ blocks[u].type = "hint"
                  \/ /\ blocks[u].type = "answer"
                     /\ u = n \/ blocks[u + 1].type = "part"
                     /\ \E k \in 1..u - 1 :
                          /\ blocks[k].type = "part"
                          /\ \A j \in k + 1..u - 1 : blocks[j].type \notin {"part", "answer"}
    BY <1>0, <1>1, <2>1 DEF DocInv, Filled
  <2>2. i <= p
    <3>1. CASE p < i
      <4>1. i - 1 \in 1..n /\ blocks[i - 1].from = 0
        BY <1>6, <3>1
      <4>2. i - 1 < p
        BY <2>1, <4>1
      <4> QED
        BY <1>3, <3>1, <4>2
    <3> QED
      BY <3>1
  <2>3. CASE i = p
    <3>1. CASE block.type = "hint"
      BY <1>3, <1>5, <2>3, <3>1
    <3>2. CASE block.type # "hint"
      <4>1. PICK k \in 1..p - 1 :
               /\ blocks[k].type = "part"
               /\ \A j \in k + 1..p - 1 : blocks[j].type \notin {"part", "answer"}
        BY <1>3, <3>2
      <4>2. /\ blocks'[k].type = "part"
            /\ \A j \in k + 1..p - 1 : blocks'[j].type \notin {"part", "answer"}
        BY <1>3, <1>5, <4>1
      <4>3. p = n + 1 \/ blocks'[p + 1].type = "part"
        <5>1. CASE p # n + 1
          <6>1. p + 1 \in p + 1..n + 1 /\ (p + 1) - 1 = p
            BY <1>3, <5>1
          <6> QED
            BY <1>3, <1>5, <3>2, <5>1, <6>1
        <5> QED
          BY <5>1
      <4>4. blocks'[p].type = "answer"
        BY <1>3, <1>5, <3>2
      <4> QED
        BY <1>3, <2>3, <4>1, <4>2, <4>3, <4>4
    <3> QED
      BY <3>1, <3>2
  <2>4. CASE i < p
    <3>1. /\ i \in 1..n /\ blocks'[i] = blocks[i]
          /\ \A j \in 1..i : blocks'[j] = blocks[j]
      BY <1>3, <1>5, <2>4
    <3>2. CASE i = 1 /\ blocks[i].type = "hint"
      BY <1>3, <2>4, <3>1, <3>2
    <3>3. CASE ~(i = 1 /\ blocks[i].type = "hint")
      <4>1. /\ blocks[i].type = "answer"
            /\ i = n \/ blocks[i + 1].type = "part"
        BY <2>1, <3>1, <3>3
      <4>2. PICK k \in 1..i - 1 :
               /\ blocks[k].type = "part"
               /\ \A j \in k + 1..i - 1 : blocks[j].type \notin {"part", "answer"}
        BY <2>1, <3>1, <3>3
      \* Had it just been put in, its part would not lack an answer here.
      <4>3. i + 1 # p
        <5> SUFFICES ASSUME i + 1 = p PROVE FALSE
          OBVIOUS
        <5>1. PICK m \in 1..p - 1 :
                 /\ blocks[m].type = "part"
                 /\ \A j \in m + 1..p - 1 : blocks[j].type \notin {"part", "answer"}
          BY <1>3, <2>4
        <5>2. m # i
          BY <4>1, <5>1
        <5>3. i \in m + 1..p - 1
          BY <5>1, <5>2
        <5> QED
          BY <4>1, <5>1, <5>3
      <4>4. i + 1 \in 1..p - 1 /\ i # n
        BY <1>3, <2>4, <4>3
      <4>5. blocks'[i + 1].type = "part"
        BY <1>5, <4>1, <4>4
      <4>6. /\ blocks'[k].type = "part"
            /\ \A j \in k + 1..i - 1 : blocks'[j].type \notin {"part", "answer"}
        BY <3>1, <4>2
      <4> QED
        BY <1>3, <2>4, <3>1, <4>1, <4>2, <4>5, <4>6
    <3> QED
      BY <3>2, <3>3
  <2> QED
    BY <1>3, <2>2, <2>3, <2>4
<1> QED
  BY <1>5, <1>8, <1>9, <1>10, <1>11, <1>12, <1>13 DEF LinesInv, DocBlocks

\* The calls, and the steps from one check to the next.
LEMMA RepairKeeps ==
  ASSUME DocConstants, DocInv,
         Parser!Rewrite \/ Parser!FixSchema \/ Parser!Fits \/ Parser!FixText \/ Parser!TextDone
           \/ Parser!FixMath
  PROVE  DocInv'
<1>1. /\ block \in DocBlock /\ work.part \in Nat /\ work.try \in Int /\ work.try + 1 \in Int
      /\ Parser!MaxTries \in Int /\ DocTypes
      /\ work.at = "rewrite" => work.part = 0
  BY DEF DocInv, DocTypes, Works, Busy, Parser!MaxTries
<1>2. /\ Parser!Tried => work' \in Works /\ work'.at = work.at /\ work'.part = work.part
      /\ \A at \in {"text", "math", "unwritten"} : Parser!GoTo(at) =>
           work' \in Works /\ work'.at = at /\ work'.part = work.part
      /\ work' = [work EXCEPT !.try = Parser!MaxTries] =>
           work' \in Works /\ work'.at = work.at /\ work'.part = work.part
  <2>1. \A w \in Works, try \in Int : /\ [w EXCEPT !.try = try] \in Works
                                      /\ [w EXCEPT !.try = try].at = w.at
                                      /\ [w EXCEPT !.try = try].part = w.part
    BY DEF Works
  <2>2. \A w \in Works, at \in {"text", "math", "unwritten"} :
          /\ [w EXCEPT !.at = at] \in Works
          /\ [w EXCEPT !.at = at].at = at /\ [w EXCEPT !.at = at].part = w.part
    BY DEF Works
  <2>3. work \in Works
    BY DEF DocInv, DocTypes
  <2>4. Parser!Tried => work' \in Works /\ work'.at = work.at /\ work'.part = work.part
    BY <1>1, <2>1, <2>3 DEF Parser!Tried
  <2>5. \A at \in {"text", "math", "unwritten"} : Parser!GoTo(at) =>
           work' \in Works /\ work'.at = at /\ work'.part = work.part
    <3> SUFFICES ASSUME NEW at \in {"text", "math", "unwritten"}, Parser!GoTo(at)
                 PROVE  work' \in Works /\ work'.at = at /\ work'.part = work.part
      OBVIOUS
    <3>1. PICK w \in Works : w = [work EXCEPT !.at = at] /\ w.at = at /\ w.part = work.part
      BY <2>2, <2>3
    <3>2. work' = [w EXCEPT !.try = 0]
      BY <2>3, <3>1 DEF Parser!GoTo, Works
    <3>3. /\ [w EXCEPT !.try = 0] \in Works
          /\ [w EXCEPT !.try = 0].at = w.at /\ [w EXCEPT !.try = 0].part = w.part
      BY <2>1
    <3> QED
      BY <3>1, <3>2, <3>3
  <2>6. work' = [work EXCEPT !.try = Parser!MaxTries] =>
           work' \in Works /\ work'.at = work.at /\ work'.part = work.part
    BY <1>1, <2>1, <2>3
  <2> QED
    BY <2>4, <2>5, <2>6
<1>3. CASE Parser!Rewrite
  <2>1. /\ work.at = "rewrite" /\ work.part = 0
        /\ UNCHANGED <<blocks, lines, pending, aborted, passed>>
    BY <1>1, <1>3 DEF Parser!Rewrite, Parser!Call, Parser!Rest
  <2>2. CASE Parser!Tried /\ UNCHANGED block
    BY <1>1, <1>2, <2>1, <2>2, Repaired
  <2>3. CASE \E n \in 1..MaxObjects, type \in Parser!Types, flaws \in Parser!Flaws :
               /\ block' = [block EXCEPT !.type = type, !.flaws = flaws]
               /\ work' = [Parser!At("schema") EXCEPT !.more = n - 1]
    <3>1. PICK n \in 1..MaxObjects, type \in Parser!Types, flaws \in Parser!Flaws :
               /\ block' = [block EXCEPT !.type = type, !.flaws = flaws]
               /\ work' = [Parser!At("schema") EXCEPT !.more = n - 1]
      BY <2>3
    <3>2. n - 1 \in Int
      BY DEF DocConstants
    <3>3. work' \in Works /\ work'.at = "schema" /\ work'.part = 0
      BY <3>1, <3>2 DEF Parser!At, Works
    <3>4. block' \in DocBlock /\ block'.from = block.from /\ block'.to = block.to
      BY <1>1, <3>1, Retyped
    <3> QED
      BY <1>1, <2>1, <3>3, <3>4, Repaired
  <2>4. CASE Parser!GoTo("unwritten") /\ UNCHANGED block
    BY <1>1, <1>2, <2>1, <2>4, Repaired
  <2> QED
    BY <1>3, <2>2, <2>3, <2>4 DEF Parser!Rewrite
<1>4. CASE Parser!FixSchema
  <2>1. /\ work.at = "schema" /\ work' \in Works /\ work'.at = "schema" /\ work'.part = work.part
        /\ UNCHANGED <<blocks, lines, pending, aborted, passed>>
    BY <1>2, <1>4 DEF Parser!FixSchema, Parser!Call, Parser!Rest
  <2>2. /\ block' \in DocBlock /\ block'.from = block.from /\ block'.to = block.to
        /\ work.part > 0 => block'.type = block.type
    <3>1. CASE block' = block
      BY <1>1, <3>1
    <3>2. CASE \E type \in Parser!Types, flaws \in Parser!Flaws :
                 /\ work.part > 0 => type = block.type
                 /\ block' = [block EXCEPT !.type = type, !.flaws = flaws]
      <4>1. PICK type \in Parser!Types, flaws \in Parser!Flaws :
                 /\ work.part > 0 => type = block.type
                 /\ block' = [block EXCEPT !.type = type, !.flaws = flaws]
        BY <3>2
      <4> QED
        BY <1>1, <4>1, Retyped
    <3> QED
      BY <1>4, <3>1, <3>2 DEF Parser!FixSchema
  <2> QED
    BY <2>1, <2>2, Repaired
<1>5. CASE Parser!Fits
  <2>1. /\ work.at = "schema" /\ work' \in Works /\ work'.at = "text" /\ work'.part = work.part
        /\ block' = block /\ "schema" \notin block.flaws
        /\ UNCHANGED <<blocks, lines, pending, aborted, passed>>
    BY <1>2, <1>5 DEF Parser!Fits, Parser!Rest
  <2> QED
    BY <1>1, <2>1, Repaired
<1>6. CASE Parser!FixText
  <2>1. /\ work.at = "text" /\ work' \in Works /\ work'.at = "text" /\ work'.part = work.part
        /\ UNCHANGED <<blocks, lines, pending, aborted, passed>>
    BY <1>2, <1>6 DEF Parser!FixText, Parser!Call, Parser!Rest
  <2>2. "schema" \notin block.flaws
    BY <2>1 DEF DocInv, Busy
  <2>3. \/ block' = block
        \/ \E left \in SUBSET {"text", "cite"} :
             block' = [block EXCEPT !.flaws = (@ \cap {"math"}) \cup left]
    BY <1>6 DEF Parser!FixText
  <2>4. /\ block' \in DocBlock /\ block'.from = block.from /\ block'.to = block.to
        /\ block'.type = block.type /\ "schema" \notin block'.flaws
    BY <1>1, <2>2, <2>3 DEF DocBlock
  <2> QED
    BY <2>1, <2>4, Repaired
<1>7. CASE Parser!TextDone
  <2>1. /\ work.at = "text" /\ work' \in Works /\ work'.at = "math" /\ work'.part = work.part
        /\ block' = [block EXCEPT !.flaws = @ \ {"cite"}]
        /\ UNCHANGED <<blocks, lines, pending, aborted, passed>>
    BY <1>2, <1>7 DEF Parser!TextDone, Parser!Rest
  <2>2. "schema" \notin block.flaws
    BY <2>1 DEF DocInv, Busy
  <2>3. /\ block' \in DocBlock /\ block'.from = block.from /\ block'.to = block.to
        /\ block'.type = block.type /\ block'.flaws \cap {"schema", "cite"} = {}
    BY <1>1, <2>1, <2>2 DEF DocBlock
  <2> QED
    BY <2>1, <2>3, Repaired
<1>8. CASE Parser!FixMath
  <2>1. /\ work.at = "math" /\ work' \in Works /\ work'.at = "math" /\ work'.part = work.part
        /\ UNCHANGED <<blocks, lines, pending, aborted, passed>>
    BY <1>2, <1>8 DEF Parser!FixMath, Parser!Call, Parser!Rest
  <2>2. block.flaws \cap {"schema", "cite"} = {}
    BY <2>1 DEF DocInv, Busy
  <2>3. \/ block' = block
        \/ \E left \in SUBSET {"math"} :
             block' = [block EXCEPT !.flaws = (@ \ {"math"}) \cup left]
    BY <1>8 DEF Parser!FixMath
  <2>4. /\ block' \in DocBlock /\ block'.from = block.from /\ block'.to = block.to
        /\ block'.type = block.type /\ block'.flaws \cap {"schema", "cite"} = {}
    BY <1>1, <2>2, <2>3 DEF DocBlock
  <2> QED
    BY <2>1, <2>4, Repaired
<1> QED
  BY <1>3, <1>4, <1>5, <1>6, <1>7, <1>8

\* What comes to nothing is kept raw, unless the context has ended.
LEMMA RawKept ==
  ASSUME DocInv, Parser!KeepLine \/ Parser!Unfit
  PROVE  DocInv'
<1>1. /\ block \in DocBlock /\ DocTypes /\ work.more \in Int /\ work.part \in Nat
      /\ lines.first \in Nat \ {0}
      /\ work.at \in {"rewrite", "unwritten"} => work.part = 0
  BY DEF DocInv, DocTypes, Works, Busy
<1>2. /\ Parser!Raw(block) \in DocBlock /\ Parser!Raw(block).raw
      /\ Parser!Raw(block).from = block.from /\ Parser!Raw(block).to = block.to
  BY <1>1 DEF Parser!Raw, DocBlock
<1>3. UNCHANGED <<lines, pending, aborted>>
  BY DEF Parser!KeepLine, Parser!Unfit, Parser!Rest
<1>4. CASE Parser!KeepLine /\ ~aborted
  <2>1. /\ work.at \in {"rewrite", "unwritten"} /\ passed' = passed
        /\ Parser!Add(Parser!Raw(block), 0)
    BY <1>4 DEF Parser!KeepLine, Parser!GivesUp
  <2> QED
    BY <1>1, <1>2, <1>3, <2>1, Kept
<1>5. CASE Parser!KeepLine /\ aborted
  <2>1. /\ work.at \in {"rewrite", "unwritten"} /\ blocks' = blocks
        /\ passed' = [passed EXCEPT !.aborted = @ \cup (block.from..block.to)]
        /\ block' = Parser!NoBlock /\ work' = Parser!At("idle")
    BY <1>5 DEF Parser!KeepLine, Parser!GivesUp
  <2>2. work.part = 0 /\ pending = 0
    BY <2>1 DEF DocInv, Busy
  <2>3. block.from \in Nat /\ block.to \in Nat
    BY <1>1 DEF DocBlock
  <2>4. /\ passed' \in [blank: SUBSET Nat, preamble: SUBSET Nat, aborted: SUBSET Nat]
        /\ passed'.blank = passed.blank /\ passed'.preamble = passed.preamble
        /\ passed'.aborted = passed.aborted \cup (block.from..block.to)
    BY <1>1, <2>1, <2>3 DEF DocTypes
  <2>5. block'.from = 0 /\ block'.to = 0 /\ block' \in DocBlock
    BY <2>1 DEF Parser!NoBlock, DocBlock, Parser!Types
  <2>6. work' \in Works /\ work'.at = "idle" /\ work'.part = 0
    BY <2>1 DEF Parser!At, Works
  <2>7. Fit' /\ Ordered' /\ Filled'
    BY <2>1, <2>2, <2>6 DEF DocInv, LinesInv, Fit, Ordered, Filled, Wrote
  <2>8. Behind' /\ Preceding'
    BY <1>3, <2>1, <2>4, <2>5 DEF DocInv, LinesInv, Behind, Preceding, Wrote
  <2>9. Covered'
    <3> SUFFICES ASSUME NEW l \in lines.first..lines.last, ~Passed(l)'
                 PROVE  \E i \in 1..Len(blocks) :
                          Wrote(i) /\ blocks[i].from <= l /\ l <= blocks[i].to
      BY <1>3, <2>1 DEF Covered, Wrote
    <3>1. ~Passed(l) /\ ~(block.from <= l /\ l <= block.to)
      BY <1>1, <2>3, <2>4 DEF Passed, DocTypes
    <3>2. ~Waits(l)
      BY <2>2, <3>1 DEF Waits
    <3> QED
      BY <3>1, <3>2 DEF DocInv, LinesInv, Covered
  <2>10. DocTypes'
    BY <1>1, <1>3, <2>1, <2>4, <2>5, <2>6 DEF DocTypes
  <2>11. Busy'
    BY <2>1, <2>6 DEF Busy
  <2>12. Lost'
    BY <1>3, <1>5 DEF Lost
  <2> QED
    BY <2>7, <2>8, <2>9, <2>10, <2>11, <2>12 DEF DocInv, LinesInv
<1>6. CASE Parser!Unfit /\ work.part = 0
  <2>1. work.at = "schema" /\ passed' = passed /\ Parser!Add(Parser!Raw(block), work.more)
    BY <1>6 DEF Parser!Unfit, Parser!GivesUp
  <2> QED
    BY <1>1, <1>2, <1>3, <1>6, <2>1, Kept
<1>7. CASE Parser!Unfit /\ work.part # 0
  <2>1. /\ work.at = "schema" /\ passed' = passed /\ blocks' = blocks /\ block' = Parser!NoBlock
        /\ work' = [Parser!At("final") EXCEPT !.part = work.part + 1]
    BY <1>1, <1>7 DEF Parser!Unfit, Parser!GivesUp
  <2>2. work' \in Works /\ work'.at = "final" /\ work'.part = work.part + 1
    BY <1>1, <2>1 DEF Parser!At, Works
  <2>3. block'.from = 0 /\ block'.to = 0 /\ block' \in DocBlock
    BY <2>1 DEF Parser!NoBlock, DocBlock, Parser!Types
  <2>4. block.from = 0 /\ block.to = 0 /\ pending = 0
    BY <1>7, <2>1 DEF DocInv, Busy
  <2>5. LinesInv' /\ Filled'
    BY <1>1, <1>3, <2>1, <2>2, <2>3, <2>4, SameLines
  <2>6. DocTypes'
    BY <1>1, <1>3, <2>1, <2>2, <2>3 DEF DocTypes
  <2>7. Busy'
    BY <1>1, <1>3, <2>1, <2>2, <2>4 DEF Busy
  <2>8. Lost'
    BY <1>3, <2>1 DEF DocInv, Lost
  <2> QED
    BY <2>5, <2>6, <2>7, <2>8 DEF DocInv
<1> QED
  BY <1>4, <1>5, <1>6, <1>7

\* A block that ends its checks is the next of the document, or is put in where it is missing.
LEMMA CheckedKept ==
  ASSUME DocInv, Parser!Checked
  PROVE  DocInv'
<1>1. /\ block \in DocBlock /\ DocTypes /\ work.more \in Int /\ work.part \in Nat
      /\ work.at = "math" /\ block.flaws \cap {"schema", "cite"} = {}
  BY DEF DocInv, DocTypes, Works, Busy, Parser!Checked
<1>2. UNCHANGED <<lines, pending, aborted, passed>>
  BY DEF Parser!Checked, Parser!Rest
<1>3. CASE work.part = 0
  <2>1. Parser!Add(block, work.more)
    BY <1>3 DEF Parser!Checked
  <2> QED
    BY <1>1, <1>2, <1>3, <2>1, Kept
<1>4. CASE work.part # 0
  <2>1. /\ blocks' = Parser!InsertAt(blocks, work.part, block) /\ block' = Parser!NoBlock
        /\ work' = [Parser!At("final") EXCEPT !.part = work.part + 1]
    BY <1>4 DEF Parser!Checked
  <2>2. work' \in Works /\ work'.at = "final" /\ work'.part = work.part + 1
    BY <1>1, <2>1 DEF Parser!At, Works
  <2>3. LinesInv' /\ Filled' /\ blocks' \in DocBlocks
    BY <1>1, <1>2, <1>4, <2>1, <2>2, PutIn
  <2>4. block' \in DocBlock
    BY <2>1 DEF Parser!NoBlock, DocBlock, Parser!Types
  <2>5. DocTypes'
    BY <1>1, <1>2, <2>2, <2>3, <2>4 DEF DocTypes
  <2>6. pending = 0
    BY <1>1 DEF DocInv, Busy
  <2>7. Busy'
    BY <1>1, <1>2, <2>1, <2>2, <2>6 DEF Busy
  <2>8. Lost'
    BY <1>2 DEF DocInv, Lost
  <2> QED
    BY <2>3, <2>5, <2>7, <2>8 DEF DocInv
<1> QED
  BY <1>3, <1>4

\* A line is passed over: with those that waited, or where none did.
LEMMA LinePassed ==
  ASSUME DocInv, work.at = "idle", UNCHANGED <<blocks, block, work, aborted>>,
         lines' = [lines EXCEPT !.last = @ + 1], pending' = 0,
         NEW over \in SUBSET (1..lines.last + 1),
         \A l \in Parser!Here.from..Parser!Here.to : l \in over,
         \/ passed' = [passed EXCEPT !.blank = @ \cup over]
         \/ passed' = [passed EXCEPT !.preamble = @ \cup over] /\ blocks = <<>>
  PROVE  DocInv'
<1>1. /\ block = Parser!NoBlock /\ work.part = 0 /\ lines.last \in Nat
      /\ lines.first \in Nat \ {0} /\ pending \in 0..lines.last
      /\ Parser!Here.to = lines.last + 1 /\ block.from = 0 /\ block.to = 0
      /\ \A l \in lines.first..lines.last : Waits(l) => pending > 0 /\ Parser!Here.from <= l
      /\ Parser!Here.from \in 1..lines.last + 1
  BY WhereFrom
<1>2. /\ lines' \in [first: Nat \ {0}, last: Nat]
      /\ lines'.first = lines.first /\ lines'.last = lines.last + 1
  BY DEF DocInv, DocTypes
<1>3. over \subseteq Nat
  BY <1>1
<1>4. /\ passed' \in [blank: SUBSET Nat, preamble: SUBSET Nat, aborted: SUBSET Nat]
      /\ passed'.aborted = passed.aborted /\ \A l : Passed(l)' <=> Passed(l) \/ l \in over
      /\ \/ passed'.preamble = passed.preamble
         \/ passed'.preamble = passed.preamble \cup over /\ blocks = <<>>
  BY <1>3 DEF DocInv, DocTypes, Passed
<1>5. DocTypes'
  BY <1>1, <1>2, <1>4 DEF DocInv, DocTypes
<1>6. Busy'
  BY DEF DocInv, Busy
<1>7. Fit' /\ Ordered' /\ Filled' /\ Lost'
  BY <1>4 DEF DocInv, LinesInv, Fit, Ordered, Filled, Lost, Wrote
<1>8. Behind'
  <2>1. ASSUME NEW i \in 1..Len(blocks), Wrote(i)
        PROVE  blocks[i].from <= blocks[i].to /\ blocks[i].to <= lines.last + 1
    <3>1. blocks[i].to \in Nat
      BY BlockAt DEF DocInv
    <3>2. blocks[i].from <= blocks[i].to /\ blocks[i].to <= lines.last
      BY <2>1 DEF DocInv, LinesInv, Behind
    <3> QED
      BY <1>1, <3>1, <3>2
  <2> QED
    BY <1>1, <1>2, <2>1 DEF Behind, Wrote
<1>9. Preceding'
  <2> SUFFICES ASSUME NEW l \in passed'.preamble
               PROVE  /\ l <= lines.last + 1
                      /\ \/ l < lines.first
                         \/ \A i \in 1..Len(blocks) : Wrote(i) => l < blocks[i].from
    BY <1>1, <1>2 DEF Preceding, Wrote
  <2>1. CASE l \in passed.preamble
    <3>1. l \in Nat
      BY <2>1 DEF DocInv, DocTypes
    <3>2. /\ l <= lines.last
          /\ \/ l < lines.first
             \/ \A i \in 1..Len(blocks) : Wrote(i) => l < blocks[i].from
      BY <2>1 DEF DocInv, LinesInv, Preceding
    <3> QED
      BY <1>1, <3>1, <3>2
  <2>2. CASE l \notin passed.preamble
    <3>1. l \in over /\ blocks = <<>>
      BY <1>4, <2>2
    <3> QED
      BY <1>1, <3>1
  <2> QED
    BY <2>1, <2>2
<1>10. Covered'
  <2> SUFFICES ASSUME NEW l \in lines.first..lines.last + 1, l \notin over
               PROVE  \/ \E i \in 1..Len(blocks) :
                           Wrote(i) /\ blocks[i].from <= l /\ l <= blocks[i].to
                      \/ Passed(l)
    BY <1>2, <1>4 DEF Covered, Wrote
  <2>1. l \in lines.first..lines.last /\ ~(Parser!Here.from <= l)
    BY <1>1
  <2> QED
    BY <1>1, <2>1 DEF DocInv, LinesInv, Covered
<1> QED
  BY <1>5, <1>6, <1>7, <1>8, <1>9, <1>10 DEF DocInv, LinesInv

LEMMA LineKeeps ==
  ASSUME DocConstants, DocInv,
         Parser!Blank \/ Parser!Objects \/ Parser!Unfinished \/ Parser!NotJSON
  PROVE  DocInv'
<1>1. /\ work.at = "idle" /\ lines' = [lines EXCEPT !.last = @ + 1]
      /\ UNCHANGED <<mode, blocks, aborted>>
  BY DEF Parser!Blank, Parser!Objects, Parser!Unfinished, Parser!NotJSON, Parser!LineEnds
<1>2. /\ block = Parser!NoBlock /\ work.part = 0 /\ lines.last \in Nat
      /\ pending \in 0..lines.last /\ Parser!Here \in DocBlock
      /\ Parser!Here.to = lines.last + 1 /\ Parser!Here.from \in 1..lines.last + 1
      /\ Parser!Here.from = IF pending = 0 THEN lines.last + 1 ELSE pending
      /\ blocks \in DocBlocks /\ block \in DocBlock /\ work \in Works /\ aborted \in BOOLEAN
      /\ passed \in [blank: SUBSET Nat, preamble: SUBSET Nat, aborted: SUBSET Nat]
  BY <1>1, WhereFrom DEF DocInv, DocTypes
<1>3. CASE Parser!Blank
  <2>1. /\ UNCHANGED <<block, work>> /\ pending = 0 /\ pending' = 0
        /\ passed' = [passed EXCEPT !.blank = @ \cup {lines.last + 1}]
    BY <1>3 DEF Parser!Blank
  <2>2. {lines.last + 1} \in SUBSET (1..lines.last + 1)
    BY <1>2
  <2>3. \A l \in Parser!Here.from..Parser!Here.to : l \in {lines.last + 1}
    BY <1>2, <2>1
  <2> QED
    BY <1>1, <2>1, <2>2, <2>3, LinePassed
<1>4. ASSUME passed' = passed, work'.at \in {"schema", "rewrite"}, work'.part = 0,
             work' \in Works, block' \in DocBlock, pending' = 0,
             block'.from = Parser!Here.from, block'.to = Parser!Here.to
      PROVE  DocInv'
  <2>1. /\ LinesInv' /\ Filled' /\ Lost'
        /\ lines' \in [first: Nat \ {0}, last: Nat] /\ pending' \in 0..lines'.last
    BY <1>1, <1>4, LineWaits
  <2>2. DocTypes'
    BY <1>1, <1>2, <1>4, <2>1 DEF DocTypes
  <2>3. lines'.last = lines.last + 1
    BY <1>1 DEF DocInv, DocTypes
  <2>4. Busy'
    BY <1>2, <1>4, <2>3 DEF Busy
  <2> QED
    BY <2>1, <2>2, <2>4 DEF DocInv
<1>5. CASE Parser!Objects
  <2>1. PICK n \in 1..MaxObjects, type \in Parser!Types, flaws \in Parser!Flaws :
               /\ block' = [Parser!Here EXCEPT !.type = type, !.flaws = flaws]
               /\ work' = [Parser!At("schema") EXCEPT !.more = n - 1]
    BY <1>5 DEF Parser!Objects
  <2>2. n - 1 \in Int
    BY DEF DocConstants
  <2>3. work' \in Works /\ work'.at = "schema" /\ work'.part = 0
    BY <2>1, <2>2 DEF Parser!At, Works
  <2>4. block' \in DocBlock /\ block'.from = Parser!Here.from /\ block'.to = Parser!Here.to
    <3>1. Parser!Here \in DocBlock
      BY <1>2
    <3> QED
      BY <2>1, <3>1, Retyped
  <2>5. pending' = 0 /\ passed' = passed
    BY <1>5 DEF Parser!Objects
  <2> QED
    BY <1>4, <2>3, <2>4, <2>5
<1>6. CASE Parser!Unfinished
  <2>1. pending' = Parser!Here.from /\ UNCHANGED <<block, work, passed>>
    BY <1>6 DEF Parser!Unfinished
  <2>2. /\ LinesInv' /\ Filled' /\ Lost'
        /\ lines' \in [first: Nat \ {0}, last: Nat] /\ pending' \in 0..lines'.last
    BY <1>1, <1>2, <2>1, LineWaits
  <2>3. DocTypes'
    BY <1>1, <1>2, <2>1, <2>2 DEF DocTypes
  <2>4. Busy'
    BY <1>1, <1>2, <2>1 DEF Busy
  <2> QED
    BY <2>2, <2>3, <2>4 DEF DocInv
<1>7. CASE Parser!NotJSON /\ mode = "guide" /\ ~Parser!SawBlock
  <2>1. /\ UNCHANGED <<block, work>> /\ pending' = 0 /\ blocks = <<>>
        /\ passed' = [passed EXCEPT !.preamble = @ \cup (Parser!Here.from..Parser!Here.to)]
    BY <1>7 DEF Parser!NotJSON, Parser!SawBlock
  <2>2. (Parser!Here.from..Parser!Here.to) \in SUBSET (1..lines.last + 1)
    BY <1>2
  <2> QED
    BY <1>1, <2>1, <2>2, LinePassed
<1>8. CASE Parser!NotJSON /\ ~(mode = "guide" /\ ~Parser!SawBlock)
  <2>1. /\ block' = Parser!Here /\ work' = Parser!At("rewrite") /\ passed' = passed
        /\ pending' = 0
    BY <1>8 DEF Parser!NotJSON
  <2>2. work' \in Works /\ work'.at = "rewrite" /\ work'.part = 0
    BY <2>1 DEF Parser!At, Works
  <2> QED
    BY <1>2, <1>4, <2>1, <2>2
<1> QED
  BY <1>3, <1>5, <1>6, <1>7, <1>8

LEMMA EndKeeps ==
  ASSUME DocInv,
         Parser!Reset \/ Parser!Finish \/ Parser!Write \/ Parser!GoOn \/ Parser!Abort
  PROVE  DocInv'
<1>1. /\ blocks \in DocBlocks /\ block \in DocBlock /\ work \in Works /\ aborted \in BOOLEAN
      /\ lines.last \in Nat /\ lines.first \in Nat \ {0} /\ pending \in 0..lines.last
      /\ lines \in [first: Nat \ {0}, last: Nat] /\ work.part \in Nat
      /\ passed \in [blank: SUBSET Nat, preamble: SUBSET Nat, aborted: SUBSET Nat]
      /\ DocTypes /\ LinesInv
  BY DEF DocInv, DocTypes, Works
<1>2. CASE Parser!Reset
  <2>1. /\ work.at = "idle" /\ blocks' = <<>> /\ pending' = 0
        /\ lines' = [lines EXCEPT !.first = lines.last + 1]
        /\ UNCHANGED <<block, work, aborted, passed>>
    BY <1>2 DEF Parser!Reset
  <2>2. /\ lines' \in [first: Nat \ {0}, last: Nat]
        /\ lines'.first = lines.last + 1 /\ lines'.last = lines.last
    BY <1>1, <2>1
  <2>3. block.from = 0 /\ block.to = 0
    BY <2>1, WhereFrom
  <2>4. blocks' \in DocBlocks /\ Len(blocks') = 0 /\ 1..Len(blocks') = {}
    BY <2>1 DEF DocBlocks
  <2>5. DocTypes'
    BY <1>1, <2>1, <2>2, <2>4 DEF DocTypes
  <2>6. Busy'
    BY <2>1 DEF DocInv, Busy
  <2>7. Fit' /\ Ordered' /\ Behind' /\ Filled' /\ Lost'
    BY <2>1, <2>4 DEF DocInv, Fit, Ordered, Behind, Filled, Lost
  <2>8. Preceding'
    <3>1. \A l \in passed.preamble : l \in Nat /\ l <= lines.last
      BY <1>1 DEF LinesInv, Preceding
    <3>2. \A l \in passed.preamble : l < lines.last + 1
      BY <1>1, <3>1
    <3> QED
      BY <2>1, <2>2, <3>1, <3>2 DEF Preceding
  <2>9. Covered'
    <3>1. lines'.first..lines'.last = {}
      BY <1>1, <2>2
    <3> QED
      BY <3>1 DEF Covered
  <2> QED
    BY <2>5, <2>6, <2>7, <2>8, <2>9 DEF DocInv, LinesInv
<1>3. CASE Parser!Finish
  <2>1. /\ work.at = "idle" /\ pending' = 0 /\ work' = [Parser!At("final") EXCEPT !.part = 1]
        /\ UNCHANGED <<lines, block, aborted, passed>>
    BY <1>3 DEF Parser!Finish
  <2>2. work' \in Works /\ work'.at = "final" /\ work'.part = 1
    BY <2>1 DEF Parser!At, Works
  <2>3. block = Parser!NoBlock /\ block.from = 0 /\ block.to = 0 /\ work.part = 0
    BY <2>1, WhereFrom
  <2>4. Busy' /\ Lost'
    BY <2>1, <2>2, <2>3 DEF DocInv, Busy, Lost
  <2>5. CASE pending = 0
    <3>1. blocks' = blocks /\ pending' = pending
      BY <1>3, <2>1, <2>5 DEF Parser!Finish
    <3>2. LinesInv' /\ Filled'
      BY <2>1, <2>2, <2>3, <3>1, SameLines
    <3>3. DocTypes'
      BY <1>1, <2>1, <2>2, <3>1 DEF DocTypes
    <3> QED
      BY <2>4, <3>2, <3>3 DEF DocInv
  <2>6. CASE pending # 0
    <3>1. PICK b : b = Parser!Raw([Parser!NoBlock EXCEPT !.from = pending, !.to = lines.last])
      OBVIOUS
    <3>2. b \in DocBlock /\ b.raw /\ b.from = pending /\ b.to = lines.last
      <4>1. \A from, to \in Nat :
              [type |-> "raw", from |-> from, to |-> to, flaws |-> {}, raw |-> TRUE] \in DocBlock
        BY DEF DocBlock
      <4>2. b = [type |-> "raw", from |-> pending, to |-> lines.last, flaws |-> {}, raw |-> TRUE]
        BY <3>1 DEF Parser!Raw, Parser!NoBlock
      <4>3. pending \in Nat /\ lines.last \in Nat
        BY <1>1
      <4> QED
        BY <4>1, <4>2, <4>3
    <3>3. blocks' = Append(blocks, b)
      BY <1>3, <2>6, <3>1 DEF Parser!Finish
    <3>4. \A i \in 1..Len(blocks) : Wrote(i) =>
            \/ blocks[i].to < b.from
            \/ blocks[i].from = b.from /\ blocks[i].to = b.to
      BY <1>1, <2>6, <3>2 DEF LinesInv, Behind
    <3>5. \A l \in passed.preamble : l < lines.first \/ l < b.from
      BY <1>1, <2>6, <3>2 DEF LinesInv, Preceding
    <3>6. \A l \in lines.first..lines.last : Waits(l) => b.from <= l /\ l <= b.to
      BY <1>1, <2>3, <3>2 DEF Waits
    <3>7. LinesInv' /\ blocks' \in DocBlocks
      BY <1>1, <2>1, <2>3, <2>6, <3>2, <3>3, <3>4, <3>5, <3>6, AddedLines
    <3>8. DocTypes'
      BY <1>1, <2>1, <2>2, <3>7 DEF DocTypes
    <3>9. Filled'
      <4>1. PICK n \in Nat : n = Len(blocks)
        BY <1>1 DEF DocBlocks
      <4>2. \A i \in 1..n : blocks[i].from # 0
        BY <2>3, <4>1 DEF DocInv, Filled
      <4>3. blocks \in Seq(DocBlock)
        BY <1>1 DEF DocBlocks
      <4>4. /\ 1..Len(blocks') = (1..n) \cup {n + 1} /\ blocks'[n + 1] = b
            /\ \A i \in 1..n : blocks'[i] = blocks[i]
        BY <3>3, <4>1, <4>3
      <4> QED
        BY <2>6, <3>2, <4>2, <4>4 DEF Filled
    <3> QED
      BY <2>4, <3>7, <3>8, <3>9 DEF DocInv
  <2> QED
    BY <2>5, <2>6
<1>4. CASE Parser!Write
  <2>1. /\ work.at = "final" /\ Parser!Missing # "none"
        /\ work' = [work EXCEPT !.at = "schema", !.try = 0]
        /\ UNCHANGED <<blocks, lines, pending, aborted, passed>>
        /\ \E flaws \in Parser!Flaws :
             block' = [Parser!NoBlock EXCEPT !.type = Parser!Missing, !.flaws = flaws]
    BY <1>4 DEF Parser!Write, Parser!Rest, Parser!GoTo
  <2>2. work.part > 0 /\ block = Parser!NoBlock /\ pending = 0
    BY <2>1 DEF DocInv, Busy
  <2>3. work' \in Works /\ work'.at = "schema" /\ work'.part = work.part
    <3>1. PICK w \in Works : w = [work EXCEPT !.at = "schema"]
      BY <1>1 DEF Works
    <3>2. w.at = "schema" /\ w.part = work.part /\ work' = [w EXCEPT !.try = 0]
      BY <1>1, <2>1, <3>1 DEF Works
    <3> QED
      BY <3>2 DEF Works
  <2>4. Parser!Missing \in Parser!Types
    BY <2>1 DEF Parser!Missing, Parser!Types
  <2>5. /\ block' \in DocBlock /\ block'.from = 0 /\ block'.to = 0
        /\ block'.type = Parser!Missing /\ block.from = 0 /\ block.to = 0
    <3>1. Parser!NoBlock \in DocBlock /\ Parser!NoBlock.from = 0 /\ Parser!NoBlock.to = 0
      BY DEF Parser!NoBlock, DocBlock, Parser!Types
    <3>2. PICK flaws \in Parser!Flaws, type \in Parser!Types :
               /\ type = Parser!Missing
               /\ block' = [Parser!NoBlock EXCEPT !.type = type, !.flaws = flaws]
      BY <2>1, <2>4
    <3>3. PICK b \in DocBlock : b = Parser!NoBlock /\ b.from = 0 /\ b.to = 0
      BY <3>1
    <3>4. block' \in DocBlock /\ block'.from = b.from /\ block'.to = b.to /\ block'.type = type
      <4>1. block' = [b EXCEPT !.type = type, !.flaws = flaws]
        BY <3>2, <3>3
      <4> HIDE <3>2, <3>3
      <4> QED
        BY <4>1, Retyped
    <3> QED
      BY <2>2, <3>1, <3>2, <3>3, <3>4
  <2>6. LinesInv' /\ Filled'
    BY <1>1, <2>1, <2>3, <2>5, SameLines
  <2>7. Parser!Missing' = Parser!Missing
    BY <2>1, <2>3, MissingHere
  <2>8. DocTypes'
    BY <1>1, <2>1, <2>3, <2>5 DEF DocTypes
  <2>9. Busy'
    BY <1>1, <2>1, <2>2, <2>3, <2>5, <2>7 DEF Busy
  <2>10. Lost'
    BY <2>1 DEF DocInv, Lost
  <2> QED
    BY <2>6, <2>8, <2>9, <2>10 DEF DocInv
<1>5. CASE Parser!GoOn
  <2>1. /\ work.at = "final" /\ work' = [work EXCEPT !.part = work.part + 1]
        /\ UNCHANGED <<blocks, block, lines, pending, aborted, passed>>
    BY <1>5 DEF Parser!GoOn, Parser!Rest
  <2>2. work' \in Works /\ work'.at = "final" /\ work'.part = work.part + 1
    BY <1>1, <2>1 DEF Works
  <2>3. LinesInv' /\ Filled'
    BY <1>1, <2>1, <2>2, SameLines
  <2>4. DocTypes'
    BY <1>1, <2>1, <2>2 DEF DocTypes
  <2>5. Busy' /\ Lost'
    BY <1>1, <2>1, <2>2 DEF DocInv, Busy, Lost
  <2> QED
    BY <2>3, <2>4, <2>5 DEF DocInv
<1>6. CASE Parser!Abort
  <2>1. aborted' = TRUE /\ UNCHANGED <<blocks, lines, pending, block, work, passed>>
    BY <1>6 DEF Parser!Abort
  <2>2. LinesInv' /\ Filled'
    BY <1>1, <2>1, SameLines
  <2>3. DocTypes'
    BY <1>1, <2>1 DEF DocTypes
  <2>4. Parser!Missing' = Parser!Missing
    BY <2>1, MissingHere
  <2>5. Busy'
    BY <2>1, <2>4 DEF DocInv, Busy
  <2>6. Lost'
    BY <2>1 DEF Lost
  <2> QED
    BY <2>2, <2>3, <2>5, <2>6 DEF DocInv
<1> QED
  BY <1>2, <1>3, <1>4, <1>5, <1>6

LEMMA DocStep ==
  ASSUME DocConstants, DocInv, Parser!Next
  PROVE  DocInv'
<1>1. CASE Parser!Blank \/ Parser!Objects \/ Parser!Unfinished \/ Parser!NotJSON
  BY <1>1, LineKeeps
<1>2. CASE Parser!Rewrite \/ Parser!FixSchema \/ Parser!Fits \/ Parser!FixText
             \/ Parser!TextDone \/ Parser!FixMath
  BY <1>2, RepairKeeps
<1>3. CASE Parser!KeepLine \/ Parser!Unfit
  BY <1>3, RawKept
<1>4. CASE Parser!Checked
  BY <1>4, CheckedKept
<1>5. CASE Parser!Reset \/ Parser!Finish \/ Parser!Write \/ Parser!GoOn \/ Parser!Abort
  BY <1>5, EndKeeps
<1> QED
  BY <1>1, <1>2, <1>3, <1>4, <1>5 DEF Parser!Next

LEMMA DocInit ==
  ASSUME Parser!Init
  PROVE  DocInv
<1>1. /\ blocks = <<>> /\ lines = [first |-> 1, last |-> 0] /\ pending = 0
      /\ block = Parser!NoBlock /\ work = Parser!At("idle") /\ aborted = FALSE
      /\ passed = [blank |-> {}, preamble |-> {}, aborted |-> {}]
  BY DEF Parser!Init
<1>2. /\ lines.first = 1 /\ lines.last = 0 /\ passed.preamble = {} /\ passed.aborted = {}
      /\ 1..Len(blocks) = {} /\ lines.first..lines.last = {}
  BY <1>1
<1>3. blocks \in DocBlocks
  BY <1>1 DEF DocBlocks
<1>4. block \in DocBlock
  BY <1>1 DEF Parser!NoBlock, DocBlock, Parser!Types
<1>5. work \in Works /\ work.at = "idle" /\ work.part = 0
  BY <1>1 DEF Parser!At, Works
<1>6. DocTypes
  <2>1. lines \in [first: Nat \ {0}, last: Nat] /\ pending \in 0..lines.last
    BY <1>1
  <2>2. passed \in [blank: SUBSET Nat, preamble: SUBSET Nat, aborted: SUBSET Nat]
    BY <1>1
  <2> QED
    BY <1>1, <1>3, <1>4, <1>5, <2>1, <2>2 DEF DocTypes
<1>7. Busy
  BY <1>1, <1>5 DEF Busy
<1>8. LinesInv /\ Filled /\ Lost
  BY <1>2 DEF LinesInv, Fit, Ordered, Behind, Preceding, Covered, Filled, Lost
<1> QED
  BY <1>6, <1>7, <1>8 DEF DocInv

\* Every guide the parser makes has what the model wrote of it, fit to be shown and in order
\* (doc/parser.go, doc/repair.go, doc/finalize.go), and a guide a second solution disagrees
\* with tells so in each part that differs, once, and nowhere else (homework/crosscheck.go).
THEOREM GuideIsSoundHolds == ServicesSpec => []GuideIsSound
<1> DEFINE Inv == (on = "parser" => DocInv) /\ (on = "doubting" => DoubtInv)
<1>c. MaxBlocks \in Nat /\ DocConstants
  BY KeepingConstants DEF DocConstants
<1>1. ServicesInit => Inv
  BY DocInit, DoubtInit, <1>c DEF ServicesInit
<1>2. Inv /\ [ServicesNext]_servicesVars => Inv'
  <2>1. ASSUME DocInv, on = "parser", on' = "parser", [ServicesNext]_servicesVars
        PROVE  DocInv'
    <3>1. CASE Parser!Next
      BY <1>c, <2>1, <3>1, DocStep
    <3>2. CASE UNCHANGED parser
      <4>1. /\ UNCHANGED <<blocks, lines, pending, block, work, aborted, passed>>
        BY <3>2 DEF parser
      <4>2. Parser!Missing' = Parser!Missing
        BY <4>1, MissingHere
      <4>3. LinesInv' /\ Filled'
        <5>1. work.part \in Nat
          BY <2>1 DEF DocInv, DocTypes, Works
        <5> QED
          BY <2>1, <4>1, <5>1, SameLines
      <4>4. DocTypes' /\ Busy' /\ Lost'
        BY <2>1, <4>1, <4>2 DEF DocInv, DocTypes, Busy, Lost
      <4> QED
        BY <4>3, <4>4 DEF DocInv
    <3> QED
      BY <2>1, <3>1, <3>2 DEF ServicesNext, servicesVars
  <2>2. ASSUME DoubtInv, on = "doubting", on' = "doubting", [ServicesNext]_servicesVars
        PROVE  DoubtInv'
    <3>1. CASE Doubting!Next
      BY <1>c, <2>2, <3>1, DoubtStep
    <3>2. CASE UNCHANGED doubting
      BY <2>2, <3>2 DEF doubting, DoubtInv, Doubting!TypeOK
    <3> QED
      BY <2>2, <3>1, <3>2 DEF ServicesNext, servicesVars
  <2>3. [ServicesNext]_servicesVars => on' = on
    BY DEF ServicesNext, servicesVars
  <2> QED
    BY <2>1, <2>2, <2>3
<1>3. Inv => GuideIsSound
  BY <1>c, DocKept, DoubtTold DEF GuideIsSound
<1> QED
  BY <1>1, <1>2, <1>3, PTL DEF ServicesSpec

-----------------------------------------------------------------------------
(* What is remembered.                                                     *)

Note == [id: Nat \ {0}, text: Nat, source: {"you", "tutor"}]

Saves == [at: {"idle", "compare", "write", "delete"}, text: Nat, old: Nat, late: BOOLEAN]

NotesTypes ==
  /\ notes \in Seq(Note) /\ made \in Nat /\ raced \in BOOLEAN
  /\ \A i \in 1..Len(notes) : notes[i].id <= made
  /\ saving \in [Savers -> Saves]

\* A save that has compared, with no other written since, is of nothing that is noted but in
\* what it replaces.
Compared ==
  \A s \in Savers : saving[s].at = "write" /\ ~saving[s].late =>
    \A i \in 1..Len(notes) : notes[i].text = saving[s].text => notes[i].id = saving[s].old

NotesInv == NotesTypes /\ Remembering!RemembersOnce /\ Compared

\* Of some notes no two are one, nor say the same, unless saves crossed.
SaysOnce(list, crossing) ==
  \A i, j \in 1..Len(list) : i # j =>
    list[i].id # list[j].id /\ (list[i].text = list[j].text => crossing)

\* These are of the notes there are, without that of an id.
AmongOthers(list, id) ==
  \A j \in 1..Len(list) : \E k \in 1..Len(notes) : list[j] = notes[k] /\ notes[k].id # id

\* None of these is a note, nor says what it says, unless saves crossed.
Unlike(list, note, crossing) ==
  \A j \in 1..Len(list) : list[j].id # note.id /\ (list[j].text = note.text => crossing)

OnTop(note, list, top) ==
  \A j \in 1..Len(top) : top[j] = note \/ \E k \in 1..Len(list) : top[j] = list[k]

\* What is left without a note is of the notes there were.
LEMMA LeftNotes ==
  ASSUME NotesTypes, Remembering!RemembersOnce, NEW id, NEW left,
         left = Remembering!Without(id)
  PROVE  left \in Seq(Note) /\ AmongOthers(left, id) /\ SaysOnce(left, raced)
<1> USE DEF AmongOthers, SaysOnce
<1>1. CASE id \notin Remembering!Present
  <2>1. left = notes
    BY <1>1 DEF Remembering!Without
  <2>2. \A k \in 1..Len(notes) : notes[k].id # id
    BY <1>1 DEF Remembering!Present
  <2> QED
    BY <2>1, <2>2 DEF NotesTypes, Remembering!RemembersOnce
<1>2. CASE id \in Remembering!Present
  <2>1. \E k \in 1..Len(notes) : notes[k].id = id
    BY <1>2 DEF Remembering!Present
  <2>2. PICK p \in 1..Len(notes) : /\ notes[p].id = id
                                   /\ p = CHOOSE k \in 1..Len(notes) : notes[k].id = id
    BY <2>1
  <2>3. PICK n \in Nat : n = Len(notes)
    BY DEF NotesTypes
  <2>4. left = SubSeq(notes, 1, p - 1) \o SubSeq(notes, p + 1, Len(notes))
    BY <1>2, <2>2 DEF Remembering!Without, Remembering!RemoveAt
  <2>5. notes \in Seq(Note) /\ p \in 1..n /\ n = Len(notes)
    BY <2>2, <2>3 DEF NotesTypes
  <2> DEFINE upto == SubSeq(notes, 1, p - 1)
             onward == SubSeq(notes, p + 1, Len(notes))
  <2>6. /\ upto \in Seq(Note) /\ Len(upto) = p - 1 /\ \A i \in 1..p - 1 : upto[i] = notes[i]
        /\ onward \in Seq(Note) /\ Len(onward) = n - p
        /\ \A i \in 1..n - p : onward[i] = notes[p + i]
    BY <2>5
  <2> HIDE DEF upto, onward
  <2>7. /\ left \in Seq(Note) /\ Len(left) = Len(upto) + Len(onward)
        /\ \A i \in 1..Len(upto) + Len(onward) :
             left[i] = IF i <= Len(upto) THEN upto[i] ELSE onward[i - Len(upto)]
    <3>1. left = upto \o onward
      BY <2>4 DEF upto, onward
    <3> QED
      BY <2>6, <3>1, ConcatProperties
  <2>8. /\ Len(left) = n - 1
        /\ \A i \in 1..n - 1 : left[i] = notes[IF i < p THEN i ELSE i + 1]
    <3>1. Len(left) = n - 1 /\ n \in Nat /\ p \in 1..n
      BY <2>5, <2>6, <2>7
    <3>2. ASSUME NEW i \in 1..n - 1, i < p
          PROVE  left[i] = notes[i]
      <4>1. i \in 1..p - 1 /\ i \in 1..Len(upto) + Len(onward) /\ i <= Len(upto)
        BY <2>6, <3>1, <3>2
      <4> QED
        BY <2>6, <2>7, <4>1
    <3>3. ASSUME NEW i \in 1..n - 1, ~(i < p)
          PROVE  left[i] = notes[i + 1]
      <4>1. /\ i \in 1..Len(upto) + Len(onward) /\ ~(i <= Len(upto))
            /\ i - Len(upto) = i - (p - 1) /\ i - (p - 1) \in 1..n - p /\ p + (i - (p - 1)) = i + 1
        BY <2>6, <3>1, <3>3
      <4> QED
        BY <2>6, <2>7, <4>1
    <3> QED
      BY <3>1, <3>2, <3>3
  <2>9. \A i \in 1..n - 1 : /\ (IF i < p THEN i ELSE i + 1) \in 1..n
                            /\ (IF i < p THEN i ELSE i + 1) # p
    BY <2>5
  <2>10. \A k, l \in 1..n : k # l => notes[k].id # notes[l].id /\ (notes[k].text = notes[l].text => raced)
    BY <2>5 DEF Remembering!RemembersOnce
  <2>11. \A j \in 1..Len(left) : \E k \in 1..Len(notes) : left[j] = notes[k] /\ notes[k].id # id
    <3> SUFFICES ASSUME NEW j \in 1..n - 1
                 PROVE  \E k \in 1..n : left[j] = notes[k] /\ notes[k].id # id
      BY <2>5, <2>8
    <3>1. PICK k \in 1..n : k = (IF j < p THEN j ELSE j + 1) /\ left[j] = notes[k] /\ k # p
      BY <2>8, <2>9
    <3>2. notes[k].id # notes[p].id
      BY <2>5, <2>10, <3>1
    <3> QED
      BY <2>2, <3>1, <3>2
  <2>12. ASSUME NEW i \in 1..Len(left), NEW j \in 1..Len(left), i # j
         PROVE  left[i].id # left[j].id /\ (left[i].text = left[j].text => raced)
    <3>1. PICK k \in 1..n : k = (IF i < p THEN i ELSE i + 1) /\ left[i] = notes[k]
      BY <2>8, <2>9
    <3>2. PICK l \in 1..n : l = (IF j < p THEN j ELSE j + 1) /\ left[j] = notes[l]
      BY <2>8, <2>9
    <3>3. k # l
      BY <2>5, <2>8, <2>12, <3>1, <3>2
    <3> QED
      BY <2>10, <3>1, <3>2, <3>3
  <2> QED
    BY <2>7, <2>11, <2>12
<1> QED
  BY <1>1, <1>2

\* A note put on top of others says what no other says, or it was written over another save.
LEMMA NotedFirst ==
  ASSUME NEW rest \in Seq(Note), NEW note \in Note, NEW late \in BOOLEAN,
         NEW top, top = <<note>> \o rest,
         SaysOnce(rest, late), Unlike(rest, note, late)
  PROVE  top \in Seq(Note) /\ OnTop(note, rest, top) /\ SaysOnce(top, late)
<1> USE DEF SaysOnce, Unlike, OnTop
<1>1. <<note>> \in Seq(Note) /\ Len(<<note>>) = 1 /\ <<note>>[1] = note
  OBVIOUS
<1> DEFINE one == <<note>>
<1>2. /\ top \in Seq(Note) /\ Len(top) = Len(one) + Len(rest)
      /\ \A i \in 1..Len(one) + Len(rest) :
           top[i] = IF i <= Len(one) THEN one[i] ELSE rest[i - Len(one)]
  <2>1. one \in Seq(Note) /\ rest \in Seq(Note) /\ top = one \o rest
    BY <1>1
  <2> HIDE DEF one
  <2> QED
    BY <2>1, ConcatProperties
<1>3. one[1] = note /\ Len(one) = 1
  BY <1>1
<1> HIDE DEF one
<1>4. PICK n \in Nat : n = Len(rest)
  OBVIOUS
<1>5. /\ Len(top) = n + 1 /\ top[1] = note
      /\ \A i \in 2..n + 1 : i - 1 \in 1..n /\ top[i] = rest[i - 1]
  BY <1>2, <1>3, <1>4
<1>6. \A i \in 1..n + 1 : i = 1 \/ i \in 2..n + 1
  BY <1>4
<1>7. ASSUME NEW i \in 1..n + 1, NEW j \in 1..n + 1, i # j
      PROVE  top[i].id # top[j].id /\ (top[i].text = top[j].text => late)
  <2>1. CASE i = 1
    BY <1>4, <1>5, <1>6, <1>7, <2>1
  <2>2. CASE j = 1
    BY <1>4, <1>5, <1>6, <1>7, <2>2
  <2>3. CASE i # 1 /\ j # 1
    <3>1. i - 1 \in 1..n /\ j - 1 \in 1..n /\ top[i] = rest[i - 1] /\ top[j] = rest[j - 1]
      BY <1>5, <1>6, <2>3
    <3>2. i - 1 # j - 1
      BY <1>7
    <3> QED
      BY <1>4, <3>1, <3>2
  <2> QED
    BY <2>1, <2>2, <2>3
<1> QED
  BY <1>2, <1>4, <1>5, <1>6, <1>7

\* A save that writes: what it wrote is on top of what it left of the rest.
LEMMA NoteWritten ==
  ASSUME NotesInv, NEW s \in Savers, saving[s].at = "write", Remembering!Wrote(s),
         NEW rest \in Seq(Note), NEW id \in Nat \ {0},
         notes' = <<[id |-> id, text |-> saving[s].text, source |-> "you"]>> \o rest,
         AmongOthers(rest, saving[s].old), SaysOnce(rest, raced),
         \A j \in 1..Len(rest) : rest[j].id # id,
         made' \in Nat, id <= made', made <= made'
  PROVE  NotesInv'
<1> USE DEF Saves
<1>t. /\ saving[s].text \in Nat /\ saving[s].late \in BOOLEAN /\ raced \in BOOLEAN /\ made \in Nat
      /\ notes \in Seq(Note) /\ \A i \in 1..Len(notes) : notes[i].id <= made
      /\ saving \in [Savers -> Saves]
  BY DEF NotesInv, NotesTypes
<1> DEFINE note == [id |-> id, text |-> saving[s].text, source |-> "you"]
<1>1. raced' \in BOOLEAN /\ (raced => raced') /\ (saving[s].late => raced')
  BY <1>t DEF Remembering!Wrote
<1>2. note \in Note /\ note.id = id /\ note.text = saving[s].text
  BY <1>t DEF Note
<1>3. notes' = <<note>> \o rest
  OBVIOUS
<1> HIDE DEF note
<1>4. SaysOnce(rest, raced')
  BY <1>1 DEF SaysOnce
<1>5. Unlike(rest, note, raced')
  <2> SUFFICES ASSUME NEW j \in 1..Len(rest)
               PROVE  rest[j].id # note.id /\ (rest[j].text = note.text => raced')
    BY DEF Unlike
  <2>1. PICK k \in 1..Len(notes) : rest[j] = notes[k] /\ notes[k].id # saving[s].old
    BY DEF AmongOthers
  <2>2. notes[k].text = saving[s].text => saving[s].late
    BY <1>t, <2>1 DEF NotesInv, Compared
  <2> QED
    BY <1>1, <1>2, <2>1, <2>2
<1>6. /\ notes' \in Seq(Note)
      /\ OnTop(note, rest, notes')
      /\ SaysOnce(notes', raced')
  <2>1. PICK late \in BOOLEAN : late = raced'
    BY <1>1
  <2>2. PICK top : top = notes'
    OBVIOUS
  <2>3. top \in Seq(Note) /\ OnTop(note, rest, top) /\ SaysOnce(top, late)
    <3>1. top = <<note>> \o rest
      BY <1>3, <2>2
    <3>2. SaysOnce(rest, late)
      BY <1>4, <2>1
    <3>3. Unlike(rest, note, late)
      BY <1>5, <2>1
    <3> QED
      BY <1>2, <3>1, <3>2, <3>3, NotedFirst
  <2> QED
    BY <2>1, <2>2, <2>3
<1>7. \A j \in 1..Len(notes') : notes'[j].id <= made'
  <2> SUFFICES ASSUME NEW j \in 1..Len(notes') PROVE notes'[j].id <= made'
    OBVIOUS
  <2>1. CASE notes'[j] = note
    BY <1>2, <2>1
  <2>2. CASE \E k \in 1..Len(rest) : notes'[j] = rest[k]
    <3>1. PICK i \in 1..Len(notes) : notes'[j] = notes[i]
      BY <2>2 DEF AmongOthers
    <3>2. notes[i].id <= made /\ notes[i].id \in Nat
      <4>1. notes[i] \in Note
        BY <1>t
      <4> QED
        BY <1>t, <4>1 DEF Note
    <3> QED
      BY <1>t, <3>1, <3>2
  <2> QED
    BY <1>6, <2>1, <2>2 DEF OnTop
<1>8. /\ saving' \in [Savers -> Saves]
      /\ \A t \in Savers : ~(saving'[t].at = "write" /\ ~saving'[t].late)
  <2>1. saving' = [t \in Savers |-> IF t = s THEN Remembering!Idle
                     ELSE [saving[t] EXCEPT !.late = (saving[t].late \/ saving[t].at = "write")]]
    BY DEF Remembering!Wrote
  <2>2. ASSUME NEW t \in Savers
        PROVE  /\ saving'[t] \in Saves
               /\ ~(saving'[t].at = "write" /\ ~saving'[t].late)
    <3>1. CASE t = s
      BY <2>1, <3>1 DEF Remembering!Idle
    <3>2. CASE t # s
      BY <1>t, <2>1, <3>2
    <3> QED
      BY <3>1, <3>2
  <2> QED
    BY <2>1, <2>2
<1> QED
  BY <1>1, <1>6, <1>7, <1>8 
  DEF NotesInv, NotesTypes, Remembering!RemembersOnce, SaysOnce, Compared

LEMMA NotesStep ==
  ASSUME {MaxNotes, NoteChars} \subseteq Nat \ {0}, NotesInv, Remembering!Next
  PROVE  NotesInv'
<1> USE DEF Saves
<1>t. NotesTypes /\ Remembering!RemembersOnce /\ Compared
  BY DEF NotesInv
<1>s. saving \in [Savers -> Saves]
  BY <1>t DEF NotesTypes
\* A step that leaves the notes, in which no save has compared but with all of them.
<1>u. ASSUME UNCHANGED <<notes, made, raced>>, NEW s \in Savers,
             NEW new \in Saves,
             saving' = [saving EXCEPT ![s] = new],
             new.at = "write" /\ ~new.late =>
               \A i \in 1..Len(notes) : notes[i].text = new.text => notes[i].id = new.old
      PROVE  NotesInv'
  <2>1. /\ saving' \in [Savers -> Saves]
        /\ \A t \in Savers : saving'[t] = IF t = s THEN new ELSE saving[t]
    BY <1>s, <1>u
  <2>2. Compared'
    BY <1>t, <1>u, <2>1 DEF Compared
  <2> QED
    BY <1>t, <1>u, <2>1, <2>2 DEF NotesInv, NotesTypes, Remembering!RemembersOnce
<1>i. Remembering!Idle \in Saves /\ Remembering!Idle.at = "idle"
  BY DEF Remembering!Idle
<1>1. ASSUME NEW s \in Savers, NEW text \in Remembering!Texts, NEW ids \in SUBSET Remembering!Ids,
             Remembering!Resolve(s, text, ids)
      PROVE  NotesInv'
  <2>1. PICK old \in Remembering!Ids \cup {0} :
          saving' = [saving EXCEPT ![s] = [Remembering!Idle EXCEPT !.at = "compare", !.text = text,
                                                                   !.old = old]]
    BY <1>1 DEF Remembering!Resolve
  <2> DEFINE new == [Remembering!Idle EXCEPT !.at = "compare", !.text = text, !.old = old]
  <2>2. text \in Nat /\ old \in Nat
    BY <2>1 DEF Remembering!Texts, Remembering!Ids
  <2>3. /\ new \in Saves
        /\ new.at = "compare"
    BY <2>2 DEF Remembering!Idle
  <2>4. UNCHANGED <<notes, made, raced>>
    BY <1>1 DEF Remembering!Resolve
  <2>5. saving' = [saving EXCEPT ![s] = new]
    BY <2>1
  <2> HIDE DEF new
  <2> QED
    BY <1>u, <2>3, <2>4, <2>5
<1>2. ASSUME NEW s \in Savers, NEW ids \in SUBSET Remembering!Ids, Remembering!Forget(s, ids)
      PROVE  NotesInv'
  <2>1. PICK id \in Remembering!Present :
          saving' = [saving EXCEPT ![s] = [Remembering!Idle EXCEPT !.at = "delete", !.old = id]]
    BY <1>2 DEF Remembering!Forget
  <2> DEFINE new == [Remembering!Idle EXCEPT !.at = "delete", !.old = id]
  <2>2. id \in Nat
    <3>1. PICK i \in 1..Len(notes) : id = notes[i].id
      BY DEF Remembering!Present
    <3>2. notes[i] \in Note
      BY <1>t DEF NotesTypes
    <3> QED
      BY <3>1, <3>2 DEF Note
  <2>3. /\ new \in Saves
        /\ new.at = "delete"
    BY <2>2 DEF Remembering!Idle
  <2>4. UNCHANGED <<notes, made, raced>>
    BY <1>2 DEF Remembering!Forget
  <2>5. saving' = [saving EXCEPT ![s] = new]
    BY <2>1
  <2> HIDE DEF new
  <2> QED
    BY <1>u, <2>3, <2>4, <2>5
<1>3. ASSUME NEW s \in Savers, Remembering!Duplicate(s) \/ Remembering!ReplaceNothing(s)
      PROVE  NotesInv'
  BY <1>i, <1>u, <1>3 DEF Remembering!Duplicate, Remembering!ReplaceNothing, Remembering!Done
<1>4. ASSUME NEW s \in Savers, Remembering!Compare(s)
      PROVE  NotesInv'
  <2> DEFINE new == [saving[s] EXCEPT !.at = "write"]
  <2>1. /\ new \in Saves
        /\ new.text = saving[s].text /\ new.old = saving[s].old
    BY <1>s
  <2>2. UNCHANGED <<notes, made, raced>> /\ saving' = [saving EXCEPT ![s] = new]
    BY <1>4 DEF Remembering!Compare
  <2>3. \A i \in 1..Len(notes) : notes[i].text = new.text => notes[i].id = new.old
    BY <1>4, <2>1 DEF Remembering!Compare
  <2> HIDE DEF new
  <2> QED
    BY <1>u, <2>1, <2>2, <2>3
<1>5. ASSUME NEW s \in Savers, Remembering!Replace(s)
      PROVE  NotesInv'
  <2>1. /\ saving[s].at = "write" /\ saving[s].old \in Remembering!Present
        /\ Remembering!Wrote(s) /\ made' = made
        /\ notes' = <<[id |-> saving[s].old, text |-> saving[s].text, source |-> "you"]>>
                      \o Remembering!Without(saving[s].old)
    BY <1>5 DEF Remembering!Replace
  <2>2. PICK k \in 1..Len(notes) : notes[k].id = saving[s].old
    BY <2>1 DEF Remembering!Present
  <2>3. saving[s].old \in Nat \ {0} /\ saving[s].old <= made /\ made \in Nat
    <3>1. notes[k] \in Note /\ notes[k].id <= made /\ made \in Nat
      BY <1>t DEF NotesTypes
    <3> QED
      BY <2>2, <3>1 DEF Note
  <2>4. PICK left : left = Remembering!Without(saving[s].old)
    OBVIOUS
  <2>5. left \in Seq(Note) /\ AmongOthers(left, saving[s].old) /\ SaysOnce(left, raced)
    BY <1>t, <2>4, LeftNotes
  <2>6. \A j \in 1..Len(left) : left[j].id # saving[s].old
    BY <2>5 DEF AmongOthers
  <2>7. made' \in Nat /\ saving[s].old <= made' /\ made <= made'
    BY <2>1, <2>3
  <2>8. notes' = <<[id |-> saving[s].old, text |-> saving[s].text, source |-> "you"]>> \o left
    BY <2>1, <2>4
  <2> QED
    BY <2>1, <2>3, <2>5, <2>6, <2>7, <2>8, NoteWritten
<1>6. ASSUME NEW s \in Savers, Remembering!Insert(s)
      PROVE  NotesInv'
  <2>1. /\ saving[s].at = "write" /\ saving[s].old = 0
        /\ Remembering!Wrote(s) /\ made' = made + 1
        /\ notes' = <<[id |-> made + 1, text |-> saving[s].text, source |-> "you"]>> \o notes
    BY <1>6 DEF Remembering!Insert
  <2>2. /\ made \in Nat /\ notes \in Seq(Note)
        /\ \A j \in 1..Len(notes) : notes[j].id <= made /\ notes[j].id \in Nat \ {0}
    <3>1. /\ made \in Nat /\ notes \in Seq(Note)
          /\ \A j \in 1..Len(notes) : notes[j].id <= made
      BY <1>t DEF NotesTypes
    <3>2. \A j \in 1..Len(notes) : notes[j] \in Note
      BY <3>1
    <3> QED
      BY <3>1, <3>2 DEF Note
  <2>3. /\ made + 1 \in Nat \ {0} /\ made' \in Nat /\ made + 1 <= made' /\ made <= made'
        /\ \A j \in 1..Len(notes) : notes[j].id # made + 1 /\ notes[j].id # saving[s].old
    BY <2>1, <2>2
  <2>4. SaysOnce(notes, raced)
    BY <1>t DEF Remembering!RemembersOnce, SaysOnce
  <2>5. PICK rest \in Seq(Note) : rest = notes
    BY <2>2
  <2>6. PICK id \in Nat \ {0} : id = made + 1
    BY <2>3
  <2>7. notes' = <<[id |-> id, text |-> saving[s].text, source |-> "you"]>> \o rest
    BY <2>1, <2>5, <2>6
  <2>8. AmongOthers(rest, saving[s].old) /\ \A j \in 1..Len(rest) : rest[j].id # id
    BY <2>3, <2>5, <2>6 DEF AmongOthers
  <2>9. id <= made' /\ made' \in Nat /\ made <= made'
    BY <2>3, <2>6
  <2>10. SaysOnce(rest, raced)
    BY <2>4, <2>5
  <2> QED
    BY <2>1, <2>7, <2>8, <2>9, <2>10, NoteWritten
<1>7. ASSUME NEW s \in Savers, Remembering!Delete(s)
      PROVE  NotesInv'
  <2>1. /\ notes' = Remembering!Without(saving[s].old) /\ UNCHANGED <<made, raced>>
        /\ saving' = [saving EXCEPT ![s] = Remembering!Idle]
    BY <1>7 DEF Remembering!Delete, Remembering!Done
  <2>2. PICK left : left = Remembering!Without(saving[s].old)
    OBVIOUS
  <2>3. left \in Seq(Note) /\ AmongOthers(left, saving[s].old) /\ SaysOnce(left, raced)
    BY <1>t, <2>2, LeftNotes
  <2>4. left = notes'
    BY <2>1, <2>2
  <2>5. /\ saving' \in [Savers -> Saves]
        /\ \A t \in Savers : saving'[t].at # "idle" => saving'[t] = saving[t]
    BY <1>i, <1>s, <2>1
  <2>6. \A i \in 1..Len(left) : left[i].id <= made
    BY <1>t, <2>3 DEF NotesTypes, AmongOthers
  <2>7. Compared'
    <3> SUFFICES ASSUME NEW t \in Savers, saving'[t].at = "write", ~saving'[t].late,
                        NEW j \in 1..Len(left), left[j].text = saving'[t].text
                 PROVE  left[j].id = saving'[t].old
      BY <2>4 DEF Compared
    <3>1. PICK i \in 1..Len(notes) : left[j] = notes[i]
      BY <2>3 DEF AmongOthers
    <3>2. saving'[t] = saving[t]
      BY <2>5
    <3> QED
      BY <1>t, <3>1, <3>2 DEF Compared
  <2>8. NotesTypes'
    BY <1>t, <2>1, <2>3, <2>4, <2>5, <2>6 DEF NotesTypes
  <2>9. Remembering!RemembersOnce'
    BY <2>1, <2>3, <2>4 DEF Remembering!RemembersOnce, SaysOnce
  <2> QED
    BY <2>7, <2>8, <2>9 DEF NotesInv
<1> QED
  BY <1>1, <1>2, <1>3, <1>4, <1>5, <1>6, <1>7 DEF Remembering!Next

LEMMA NotesInit ==
  ASSUME {MaxNotes, NoteChars} \subseteq Nat \ {0}, Remembering!Init
  PROVE  NotesInv
<1> DEFINE Numbered == /\ notes \in Seq(Note) /\ made \in Nat
                       /\ \A i \in 1..Len(notes) : notes[i].id <= made
                       /\ \A i, j \in 1..Len(notes) : i # j => notes[i].id # notes[j].id
<1>1. Numbered
  <2>1. CASE notes = <<>>
    BY <2>1 DEF Remembering!Init
  <2>2. ASSUME NEW t \in Remembering!Texts, notes = <<[id |-> 1, text |-> t, source |-> "tutor"]>>
        PROVE  Numbered
    <3>1. t \in Nat
      BY DEF Remembering!Texts
    <3> QED
      BY <2>2, <3>1 DEF Remembering!Init, Note
  <2>3. ASSUME NEW t \in Remembering!Texts, NEW u \in Remembering!Texts,
               notes = <<[id |-> 2, text |-> t, source |-> "tutor"],
                         [id |-> 1, text |-> u, source |-> "tutor"]>>
        PROVE  Numbered
    <3>1. t \in Nat /\ u \in Nat
      BY DEF Remembering!Texts
    <3> QED
      BY <2>3, <3>1 DEF Remembering!Init, Note
  <2> QED
    BY <2>1, <2>2, <2>3 DEF Remembering!Init
<1>2. Compared
  <2>1. \A s \in Savers : saving[s].at = "idle"
    BY DEF Remembering!Init, Remembering!Idle
  <2> QED
    BY <2>1 DEF Compared
<1>3. saving \in [Savers -> Saves]
  BY DEF Remembering!Init, Remembering!Idle, Saves
<1>4. raced = FALSE /\ \A i, j \in 1..Len(notes) : i # j => notes[i].text # notes[j].text
  BY DEF Remembering!Init
<1> QED
  BY <1>1, <1>2, <1>3, <1>4 DEF NotesInv, NotesTypes, Remembering!RemembersOnce

-----------------------------------------------------------------------------
(* Time, and calls.                                                        *)

StudyTypes ==
  /\ now \in Nat /\ sent \in [Stretches -> Nat]
  /\ study \in [Stretches -> [for: Clock!Uses \cup {"none"}, from: Int, to: Nat]]

StudyInv ==
  /\ StudyTypes /\ Clock!EndsStand
  /\ \A id \in Stretches : study[id].for = "none" => study[id] = Clock!NoRow

LEMMA StudyStep ==
  ASSUME {MaxTime, MaxAhead, MaxStretch} \subseteq Nat, StudyInv, Clock!Next
  PROVE  StudyInv'
<1>1. CASE Clock!Tick
  BY <1>1 DEF Clock!Tick, StudyInv, StudyTypes, Clock!EndsStand
<1>2. CASE Clock!Clear
  BY <1>2 DEF Clock!Clear, StudyInv, StudyTypes, Clock!EndsStand, Clock!NoRow
<1>3. ASSUME NEW id \in Stretches, NEW use \in Clock!Uses,
             NEW from \in Clock!Times, NEW to \in Clock!Times, Clock!Save(id, use, from, to)
      PROVE  StudyInv'
  <2>t. /\ from \in Nat /\ to \in Nat /\ now \in Nat /\ MaxAhead \in Nat /\ MaxStretch \in Nat
        /\ sent \in [Stretches -> Nat]
        /\ study \in [Stretches -> [for: Clock!Uses \cup {"none"}, from: Int, to: Nat]]
    BY DEF Clock!Times, StudyInv, StudyTypes
  <2>1. PICK end \in Nat : /\ end = Clock!Least(to, now + MaxAhead)
                           /\ end <= now + MaxAhead
                           /\ to <= now + MaxAhead => end = to
    BY <2>t DEF Clock!Least
  <2>2. PICK start \in Int : /\ start = Clock!Greatest(Clock!Least(from, end), end - MaxStretch)
                             /\ start <= end
    BY <2>1, <2>t DEF Clock!Least, Clock!Greatest
  <2>3. /\ now' = now
        /\ study' = [study EXCEPT ![id] =
                       IF study[id] = Clock!NoRow THEN [for |-> use, from |-> start, to |-> end]
                       ELSE [study[id] EXCEPT !.to = Clock!Greatest(study[id].to, end)]]
        /\ sent' = [sent EXCEPT ![id] = IF to <= now + MaxAhead THEN Clock!Greatest(sent[id], to)
                                        ELSE sent[id]]
    <3>1. /\ now' = now
          /\ sent' = [sent EXCEPT ![id] = IF to <= now + MaxAhead THEN Clock!Greatest(sent[id], to)
                                          ELSE sent[id]]
      BY <1>3 DEF Clock!Save
    <3>2. study' = [study EXCEPT ![id] =
                       IF study[id] = Clock!NoRow THEN [for |-> use, from |-> start, to |-> end]
                       ELSE [study[id] EXCEPT !.to = Clock!Greatest(study[id].to, end)]]
      BY <1>3, <2>1, <2>2 DEF Clock!Save
    <3> QED
      BY <3>1, <3>2
  <2>4. /\ study[id].to \in Nat /\ study[id].from \in Int /\ sent[id] \in Nat
        /\ study[id].for \in Clock!Uses \cup {"none"}
        /\ study[id].to <= now + MaxAhead /\ study[id].from <= study[id].to
        /\ sent[id] <= study[id].to
        /\ study[id].for = "none" => study[id] = Clock!NoRow
    BY <2>t DEF StudyInv, Clock!EndsStand
  <2>5. PICK row \in [for: Clock!Uses \cup {"none"}, from: Int, to: Nat] :
          /\ row.to <= now + MaxAhead /\ row.from <= row.to /\ row.for # "none"
          /\ study[id].to <= row.to /\ end <= row.to
          /\ study' = [study EXCEPT ![id] = row]
    <3>1. CASE study[id] = Clock!NoRow
      <4> DEFINE row == [for |-> use, from |-> start, to |-> end]
      <4>1. study[id].to = 0 /\ use # "none"
        BY <3>1 DEF Clock!NoRow, Clock!Uses
      <4>2. study' = [study EXCEPT ![id] = row]
        BY <2>3, <3>1
      <4>3. /\ row \in [for: Clock!Uses \cup {"none"}, from: Int, to: Nat]
            /\ row.to = end /\ row.from = start /\ row.for = use
        BY <2>1, <2>2
      <4> HIDE DEF row
      <4>4. /\ row.to <= now + MaxAhead /\ row.from <= row.to /\ row.for # "none"
            /\ study[id].to <= row.to /\ end <= row.to
        BY <2>1, <2>2, <4>1, <4>3
      <4> QED
        BY <4>2, <4>3, <4>4
    <3>2. CASE study[id] # Clock!NoRow
      <4> DEFINE row == [study[id] EXCEPT !.to = Clock!Greatest(study[id].to, end)]
      <4>1. study' = [study EXCEPT ![id] = row]
        BY <2>3, <3>2
      <4>2. /\ Clock!Greatest(study[id].to, end) \in Nat
            /\ study[id].to <= Clock!Greatest(study[id].to, end)
            /\ end <= Clock!Greatest(study[id].to, end)
            /\ Clock!Greatest(study[id].to, end) <= now + MaxAhead
        BY <2>1, <2>4, <2>t DEF Clock!Greatest
      <4>3. /\ row \in [for: Clock!Uses \cup {"none"}, from: Int, to: Nat]
            /\ row.to = Clock!Greatest(study[id].to, end)
            /\ row.from = study[id].from /\ row.for = study[id].for
        BY <2>t, <4>2
      <4> HIDE DEF row
      <4>4. /\ row.to <= now + MaxAhead /\ row.from <= row.to /\ row.for # "none"
            /\ study[id].to <= row.to /\ end <= row.to
        <5>1. study[id].from <= row.to
          <6>1. /\ study[id].from \in Int /\ study[id].to \in Nat /\ row.to \in Nat
                /\ study[id].from <= study[id].to /\ study[id].to <= row.to
            BY <2>4, <4>2, <4>3
          <6> QED
            BY <6>1
        <5> QED
          BY <2>4, <3>2, <4>2, <4>3, <5>1
      <4> QED
        BY <4>1, <4>3, <4>4
    <3> QED
      BY <3>1, <3>2
  <2>6. PICK last \in Nat : last <= row.to /\ sent' = [sent EXCEPT ![id] = last]
    <3>1. CASE to <= now + MaxAhead
      <4>1. Clock!Greatest(sent[id], to) \in Nat /\ Clock!Greatest(sent[id], to) <= row.to
        BY <2>1, <2>4, <2>5, <2>t, <3>1 DEF Clock!Greatest
      <4> QED
        BY <2>3, <3>1, <4>1
    <3>2. CASE ~(to <= now + MaxAhead)
      <4>1. sent' = [sent EXCEPT ![id] = sent[id]]
        BY <2>3, <3>2
      <4>2. sent[id] \in Nat /\ sent[id] <= row.to
        <5>1. sent[id] \in Nat /\ sent[id] <= study[id].to /\ study[id].to \in Nat
          BY <2>4
        <5>2. study[id].to <= row.to /\ row.to \in Nat
          BY <2>5
        <5> QED
          BY <5>1, <5>2
      <4> QED
        BY <4>1, <4>2
    <3> QED
      BY <3>1, <3>2
  <2>7. /\ study' \in [Stretches -> [for: Clock!Uses \cup {"none"}, from: Int, to: Nat]]
        /\ sent' \in [Stretches -> Nat]
        /\ \A i \in Stretches : /\ study'[i] = IF i = id THEN row ELSE study[i]
                                /\ sent'[i] = IF i = id THEN last ELSE sent[i]
    BY <2>t, <2>5, <2>6
  <2> QED
    BY <2>3, <2>5, <2>6, <2>7, <2>t DEF StudyInv, StudyTypes, Clock!EndsStand
<1> QED
  BY <1>1, <1>2, <1>3 DEF Clock!Next

LEMMA StudyInit ==
  ASSUME {MaxTime, MaxAhead, MaxStretch} \subseteq Nat, Clock!Init
  PROVE  StudyInv
BY DEF Clock!Init, Clock!NoRow, StudyInv, StudyTypes, Clock!EndsStand

\* What is kept of a subject that is marked as forgotten is nothing, so a book whose calls
\* were forgotten before it went leaves none.
SpentInv ==
  /\ Spending!NoneOutlives
  /\ \A n \in DOMAIN rows : rows[n].of \notin marks

LEMMA SpentStep ==
  ASSUME SpentInv, Spending!Next
  PROVE  SpentInv'
<1> USE DEF SpentInv, Spending!NoneOutlives
<1>f. ASSUME NEW s, Spending!Forget(s)
      PROVE  /\ marks' = marks \cup {s}
             /\ \A n \in DOMAIN rows' : n \in DOMAIN rows /\ rows'[n] = rows[n] /\ rows[n].of # s
  BY <1>f DEF Spending!Forget
<1>1. ASSUME NEW s \in Spending!Subjects, Spending!Begin(s)
      PROVE  SpentInv'
  BY <1>1 DEF Spending!Begin
<1>2. ASSUME NEW s \in Spending!Subjects, Spending!ForgetNext(s)
      PROVE  SpentInv'
  <2>1. Spending!Forget(s) /\ UNCHANGED <<alive, asking, missed>>
    BY <1>2 DEF Spending!ForgetNext
  <2>2. removal.left \subseteq removal'.left \cup {s}
    BY <1>2 DEF Spending!ForgetNext, Spending!NoRemoval
  <2> QED
    BY <1>f, <2>1, <2>2
<1>3. ASSUME NEW s \in Spending!Subjects, NEW call \in Spending!Made(s), Spending!Sink(s, call)
      PROVE  SpentInv'
  <2>1. /\ s \in asking /\ asking' = asking \ {s} /\ UNCHANGED <<alive, marks, removal, missed>>
    BY <1>3 DEF Spending!Sink
  <2>2. CASE s \in marks
    BY <1>3, <2>1, <2>2 DEF Spending!Sink
  <2>3. CASE s \notin marks
    <3>1. \A n \in DOMAIN rows' : rows'[n].of = s \/ (n \in DOMAIN rows /\ rows'[n] = rows[n])
      BY <1>3, <2>3 DEF Spending!Sink
    <3> QED
      BY <2>1, <2>3, <3>1
  <2> QED
    BY <2>2, <2>3
<1>4. ASSUME NEW q \in Spending!Questions, Spending!Add(q)
      PROVE  SpentInv'
  BY <1>4 DEF Spending!Add
<1>5. ASSUME NEW q \in Spending!Questions, Spending!RemoveQuestion(q)
      PROVE  SpentInv'
  <2>1. Spending!Forget(q) /\ alive' = alive \ {q} /\ UNCHANGED <<asking, removal, missed>>
    BY <1>5 DEF Spending!RemoveQuestion
  <2> QED
    BY <1>f, <2>1
<1>6. CASE (Spending!DeleteSet \/ Spending!RemoveBook) /\ UNCHANGED <<added, asking, marks, rows>>
  <2>1. CASE Spending!DeleteSet
    <3>1. alive \cup removal.left \cup missed \subseteq alive' \cup removal'.left \cup missed'
      <4>1. CASE removal = Spending!NoRemoval
        BY <2>1, <4>1 DEF Spending!DeleteSet, Spending!OfIt, Spending!NoRemoval
      <4>2. CASE /\ removal' = [removal EXCEPT !.step = "gone"]
                 /\ alive' = alive \ ({"set"} \cup Spending!Questions)
                 /\ missed' = missed \cup (Spending!OfIt \ removal.left)
        <5>1. removal'.left = removal.left
          BY <4>2
        <5> QED
          BY <4>2, <5>1 DEF Spending!OfIt
      <4> QED
        BY <2>1, <4>1, <4>2 DEF Spending!DeleteSet
    <3> QED
      BY <1>6, <3>1
  <2>2. CASE Spending!RemoveBook
    <3>1. alive \cup removal.left \cup missed \subseteq alive' \cup removal'.left \cup missed' \cup marks
      BY <2>2 DEF Spending!RemoveBook, Spending!OfIt, Spending!NoRemoval
    <3> QED
      BY <1>6, <3>1
  <2> QED
    BY <1>6, <2>1, <2>2
<1>7. CASE Spending!Cut
  <2>1. removal.left \subseteq alive' \cup missed' /\ missed \subseteq missed'
    BY <1>7 DEF Spending!Cut
  <2> QED
    BY <1>7, <2>1 DEF Spending!Cut
<1>8. CASE Spending!Sweep
  BY <1>8 DEF Spending!Sweep
<1> QED
  BY <1>1, <1>2, <1>3, <1>4, <1>5, <1>6, <1>7, <1>8 DEF Spending!Next

LEMMA SpentInit ==
  ASSUME Spending!Init
  PROVE  SpentInv
BY DEF Spending!Init, SpentInv, Spending!NoneOutlives

\* What is noted is noted once but for saves that crossed, a stretch of study ends where it
\* was last said to and not ahead of time, and no call outlives what it was made for but
\* where a removal has yet to come or was cut (memory/memory.go, activity/activity.go,
\* usage/usage.go).
THEOREM KeptAsSaidHolds == ServicesSpec => []KeptAsSaid
<1> DEFINE Inv == /\ on = "remembering" => NotesInv
                  /\ on = "clock" => StudyInv
                  /\ on = "spending" => SpentInv
<1>c. /\ {MaxNotes, NoteChars} \subseteq Nat \ {0}
      /\ {MaxTime, MaxAhead, MaxStretch} \subseteq Nat
  BY KeepingConstants
<1>1. ServicesInit => Inv
  BY <1>c, NotesInit, StudyInit, SpentInit DEF ServicesInit
<1>2. Inv /\ [ServicesNext]_servicesVars => Inv'
  <2> SUFFICES ASSUME Inv, [ServicesNext]_servicesVars PROVE Inv'
    OBVIOUS
  <2>1. CASE ServicesNext
    BY <1>c, <2>1, NotesStep, StudyStep, SpentStep DEF ServicesNext
  <2>2. CASE UNCHANGED servicesVars
    <3>1. UNCHANGED <<on, notes, made, saving, raced, now, study, sent, asking, alive, marks, rows, removal, missed>>
      BY <2>2 DEF servicesVars, remembering, clock, spending
    <3>2. NotesInv => NotesInv'
      BY <3>1 DEF NotesInv, NotesTypes, Remembering!RemembersOnce, Compared
    <3>3. StudyInv => StudyInv'
      BY <3>1 DEF StudyInv, StudyTypes, Clock!EndsStand
    <3>4. SpentInv => SpentInv'
      BY <3>1 DEF SpentInv, Spending!NoneOutlives
    <3> QED
      BY <3>1, <3>2, <3>3, <3>4
  <2> QED
    BY <2>1, <2>2
<1>3. Inv => KeptAsSaid
  BY DEF NotesInv, StudyInv, SpentInv, KeptAsSaid
<1> QED
  BY <1>1, <1>2, <1>3, PTL DEF ServicesSpec
=============================================================================
