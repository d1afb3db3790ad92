------------------------------ MODULE PlanProofs ------------------------------
(***************************************************************************)
(* For plans of every size: the order topoOrderActions makes respects the  *)
(* dependencies, is complete when no cycle is reported, and the cycles it  *)
(* reports are real; and plan/compile, which works through that order,     *)
(* prepares only what rests on what it allowed.                            *)
(***************************************************************************)
EXTENDS PlanCompile, FiniteSetTheorems, TLAPS

Ran(s) == {s[i] : i \in DOMAIN s}
Distinct(s) == \A i, j \in DOMAIN s : s[i] = s[j] => i = j

\* A dependency is met once its source is ordered and the edge has been followed.
Met(e) == Source(e) \in Ran(ordered) /\ e \notin todo

\* What is left to be met for an id: indeg counts it.
Pending(id) == {e \in Incoming(id) : ~Met(e)}

\* The seeding has looked at the id.
Visited(id) == \E i \in 1 .. next - 1 : plan[i].id = id

Shapes ==
  /\ plan \in Seq(Action)
  /\ next \in 1 .. Len(plan) + 1
  /\ q \in Seq(Known) /\ ordered \in Seq(Known)
  /\ todo \subseteq Edges

Counts == indeg = [id \in Known |-> Cardinality(Pending(id))]

\* An id is in the queue or ordered exactly if it was found to depend on nothing
\* that is left, and it is in one place only.
Freed ==
  \A id \in Known : id \in Ran(q) \cup Ran(ordered) <=> Visited(id) /\ indeg[id] = 0
Once == Distinct(q) /\ Distinct(ordered) /\ Ran(q) \cap Ran(ordered) = {}

\* The edges being followed are those of the id taken last.
Following ==
  /\ ~Seeded => ordered = <<>> /\ todo = {}
  /\ \A e \in todo : ordered # <<>> /\ Source(e) = ordered[Len(ordered)]

Inv == Shapes /\ Counts /\ Freed /\ Once /\ Following /\ DependenciesFirst

-----------------------------------------------------------------------------
(* Sequences.                                                                *)

LEMMA Appended ==
  ASSUME NEW S, NEW s \in Seq(S), NEW x \in S
  PROVE  /\ Append(s, x) \in Seq(S)
         /\ Ran(Append(s, x)) = Ran(s) \cup {x}
         /\ Distinct(s) /\ x \notin Ran(s) => Distinct(Append(s, x))
<1>1. /\ Append(s, x) \in Seq(S)
      /\ DOMAIN Append(s, x) = 1 .. Len(s) + 1
      /\ DOMAIN s = 1 .. Len(s) /\ Len(s) \in Nat
      /\ Append(s, x)[Len(s) + 1] = x
      /\ \A i \in 1 .. Len(s) : Append(s, x)[i] = s[i]
  OBVIOUS
<1>2. Ran(Append(s, x)) = Ran(s) \cup {x}
  <2>1. ASSUME NEW y \in Ran(Append(s, x)) PROVE y \in Ran(s) \cup {x}
    <3>1. PICK i \in 1 .. Len(s) + 1 : y = Append(s, x)[i]
      BY <1>1, <2>1 DEF Ran
    <3>2. i = Len(s) + 1 \/ i \in 1 .. Len(s)
      BY <1>1
    <3>. QED BY <3>1, <3>2, <1>1 DEF Ran
  <2>2. ASSUME NEW y \in Ran(s) PROVE y \in Ran(Append(s, x))
    <3>1. PICK i \in 1 .. Len(s) : y = s[i]
      BY <1>1, <2>2 DEF Ran
    <3>2. i \in DOMAIN Append(s, x)
      BY <1>1
    <3>. QED BY <3>1, <3>2, <1>1 DEF Ran
  <2>3. x \in Ran(Append(s, x))
    <3>1. Len(s) + 1 \in DOMAIN Append(s, x)
      BY <1>1
    <3>. QED BY <3>1, <1>1 DEF Ran
  <2>. QED BY <2>1, <2>2, <2>3
<1>3. Distinct(s) /\ x \notin Ran(s) => Distinct(Append(s, x))
  BY <1>1 DEF Distinct, Ran
<1>. QED BY <1>1, <1>2, <1>3

LEMMA Shifted ==
  ASSUME NEW S, NEW s \in Seq(S), s # <<>>
  PROVE  /\ Tail(s) \in Seq(S) /\ Head(s) \in S /\ Head(s) \in Ran(s)
         /\ Ran(s) = Ran(Tail(s)) \cup {Head(s)}
         /\ Distinct(s) => Distinct(Tail(s)) /\ Head(s) \notin Ran(Tail(s))
<1>1. /\ Tail(s) \in Seq(S) /\ Head(s) = s[1] /\ s[1] \in S
      /\ Len(s) \in Nat /\ Len(s) > 0
      /\ DOMAIN s = 1 .. Len(s) /\ DOMAIN Tail(s) = 1 .. Len(s) - 1
      /\ \A i \in 1 .. Len(s) - 1 : Tail(s)[i] = s[i + 1]
  OBVIOUS
<1>2. Ran(s) = Ran(Tail(s)) \cup {Head(s)}
  <2>1. ASSUME NEW y \in Ran(s) PROVE y \in Ran(Tail(s)) \cup {Head(s)}
    <3>1. PICK i \in 1 .. Len(s) : y = s[i]
      BY <1>1, <2>1 DEF Ran
    <3>2. CASE i = 1
      BY <3>1, <3>2, <1>1
    <3>3. CASE i # 1
      <4>1. i - 1 \in 1 .. Len(s) - 1 /\ s[i] = Tail(s)[i - 1]
        BY <3>3, <1>1
      <4>. QED BY <4>1, <3>1, <1>1 DEF Ran
    <3>. QED BY <3>2, <3>3
  <2>2. ASSUME NEW y \in Ran(Tail(s)) PROVE y \in Ran(s)
    <3>1. PICK i \in 1 .. Len(s) - 1 : y = Tail(s)[i]
      BY <1>1, <2>2 DEF Ran
    <3>2. i + 1 \in DOMAIN s /\ y = s[i + 1]
      BY <3>1, <1>1
    <3>. QED BY <3>2 DEF Ran
  <2>3. Head(s) \in Ran(s)
    BY <1>1 DEF Ran
  <2>. QED BY <2>1, <2>2, <2>3
<1>3. Distinct(s) => Distinct(Tail(s)) /\ Head(s) \notin Ran(Tail(s))
  BY <1>1 DEF Distinct, Ran
<1>. QED BY <1>1, <1>2, <1>3

-----------------------------------------------------------------------------
(* Edges.                                                                    *)

LEMMA EdgeFacts ==
  ASSUME plan \in Seq(Action), NEW e \in Edges
  PROVE  Source(e) \in Known /\ Target(e) \in Known
<1>1. PICK i \in DOMAIN plan : e \in {i} \X DOMAIN plan[i].dependsOn
  BY DEF Edges, Places
<1>. QED BY <1>1 DEF Edges, Target, Known

LEMMA EdgesAreFinite ==
  ASSUME plan \in Seq(Action)
  PROVE  IsFiniteSet(Edges)
<1>. DEFINE Part(i) == {i} \X DOMAIN plan[i].dependsOn
            Parts == {Part(i) : i \in DOMAIN plan}
            f == [i \in DOMAIN plan |-> Part(i)]
<1>1. IsFiniteSet(DOMAIN plan)
  BY FS_Interval
<1>2. f \in Surjection(DOMAIN plan, Parts)
  BY DEF Surjection
<1>3. IsFiniteSet(Parts)
  <2>. HIDE DEF Parts, f
  <2>. QED BY <1>1, <1>2, FS_Surjection
<1>4. ASSUME NEW i \in DOMAIN plan PROVE IsFiniteSet(Part(i))
  <2>1. plan[i] \in Action
    OBVIOUS
  <2>2. plan[i].dependsOn \in Seq(Ids)
    BY <2>1 DEF Action
  <2>3. IsFiniteSet(DOMAIN plan[i].dependsOn)
    BY <2>2, FS_Interval
  <2>. QED BY <2>3, FS_Singleton, FS_Product
<1>5. Places = UNION Parts
  BY DEF Places
<1>6. IsFiniteSet(Places)
  <2>1. \A T \in Parts : IsFiniteSet(T)
    BY <1>4
  <2>. HIDE DEF Parts
  <2>. QED BY <1>3, <1>5, <2>1, FS_UNION
<1>. QED BY <1>6, FS_Subset DEF Edges

LEMMA PendingIsFinite ==
  ASSUME plan \in Seq(Action), NEW id
  PROVE  /\ IsFiniteSet(Pending(id))
         /\ Cardinality(Pending(id)) \in Nat
         /\ Cardinality(Pending(id)) = 0 <=> Pending(id) = {}
<1>1. IsFiniteSet(Pending(id))
  BY EdgesAreFinite, FS_Subset DEF Pending, Incoming
<1>. QED BY <1>1, FS_CardinalityType, FS_EmptySet

\* The plan is the same in every step, and so is what is read off it.
LEMMA SamePlan ==
  ASSUME plan' = plan
  PROVE  /\ Known' = Known /\ Edges' = Edges
         /\ \A e : Source(e)' = Source(e) /\ Target(e)' = Target(e)
         /\ \A id : Incoming(id)' = Incoming(id) /\ Outgoing(id)' = Outgoing(id)
BY DEF Known, Edges, Places, Source, Target, Incoming, Outgoing

-----------------------------------------------------------------------------
(* The invariant.                                                            *)

LEMMA Starts == Init => Inv
<1>. SUFFICES ASSUME Init PROVE Inv
  OBVIOUS
<1>. USE DEF Init
<1>1. plan \in Seq(Action)
  BY PlansAssumption
<1>2. Shapes
  BY <1>1 DEF Shapes
<1>3. \A id : Pending(id) = Incoming(id)
  BY DEF Pending, Met, Ran
<1>4. Counts
  BY <1>3 DEF Counts
<1>5. Ran(q) = {} /\ Ran(ordered) = {} /\ \A id : ~Visited(id)
  BY DEF Ran, Visited
<1>6. Freed
  BY <1>5 DEF Freed
<1>7. Once
  BY <1>5 DEF Once, Distinct
<1>8. Following
  BY DEF Following
<1>9. DependenciesFirst
  BY DEF DependenciesFirst, Index
<1>. QED BY <1>2, <1>4, <1>6, <1>7, <1>8, <1>9 DEF Inv

LEMMA SeedKeeps == Inv /\ Seed => Inv'
<1>. SUFFICES ASSUME Inv, Seed PROVE Inv'
  OBVIOUS
<1>. USE DEF Inv
<1>. DEFINE id == plan[next].id
<1>1. /\ plan' = plan /\ indeg' = indeg /\ todo' = todo /\ ordered' = ordered
      /\ next \in DOMAIN plan /\ next \in Nat /\ next' = next + 1
  BY DEF Seed, Shapes
<1>2. id \in Known /\ todo = {} /\ ordered = <<>>
  BY <1>1 DEF Known, Following, Seeded, Shapes
<1>3. \A n : Visited(n)' <=> Visited(n) \/ n = id
  BY <1>1 DEF Visited, Shapes
<1>4. First(next) <=> ~Visited(id)
  BY <1>1 DEF First, Visited
<1>5. \A n : Pending(n)' = Pending(n)
  BY <1>1, SamePlan DEF Pending, Met
<1>6. CASE First(next) /\ indeg[id] = 0
  <2>1. q' = Append(q, id)
    BY <1>6 DEF Seed
  <2>2. id \notin Ran(q) \cup Ran(ordered)
    BY <1>2, <1>4, <1>6 DEF Freed
  <2>3. q' \in Seq(Known) /\ Ran(q') = Ran(q) \cup {id} /\ Distinct(q')
    BY <2>1, <2>2, <1>2, Appended DEF Once, Shapes
  <2>4. Shapes'
    BY <1>1, <2>3, SamePlan DEF Shapes
  <2>5. Ran(q)' = Ran(q) \cup {id} /\ Ran(ordered)' = Ran(ordered) /\ Distinct(q)'
    BY <1>1, <2>3 DEF Ran, Distinct
  <2>6. Freed'
    BY <1>1, <1>3, <1>6, <2>5, SamePlan DEF Freed
  <2>7. Distinct(ordered)'
    BY <1>1 DEF Once, Distinct
  <2>8. Once'
    BY <2>2, <2>5, <2>7 DEF Once
  <2>. QED BY <1>1, <1>2, <1>5, <2>4, <2>6, <2>8, SamePlan
         DEF Counts, Following, DependenciesFirst, Index
<1>7. CASE ~(First(next) /\ indeg[id] = 0)
  <2>1. q' = q
    BY <1>7 DEF Seed
  <2>2. Shapes'
    BY <1>1, <2>1, SamePlan DEF Shapes
  <2>3. Freed'
    BY <1>1, <1>2, <1>3, <1>4, <1>7, <2>1, SamePlan DEF Freed, Ran
  <2>4. Once'
    BY <1>1, <2>1 DEF Once, Ran, Distinct
  <2>. QED BY <1>1, <1>2, <1>5, <2>2, <2>3, <2>4, SamePlan
         DEF Counts, Following, DependenciesFirst, Index
<1>. QED BY <1>6, <1>7

\* The id at the head of the queue waits for nothing: all its dependencies are ordered.
LEMMA HeadIsFree ==
  ASSUME Inv, q # <<>>, todo = {}
  PROVE  \A e \in Incoming(Head(q)) : Source(e) \in Ran(ordered)
<1>1. Head(q) \in Known /\ Head(q) \in Ran(q)
  BY Shifted DEF Inv, Shapes
<1>2. indeg[Head(q)] = 0
  BY <1>1 DEF Inv, Freed
<1>3. Pending(Head(q)) = {}
  BY <1>1, <1>2, PendingIsFinite DEF Inv, Counts, Shapes
<1>. QED BY <1>3 DEF Pending, Met

LEMMA TakeKeeps == Inv /\ Take => Inv'
<1>. SUFFICES ASSUME Inv, Take PROVE Inv'
  OBVIOUS
<1>. USE DEF Inv
<1>. DEFINE id == Head(q)
<1>1. /\ plan' = plan /\ indeg' = indeg /\ next' = next
      /\ Seeded /\ todo = {} /\ q # <<>>
      /\ q' = Tail(q) /\ ordered' = Append(ordered, id) /\ todo' = Outgoing(id)
  BY DEF Take
<1>2. /\ id \in Known /\ q' \in Seq(Known) /\ Ran(q) = Ran(q') \cup {id}
      /\ Distinct(q') /\ id \notin Ran(q')
  BY <1>1, Shifted DEF Shapes, Once
<1>3. id \notin Ran(ordered)
  BY <1>2 DEF Once
<1>4. ordered' \in Seq(Known) /\ Ran(ordered') = Ran(ordered) \cup {id} /\ Distinct(ordered')
  BY <1>1, <1>2, <1>3, Appended DEF Shapes, Once
<1>5. ordered' # <<>> /\ ordered'[Len(ordered')] = id
  BY <1>1, <1>2 DEF Shapes
<1>6. Shapes'
  BY <1>1, <1>2, <1>4, SamePlan DEF Shapes, Outgoing
<1>7. Counts'
  <2>1. \A e \in Edges : Met(e)' <=> Met(e)
    BY <1>1, <1>3, <1>4, SamePlan DEF Met, Ran, Outgoing
  <2>2. \A n : Pending(n)' = Pending(n)
    BY <2>1, <1>1, SamePlan DEF Pending, Incoming
  <2>. QED BY <2>2, <1>1, SamePlan DEF Counts
<1>8. Freed'
  <2>1. \A n : Visited(n)' <=> Visited(n)
    BY <1>1 DEF Visited
  <2>2. Ran(q)' \cup Ran(ordered)' = Ran(q) \cup Ran(ordered)
    BY <1>2, <1>4 DEF Ran
  <2>. QED BY <1>1, <2>1, <2>2, SamePlan DEF Freed
<1>9. Once'
  <2>1. Ran(q') \cap Ran(ordered') = {}
    BY <1>2, <1>4 DEF Once
  <2>. QED BY <1>2, <1>4, <2>1 DEF Once, Ran, Distinct
<1>10. Following'
  BY <1>1, <1>5, SamePlan DEF Following, Seeded, Outgoing
<1>11. DependenciesFirst'
  <2>1. /\ DOMAIN ordered = 1 .. Len(ordered) /\ Len(ordered) \in Nat
        /\ DOMAIN ordered' = 1 .. Len(ordered) + 1
        /\ ordered'[Len(ordered) + 1] = id
        /\ \A i \in 1 .. Len(ordered) : ordered'[i] = ordered[i]
    BY <1>1, <1>2 DEF Shapes
  <2>2. ASSUME NEW e \in Edges, NEW j \in DOMAIN ordered', ordered'[j] = Target(e)
        PROVE  \E i \in DOMAIN ordered' : ordered'[i] = Source(e) /\ i < j
    <3>1. CASE j \in 1 .. Len(ordered)
      <4>1. PICK i \in DOMAIN ordered : ordered[i] = Source(e) /\ i < j
        BY <2>1, <2>2, <3>1 DEF DependenciesFirst, Index
      <4>. QED BY <2>1, <4>1
    <3>2. CASE j = Len(ordered) + 1
      <4>1. e \in Incoming(id)
        BY <2>1, <2>2, <3>2 DEF Incoming
      <4>2. PICK i \in DOMAIN ordered : ordered[i] = Source(e)
        BY <4>1, <1>1, HeadIsFree DEF Ran
      <4>. QED BY <2>1, <4>2, <3>2
    <3>. QED BY <2>1, <3>1, <3>2
  <2>3. \A i, j \in DOMAIN ordered' : ordered'[i] = ordered'[j] => i = j
    BY <1>4 DEF Distinct
  <2>. QED BY <2>2, <2>3, <1>1, SamePlan DEF DependenciesFirst, Index
<1>. QED BY <1>6, <1>7, <1>8, <1>9, <1>10, <1>11

LEMMA AllVisited ==
  ASSUME Shapes, Seeded PROVE \A id \in Known : Visited(id)
<1>1. next > Len(plan) /\ next \in 1 .. Len(plan) + 1 /\ Len(plan) \in Nat
  BY DEF Seeded, Shapes
<1>2. DOMAIN plan = 1 .. next - 1
  BY <1>1 DEF Shapes
<1>. QED BY <1>2 DEF Visited, Known

LEMMA FollowKeeps == ASSUME Inv, NEW e \in todo, Follow(e) PROVE Inv'
<1>. USE DEF Inv
<1>. DEFINE id == Target(e)
<1>1. /\ plan' = plan /\ next' = next /\ ordered' = ordered /\ todo' = todo \ {e}
      /\ indeg' = [indeg EXCEPT ![id] = @ - 1]
      /\ q' = IF indeg'[id] = 0 THEN Append(q, id) ELSE q
  BY DEF Follow
<1>2. e \in Edges /\ id \in Known
  BY EdgeFacts DEF Shapes
<1>3. Seeded /\ ordered # <<>> /\ Source(e) = ordered[Len(ordered)]
  BY DEF Following
<1>4. Source(e) \in Ran(ordered)
  BY <1>3 DEF Ran, Shapes
<1>5. \A f \in Edges : Met(f)' <=> Met(f) \/ f = e
  BY <1>1, <1>4, SamePlan DEF Met, Ran
<1>6. /\ Pending(id)' = Pending(id) \ {e} /\ e \in Pending(id)
      /\ \A n : n # id => Pending(n)' = Pending(n)
  BY <1>1, <1>2, <1>5, SamePlan DEF Pending, Incoming, Met
<1>7. /\ Cardinality(Pending(id)') = Cardinality(Pending(id)) - 1
      /\ indeg[id] = Cardinality(Pending(id)) /\ indeg[id] \in Nat /\ indeg[id] # 0
  <2>1. IsFiniteSet(Pending(id)) /\ Cardinality(Pending(id)) \in Nat
        /\ (Cardinality(Pending(id)) = 0 <=> Pending(id) = {})
    BY PendingIsFinite DEF Shapes
  <2>. QED BY <1>2, <1>6, <2>1, FS_RemoveElement DEF Counts
<1>8. Counts'
  <2>1. \A n \in Known : indeg'[n] = Cardinality(Pending(n)')
    <3>1. \A n \in Known \ {id} : indeg'[n] = Cardinality(Pending(n)')
      BY <1>1, <1>2, <1>6 DEF Counts
    <3>2. indeg'[id] = indeg[id] - 1
      BY <1>1, <1>2 DEF Counts
    <3>. QED BY <1>7, <3>1, <3>2, <1>1, SamePlan
  <2>2. indeg' = [n \in Known |-> indeg'[n]]
    BY <1>1 DEF Counts
  <2>3. indeg' = [n \in Known |-> Cardinality(Pending(n)')]
    BY <2>1, <2>2
  <2>. QED BY <2>3, <1>1, SamePlan DEF Counts
<1>9. id \notin Ran(q) \cup Ran(ordered) /\ Visited(id)
  BY <1>2, <1>3, <1>7, AllVisited DEF Freed
<1>10. /\ \A n : Visited(n)' <=> Visited(n)
       /\ \A n \in Known : n # id => indeg'[n] = indeg[n]
  BY <1>1 DEF Visited, Counts
<1>11. Following'
  BY <1>1, SamePlan DEF Following, Seeded
<1>12. DependenciesFirst'
  BY <1>1, SamePlan DEF DependenciesFirst, Index
<1>13. CASE indeg'[id] = 0
  <2>1. /\ q' \in Seq(Known) /\ Ran(q') = Ran(q) \cup {id} /\ Distinct(q')
    BY <1>1, <1>2, <1>9, <1>13, Appended DEF Once, Shapes
  <2>2. Shapes'
    BY <1>1, <2>1, SamePlan DEF Shapes
  <2>3. Ran(q)' = Ran(q) \cup {id} /\ Ran(ordered)' = Ran(ordered) /\ Distinct(q)'
    BY <1>1, <2>1 DEF Ran, Distinct
  <2>4. Freed'
    BY <1>1, <1>9, <1>10, <1>13, <2>3, SamePlan DEF Freed
  <2>5. Distinct(ordered)'
    BY <1>1 DEF Once, Distinct
  <2>6. Once'
    BY <1>9, <2>3, <2>5 DEF Once
  <2>. QED BY <1>8, <1>11, <1>12, <2>2, <2>4, <2>6
<1>14. CASE indeg'[id] # 0
  <2>1. q' = q
    BY <1>1, <1>14
  <2>2. Shapes'
    BY <1>1, <2>1, SamePlan DEF Shapes
  <2>3. Freed'
    BY <1>1, <1>9, <1>10, <1>14, <2>1, SamePlan DEF Freed, Ran
  <2>4. Once'
    BY <1>1, <2>1 DEF Once, Ran, Distinct
  <2>. QED BY <1>8, <1>11, <1>12, <2>2, <2>3, <2>4
<1>. QED BY <1>13, <1>14

LEMMA StepsKeep == Inv /\ [Next]_vars => Inv'
<1>1. Inv /\ UNCHANGED vars => Inv'
  <2>. SUFFICES ASSUME Inv, UNCHANGED vars PROVE Inv'
    OBVIOUS
  <2>. USE DEF Inv, vars
  <2>1. Shapes'
    BY SamePlan DEF Shapes
  <2>2. Ran(q)' = Ran(q) /\ Ran(ordered)' = Ran(ordered)
    BY DEF Ran
  <2>3. \A id : Pending(id)' = Pending(id) /\ (Visited(id)' <=> Visited(id))
    BY <2>2, SamePlan DEF Pending, Met, Visited
  <2>4. Counts' /\ Freed'
    BY <2>2, <2>3, SamePlan DEF Counts, Freed
  <2>5. Once'
    BY <2>2 DEF Once, Distinct
  <2>6. Following' /\ DependenciesFirst'
    BY SamePlan DEF Following, Seeded, DependenciesFirst, Index
  <2>. QED BY <2>1, <2>4, <2>5, <2>6
<1>. QED
  BY <1>1, SeedKeeps, TakeKeeps, FollowKeeps DEF Next

\* The bookkeeping of the loops is right in every state of every call.
THEOREM Invariance == Spec => []Inv
<1>. QED BY StepsKeep, Starts, PTL DEF Spec

-----------------------------------------------------------------------------
(* The properties.                                                           *)

\* The state of the function has its type in every plan.
THEOREM TypeTheorem == Spec => []TypeOK
<1>1. Inv => TypeOK
  <2>. SUFFICES ASSUME Inv PROVE TypeOK
    OBVIOUS
  <2>1. indeg \in [Known -> Nat]
    BY PendingIsFinite DEF Inv, Counts, Shapes
  <2>. QED BY <2>1 DEF Inv, Shapes, TypeOK
<1>. QED BY <1>1, Invariance, PTL

\* run_v0 works through a plan of any size in an order in which every id comes once
\* and after all it depends on.
THEOREM OrderTheorem == Spec => []DependenciesFirst
<1>1. Inv => DependenciesFirst
  BY DEF Inv
<1>. QED BY <1>1, Invariance, PTL

\* At the end every id that is not reported as part of a cycle is ordered, and the
\* others wait for one that is reported.
LEMMA AtTheEnd ==
  ASSUME Inv, Finished
  PROVE  \A id \in Known :
           \/ indeg[id] = 0 /\ id \in Ran(ordered)
           \/ indeg[id] > 0 /\ id \notin Ran(ordered) /\ Pending(id) # {}
<1>. USE DEF Inv, Finished
<1>. TAKE id \in Known
<1>1. Visited(id)
  BY AllVisited
<1>2. id \in Ran(ordered) <=> indeg[id] = 0
  BY <1>1 DEF Freed, Ran
<1>3. indeg[id] = Cardinality(Pending(id)) /\ indeg[id] \in Nat
      /\ (indeg[id] = 0 <=> Pending(id) = {})
  BY PendingIsFinite DEF Counts, Shapes
<1>. QED BY <1>2, <1>3

\* An accepted plan of any size is ordered in full.
THEOREM CompleteTheorem == Spec => []AcceptedIsComplete
<1>1. Inv => AcceptedIsComplete
  <2>. SUFFICES ASSUME Inv, Accepted, NEW id \in Known PROVE Index(id) # {}
    BY DEF AcceptedIsComplete
  <2>1. id \in Ran(ordered)
    BY AtTheEnd DEF Accepted, Cycles
  <2>. QED BY <2>1 DEF Ran, Index
<1>. QED BY <1>1, Invariance, PTL

\* A plan of any size is refused only for dependencies that never end.
THEOREM CyclesTheorem == Spec => []CyclesAreReal
<1>1. Inv => CyclesAreReal
  <2>. SUFFICES ASSUME Inv, Finished, NEW id \in Cycles
                PROVE  \E e \in Edges : Target(e) = id /\ Source(e) \in Cycles
    BY DEF CyclesAreReal
  <2>1. id \in Known /\ Pending(id) # {}
    BY AtTheEnd DEF Cycles
  <2>2. PICK e \in Incoming(id) : ~Met(e)
    BY <2>1 DEF Pending
  <2>3. e \in Edges /\ Target(e) = id /\ Source(e) \notin Ran(ordered)
    BY <2>2 DEF Incoming, Met, Finished
  <2>4. Source(e) \in Known
    BY <2>3, EdgeFacts DEF Inv, Shapes
  <2>5. Source(e) \in Cycles
    BY <2>3, <2>4, AtTheEnd DEF Cycles
  <2>. QED BY <2>3, <2>5
<1>. QED BY <1>1, Invariance, PTL

\* For every plan topoOrderActions orders all of it or reports ids that depend on one
\* another: what run_v0 and plan/compile refuse a plan for.
THEOREM RefusalTheorem == Spec => []OrdersOrReports
BY CompleteTheorem, CyclesTheorem, PTL DEF OrdersOrReports

\* The steps a step of an accepted plan depends on.
Needed(id) == {Source(e) : e \in Incoming(id)}

\* PlanAssumption of WorkflowRun, with Steps the ids of the plan, DependsOn their
\* dependencies on each other, and Order the result of topoOrderActions.
OrderIsAsAssumed ==
  /\ \A id \in Known : Needed(id) \subseteq Known
  /\ ordered \in Seq(Known)
  /\ \A id \in Known : \E i \in DOMAIN ordered : ordered[i] = id
  /\ \A i, j \in DOMAIN ordered : ordered[i] = ordered[j] => i = j
  /\ \A i, j \in DOMAIN ordered : ordered[j] \in Needed(ordered[i]) => j < i

\* What run_v0 works through for a plan it accepts satisfies the assumption the model
\* of a workflow run makes.
THEOREM AssumptionTheorem == Spec => [](Accepted => OrderIsAsAssumed)
<1>1. Inv /\ AcceptedIsComplete => (Accepted => OrderIsAsAssumed)
  <2>. SUFFICES ASSUME Inv, AcceptedIsComplete, Accepted PROVE OrderIsAsAssumed
    OBVIOUS
  <2>. USE DEF Inv
  <2>1. \A id \in Known : Needed(id) \subseteq Known
    BY EdgeFacts DEF Needed, Incoming, Shapes
  <2>2. \A id \in Known : \E i \in DOMAIN ordered : ordered[i] = id
    BY DEF AcceptedIsComplete, Index
  <2>3. \A i, j \in DOMAIN ordered : ordered[i] = ordered[j] => i = j
    BY DEF DependenciesFirst
  <2>4. ASSUME NEW i \in DOMAIN ordered, NEW j \in DOMAIN ordered,
               ordered[j] \in Needed(ordered[i])
        PROVE  j < i
    <3>1. PICK e \in Edges : Target(e) = ordered[i] /\ Source(e) = ordered[j]
      BY <2>4 DEF Needed, Incoming
    <3>2. PICK k \in DOMAIN ordered : ordered[k] = Source(e) /\ k < i
      BY <3>1 DEF DependenciesFirst, Index
    <3>. QED BY <3>1, <3>2, <2>3
  <2>. QED BY <2>1, <2>2, <2>3, <2>4 DEF OrderIsAsAssumed, Shapes
<1>. QED BY <1>1, Invariance, CompleteTheorem, PTL


-----------------------------------------------------------------------------
\* The order is not touched again once it is there.
LEMMA NothingAfterTheEnd ==
  ASSUME Shapes, Finished
  PROVE  ~Next
<1>1. next \in Int /\ Len(plan) \in Int
  BY DEF Shapes
<1>. QED
  BY <1>1 DEF Finished, Next, Seed, Take, Follow, Seeded

LEMMA StepsOfTheOrder == [CompileNext]_cvars => [Next]_vars
<1>. SUFFICES ASSUME [CompileNext]_cvars PROVE [Next]_vars
  OBVIOUS
<1>1. CASE Next
  BY <1>1
<1>2. CASE UNCHANGED vars
  BY <1>2
<1>. QED
  BY <1>1, <1>2 DEF CompileNext, cvars, Refuse, Skip, NotBuilt, Throws, Answer, Prepare, Becomes

\* plan/compile orders a plan as topoOrderActions does: whatever is proved of every
\* behaviour of PlanOrder holds of it.
THEOREM ImplementsOrder == CompileSpec => Spec
<1>1. CompileInit => Init
  BY DEF CompileInit
<1>. QED
  BY <1>1, StepsOfTheOrder, PTL DEF CompileSpec, Spec

-----------------------------------------------------------------------------
(* The loop.                                                                 *)

Compiled == {ordered[i] : i \in 1 .. at - 1}

Loop ==
  /\ at \in 1 .. Len(ordered) + 1
  /\ at > 1 => Accepted
  /\ DOMAIN results = Compiled
  /\ \A id \in Compiled : results[id] \in {"failed", "denied", "allowed"}
  /\ stored = {id \in Compiled : results[id] # "failed"}

LInv == Inv /\ Loop /\ RestsOnAllowed

LEMMA LoopStarts == CompileInit => LInv
<1>. SUFFICES ASSUME CompileInit PROVE LInv
  OBVIOUS
<1>1. Inv
  BY Starts DEF CompileInit
<1>2. Len(ordered) = 0 /\ Compiled = {} /\ DOMAIN results = {}
  BY DEF CompileInit, Init, Compiled
<1>. QED
  BY <1>1, <1>2 DEF CompileInit, LInv, Loop, RestsOnAllowed

\* A dependency in the plan is compiled before the action that names it.
LEMMA DependenciesAreCompiled ==
  ASSUME LInv, at \in DOMAIN ordered
  PROVE  \A d \in Deps(ordered[at]) \cap Known : d \in Compiled /\ d # ordered[at]
<1>. SUFFICES ASSUME NEW d \in Deps(ordered[at]) \cap Known
              PROVE  d \in Compiled /\ d # ordered[at]
  OBVIOUS
<1>1. PICK e \in Places : Source(e) = d /\ Target(e) = ordered[at]
  BY DEF Deps
<1>2. e \in Edges
  BY <1>1 DEF Edges
<1>3. at \in Index(Target(e))
  BY <1>1 DEF Index
<1>4. PICK i \in Index(Source(e)) : i < at
  BY <1>2, <1>3 DEF LInv, Inv, DependenciesFirst
<1>5. i \in DOMAIN ordered /\ ordered[i] = d
  BY <1>1, <1>4 DEF Index
<1>6. ordered \in Seq(Known)
  BY DEF LInv, Inv, Shapes
<1>7. d \in Compiled
  BY <1>4, <1>5, <1>6 DEF Compiled, LInv, Loop
<1>8. d # ordered[at]
  <2>1. i # at /\ i \in DOMAIN ordered
    BY <1>4, <1>5, <1>6
  <2>. QED BY <1>5, <2>1 DEF LInv, Inv, Once, Distinct
<1>. QED BY <1>7, <1>8

LEMMA SameDeps ==
  ASSUME UNCHANGED vars
  PROVE  Known' = Known /\ \A id : Deps(id)' = Deps(id)
BY DEF vars, Known, Deps, Places, Target, Source, Last

\* What an action becomes is written for the first time, and next to what was written.
LEMMA BecomesKeeps ==
  ASSUME LInv, Compiling, at <= Len(ordered), NEW result \in {"failed", "denied", "allowed"},
         Becomes(ordered[at], result),
         stored' = IF result = "failed" THEN stored ELSE stored \cup {ordered[at]},
         result # "failed" => ~DepFailed(ordered[at])
  PROVE  LInv'
<1>. USE DEF LInv
<1>1. /\ UNCHANGED vars /\ at' = at + 1
      /\ results' = [i \in DOMAIN results \cup {ordered[at]} |->
                       IF i = ordered[at] THEN result ELSE results[i]]
  BY DEF Becomes
<1>2. ordered \in Seq(Known) /\ at \in DOMAIN ordered /\ at \in Nat /\ Len(ordered) \in Nat
  BY DEF Inv, Shapes, Loop
<1>3. ordered[at] \notin Compiled
  BY <1>2 DEF Compiled, Inv, Once, Distinct
<1>4. Inv'
  BY <1>1, StepsKeep
<1>5. Compiled' = Compiled \cup {ordered[at]}
  <2>1. ordered' = ordered
    BY <1>1 DEF vars
  <2>2. at \in Nat /\ at >= 1 /\ at' = at + 1
    BY <1>1, <1>2 DEF Loop
  <2>3. 1 .. at' - 1 = (1 .. at - 1) \cup {at}
    BY <2>2
  <2>. QED BY <2>1, <2>3 DEF Compiled
<1>6. Accepted'
  BY <1>1 DEF Compiling, Accepted, Finished, Seeded, Cycles, Known, vars
<1>7. \A id \in Compiled : results'[id] = results[id]
  BY <1>1, <1>3 DEF Loop
<1>8. results'[ordered[at]] = result
  BY <1>1
<1>9. Loop'
  <2>1. at' \in 1 .. Len(ordered') + 1
    BY <1>1, <1>2 DEF vars, Loop
  <2>2. DOMAIN results' = Compiled'
    BY <1>1, <1>5 DEF Loop
  <2>3. \A id \in Compiled' : results'[id] \in {"failed", "denied", "allowed"}
    BY <1>5, <1>7, <1>8 DEF Loop
  <2>4. stored' = {id \in Compiled' : results'[id] # "failed"}
    BY <1>3, <1>5, <1>7, <1>8 DEF Loop
  <2>. QED BY <1>6, <2>1, <2>2, <2>3, <2>4 DEF Loop
<1>10. RestsOnAllowed'
  <2>. SUFFICES ASSUME NEW id \in stored', NEW d \in Deps(id) \cap Known
                PROVE  d \in stored' /\ results'[d] = "allowed"
    <3>1. Known' = Known /\ \A id : Deps(id)' = Deps(id)
      BY <1>1, SameDeps
    <3>. QED
      BY <3>1 DEF RestsOnAllowed
  <2>1. CASE id \in stored
    <3>1. d \in stored /\ results[d] = "allowed"
      BY <2>1 DEF RestsOnAllowed
    <3>2. d \in Compiled
      BY <3>1 DEF Loop
    <3>. QED BY <3>1, <3>2, <1>7
  <2>2. CASE id \notin stored
    <3>1. id = ordered[at] /\ result # "failed"
      BY <2>2
    <3>2. d \in Compiled
      BY <1>2, <3>1, DependenciesAreCompiled
    <3>3. results[d] \notin Blocking
      BY <3>1, <3>2 DEF DepFailed, Loop
    <3>4. results[d] = "allowed"
      BY <3>2, <3>3 DEF Loop, Blocking
    <3>5. d \in stored
      BY <3>2, <3>4 DEF Loop
    <3>. QED BY <3>2, <3>4, <3>5, <1>7
  <2>. QED BY <2>1, <2>2
<1>. QED BY <1>4, <1>9, <1>10

LEMMA LoopKeeps == LInv /\ [CompileNext]_cvars => LInv'
<1>. SUFFICES ASSUME LInv, [CompileNext]_cvars PROVE LInv'
  OBVIOUS
<1>1. CASE Next /\ UNCHANGED <<at, results, stored, answer>>
  <2>1. ~Finished
    BY <1>1, NothingAfterTheEnd DEF LInv, Inv
  <2>2. at = 1 /\ Compiled = {} /\ stored = {}
    BY <2>1 DEF LInv, Loop, Accepted, Compiled
  <2>3. Inv'
    BY <1>1, StepsKeep DEF LInv
  <2>4. Len(ordered') \in Nat /\ Compiled' = {}
    BY <1>1, <2>2, <2>3 DEF Inv, Shapes, Compiled
  <2>. QED BY <1>1, <2>2, <2>3, <2>4 DEF LInv, Loop, RestsOnAllowed
<1>2. CASE UNCHANGED <<vars, at, results, stored>>
  <2>1. Inv'
    BY <1>2, StepsKeep DEF LInv
  <2>2. Accepted' = Accepted /\ Compiled' = Compiled
    BY <1>2 DEF Accepted, Finished, Seeded, Cycles, Known, vars, Compiled
  <2>3. Loop'
    BY <1>2, <2>2 DEF LInv, Loop, vars
  <2>4. RestsOnAllowed'
    BY <1>2, SameDeps DEF LInv, RestsOnAllowed
  <2>. QED BY <2>1, <2>3, <2>4 DEF LInv
<1>3. CASE Skip
  BY <1>3, BecomesKeeps DEF Skip
<1>4. CASE NotBuilt
  BY <1>4, BecomesKeeps DEF NotBuilt
<1>5. ASSUME NEW result \in {"denied", "allowed"}, Prepare(result) PROVE LInv'
  BY <1>5, BecomesKeeps DEF Prepare
<1>6. CASE Refuse \/ Throws \/ Answer
  BY <1>2, <1>6 DEF Refuse, Throws, Answer
<1>. QED
  BY <1>1, <1>2, <1>3, <1>4, <1>5, <1>6 DEF CompileNext, cvars

\* In a plan of any size an artifact is made only when all the action rests on was
\* made and not denied.
THEOREM RestsTheorem == CompileSpec => []RestsOnAllowed
<1>1. LInv => RestsOnAllowed
  BY DEF LInv
<1>. QED BY <1>1, LoopStarts, LoopKeeps, PTL DEF CompileSpec

\* What OrderTheorem says of topoOrderActions holds while plan/compile uses it.
THEOREM CompileOrderTheorem == CompileSpec => []DependenciesFirst
BY ImplementsOrder, OrderTheorem, PTL
==============================================================================
