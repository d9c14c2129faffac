-------------------------- MODULE Respondent_proofs -------------------------
(***************************************************************************)
(* What the resolver and the validator promise, for every workflow with    *)
(* finitely many nodes, whatever its edges: theorems of Respondent.        *)
(***************************************************************************)
EXTENDS Respondent, FiniteSetTheorems, WellFoundedInduction, TLAPS

-----------------------------------------------------------------------------
(* Numbers and finite sets.                                                *)

LEMMA LeastNumber ==
    ASSUME NEW T \in SUBSET Nat, T # {}
    PROVE  \E n \in T : \A m \in T : n <= m
  <1>1. PICK R : R = OpToRel(<, Nat)
    OBVIOUS
  <1>2. IsWellFoundedOn(R, Nat)
    BY <1>1, NatLessThanWellFounded
  <1>3. R = {ss \in Nat \X Nat : ss[1] < ss[2]}
    BY <1>1 DEF OpToRel
  <1>4. PICK n \in T : \A m \in T : ~ (<<m, n>> \in R)
    BY <1>2, WFMin
  <1>5. ASSUME NEW m \in T, m < n PROVE FALSE
    <2>1. PICK ss : ss = <<m, n>>
      OBVIOUS
    <2>2. ss \in Nat \X Nat /\ ss[1] < ss[2]
      BY <1>5, <2>1
    <2> QED BY <1>3, <1>4, <2>1, <2>2
  <1> QED BY <1>5

\* A set of numbers that holds 0, and k + 1 with k, holds them all.
LEMMA UpTo ==
    ASSUME NEW K \in Nat, NEW S,
           0 \in S, \A k \in 0..K : k < K /\ k \in S => k + 1 \in S
    PROVE  \A k \in 0..K : k \in S
  <1> DEFINE Bad == {k \in 0..K : k \notin S}
  <1>1. SUFFICES ASSUME Bad # {} PROVE FALSE
    OBVIOUS
  <1>2. Bad \in SUBSET Nat
    OBVIOUS
  <1>3. PICK n \in Bad : \A m \in Bad : n <= m
    BY <1>1, <1>2, LeastNumber
  <1>4. n \in 0..K /\ n # 0 /\ n \notin S
    BY <1>3
  <1>5. n - 1 \in 0..K /\ n - 1 < K /\ n - 1 \notin Bad
    BY <1>3, <1>4
  <1>6. n - 1 \in S
    BY <1>5
  <1>7. n - 1 + 1 \in S
    BY <1>5, <1>6
  <1> QED BY <1>4, <1>7

\* K rounds of a step that keeps a set, as a function.
Rounds(f, K, first, step) ==
    f = [n \in 0..K |-> IF n = 0 THEN first ELSE step[n][f[n - 1]]]

LEMMA RoundsExist ==
    ASSUME NEW K \in Nat, NEW first, NEW step
    PROVE  \E f : Rounds(f, K, first, step)
  <1> DEFINE Good == {k \in 0..K : \E f : Rounds(f, k, first, step)}
  <1>1. 0 \in Good
    <2>1. PICK f : f = [n \in 0..0 |-> first]
      OBVIOUS
    <2>2. f = [n \in 0..0 |-> IF n = 0 THEN first ELSE step[n][f[n - 1]]]
      BY <2>1
    <2> QED BY <2>2 DEF Rounds
  <1>2. ASSUME NEW k \in 0..K, k < K, k \in Good PROVE k + 1 \in Good
    <2>1. PICK f : Rounds(f, k, first, step)
      BY <1>2
    <2>2. PICK g : g = [n \in 0..(k + 1) |-> IF n = 0 THEN first ELSE step[n][f[n - 1]]]
      OBVIOUS
    <2>3. ASSUME NEW n \in 0..k PROVE g[n] = f[n]
      BY <2>1, <2>2 DEF Rounds
    <2>4. ASSUME NEW n \in 0..(k + 1), n # 0 PROVE g[n - 1] = f[n - 1]
      <3>1. n - 1 \in 0..k
        BY <2>4
      <3> QED BY <2>3, <3>1
    <2>5. ASSUME NEW n \in 0..(k + 1)
          PROVE  (IF n = 0 THEN first ELSE step[n][f[n - 1]]) = (IF n = 0 THEN first ELSE step[n][g[n - 1]])
      BY <2>4
    <2>6. g = [n \in 0..(k + 1) |-> IF n = 0 THEN first ELSE step[n][g[n - 1]]]
      BY <2>2, <2>5
    <2>7. k + 1 \in 0..K
      BY <1>2
    <2> QED BY <2>6, <2>7 DEF Rounds
  <1>3. \A k \in 0..K : k \in Good
    BY <1>1, <1>2, UpTo
  <1>4. K \in Good
    BY <1>3
  <1> QED BY <1>4

-----------------------------------------------------------------------------
(* What steps lead to from a place, as a least closed set.  The nodes are  *)
(* the places with steps.                                                  *)

Led(places, nodes, steps, from) ==
    {x \in places : \A ids \in SUBSET places :
        from \in ids /\ (\A id \in ids \intersect nodes : steps[id] \subseteq ids) => x \in ids}

Steps(places, nodes, steps) ==
    nodes \subseteq places /\ steps \in [nodes -> SUBSET places]

LEMMA LedHas ==
    ASSUME NEW places, NEW nodes, NEW steps, NEW from \in places
    PROVE  from \in Led(places, nodes, steps, from)
  BY DEF Led

LEMMA LedWithin ==
    ASSUME NEW places, NEW nodes, NEW steps, NEW from
    PROVE  Led(places, nodes, steps, from) \subseteq places
  BY DEF Led

LEMMA LedClosed ==
    ASSUME NEW places, NEW nodes, NEW steps, Steps(places, nodes, steps), NEW from,
           NEW id \in Led(places, nodes, steps, from) \intersect nodes
    PROVE  steps[id] \subseteq Led(places, nodes, steps, from)
  <1>1. steps[id] \subseteq places
    BY DEF Steps
  <1>2. ASSUME NEW x \in steps[id], NEW ids \in SUBSET places, from \in ids,
               \A other \in ids \intersect nodes : steps[other] \subseteq ids
        PROVE  x \in ids
    <2>1. id \in ids
      BY <1>2 DEF Led
    <2> QED BY <1>2, <2>1
  <1> QED BY <1>1, <1>2 DEF Led

LEMMA LedLeast ==
    ASSUME NEW places, NEW nodes, NEW steps, NEW from, NEW ids \in SUBSET places, from \in ids,
           \A id \in ids \intersect nodes : steps[id] \subseteq ids
    PROVE  Led(places, nodes, steps, from) \subseteq ids
  BY DEF Led

\* More steps lead to more.
LEMMA LedGrows ==
    ASSUME NEW places, NEW nodes, NEW steps, NEW more, Steps(places, nodes, more),
           NEW from \in places, \A id \in nodes : steps[id] \subseteq more[id]
    PROVE  Led(places, nodes, steps, from) \subseteq Led(places, nodes, more, from)
  <1> DEFINE T == Led(places, nodes, more, from)
  <1>1. T \in SUBSET places /\ from \in T
    BY LedHas, LedWithin
  <1>2. ASSUME NEW id \in T \intersect nodes PROVE steps[id] \subseteq T
    <2>1. more[id] \subseteq T
      BY LedClosed
    <2> QED BY <2>1
  <1> HIDE DEF T
  <1>3. Led(places, nodes, steps, from) \subseteq T
    BY <1>1, <1>2, LedLeast
  <1> QED BY <1>3 DEF T

\* A place without steps leads to itself.
LEMMA LedNowhere ==
    ASSUME NEW places, NEW nodes, NEW steps, NEW from \in places,
           from \in nodes => steps[from] = {}
    PROVE  Led(places, nodes, steps, from) = {from}
  <1>1. {from} \in SUBSET places /\ from \in {from}
    OBVIOUS
  <1>2. \A id \in {from} \intersect nodes : steps[id] \subseteq {from}
    OBVIOUS
  <1>3. PICK ids : ids = {from}
    OBVIOUS
  <1>4. Led(places, nodes, steps, from) \subseteq ids
    BY <1>1, <1>2, <1>3, LedLeast
  <1>5. from \in Led(places, nodes, steps, from)
    BY LedHas
  <1> QED BY <1>3, <1>4, <1>5

\* A node with one step leads to itself, and where that step leads.
LEMMA LedOn ==
    ASSUME NEW places, NEW nodes, NEW steps, Steps(places, nodes, steps),
           NEW from \in nodes, NEW next, steps[from] = {next}
    PROVE  /\ next \in places
           /\ Led(places, nodes, steps, from) = {from} \union Led(places, nodes, steps, next)
  <1> DEFINE F == Led(places, nodes, steps, from)
             N == Led(places, nodes, steps, next)
  <1>1. next \in places /\ from \in places
    BY DEF Steps
  <1>2. from \in F /\ F \subseteq places /\ next \in N /\ N \subseteq places
    BY <1>1, LedHas, LedWithin
  <1>3. \A id \in F \intersect nodes : steps[id] \subseteq F
    BY LedClosed
  <1>4. \A id \in N \intersect nodes : steps[id] \subseteq N
    BY LedClosed
  <1>5. next \in F
    BY <1>2, <1>3
  <1>6. N \subseteq F
    <2> HIDE DEF F
    <2> QED BY <1>2, <1>3, <1>5, LedLeast
  <1>7. F \subseteq {from} \union N
    <2> DEFINE T == {from} \union N
    <2> HIDE DEF N
    <2>1. T \in SUBSET places /\ from \in T
      BY <1>1, <1>2
    <2>2. ASSUME NEW id \in T \intersect nodes PROVE steps[id] \subseteq T
      BY <1>2, <1>4
    <2> HIDE DEF T
    <2>3. Led(places, nodes, steps, from) \subseteq T
      BY <2>1, <2>2, LedLeast
    <2> QED BY <2>3 DEF T
  <1> QED BY <1>1, <1>2, <1>6, <1>7

-----------------------------------------------------------------------------
(* Walks, which take one step at most from every node.                     *)

Lone(nodes, steps) == \A id \in nodes : steps[id] = {} \/ \E next : steps[id] = {next}

\* The nodes where walks fail have no steps.
Stuck(failing, steps) == \A id \in failing : steps[id] = {}

\* walk[k][id] is what a walk from id finds that may visit k more nodes.
WalkFrom(walk, k, id, nodes, steps, failing, sections) ==
    /\ steps[id] = {} =>
          /\ walk[k][id].ok <=> id \notin failing
          /\ walk[k][id].sections = {id} \intersect sections
    /\ \A next \in steps[id] :
          /\ next \notin nodes \/ k = 0 => ~walk[k][id].ok
          /\ next \in nodes /\ k # 0 =>
                walk[k][id] = [ok |-> walk[k - 1][next].ok,
                               sections |-> walk[k - 1][next].sections
                                            \union ({id} \intersect sections)]

Walks(walk, hops, nodes, steps, failing, sections) ==
    \A k \in 0..hops : \A id \in nodes : WalkFrom(walk, k, id, nodes, steps, failing, sections)

\* The walk found what its node leads to.
Found(walk, k, id, places, nodes, steps, failing, sections) ==
    /\ Led(places, nodes, steps, id) \subseteq nodes
    /\ Led(places, nodes, steps, id) \intersect failing = {}
    /\ \E last \in Led(places, nodes, steps, id) : steps[last] = {}
    /\ walk[k][id].sections = Led(places, nodes, steps, id) \intersect sections

LEMMA WalkFinds ==
    ASSUME NEW hops \in Nat, NEW walk, NEW places, NEW nodes, NEW steps, NEW failing, NEW sections,
           Steps(places, nodes, steps), Lone(nodes, steps), Stuck(failing, steps),
           Walks(walk, hops, nodes, steps, failing, sections)
    PROVE  \A k \in 0..hops : \A id \in nodes :
              walk[k][id].ok => Found(walk, k, id, places, nodes, steps, failing, sections)
  <1> DEFINE Good == {k \in 0..hops : \A id \in nodes :
                        walk[k][id].ok => Found(walk, k, id, places, nodes, steps, failing, sections)}
  <1>1. ASSUME NEW k \in 0..hops, NEW id \in nodes, steps[id] = {}, walk[k][id].ok
        PROVE  Found(walk, k, id, places, nodes, steps, failing, sections)
    <2>1. id \in places
      BY DEF Steps
    <2>2. Led(places, nodes, steps, id) = {id}
      BY <1>1, <2>1, LedNowhere
    <2>3. WalkFrom(walk, k, id, nodes, steps, failing, sections)
      BY DEF Walks
    <2>4. id \notin failing /\ walk[k][id].sections = {id} \intersect sections
      BY <1>1, <2>3 DEF WalkFrom
    <2> QED BY <1>1, <2>2, <2>4 DEF Found
  <1>2. ASSUME NEW id \in nodes, walk[0][id].ok
        PROVE  Found(walk, 0, id, places, nodes, steps, failing, sections)
    <2>1. 0 \in 0..hops
      OBVIOUS
    <2>3. WalkFrom(walk, 0, id, nodes, steps, failing, sections)
      BY <2>1 DEF Walks
    <2>2. steps[id] = {}
      BY <1>2, <2>3 DEF Lone, WalkFrom
    <2> QED BY <1>1, <1>2, <2>1, <2>2
  <1>3. 0 \in Good
    BY <1>2
  <1>4. ASSUME NEW k \in 0..hops, k < hops, k \in Good PROVE k + 1 \in Good
    <2>1. k + 1 \in 0..hops /\ k + 1 # 0 /\ k + 1 - 1 = k
      BY <1>4
    <2>2. SUFFICES ASSUME NEW id \in nodes, walk[k + 1][id].ok
                   PROVE  Found(walk, k + 1, id, places, nodes, steps, failing, sections)
      BY <2>1
    <2>3. CASE steps[id] = {}
      BY <1>1, <2>1, <2>2, <2>3
    <2>4. ASSUME NEW next, steps[id] = {next}
          PROVE  Found(walk, k + 1, id, places, nodes, steps, failing, sections)
      <3>7. WalkFrom(walk, k + 1, id, nodes, steps, failing, sections)
        BY <2>1 DEF Walks
      <3>1. next \in nodes
        BY <2>2, <2>4, <3>7 DEF WalkFrom
      <3>2. walk[k + 1][id] = [ok |-> walk[k][next].ok,
                               sections |-> walk[k][next].sections \union ({id} \intersect sections)]
        BY <2>1, <2>4, <3>1, <3>7 DEF WalkFrom
      <3>3. walk[k][next].ok
        BY <2>2, <3>2
      <3>4. Found(walk, k, next, places, nodes, steps, failing, sections)
        BY <1>4, <3>1, <3>3
      <3>5. Led(places, nodes, steps, id) = {id} \union Led(places, nodes, steps, next)
        BY <2>4, LedOn
      <3>6. walk[k + 1][id].sections = walk[k][next].sections \union ({id} \intersect sections)
        BY <3>2
      <3>8. id \notin failing
        BY <2>4 DEF Stuck
      <3> QED BY <3>4, <3>5, <3>6, <3>8 DEF Found
    <2> QED BY <2>3, <2>4 DEF Lone
  <1>5. \A k \in 0..hops : k \in Good
    <2> HIDE DEF Good
    <2> QED BY <1>3, <1>4, UpTo
  <1> QED BY <1>5

\* A walk that can end does not come back to where it was.
LEMMA NoReturn ==
    ASSUME NEW places, NEW nodes, NEW steps, Steps(places, nodes, steps), Lone(nodes, steps),
           NEW id \in nodes, NEW next, steps[id] = {next},
           NEW last \in Led(places, nodes, steps, id), steps[last] = {}
    PROVE  id \notin Led(places, nodes, steps, next)
  <1>1. SUFFICES ASSUME id \in Led(places, nodes, steps, next) PROVE FALSE
    OBVIOUS
  <1>2. PICK T : T = {x \in Led(places, nodes, steps, id) : id \in Led(places, nodes, steps, x)}
    OBVIOUS
  <1>3. id \in places
    BY DEF Steps
  <1>4. T \in SUBSET places
    BY <1>2, LedWithin
  <1>5. id \in T
    BY <1>2, <1>3, LedHas
  <1>6. ASSUME NEW x \in T \intersect nodes PROVE steps[x] \subseteq T
    <2>1. CASE steps[x] = {}
      BY <2>1
    <2>2. ASSUME NEW y, steps[x] = {y} PROVE steps[x] \subseteq T
      <3>1. Led(places, nodes, steps, x) = {x} \union Led(places, nodes, steps, y)
        BY <2>2, LedOn
      <3>2. id \in Led(places, nodes, steps, x)
        BY <1>2, <1>6
      <3>3. id \in Led(places, nodes, steps, y)
        <4>1. CASE id = x
          BY <1>1, <2>2, <4>1
        <4>2. CASE id # x
          BY <3>1, <3>2, <4>2
        <4> QED BY <4>1, <4>2
      <3>4. x \in Led(places, nodes, steps, id) \intersect nodes
        BY <1>2
      <3>5. steps[x] \subseteq Led(places, nodes, steps, id)
        BY <3>4, LedClosed
      <3> QED BY <1>2, <2>2, <3>3, <3>5
    <2> QED BY <2>1, <2>2 DEF Lone
  <1>7. Led(places, nodes, steps, id) \subseteq T
    BY <1>4, <1>5, <1>6, LedLeast
  <1>8. last \in T
    BY <1>7
  <1>9. id \in Led(places, nodes, steps, last) /\ last \in places
    BY <1>2, <1>4, <1>8
  <1>10. Led(places, nodes, steps, last) = {last}
    BY <1>9, LedNowhere
  <1>11. id = last
    BY <1>9, <1>10
  <1> QED BY <1>11

LEMMA WalkEnds ==
    ASSUME NEW hops \in Nat, NEW walk, NEW places, NEW nodes, NEW steps, NEW failing, NEW sections,
           Steps(places, nodes, steps), Lone(nodes, steps),
           Walks(walk, hops, nodes, steps, failing, sections)
    PROVE  \A k \in 0..hops : \A id \in nodes :
              /\ Led(places, nodes, steps, id) \subseteq nodes
              /\ Led(places, nodes, steps, id) \intersect failing = {}
              /\ IsFiniteSet(Led(places, nodes, steps, id))
              /\ Cardinality(Led(places, nodes, steps, id)) <= k + 1
              /\ \E last \in Led(places, nodes, steps, id) : steps[last] = {}
              => walk[k][id].ok
  <1> DEFINE Ends(k, id) ==
                /\ Led(places, nodes, steps, id) \subseteq nodes
                /\ Led(places, nodes, steps, id) \intersect failing = {}
                /\ IsFiniteSet(Led(places, nodes, steps, id))
                /\ Cardinality(Led(places, nodes, steps, id)) <= k + 1
                /\ \E last \in Led(places, nodes, steps, id) : steps[last] = {}
             Good == {k \in 0..hops : \A id \in nodes : Ends(k, id) => walk[k][id].ok}
  <1>1. ASSUME NEW k \in 0..hops, NEW id \in nodes, NEW j, Ends(j, id), steps[id] = {} PROVE walk[k][id].ok
    <2>1. WalkFrom(walk, k, id, nodes, steps, failing, sections)
      BY DEF Walks
    <2>2. id \in places
      BY DEF Steps
    <2>3. id \notin failing
      BY <1>1, <2>2, LedHas
    <2> QED BY <1>1, <2>1, <2>3 DEF WalkFrom
  <1>2. ASSUME NEW k \in Nat, NEW id \in nodes, Ends(k, id), NEW next, steps[id] = {next}
        PROVE  k # 0 /\ next \in nodes /\ Ends(k - 1, next)
    <2>1. /\ next \in places
          /\ Led(places, nodes, steps, id) = {id} \union Led(places, nodes, steps, next)
      BY <1>2, LedOn
    <2>2. PICK last \in Led(places, nodes, steps, id) : steps[last] = {}
      BY <1>2
    <2>3. id \notin Led(places, nodes, steps, next)
      BY <1>2, <2>2, NoReturn
    <2>4. last \in Led(places, nodes, steps, next)
      BY <1>2, <2>1, <2>2
    <2>5. next \in Led(places, nodes, steps, next)
      BY <2>1, LedHas
    <2>6. PICK L : L = Led(places, nodes, steps, id)
      OBVIOUS
    <2>7. PICK N : N = Led(places, nodes, steps, next)
      OBVIOUS
    <2>8. N = L \ {id} /\ id \in L /\ N # {}
      BY <2>1, <2>3, <2>5, <2>6, <2>7
    <2>9. IsFiniteSet(L) /\ Cardinality(L) <= k + 1
      BY <1>2, <2>6
    <2>10. IsFiniteSet(N) /\ Cardinality(N) = Cardinality(L) - 1
      BY <2>8, <2>9, FS_RemoveElement
    <2>11. Cardinality(N) \in Nat /\ Cardinality(L) \in Nat
      BY <2>9, <2>10, FS_CardinalityType
    <2>12. Cardinality(N) # 0
      BY <2>8, <2>10, FS_EmptySet
    <2>13. k # 0 /\ Cardinality(N) <= k - 1 + 1
      BY <2>9, <2>10, <2>11, <2>12
    <2>14. N \subseteq nodes /\ N \intersect failing = {}
      BY <1>2, <2>6, <2>8
    <2> QED BY <2>2, <2>4, <2>5, <2>7, <2>10, <2>13, <2>14
  <1>3. 0 \in Good
    <2>1. SUFFICES ASSUME NEW id \in nodes, Ends(0, id) PROVE walk[0][id].ok
      OBVIOUS
    <2>2. CASE steps[id] = {}
      <3>1. 0 \in 0..hops
        OBVIOUS
      <3> HIDE DEF Ends
      <3> QED BY <1>1, <2>1, <2>2, <3>1
    <2>3. ASSUME NEW next, steps[id] = {next} PROVE FALSE
      BY <1>2, <2>1, <2>3
    <2> QED BY <2>2, <2>3 DEF Lone
  <1>4. ASSUME NEW k \in 0..hops, k < hops, k \in Good PROVE k + 1 \in Good
    <2>1. k + 1 \in 0..hops /\ k + 1 # 0 /\ k + 1 - 1 = k /\ k + 1 \in Nat
      BY <1>4
    <2>2. SUFFICES ASSUME NEW id \in nodes, Ends(k + 1, id) PROVE walk[k + 1][id].ok
      BY <2>1
    <2>3. CASE steps[id] = {}
      <3> HIDE DEF Ends
      <3> QED BY <1>1, <2>1, <2>2, <2>3
    <2>4. ASSUME NEW next, steps[id] = {next} PROVE walk[k + 1][id].ok
      <3>1. next \in nodes /\ Ends(k, next)
        <4> HIDE DEF Ends
        <4> QED BY <1>2, <2>1, <2>2, <2>4
      <3>2. walk[k][next].ok
        BY <1>4, <3>1
      <3>3. WalkFrom(walk, k + 1, id, nodes, steps, failing, sections)
        BY <2>1 DEF Walks
      <3>4. walk[k + 1][id].ok = walk[k][next].ok
        BY <2>1, <2>4, <3>1, <3>3 DEF WalkFrom
      <3> QED BY <3>2, <3>4
    <2> QED BY <2>3, <2>4 DEF Lone
  <1>5. \A k \in 0..hops : k \in Good
    <2> HIDE DEF Good
    <2> QED BY <1>3, <1>4, UpTo
  <1> QED BY <1>5

-----------------------------------------------------------------------------
(* The walk of ResolveSections.                                            *)

TypeInv ==
    /\ workflow \in Workflows
    /\ answers \in [Questions -> Values \union OldValues \union {NoAnswer}]

Edges    == [id \in Ids |-> Follows(id)]
Branches == [id \in Ids |-> NextNodes(workflow.nodes[id])]
Failing  == {id \in Ids : Fails(workflow.nodes[id], answers)}

LEMMA IsOne ==
    ASSUME TypeInv
    PROVE  /\ IsWorkflow(workflow) /\ workflow.start \in Ids
           /\ IsFiniteSet(Ids) /\ NoNode \notin Ids
           /\ \A id \in Ids : workflow.nodes[id].type \in {"start", "section", "condition", "end"}
  BY RespondentAssumption DEF TypeInv, IsWorkflow, Ids

LEMMA FollowsIsANext ==
    ASSUME NEW id \in Ids
    PROVE  Follows(id) \subseteq NextNodes(workflow.nodes[id])
  BY DEF Follows, NextNodes, Stops, Successor

LEMMA BranchesAreSteps == Steps(Places, Ids, Branches)
  BY DEF Steps, Places, Branches, References, Ids

LEMMA EdgesAreSteps == Steps(Places, Ids, Edges) /\ Lone(Ids, Edges)
  <1>1. \A id \in Ids : Follows(id) \subseteq Places
    BY FollowsIsANext DEF Places, References, Ids
  <1>2. \A id \in Ids : Follows(id) = {} \/ \E next : Follows(id) = {next}
    BY DEF Follows
  <1> QED BY <1>1, <1>2 DEF Steps, Lone, Edges, Places

LEMMA FailingIsStuck == Stuck(Failing, Edges)
  BY DEF Stuck, Failing, Edges, Follows

LEMMA ReachableIsLed == Reachable = Led(Places, Ids, Edges, workflow.start)
  BY DEF Reachable, Closure, Closed, Led, Edges

LEMMA HopsIsANumber ==
    ASSUME TypeInv
    PROVE  Hops(workflow) \in Nat /\ Cardinality(Ids) = Hops(workflow) + 1
  <1>1. IsFiniteSet(Ids) /\ Ids # {}
    BY IsOne
  <1>2. Cardinality(Ids) \in Nat /\ Cardinality(Ids) # 0
    BY <1>1, FS_CardinalityType, FS_EmptySet
  <1>3. Hops(workflow) = Cardinality(Ids) - 1
    BY DEF Hops, Ids
  <1> QED BY <1>2, <1>3

\* What walks find from every node that may visit left more, if those that may
\* visit one less find before.
WalkNode(left, before, id) ==
    LET node == workflow.nodes[id]
        next == Successor(node, answers)
        rest == IF Fails(node, answers) THEN [ok |-> FALSE, sections |-> {}]
                ELSE IF Stops(node, answers) \/ next = NoNode THEN [ok |-> TRUE, sections |-> {}]
                ELSE IF next \notin Ids \/ left = 0 THEN [ok |-> FALSE, sections |-> {}]
                ELSE before[next]
    IN  [rest EXCEPT !.sections = @ \union (IF node.type = "section"
                                            THEN {id} ELSE {})]

WalkRound(left, before) == [id \in Ids |-> WalkNode(left, before, id)]

WalkIs(walk) == walk = [left \in 0..Hops(workflow) |-> WalkRound(left, walk[left - 1])]

LEMMA WalkIsWalk ==
    ASSUME \E walk : WalkIs(walk)
    PROVE  \E walk : /\ WalkIs(walk)
                     /\ ResolveSections(workflow, answers) = walk[Hops(workflow)][workflow.start]
  BY DEF WalkIs, WalkRound, WalkNode, ResolveSections, Ids

Finds == [Ids -> [ok : BOOLEAN, sections : SUBSET Ids]]

LEMMA WalkNodeFinds ==
    ASSUME NEW left, NEW before, left = 0 \/ before \in Finds, NEW id \in Ids
    PROVE  WalkNode(left, before, id) \in [ok : BOOLEAN, sections : SUBSET Ids]
  <1>1. PICK node : node = workflow.nodes[id]
    OBVIOUS
  <1>2. PICK next : next = Successor(node, answers)
    OBVIOUS
  <1>3. PICK rest : rest = IF Fails(node, answers) THEN [ok |-> FALSE, sections |-> {}]
                           ELSE IF Stops(node, answers) \/ next = NoNode THEN [ok |-> TRUE, sections |-> {}]
                           ELSE IF next \notin Ids \/ left = 0 THEN [ok |-> FALSE, sections |-> {}]
                           ELSE before[next]
    OBVIOUS
  <1>4. next \in Ids /\ left # 0 => before[next] \in [ok : BOOLEAN, sections : SUBSET Ids]
    BY DEF Finds
  <1>5. rest \in [ok : BOOLEAN, sections : SUBSET Ids]
    BY <1>3, <1>4
  <1>6. PICK own \in SUBSET Ids : own = IF node.type = "section" THEN {id} ELSE {}
    OBVIOUS
  <1>7. WalkNode(left, before, id) = [rest EXCEPT !.sections = @ \union own]
    BY <1>1, <1>2, <1>3, <1>6 DEF WalkNode
  <1> QED BY <1>5, <1>7

LEMMA WalkRoundFinds ==
    ASSUME NEW left, NEW before, left = 0 \/ before \in Finds
    PROVE  WalkRound(left, before) \in Finds
  BY WalkNodeFinds DEF WalkRound, Finds

LEMMA WalkExists ==
    ASSUME TypeInv
    PROVE  \E walk : WalkIs(walk)
  <1>1. PICK K : K = Hops(workflow)
    OBVIOUS
  <1>2. K \in Nat
    BY <1>1, HopsIsANumber
  <1>3. PICK step : step = [n \in 1..K |-> [before \in Finds |-> WalkRound(n, before)]]
    OBVIOUS
  <1>4. PICK none : none = [id \in Ids |-> 0]
    OBVIOUS
  <1>5. PICK f : Rounds(f, K, WalkRound(0, none), step)
    BY <1>2, RoundsExist
  <1>6. \A n \in 0..K : f[n] = IF n = 0 THEN WalkRound(0, none) ELSE step[n][f[n - 1]]
    BY <1>5 DEF Rounds
  <1>7. ASSUME NEW n \in 0..K, n # 0, f[n - 1] \in Finds PROVE f[n] = WalkRound(n, f[n - 1])
    <2>1. n \in 1..K
      BY <1>7
    <2>2. step[n] = [before \in Finds |-> WalkRound(n, before)]
      BY <1>3, <2>1
    <2>3. step[n][f[n - 1]] = WalkRound(n, f[n - 1])
      BY <1>7, <2>2
    <2> QED BY <1>6, <1>7, <2>3
  <1>8. PICK S : S = {n \in 0..K : f[n] \in Finds}
    OBVIOUS
  <1>9. 0 \in S
    <2>1. 0 \in 0..K
      BY <1>2
    <2>2. f[0] = WalkRound(0, none)
      BY <1>6, <2>1
    <2> QED BY <1>8, <2>1, <2>2, WalkRoundFinds
  <1>10. ASSUME NEW k \in 0..K, k < K, k \in S PROVE k + 1 \in S
    <2>1. k + 1 \in 0..K /\ k + 1 # 0 /\ k + 1 - 1 = k
      BY <1>2, <1>10
    <2>2. f[k] \in Finds
      BY <1>8, <1>10
    <2>3. f[k + 1] = WalkRound(k + 1, f[k])
      BY <1>7, <2>1, <2>2
    <2> QED BY <1>8, <2>1, <2>2, <2>3, WalkRoundFinds
  <1>11. \A k \in 0..K : k \in S
    BY <1>2, <1>9, <1>10, UpTo
  <1>12. ASSUME NEW n \in 0..K PROVE f[n] = WalkRound(n, f[n - 1])
    <2>1. CASE n = 0
      <3>1. f[n] = WalkRound(0, none)
        BY <1>6, <2>1
      <3>2. \A id \in Ids : WalkNode(0, none, id) = WalkNode(0, f[n - 1], id)
        BY DEF WalkNode
      <3> QED BY <2>1, <3>1, <3>2 DEF WalkRound
    <2>2. CASE n # 0
      <3>1. n - 1 \in 0..K
        BY <1>2, <2>2
      <3>2. f[n - 1] \in Finds
        BY <1>8, <1>11, <3>1
      <3> QED BY <1>7, <2>2, <3>2
    <2> QED BY <2>1, <2>2
  <1>13. f = [n \in 0..K |-> IF n = 0 THEN WalkRound(0, none) ELSE step[n][f[n - 1]]]
    BY <1>5 DEF Rounds
  <1>14. f = [n \in 0..K |-> f[n]]
    BY <1>13
  <1>15. f = [n \in 0..K |-> WalkRound(n, f[n - 1])]
    BY <1>12, <1>14
  <1> QED BY <1>1, <1>15 DEF WalkIs

LEMMA WalkFindsAll ==
    ASSUME TypeInv, NEW walk, WalkIs(walk)
    PROVE  \A k \in 0..Hops(workflow) : walk[k] = WalkRound(k, walk[k - 1]) /\ walk[k] \in Finds
  <1>1. PICK K : K = Hops(workflow)
    OBVIOUS
  <1>2. K \in Nat
    BY <1>1, HopsIsANumber
  <1>3. \A k \in 0..K : walk[k] = WalkRound(k, walk[k - 1])
    BY <1>1 DEF WalkIs
  <1>4. PICK S : S = {k \in 0..K : walk[k] \in Finds}
    OBVIOUS
  <1>5. 0 \in S
    <2>1. 0 \in 0..K
      BY <1>2
    <2> QED BY <1>3, <1>4, <2>1, WalkRoundFinds
  <1>6. ASSUME NEW k \in 0..K, k < K, k \in S PROVE k + 1 \in S
    <2>1. k + 1 \in 0..K /\ k + 1 - 1 = k
      BY <1>2, <1>6
    <2> QED BY <1>3, <1>4, <1>6, <2>1, WalkRoundFinds
  <1>7. \A k \in 0..K : k \in S
    BY <1>2, <1>5, <1>6, UpTo
  <1> QED BY <1>1, <1>3, <1>4, <1>7

LEMMA WalkWalks ==
    ASSUME TypeInv
    PROVE  \E walk : /\ ResolveSections(workflow, answers) = walk[Hops(workflow)][workflow.start]
                     /\ Walks(walk, Hops(workflow), Ids, Edges, Failing, NodesOf(workflow, "section"))
  <1>1. PICK walk : /\ WalkIs(walk)
                    /\ ResolveSections(workflow, answers) = walk[Hops(workflow)][workflow.start]
    BY WalkExists, WalkIsWalk
  <1>2. PICK K : K = Hops(workflow)
    OBVIOUS
  <1>3. PICK sections : sections = NodesOf(workflow, "section")
    OBVIOUS
  <1>4. K \in Nat /\ NoNode \notin Ids
    BY <1>2, HopsIsANumber, IsOne
  <1>5. \A k \in 0..K : walk[k] = WalkRound(k, walk[k - 1]) /\ walk[k] \in Finds
    BY <1>1, <1>2, WalkFindsAll
  <1>6. SUFFICES ASSUME NEW k \in 0..K, NEW id \in Ids
                 PROVE  WalkFrom(walk, k, id, Ids, Edges, Failing, sections)
    BY <1>1, <1>2, <1>3 DEF Walks
  <1>7. walk[k][id] = WalkNode(k, walk[k - 1], id)
    <2>1. walk[k] = WalkRound(k, walk[k - 1])
      BY <1>5
    <2> QED BY <2>1 DEF WalkRound
  <1>8. Edges[id] = Follows(id)
    BY DEF Edges
  <1>9. {id} \intersect sections = IF workflow.nodes[id].type = "section" THEN {id} ELSE {}
    BY <1>3 DEF NodesOf, Ids
  <1>10. ASSUME Edges[id] = {}
         PROVE  /\ walk[k][id].ok <=> id \notin Failing
                /\ walk[k][id].sections = {id} \intersect sections
    <2>1. CASE Fails(workflow.nodes[id], answers)
      <3>1. id \in Failing
        BY <2>1 DEF Failing
      <3> QED BY <1>7, <1>9, <2>1, <3>1 DEF WalkNode
    <2>2. CASE ~Fails(workflow.nodes[id], answers)
      <3>1. id \notin Failing
        BY <2>2 DEF Failing
      <3>2. Stops(workflow.nodes[id], answers) \/ Successor(workflow.nodes[id], answers) = NoNode
        BY <1>8, <1>10, <2>2 DEF Follows
      <3> QED BY <1>7, <1>9, <2>2, <3>1, <3>2 DEF WalkNode
    <2> QED BY <2>1, <2>2
  <1>11. ASSUME NEW next \in Edges[id]
         PROVE  /\ next = Successor(workflow.nodes[id], answers)
                /\ next # NoNode
                /\ ~Stops(workflow.nodes[id], answers) /\ ~Fails(workflow.nodes[id], answers)
    BY <1>8 DEF Follows
  <1>12. ASSUME NEW next \in Edges[id], next \notin Ids \/ k = 0 PROVE ~walk[k][id].ok
    BY <1>7, <1>11, <1>12 DEF WalkNode
  <1>13. ASSUME NEW next \in Edges[id], next \in Ids, k # 0
         PROVE  walk[k][id] = [ok |-> walk[k - 1][next].ok,
                               sections |-> walk[k - 1][next].sections \union ({id} \intersect sections)]
    <2>1. k - 1 \in 0..K
      BY <1>4, <1>13
    <2>2. walk[k - 1][next] \in [ok : BOOLEAN, sections : SUBSET Ids]
      BY <1>5, <1>13, <2>1 DEF Finds
    <2>3. walk[k][id] = [walk[k - 1][next] EXCEPT !.sections = @ \union ({id} \intersect sections)]
      BY <1>7, <1>9, <1>11, <1>13 DEF WalkNode
    <2> QED BY <2>2, <2>3
  <1> QED BY <1>10, <1>12, <1>13 DEF WalkFrom

-----------------------------------------------------------------------------
(* The theorems about the resolver.                                        *)

LEMMA Typed == Spec => []TypeInv
  <1>1. Init => TypeInv
    BY DEF Init, TypeInv
  <1>2. TypeInv /\ [Next]_vars => TypeInv'
    BY DEF TypeInv, Next, vars
  <1> QED BY <1>1, <1>2, PTL DEF Spec

LEMMA ResolvesAll ==
    ASSUME TypeInv
    PROVE  ResolvesTheReachablePath
  <1>1. PICK walk : /\ ResolveSections(workflow, answers) = walk[Hops(workflow)][workflow.start]
                    /\ Walks(walk, Hops(workflow), Ids, Edges, Failing, NodesOf(workflow, "section"))
    BY WalkWalks
  <1>2. PICK K : K = Hops(workflow)
    OBVIOUS
  <1>3. PICK start : start = workflow.start
    OBVIOUS
  <1>4. K \in Nat /\ K \in 0..K /\ Cardinality(Ids) = K + 1 /\ IsFiniteSet(Ids)
        /\ start \in Ids
    BY <1>2, <1>3, HopsIsANumber, IsOne
  <1>5. PICK path : path = ResolveSections(workflow, answers)
    OBVIOUS
  <1>6. path = walk[K][start]
    BY <1>1, <1>2, <1>3, <1>5
  <1>7. PICK sections : sections = NodesOf(workflow, "section")
    OBVIOUS
  <1>8. Walks(walk, K, Ids, Edges, Failing, sections)
    BY <1>1, <1>2, <1>7
  <1>9. PICK reached : reached = Led(Places, Ids, Edges, start)
    OBVIOUS
  <1>10. reached = Reachable
    BY <1>3, <1>9, ReachableIsLed
  <1>11. \A id \in Ids : Edges[id] = Follows(id)
    BY DEF Edges
  <1>12. ASSUME path.ok
         PROVE  /\ reached \subseteq Ids /\ reached \intersect Failing = {}
                /\ \E last \in reached : Edges[last] = {}
                /\ path.sections = reached \intersect sections
    <2>1. \A k \in 0..K : \A id \in Ids :
              walk[k][id].ok => Found(walk, k, id, Places, Ids, Edges, Failing, sections)
      BY <1>4, <1>8, EdgesAreSteps, FailingIsStuck, WalkFinds
    <2>2. Found(walk, K, start, Places, Ids, Edges, Failing, sections)
      BY <1>4, <1>6, <1>12, <2>1
    <2> QED BY <1>6, <1>9, <2>2 DEF Found
  <1>13. ASSUME reached \subseteq Ids, reached \intersect Failing = {}, NEW last \in reached, Edges[last] = {} PROVE path.ok
    <2>1. IsFiniteSet(reached) /\ Cardinality(reached) <= K + 1
      BY <1>4, <1>13, FS_Subset
    <2>2. \A k \in 0..K : \A id \in Ids :
              /\ Led(Places, Ids, Edges, id) \subseteq Ids
              /\ Led(Places, Ids, Edges, id) \intersect Failing = {}
              /\ IsFiniteSet(Led(Places, Ids, Edges, id))
              /\ Cardinality(Led(Places, Ids, Edges, id)) <= k + 1
              /\ \E end \in Led(Places, Ids, Edges, id) : Edges[end] = {}
              => walk[k][id].ok
      BY <1>4, <1>8, EdgesAreSteps, WalkEnds
    <2> QED BY <1>4, <1>6, <1>9, <1>13, <2>1, <2>2
  <1>14. PICK lasts : lasts = {id \in reached \intersect Ids : Follows(id) = {}}
    OBVIOUS
  <1>15. {id \in lasts : Fails(workflow.nodes[id], answers)} = reached \intersect Failing
    BY <1>11, <1>14, FailingIsStuck DEF Failing, Stuck
  <1>16. ASSUME path.ok
         PROVE  /\ reached \subseteq Ids /\ lasts # {} /\ reached \intersect Failing = {}
                /\ path.sections = reached \intersect sections
    BY <1>11, <1>12, <1>14, <1>16
  <1>17. ASSUME reached \subseteq Ids, lasts # {}, reached \intersect Failing = {}
         PROVE  path.ok
    BY <1>11, <1>13, <1>14, <1>17
  <1> QED BY <1>5, <1>7, <1>10, <1>14, <1>15, <1>16, <1>17 DEF ResolvesTheReachablePath

\* In a workflow of any size and wiring the resolver's walk, which gives up once it has
\* visited as many nodes as there are, records exactly the sections that the answers lead
\* to, and fails exactly when they lead to a dangling reference, to a condition that has
\* no rule or refuses its answer, or nowhere to an end.
THEOREM ResolverExact == Spec => []ResolvesTheReachablePath
  <1>1. TypeInv => ResolvesTheReachablePath
    BY ResolvesAll
  <1> QED BY <1>1, Typed, PTL

\* Whatever the workflow, a response that may be submitted has every required question
\* answered in the sections its answers lead to, and something in each of these that asks.
THEOREM CompleteIsClosed == Spec => []CompleteLeavesNothingOpen
  <1>1. ASSUME ResolvesTheReachablePath, Complete(workflow, answers)
        PROVE  CompleteLeavesNothingOpen
    <2>1. PICK path : path = ResolveSections(workflow, answers)
      OBVIOUS
    <2>2. path.ok /\ \A section \in path.sections \intersect Sections :
                        SectionProgress(section, answers) = "COMPLETED"
      BY <1>1, <2>1 DEF Complete
    <2>3. path.sections = Reachable \intersect NodesOf(workflow, "section")
      BY <1>1, <2>1, <2>2 DEF ResolvesTheReachablePath
    <2>4. ASSUME NEW section \in Reachable \intersect NodesOf(workflow, "section") \intersect Sections
          PROVE  /\ QuestionsIn(section) \intersect Required \subseteq Answered(answers)
                 /\ QuestionsIn(section) # {} =>
                       \E q \in QuestionsIn(section) : q \in Answered(answers)
      <3>1. SectionProgress(section, answers) = "COMPLETED"
        BY <2>2, <2>3
      <3> QED BY <3>1 DEF SectionProgress
    <2> QED BY <2>4 DEF CompleteLeavesNothingOpen
  <1>2. ResolvesTheReachablePath => CompleteLeavesNothingOpen
    BY <1>1 DEF CompleteLeavesNothingOpen
  <1> QED BY <1>2, ResolverExact, PTL

\* A step that answers one more question changes no step the walk had already.
LEMMA FollowsStay ==
    ASSUME TypeInv, Next, NEW id \in Ids
    PROVE  Follows(id) \subseteq Follows(id)'
  <1>1. PICK q \in Questions \ Answered(answers), v \in Values :
            /\ answers' = [answers EXCEPT ![q] = v]
            /\ UNCHANGED workflow
    BY DEF Next
  <1>2. PICK node : node = workflow.nodes[id]
    OBVIOUS
  <1>3. CASE Stops(node, answers) \/ Fails(node, answers)
    BY <1>2, <1>3 DEF Follows
  <1>4. CASE ~Stops(node, answers) /\ ~Fails(node, answers)
    <2>1. node.type = "condition" =>
             /\ node.question \in Questions /\ answers[node.question] # NoAnswer
             /\ node.rule # "absent" /\ answers[node.question] \notin node.refused
      BY <1>4 DEF Stops, Fails, Evaluable
    <2>2. node.type = "condition" => answers'[node.question] = answers[node.question]
      BY <1>1, <2>1 DEF TypeInv, Answered
    <2>3. ~Stops(node, answers') /\ ~Fails(node, answers')
      BY <1>4, <2>1, <2>2 DEF Stops, Fails, Evaluable
    <2>4. Successor(node, answers') = Successor(node, answers)
      BY <2>2 DEF Successor
    <2>5. Follows(id)' = {Successor(node, answers')} \ {NoNode}
      BY <1>1, <1>2, <2>3 DEF Follows
    <2>6. Follows(id) = {Successor(node, answers)} \ {NoNode}
      BY <1>2, <1>4 DEF Follows
    <2> QED BY <2>4, <2>5, <2>6
  <1> QED BY <1>3, <1>4

LEMMA ReachableStays ==
    ASSUME TypeInv, TypeInv', [Next]_vars
    PROVE  Reachable \subseteq Reachable' /\ workflow' = workflow
  <1>1. CASE Next
    <2>1. workflow' = workflow
      BY <1>1 DEF Next
    <2>2. Places' = Places /\ Ids' = Ids
      BY <2>1 DEF Places, Ids
    <2>3. \A id \in Ids : Edges[id] \subseteq Edges'[id]
      <3>1. \A id \in Ids : Edges[id] = Follows(id)
        BY DEF Edges
      <3>2. \A id \in Ids : Edges'[id] = Follows(id)'
        BY <2>2 DEF Edges
      <3> QED BY <1>1, <3>1, <3>2, FollowsStay
    <2>4. Steps(Places, Ids, Edges)'
      BY EdgesAreSteps, PTL
    <2>5. Steps(Places, Ids, Edges')
      BY <2>2, <2>4 DEF Steps
    <2>6. Reachable' = Led(Places, Ids, Edges', workflow.start)
      <3>1. (Reachable = Led(Places, Ids, Edges, workflow.start))'
        BY ReachableIsLed, PTL
      <3> QED BY <2>1, <2>2, <3>1 DEF Led
    <2>7. workflow.start \in Places
      BY IsOne DEF Places
    <2>8. PICK more : more = Edges'
      OBVIOUS
    <2>9. Led(Places, Ids, Edges, workflow.start) \subseteq Led(Places, Ids, more, workflow.start)
      BY <2>3, <2>5, <2>7, <2>8, LedGrows
    <2> QED BY <2>1, <2>6, <2>8, <2>9, ReachableIsLed
  <1>2. CASE UNCHANGED vars
    BY <1>2 DEF vars, Reachable, Closure, Closed, Places, Ids, Follows
  <1> QED BY <1>1, <1>2

\* The sections that are shown while some questions are open stay, whatever is answered
\* next and however large the workflow is.
THEOREM CertainStay == Spec => CertainSectionsStay
  <1>1. ASSUME TypeInv, TypeInv', ResolvesTheReachablePath, ResolvesTheReachablePath', [Next]_vars,
               Resolved(workflow, answers), Resolved(workflow, answers)'
        PROVE  ActiveSections(workflow, answers) \subseteq ActiveSections(workflow, answers)'
    <2>1. Reachable \subseteq Reachable' /\ workflow' = workflow
      BY <1>1, ReachableStays
    <2>2. ActiveSections(workflow, answers) = Reachable \intersect NodesOf(workflow, "section")
      BY <1>1 DEF ResolvesTheReachablePath, Resolved, ActiveSections
    <2>3. ActiveSections(workflow, answers)' = Reachable' \intersect NodesOf(workflow, "section")'
      BY <1>1 DEF ResolvesTheReachablePath, Resolved, ActiveSections
    <2>4. NodesOf(workflow, "section")' = NodesOf(workflow, "section")
      BY <2>1 DEF NodesOf
    <2> QED BY <2>1, <2>2, <2>3, <2>4
  <1>2. TypeInv /\ TypeInv' /\ ResolvesTheReachablePath /\ ResolvesTheReachablePath' /\ [Next]_vars =>
           [Resolved(workflow, answers) /\ Resolved(workflow, answers)' =>
              ActiveSections(workflow, answers) \subseteq ActiveSections(workflow, answers)']_vars
    BY <1>1
  <1> QED BY <1>2, Typed, ResolverExact, PTL DEF Spec, CertainSectionsStay

-----------------------------------------------------------------------------
(* The breadth-first search of the validator.                              *)

LEMMA PlacesAreFinite ==
    ASSUME TypeInv
    PROVE  IsFiniteSet(Places) /\ Visitable(workflow) = Cardinality(Places)
           /\ Visitable(workflow) \in Nat
  <1>1. IsFiniteSet(Ids)
    BY IsOne
  <1>2. PICK f : f = [id \in Ids |-> workflow.nodes[id].next]
    OBVIOUS
  <1>3. PICK g : g = [id \in Ids |-> workflow.nodes[id].nextTrue]
    OBVIOUS
  <1>4. PICK h : h = [id \in Ids |-> workflow.nodes[id].nextFalse]
    OBVIOUS
  <1>5. ASSUME NEW e, e = [id \in Ids |-> e[id]] PROVE IsFiniteSet({e[id] : id \in Ids})
    <2>1. e \in Surjection(Ids, {e[id] : id \in Ids})
      BY <1>5 DEF Surjection
    <2> QED BY <1>1, <2>1, FS_Surjection
  <1>6. IsFiniteSet({f[id] : id \in Ids})
    BY <1>2, <1>5
  <1>7. IsFiniteSet({g[id] : id \in Ids})
    BY <1>3, <1>5
  <1>8. IsFiniteSet({h[id] : id \in Ids})
    BY <1>4, <1>5
  <1>9. PICK T : T = (({f[id] : id \in Ids} \union {g[id] : id \in Ids}) \union {h[id] : id \in Ids})
                     \union Ids
    OBVIOUS
  <1>10. IsFiniteSet(T)
    BY <1>1, <1>6, <1>7, <1>8, <1>9, FS_Union
  <1>11. ASSUME NEW id \in Ids PROVE NextNodes(workflow.nodes[id]) \subseteq T
    BY <1>2, <1>3, <1>4, <1>9 DEF NextNodes
  <1>12. Places \subseteq T
    BY <1>9, <1>11 DEF Places, References, Ids
  <1>13. IsFiniteSet(Places)
    BY <1>10, <1>12, FS_Subset
  <1> QED BY <1>13, FS_CardinalityType DEF Visitable, Places, Ids

Elements(seen) == {seen[i] : i \in 1..Len(seen)}

Distinct(seen) == \A i, j \in 1..Len(seen) : seen[i] = seen[j] => i = j

\* more is seen and, behind it, those of some ids that were not seen.
Grown(seen, more, ids) ==
    /\ more \in Seq(Places) /\ Distinct(more)
    /\ Len(seen) <= Len(more) /\ \A i \in 1..Len(seen) : more[i] = seen[i]
    /\ \A i \in 1..Len(more) : i > Len(seen) => more[i] \in ids
    /\ ids \subseteq Elements(more)

LEMMA GrownStays ==
    ASSUME NEW seen \in Seq(Places), Distinct(seen)
    PROVE  Grown(seen, seen, {})
  BY DEF Grown

LEMMA GrownTwice ==
    ASSUME NEW seen \in Seq(Places), NEW more, NEW ids, Grown(seen, more, ids),
           NEW most, NEW others, Grown(more, most, others)
    PROVE  Grown(seen, most, ids \union others)
  <1>1. more \in Seq(Places) /\ most \in Seq(Places) /\ Distinct(most)
    BY DEF Grown
  <1>2. PICK l \in Nat, m \in Nat, n \in Nat : l = Len(seen) /\ m = Len(more) /\ n = Len(most)
    BY <1>1
  <1>3. l <= m /\ m <= n
    BY <1>2 DEF Grown
  <1>4. \A i \in 1..m : most[i] = more[i]
    BY <1>2 DEF Grown
  <1>5. \A i \in 1..l : most[i] = seen[i]
    <2>1. \A i \in 1..l : more[i] = seen[i]
      BY <1>2 DEF Grown
    <2>2. \A i \in 1..l : i \in 1..m
      BY <1>3
    <2> QED BY <1>4, <2>1, <2>2
  <1>6. ASSUME NEW i \in 1..n, i > l PROVE most[i] \in ids \union others
    <2>1. CASE i > m
      BY <1>2, <2>1 DEF Grown
    <2>2. CASE ~(i > m)
      <3>1. i \in 1..m
        BY <1>6, <2>2
      <3>2. more[i] \in ids
        BY <1>2, <1>6, <3>1 DEF Grown
      <3> QED BY <1>4, <3>1, <3>2
    <2> QED BY <2>1, <2>2
  <1>7. ids \subseteq Elements(most)
    <2>1. SUFFICES ASSUME NEW id \in ids PROVE \E i \in 1..n : most[i] = id
      BY <1>2 DEF Elements
    <2>2. PICK i \in 1..m : more[i] = id
      BY <1>2 DEF Grown, Elements
    <2>3. i \in 1..n
      BY <1>3
    <2> QED BY <1>4, <2>2, <2>3
  <1>8. others \subseteq Elements(most)
    BY DEF Grown
  <1>9. l <= n
    BY <1>3
  <1> QED BY <1>1, <1>2, <1>5, <1>6, <1>7, <1>8, <1>9 DEF Grown

LEMMA QueuedGrows ==
    ASSUME NEW seen \in Seq(Places), Distinct(seen), NEW id, id # NoNode => id \in Places
    PROVE  Grown(seen, Queued(seen, id), {id} \ {NoNode})
  <1>1. CASE id = NoNode
    BY <1>1, GrownStays DEF Queued
  <1>2. CASE id # NoNode /\ Contains(seen, id)
    BY <1>2 DEF Queued, Contains, Grown, Elements
  <1>3. CASE id # NoNode /\ ~Contains(seen, id)
    <2>1. PICK l \in Nat : l = Len(seen)
      OBVIOUS
    <2>2. PICK more : more = Append(seen, id)
      OBVIOUS
    <2>3. Queued(seen, id) = more
      BY <1>3, <2>2 DEF Queued
    <2>4. more \in Seq(Places) /\ Len(more) = l + 1 /\ more[l + 1] = id
          /\ \A i \in 1..l : more[i] = seen[i]
      BY <1>3, <2>1, <2>2
    <2>5. \A i \in 1..l : more[i] # id
      BY <1>3, <2>1, <2>4 DEF Contains
    <2>6. \A i \in 1..(l + 1) : i \in 1..l \/ i = l + 1
      BY <2>1
    <2>7. \A i, j \in 1..l : more[i] = more[j] => i = j
      BY <2>1, <2>4 DEF Distinct
    <2>8. Distinct(more)
      BY <2>4, <2>5, <2>6, <2>7 DEF Distinct
    <2>9. \A i \in 1..(l + 1) : i > l => more[i] \in {id}
      BY <2>4
    <2>10. {id} \subseteq Elements(more)
      <3>1. l + 1 \in 1..(l + 1)
        BY <2>1
      <3> QED BY <2>4, <3>1 DEF Elements
    <2>11. {id} \ {NoNode} = {id}
      BY <1>3
    <2>12. l <= l + 1
      OBVIOUS
    <2> QED BY <2>1, <2>3, <2>4, <2>8, <2>9, <2>10, <2>11, <2>12 DEF Grown
  <1> QED BY <1>1, <1>2, <1>3

LEMMA QueuedNextGrows ==
    ASSUME NEW seen \in Seq(Places), Distinct(seen), NEW id \in Ids
    PROVE  Grown(seen, QueuedNext(seen, workflow.nodes[id]), Branches[id])
  <1>1. PICK node : node = workflow.nodes[id]
    OBVIOUS
  <1>2. Branches[id] = NextNodes(node) /\ Branches[id] \subseteq Places
    BY <1>1, BranchesAreSteps DEF Branches, Steps
  <1>3. CASE node.type = "end"
    BY <1>1, <1>2, <1>3, GrownStays DEF QueuedNext, NextNodes
  <1>4. CASE node.type # "end" /\ node.type # "condition"
    <2>1. Branches[id] = {node.next} \ {NoNode}
      BY <1>2, <1>4 DEF NextNodes
    <2>2. Grown(seen, Queued(seen, node.next), {node.next} \ {NoNode})
      BY <1>2, <2>1, QueuedGrows
    <2> QED BY <1>1, <1>4, <2>1, <2>2 DEF QueuedNext
  <1>5. CASE node.type = "condition"
    <2>1. Branches[id] = ({node.nextTrue} \ {NoNode}) \union ({node.nextFalse} \ {NoNode})
      BY <1>2, <1>5 DEF NextNodes
    <2>2. PICK more : more = Queued(seen, node.nextTrue)
      OBVIOUS
    <2>3. Grown(seen, more, {node.nextTrue} \ {NoNode})
      BY <1>2, <2>1, <2>2, QueuedGrows
    <2>4. more \in Seq(Places) /\ Distinct(more)
      BY <2>3 DEF Grown
    <2>5. PICK most : most = Queued(more, node.nextFalse)
      OBVIOUS
    <2>6. Grown(more, most, {node.nextFalse} \ {NoNode})
      BY <1>2, <2>1, <2>4, <2>5, QueuedGrows
    <2>7. Grown(seen, most, ({node.nextTrue} \ {NoNode}) \union ({node.nextFalse} \ {NoNode}))
      BY <2>3, <2>6, GrownTwice
    <2>8. QueuedNext(seen, node) = most
      BY <1>5, <2>2, <2>5 DEF QueuedNext
    <2> QED BY <1>1, <2>1, <2>7, <2>8
  <1> QED BY <1>3, <1>4, <1>5

\* Every place but the first was found at one before it, and the nodes among the
\* first n have been looked at.
Searched(seen, n) ==
    /\ seen \in Seq(Places) /\ Distinct(seen)
    /\ Len(seen) >= 1 /\ seen[1] = workflow.start
    /\ \A j \in 2..Len(seen) :
          \E i \in 1..(j - 1) : seen[i] \in Ids /\ seen[j] \in Branches[seen[i]]
    /\ \A i \in 1..Len(seen) :
          i <= n /\ seen[i] \in Ids => Branches[seen[i]] \subseteq Elements(seen)

SearchNext(n, seen) ==
    IF n > Len(seen) \/ seen[n] \notin Ids THEN seen
    ELSE QueuedNext(seen, workflow.nodes[seen[n]])

LEMMA SearchStarts ==
    ASSUME TypeInv
    PROVE  Searched(<<workflow.start>>, 0)
  <1>1. workflow.start \in Places
    BY IsOne DEF Places
  <1>2. PICK seen : seen = <<workflow.start>>
    OBVIOUS
  <1>3. seen \in Seq(Places) /\ Len(seen) = 1 /\ seen[1] = workflow.start
    BY <1>1, <1>2
  <1> QED BY <1>2, <1>3 DEF Searched, Distinct

LEMMA SearchGoesOn ==
    ASSUME NEW n \in Nat, NEW seen, Searched(seen, n)
    PROVE  Searched(SearchNext(n + 1, seen), n + 1)
  <1>1. seen \in Seq(Places) /\ Distinct(seen)
    BY DEF Searched
  <1>2. PICK l \in Nat : l = Len(seen)
    BY <1>1
  <1>3. l >= 1 /\ seen[1] = workflow.start
    BY <1>2 DEF Searched
  <1>4. \A j \in 2..l :
          \E i \in 1..(j - 1) : seen[i] \in Ids /\ seen[j] \in Branches[seen[i]]
    BY <1>2 DEF Searched
  <1>5. \A i \in 1..l : i <= n /\ seen[i] \in Ids => Branches[seen[i]] \subseteq Elements(seen)
    BY <1>2 DEF Searched
  <1>6. CASE n + 1 > l \/ seen[n + 1] \notin Ids
    <2>1. SearchNext(n + 1, seen) = seen
      BY <1>2, <1>6 DEF SearchNext
    <2>2. ASSUME NEW i \in 1..l, i <= n + 1, seen[i] \in Ids PROVE i <= n
      BY <1>6, <2>2
    <2>3. \A i \in 1..l : i <= n + 1 /\ seen[i] \in Ids => Branches[seen[i]] \subseteq Elements(seen)
      BY <1>5, <2>2
    <2> QED BY <1>1, <1>2, <1>3, <1>4, <2>1, <2>3 DEF Searched
  <1>7. CASE ~(n + 1 > l) /\ seen[n + 1] \in Ids
    <2>1. PICK more : more = QueuedNext(seen, workflow.nodes[seen[n + 1]])
      OBVIOUS
    <2>2. SearchNext(n + 1, seen) = more
      BY <1>2, <1>7, <2>1 DEF SearchNext
    <2>3. PICK ids : ids = Branches[seen[n + 1]]
      OBVIOUS
    <2>4. Grown(seen, more, ids)
      BY <1>1, <1>7, <2>1, <2>3, QueuedNextGrows
    <2>5. more \in Seq(Places) /\ Distinct(more)
      BY <2>4 DEF Grown
    <2>6. PICK m \in Nat : m = Len(more)
      BY <2>5
    <2>7. l <= m /\ \A i \in 1..l : more[i] = seen[i]
      BY <1>2, <2>4, <2>6 DEF Grown
    <2>8. \A i \in 1..m : i > l => more[i] \in ids
      BY <1>2, <2>4, <2>6 DEF Grown
    <2>9. ids \subseteq Elements(more)
      BY <2>4 DEF Grown
    <2>10. Elements(seen) \subseteq Elements(more)
      <3>1. \A i \in 1..l : i \in 1..m
        BY <2>7
      <3> QED BY <1>2, <2>6, <2>7, <3>1 DEF Elements
    <2>11. more[1] = workflow.start /\ m >= 1
      BY <1>3, <2>7
    <2>12. ASSUME NEW j \in 2..m
           PROVE  \E i \in 1..(j - 1) : more[i] \in Ids /\ more[j] \in Branches[more[i]]
      <3>1. CASE j <= l
        <4>1. j \in 2..l /\ j \in 1..l
          BY <3>1
        <4>2. PICK i \in 1..(j - 1) : seen[i] \in Ids /\ seen[j] \in Branches[seen[i]]
          BY <1>4, <4>1
        <4>3. i \in 1..l
          BY <3>1
        <4> QED BY <2>7, <4>1, <4>2, <4>3
      <3>2. CASE j > l
        <4>1. more[j] \in ids
          <5>1. j \in 1..m
            OBVIOUS
          <5> QED BY <2>8, <3>2, <5>1
        <4>2. n + 1 \in 1..(j - 1) /\ n + 1 \in 1..l
          BY <1>7, <3>2
        <4>3. more[n + 1] = seen[n + 1]
          BY <2>7, <4>2
        <4> QED BY <1>7, <2>3, <4>1, <4>2, <4>3
      <3> QED BY <3>1, <3>2
    <2>13. ASSUME NEW i \in 1..m, i <= n + 1, more[i] \in Ids
           PROVE  Branches[more[i]] \subseteq Elements(more)
      <3>1. i \in 1..l
        BY <1>7, <2>13
      <3>2. more[i] = seen[i]
        BY <2>7, <3>1
      <3>3. CASE i = n + 1
        BY <2>3, <2>9, <3>2, <3>3
      <3>4. CASE i # n + 1
        <4>1. i <= n
          BY <2>13, <3>4
        <4>2. Branches[seen[i]] \subseteq Elements(seen)
          BY <1>5, <2>13, <3>1, <3>2, <4>1
        <4> QED BY <2>10, <3>2, <4>2
      <3> QED BY <3>3, <3>4
    <2> QED BY <2>2, <2>5, <2>6, <2>11, <2>12, <2>13 DEF Searched
  <1> QED BY <1>6, <1>7

\* The search, round by round.
VisitsIs(visits) ==
    visits = [n \in 0..Visitable(workflow) |->
                 IF n = 0 THEN <<workflow.start>> ELSE SearchNext(n, visits[n - 1])]

LEMMA VisitsIsVisits ==
    ASSUME \E visits : VisitsIs(visits)
    PROVE  \E visits : VisitsIs(visits) /\ Visits(workflow) = visits[Visitable(workflow)]
  BY DEF VisitsIs, SearchNext, Visits, Ids

LEMMA VisitsSearched ==
    ASSUME TypeInv, NEW visits, VisitsIs(visits)
    PROVE  \A n \in 0..Visitable(workflow) : Searched(visits[n], n)
  <1>1. PICK K : K = Visitable(workflow)
    OBVIOUS
  <1>2. K \in Nat
    BY <1>1, PlacesAreFinite
  <1>3. \A n \in 0..K : visits[n] = IF n = 0 THEN <<workflow.start>> ELSE SearchNext(n, visits[n - 1])
    BY <1>1 DEF VisitsIs
  <1>4. PICK S : S = {n \in 0..K : Searched(visits[n], n)}
    OBVIOUS
  <1>5. 0 \in S
    <2>1. 0 \in 0..K
      BY <1>2
    <2>2. visits[0] = <<workflow.start>>
      BY <1>3, <2>1
    <2> QED BY <1>4, <2>1, <2>2, SearchStarts
  <1>6. ASSUME NEW k \in 0..K, k < K, k \in S PROVE k + 1 \in S
    <2>1. k + 1 \in 0..K /\ k + 1 # 0 /\ k + 1 - 1 = k /\ k \in Nat
      BY <1>2, <1>6
    <2>2. visits[k + 1] = SearchNext(k + 1, visits[k])
      BY <1>3, <2>1
    <2>3. Searched(visits[k], k)
      BY <1>4, <1>6
    <2> QED BY <1>4, <2>1, <2>2, <2>3, SearchGoesOn
  <1>7. \A k \in 0..K : k \in S
    BY <1>2, <1>5, <1>6, UpTo
  <1> QED BY <1>1, <1>4, <1>7

LEMMA VisitsExist ==
    ASSUME TypeInv
    PROVE  \E visits : VisitsIs(visits)
  <1>1. PICK K : K = Visitable(workflow)
    OBVIOUS
  <1>2. K \in Nat
    BY <1>1, PlacesAreFinite
  <1>3. PICK step : step = [n \in 1..K |-> [seen \in Seq(Places) |-> SearchNext(n, seen)]]
    OBVIOUS
  <1>4. PICK first : first = <<workflow.start>>
    OBVIOUS
  <1>5. PICK f : Rounds(f, K, first, step)
    BY <1>2, RoundsExist
  <1>6. \A n \in 0..K : f[n] = IF n = 0 THEN first ELSE step[n][f[n - 1]]
    BY <1>5 DEF Rounds
  <1>7. ASSUME NEW n \in 0..K, n # 0, f[n - 1] \in Seq(Places) PROVE f[n] = SearchNext(n, f[n - 1])
    <2>1. n \in 1..K
      BY <1>7
    <2>2. step[n] = [seen \in Seq(Places) |-> SearchNext(n, seen)]
      BY <1>3, <2>1
    <2>3. step[n][f[n - 1]] = SearchNext(n, f[n - 1])
      BY <1>7, <2>2
    <2> QED BY <1>6, <1>7, <2>3
  <1>8. PICK S : S = {n \in 0..K : Searched(f[n], n)}
    OBVIOUS
  <1>9. 0 \in S
    <2>1. 0 \in 0..K
      BY <1>2
    <2>2. f[0] = first
      BY <1>6, <2>1
    <2> QED BY <1>4, <1>8, <2>1, <2>2, SearchStarts
  <1>10. ASSUME NEW k \in 0..K, k < K, k \in S PROVE k + 1 \in S
    <2>1. k + 1 \in 0..K /\ k + 1 # 0 /\ k + 1 - 1 = k /\ k \in Nat
      BY <1>2, <1>10
    <2>2. Searched(f[k], k)
      BY <1>8, <1>10
    <2>3. f[k] \in Seq(Places)
      BY <2>2 DEF Searched
    <2>4. f[k + 1] = SearchNext(k + 1, f[k])
      BY <1>7, <2>1, <2>3
    <2> QED BY <1>8, <2>1, <2>2, <2>4, SearchGoesOn
  <1>11. \A k \in 0..K : k \in S
    BY <1>2, <1>9, <1>10, UpTo
  <1>12. ASSUME NEW n \in 0..K PROVE f[n] = IF n = 0 THEN first ELSE SearchNext(n, f[n - 1])
    <2>1. CASE n = 0
      BY <1>6, <2>1
    <2>2. CASE n # 0
      <3>1. n - 1 \in 0..K
        BY <1>2, <2>2
      <3>2. f[n - 1] \in Seq(Places)
        BY <1>8, <1>11, <3>1 DEF Searched
      <3>3. f[n] = SearchNext(n, f[n - 1])
        BY <1>7, <2>2, <3>2
      <3> QED BY <2>2, <3>3
    <2> QED BY <2>1, <2>2
  <1>13. f = [n \in 0..K |-> IF n = 0 THEN first ELSE step[n][f[n - 1]]]
    BY <1>5 DEF Rounds
  <1>14. f = [n \in 0..K |-> f[n]]
    BY <1>13
  <1>15. f = [n \in 0..K |-> IF n = 0 THEN first ELSE SearchNext(n, f[n - 1])]
    BY <1>12, <1>14
  <1> QED BY <1>1, <1>4, <1>15 DEF VisitsIs

\* The search visits what the branches lead to.
SearchedAll(seen) ==
    /\ Searched(seen, Len(seen))
    /\ \A id \in Elements(seen) \intersect Ids : Branches[id] \subseteq Elements(seen)

LEMMA SearchCompletes ==
    ASSUME TypeInv
    PROVE  SearchedAll(Visits(workflow))
  <1>1. PICK K : K = Visitable(workflow)
    OBVIOUS
  <1>2. K \in Nat /\ K = Cardinality(Places) /\ IsFiniteSet(Places)
    BY <1>1, PlacesAreFinite
  <1>3. PICK visits : VisitsIs(visits) /\ Visits(workflow) = visits[K]
    BY <1>1, VisitsExist, VisitsIsVisits
  <1>4. PICK seen : seen = Visits(workflow)
    OBVIOUS
  <1>5. K \in 0..K
    BY <1>2
  <1>6. Searched(seen, K)
    BY <1>1, <1>3, <1>4, <1>5, VisitsSearched
  <1>7. seen \in Seq(Places) /\ Distinct(seen)
    BY <1>6 DEF Searched
  <1>8. PICK l \in Nat : l = Len(seen)
    BY <1>7
  <1>9. seen \in Injection(1..l, Places)
    BY <1>7, <1>8 DEF Distinct, Injection, IsInjective
  <1>10. Cardinality(1..l) <= Cardinality(Places)
    BY <1>2, <1>9, FS_Injection
  <1>11. l <= K
    <2>1. 1 \in Int /\ l \in Int
      BY <1>8
    <2>2. Cardinality(1..l) = IF 1 > l THEN 0 ELSE l - 1 + 1
      BY <2>1, FS_Interval
    <2> QED BY <1>2, <1>10, <2>2
  <1>12. \A i \in 1..l : seen[i] \in Ids => Branches[seen[i]] \subseteq Elements(seen)
    <2>1. \A i \in 1..l : i <= K /\ seen[i] \in Ids => Branches[seen[i]] \subseteq Elements(seen)
      BY <1>6, <1>8 DEF Searched
    <2>2. \A i \in 1..l : i <= K
      BY <1>2, <1>8, <1>11
    <2> QED BY <2>1, <2>2
  <1>13. Searched(seen, l)
    BY <1>6, <1>8, <1>12 DEF Searched
  <1>14. \A id \in Elements(seen) \intersect Ids : Branches[id] \subseteq Elements(seen)
    BY <1>8, <1>12 DEF Elements
  <1> QED BY <1>4, <1>8, <1>13, <1>14 DEF SearchedAll

-----------------------------------------------------------------------------
(* The theorem about the validator.                                        *)

LEMMA LeadsToIsLed ==
    ASSUME NEW avoided
    PROVE  LeadsTo(avoided) =
              Led(Places, Ids, [id \in Ids |-> NextNodes(workflow.nodes[id]) \ {avoided}], workflow.start)
  BY DEF LeadsTo, Closure, Closed, Led

\* Whatever branches lead to is visited, and so is what the answers lead to.
LEMMA VisitedAll ==
    ASSUME TypeInv
    PROVE  /\ Reachable \subseteq ToSet(Visits(workflow))
           /\ LeadsTo(NoNode) \subseteq ToSet(Visits(workflow))
  <1>1. PICK seen : seen = Visits(workflow)
    OBVIOUS
  <1>2. SearchedAll(seen)
    BY <1>1, SearchCompletes
  <1>3. seen \in Seq(Places) /\ Len(seen) >= 1 /\ seen[1] = workflow.start
    BY <1>2 DEF SearchedAll, Searched
  <1>4. PICK ids : ids = Elements(seen)
    OBVIOUS
  <1>5. ids = ToSet(seen)
    BY <1>3, <1>4 DEF ToSet, Elements
  <1>6. ids \in SUBSET Places
    BY <1>3, <1>4 DEF Elements
  <1>7. workflow.start \in ids
    <2>1. 1 \in 1..Len(seen)
      BY <1>3
    <2> QED BY <1>3, <1>4, <2>1 DEF Elements
  <1>8. \A id \in ids \intersect Ids : Branches[id] \subseteq ids
    BY <1>2, <1>4 DEF SearchedAll
  <1>9. \A id \in ids \intersect Ids : Edges[id] \subseteq ids
    <2>1. \A id \in Ids : Edges[id] \subseteq Branches[id]
      BY FollowsIsANext DEF Edges, Branches
    <2> QED BY <1>8, <2>1
  <1>10. PICK steps : steps = [id \in Ids |-> NextNodes(workflow.nodes[id]) \ {NoNode}]
    OBVIOUS
  <1>11. \A id \in ids \intersect Ids : steps[id] \subseteq ids
    <2>1. \A id \in Ids : steps[id] \subseteq Branches[id]
      BY <1>10 DEF Branches
    <2> QED BY <1>8, <2>1
  <1>12. Led(Places, Ids, Edges, workflow.start) \subseteq ids
    BY <1>6, <1>7, <1>9, LedLeast
  <1>13. Led(Places, Ids, steps, workflow.start) \subseteq ids
    BY <1>6, <1>7, <1>11, LedLeast
  <1>14. LeadsTo(NoNode) = Led(Places, Ids, steps, workflow.start)
    BY <1>10, LeadsToIsLed
  <1> QED BY <1>1, <1>5, <1>12, <1>13, <1>14, ReachableIsLed

\* An activated workflow has no dangling reference, and no node without a next but
\* the end and a condition whose answer is missing or old.
LEMMA ActivatedLeadsOn ==
    ASSUME TypeInv, Activate(workflow)
    PROVE  /\ Reachable \subseteq Ids
           /\ \A id \in Reachable : LET node == workflow.nodes[id] IN
                 Follows(id) = {} =>
                    \/ node.type = "end"
                    \/ /\ node.type = "condition" /\ node.question \in Questions
                       /\ answers[node.question] \in OldValues \union {NoAnswer}
  <1>1. Places = Ids
    BY DEF Activate, GraphReferences, Places, Ids
  <1>2. Reachable \subseteq Ids
    BY <1>1, ReachableIsLed, LedWithin
  <1>3. ASSUME NEW id \in Ids, Follows(id) = {}
        PROVE  \/ workflow.nodes[id].type = "end"
               \/ /\ workflow.nodes[id].type = "condition"
                  /\ workflow.nodes[id].question \in Questions
                  /\ answers[workflow.nodes[id].question] \in OldValues \union {NoAnswer}
    <2>1. PICK node : node = workflow.nodes[id]
      OBVIOUS
    <2>2. NodeValid(node)
      BY <2>1 DEF Activate, Ids
    <2>3. node.type # "end" =>
             \/ node.type \in {"start", "section"} /\ node.next # NoNode
             \/ /\ node.type = "condition" /\ node.question \in Questions
                /\ node.nextTrue # NoNode /\ node.nextFalse # NoNode
                /\ node.rule = "sound" /\ node.refused \subseteq OldValues
      <3>1. node.type = "condition" /\ node.rule = "sound" => node.refused \subseteq OldValues
        BY <2>1, RespondentAssumption DEF TypeInv, Ids
      <3> QED BY <2>2, <3>1 DEF NodeValid, RuleFits
    <2>4. Stops(node, answers) \/ Fails(node, answers) \/ Successor(node, answers) = NoNode
      BY <1>3, <2>1 DEF Follows
    <2>5. CASE Stops(node, answers) \/ Fails(node, answers)
      BY <2>1, <2>3, <2>5 DEF Stops, Fails, Evaluable
    <2>6. CASE Successor(node, answers) = NoNode
      BY <2>1, <2>3, <2>6 DEF Successor
    <2> QED BY <2>4, <2>5, <2>6
  <1> QED BY <1>2, <1>3

\* What the search visited before a place can be reached without it.
LEMMA BeforeLeadsTo ==
    ASSUME TypeInv, NEW id, NEW other, Before(Visits(workflow), other, id)
    PROVE  other \in LeadsTo(id)
  <1>1. PICK seen : seen = Visits(workflow)
    OBVIOUS
  <1>2. SearchedAll(seen)
    BY <1>1, SearchCompletes
  <1>3. seen \in Seq(Places) /\ Distinct(seen) /\ Len(seen) >= 1 /\ seen[1] = workflow.start
    BY <1>2 DEF SearchedAll, Searched
  <1>4. PICK l \in Nat : l = Len(seen)
    BY <1>3
  <1>5. DOMAIN seen = 1..l
    BY <1>3, <1>4
  <1>6. PICK a \in 1..l, b \in 1..l : a < b /\ seen[a] = other /\ seen[b] = id
    BY <1>1, <1>5 DEF Before
  <1>7. PICK steps : steps = [x \in Ids |-> NextNodes(workflow.nodes[x]) \ {id}]
    OBVIOUS
  <1>8. PICK led : led = Led(Places, Ids, steps, workflow.start)
    OBVIOUS
  <1>9. led = LeadsTo(id)
    BY <1>7, <1>8, LeadsToIsLed
  <1>10. workflow.start \in led
    <2>1. workflow.start \in Places
      BY IsOne DEF Places
    <2> QED BY <1>8, <2>1, LedHas
  <1>11. \A x \in led \intersect Ids : steps[x] \subseteq led
    <2>1. \A x \in Ids : steps[x] \subseteq Branches[x]
      BY <1>7 DEF Branches
    <2>2. Steps(Places, Ids, steps)
      BY <1>7, <2>1, BranchesAreSteps DEF Steps
    <2> QED BY <1>8, <2>2, LedClosed
  <1>12. SUFFICES ASSUME other \notin led PROVE FALSE
    BY <1>9
  <1>13. PICK Bad : Bad = {n \in 1..a : seen[n] \notin led}
    OBVIOUS
  <1>14. Bad \in SUBSET Nat /\ a \in Bad
    BY <1>6, <1>12, <1>13
  <1>15. PICK n \in Bad : \A m \in Bad : n <= m
    BY <1>14, LeastNumber
  <1>16. n \in 1..a /\ n \in 1..l /\ seen[n] \notin led /\ n < b
    BY <1>6, <1>13
  <1>17. n \in 2..l
    BY <1>3, <1>10, <1>16
  <1>18. PICK p \in 1..(n - 1) : seen[p] \in Ids /\ seen[n] \in Branches[seen[p]]
    BY <1>2, <1>4, <1>17 DEF SearchedAll, Searched
  <1>19. p \in 1..a /\ p < n
    BY <1>16
  <1>20. seen[p] \in led
    <2>1. p \notin Bad
      <3>1. p \in Nat /\ n \in Nat
        BY <1>16
      <3> QED BY <1>15, <1>19, <3>1
    <2> QED BY <1>13, <1>19, <2>1
  <1>21. seen[n] # id
    BY <1>3, <1>4, <1>6, <1>16 DEF Distinct
  <1>22. seen[n] \in steps[seen[p]]
    BY <1>7, <1>18, <1>21 DEF Branches
  <1>23. seen[n] \in led
    BY <1>11, <1>18, <1>20, <1>22
  <1> QED BY <1>16, <1>23

\* What the validator accepts leads the respondents on, whatever the workflow: its checks
\* and its search, each made for one version once, hold for every walk answers can take.
THEOREM ValidatorSound == Spec => []ValidatedWorkflowsLeadOn
  <1>1. ASSUME TypeInv, Validate(workflow),
               NEW id \in NodesOf(workflow, "condition") \intersect LeadsTo(NoNode)
        PROVE  LET question == workflow.nodes[id].question IN
               question \in Questions /\ SectionOf[question] \in Ids => SectionOf[question] \in LeadsTo(id)
    <2>1. id \in NodesOf(workflow, "condition") \intersect ToSet(Visits(workflow))
      BY <1>1, VisitedAll
    <2>2. PICK question : question = workflow.nodes[id].question
      OBVIOUS
    <2>3. ASSUME question \in Questions, SectionOf[question] \in Ids
          PROVE  SectionOf[question] \in LeadsTo(id)
      <3>1. Before(Visits(workflow), SectionOf[question], id)
        BY <1>1, <2>1, <2>2, <2>3 DEF Validate, ConditionSectionOrder, Ids
      <3> QED BY <1>1, <3>1, BeforeLeadsTo
    <2> QED BY <2>2, <2>3
  <1>2. ASSUME TypeInv PROVE Reachable \intersect Unreachable(workflow) = {}
    BY <1>2, VisitedAll DEF Unreachable
  <1>3. TypeInv => ValidatedWorkflowsLeadOn
    BY <1>1, <1>2, ActivatedLeadsOn DEF ValidatedWorkflowsLeadOn
  <1> QED BY <1>3, Typed, PTL
=============================================================================
