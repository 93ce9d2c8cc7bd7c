----------------------- MODULE DefinitionSearchProofs -----------------------
(***************************************************************************)
(* The cycle search keeps its records of the current path in step, and     *)
(* every cycle it reports is a closed walk of the graph it searches, for   *)
(* every definition whatever.                                              *)
(*                                                                         *)
(* What the list comprehension puts into the graph is defined by recursion *)
(* over the dependency list (SelectSeq) and is beyond these provers; that  *)
(* its edges are dependencies of the definition stays with TLC, which      *)
(* checks CyclesAreReal.                                                   *)
(***************************************************************************)
EXTENDS DefinitionValidation, TLAPS

Frame == [node : DOMAIN graph, next : Nat \ {0}]

\* The types the bookkeeping rests on.
SearchTypeOK ==
  /\ path \in Seq(DOMAIN graph)
  /\ frames \in Seq(Frame)

BookInv == SearchTypeOK /\ PathBookkeeping

\* y is in the dependency list of x.
Edge(x, y) == \E k \in Nat \ {0} : ~(k > Len(graph[x])) /\ graph[x][k] = y

\* The traversal stack is a walk along dependencies.
PathIsWalk == \A i \in 1..(Len(path) - 1) : Edge(path[i], path[i + 1])

\* Every reported cycle path is a closed walk of the graph.
CyclesFollowGraph ==
  \A p \in cycles :
    /\ p \in Seq(DOMAIN graph) /\ p # <<>>
    /\ \A i \in 1..(Len(p) - 1) : Edge(p[i], p[i + 1])
    /\ Edge(p[Len(p)], p[1])

-----------------------------------------------------------------------------
\* Entering a node that is not on the path extends all three records by it.
LEMMA EnterBook ==
  ASSUME BookInv, NEW x \in DOMAIN graph, x \notin active,
         NEW rest \in Seq(Frame), Len(rest) = Len(path),
         \A i \in DOMAIN path : rest[i].node = path[i],
         Enter(x, rest)
  PROVE  BookInv'
<1> DEFINE n == Len(path)
<1>1. n \in Nat /\ Len(path') = n + 1 /\ path'[n + 1] = x
      /\ (\A i \in 1..n : path'[i] = path[i]) /\ DOMAIN path' = 1..(n + 1)
      /\ path' \in Seq(DOMAIN graph)
  BY DEF Enter, BookInv, SearchTypeOK
<1>2. [node |-> x, next |-> 1] \in Frame
  BY DEF Frame
<1>3. Len(frames') = n + 1 /\ frames'[n + 1] = [node |-> x, next |-> 1]
      /\ (\A i \in 1..n : frames'[i] = rest[i]) /\ frames' \in Seq(Frame)
  BY <1>1, <1>2 DEF Enter
<1>4. graph' = graph
  BY DEF Enter
<1>5. SearchTypeOK'
  BY <1>1, <1>3, <1>4 DEF SearchTypeOK, Frame
<1>6. active' = Range(path')
  <2>1. active = Range(path) /\ DOMAIN path = 1..n
    BY DEF BookInv, SearchTypeOK, PathBookkeeping
  <2>2. Range(path') = Range(path) \cup {x}
    BY <1>1, <2>1 DEF Range
  <2> QED  BY <2>1, <2>2 DEF Enter
<1>7. DOMAIN stackIndex' = active'
  BY DEF Enter
<1>8. \A i \in DOMAIN path' : stackIndex'[path'[i]] = i - 1
  <2> SUFFICES ASSUME NEW i \in 1..(n + 1)  PROVE stackIndex'[path'[i]] = i - 1
    BY <1>1
  <2>1. CASE i = n + 1
    BY <2>1, <1>1 DEF Enter
  <2>2. CASE i \in 1..n
    <3>1. i \in DOMAIN path
      BY <2>2 DEF BookInv, SearchTypeOK
    <3>2. path[i] \in active /\ stackIndex[path[i]] = i - 1
      BY <3>1, Zenon DEF BookInv, PathBookkeeping, Range
    <3>3. path'[i] = path[i] /\ path[i] # x
      BY <3>2, <2>2, <1>1, Zenon
    <3>4. stackIndex'[path[i]] = stackIndex[path[i]]
      BY <3>2, <3>3, Zenon DEF Enter
    <3> QED  BY <3>2, <3>3, <3>4, Zenon
  <2> QED  BY <2>1, <2>2, <1>1
<1>9. \A i \in DOMAIN path' : frames'[i].node = path'[i]
  <2> SUFFICES ASSUME NEW i \in 1..(n + 1)  PROVE frames'[i].node = path'[i]
    BY <1>1
  <2>1. CASE i = n + 1
    BY <2>1, <1>1, <1>3
  <2>2. CASE i \in 1..n
    <3>1. i \in DOMAIN path
      BY <2>2 DEF BookInv, SearchTypeOK
    <3> QED  BY <3>1, <2>2, <1>1, <1>3, Zenon
  <2> QED  BY <2>1, <2>2, <1>1
<1> QED  BY <1>1, <1>3, <1>5, <1>6, <1>7, <1>8, <1>9 DEF BookInv, PathBookkeeping

\* The search starts with nothing on the path.
LEMMA StartBook ==
  ASSUME BookInv, StartSearch
  PROVE  BookInv'
<1>1. PICK i \in DOMAIN nodes :
         nodes[i].id \in DOMAIN graph /\ Enter(nodes[i].id, frames)
  BY DEF StartSearch
<1>2. frames = <<>> /\ path = <<>> /\ frames \in Seq(Frame) /\ path \in Seq(DOMAIN graph)
  BY DEF StartSearch, BookInv, SearchTypeOK, PathBookkeeping
<1>3. active = {} /\ Len(frames) = Len(path) /\ \A j \in DOMAIN path : frames[j].node = path[j]
  BY <1>2 DEF BookInv, PathBookkeeping, Range
<1> QED  BY <1>1, <1>2, <1>3, EnterBook, Zenon

\* Storing the index back moves only the index of the last frame.
LEMMA AdvancedFrames ==
  ASSUME BookInv, frames # <<>>
  PROVE  /\ Advanced \in Seq(Frame)
         /\ Len(Advanced) = Len(path)
         /\ \A i \in DOMAIN path : Advanced[i].node = path[i]
<1> DEFINE n == Len(frames)
<1>1. n \in Nat \ {0} /\ frames \in [1..n -> Frame] /\ Len(path) = n /\ DOMAIN path = 1..n
  BY DEF BookInv, SearchTypeOK, PathBookkeeping
<1>2. \A i \in 1..n : /\ frames[i].node \in DOMAIN graph
                      /\ frames[i].next \in Nat \ {0}
  BY <1>1 DEF Frame
<1>3. \A i \in 1..n : Advanced[i] \in Frame /\ Advanced[i].node = frames[i].node
  <2> SUFFICES ASSUME NEW i \in 1..n
               PROVE  Advanced[i] \in Frame /\ Advanced[i].node = frames[i].node
    OBVIOUS
  <2>1. CASE i = n
    <3>1. Advanced[i] = [frames[i] EXCEPT !.next = @ + 1]
      BY <2>1, <1>1 DEF Advanced
    <3>2. frames[i].next + 1 \in Nat \ {0} /\ frames[i] \in Frame
      BY <1>1, <1>2
    <3> QED  BY <3>1, <3>2 DEF Frame
  <2>2. CASE i # n
    <3>1. Advanced[i] = frames[i]
      BY <2>2, <1>1 DEF Advanced
    <3> QED  BY <3>1, <1>1
  <2> QED  BY <2>1, <2>2
<1>4. DOMAIN Advanced = 1..n /\ Advanced = [i \in 1..n |-> Advanced[i]]
  BY <1>1, Zenon DEF Advanced
<1>5. Advanced \in [1..n -> Frame]
  BY <1>3, <1>4
<1>6. Advanced \in Seq(Frame) /\ Len(Advanced) = n
  BY <1>1, <1>5
<1> QED  BY <1>1, <1>3, <1>6 DEF BookInv, PathBookkeeping

\* A new dependency is entered on top of the frames already advanced.
LEMMA DescendBook ==
  ASSUME BookInv, Descend
  PROVE  BookInv'
<1>1. frames # <<>> /\ Dependency \notin active /\ Dependency \in DOMAIN graph
      /\ Enter(Dependency, Advanced)
  BY DEF Descend, Seen
<1>2. Advanced \in Seq(Frame) /\ Len(Advanced) = Len(path)
      /\ \A i \in DOMAIN path : Advanced[i].node = path[i]
  BY <1>1, AdvancedFrames
<1> QED  BY <1>1, <1>2, EnterBook

\* Looking at a dependency without entering it leaves the path alone.
LEMMA AdvanceBook ==
  ASSUME BookInv, ReportCycle \/ SkipDependency
  PROVE  BookInv'
<1>1. frames # <<>> /\ frames' = Advanced /\ path' = path /\ active' = active
      /\ stackIndex' = stackIndex /\ graph' = graph
  BY DEF ReportCycle, SkipDependency
<1>2. Advanced \in Seq(Frame) /\ Len(Advanced) = Len(path)
      /\ \A i \in DOMAIN path : Advanced[i].node = path[i]
  BY <1>1, AdvancedFrames
<1>3. frames' \in Seq(Frame) /\ Frame' = Frame /\ Len(frames') = Len(path)
      /\ \A i \in DOMAIN path : frames'[i].node = path[i]
  BY <1>1, <1>2 DEF Frame
<1>4. SearchTypeOK'
  BY <1>1, <1>3 DEF SearchTypeOK, BookInv
<1>5. PathBookkeeping'
  BY <1>1, <1>3 DEF PathBookkeeping, BookInv
<1> QED  BY <1>4, <1>5 DEF BookInv

\* Leaving takes the last node of the path out of all the records; the path
\* holds it only once because its stack index is unique.
LEMMA LeaveBook ==
  ASSUME BookInv, Leave
  PROVE  BookInv'
<1> DEFINE n == Len(path)
<1>1. n \in Nat \ {0} /\ Len(frames) = n /\ DOMAIN path = 1..n
      /\ path \in [1..n -> DOMAIN graph] /\ frames \in [1..n -> Frame]
  BY DEF BookInv, SearchTypeOK, PathBookkeeping, Leave
<1>2. Top.node = path[n]
  BY <1>1 DEF Top, BookInv, PathBookkeeping
<1>3. path' \in Seq(DOMAIN graph) /\ Len(path') = n - 1 /\ DOMAIN path' = 1..(n - 1)
      /\ \A i \in 1..(n - 1) : path'[i] = path[i]
  BY <1>1 DEF Leave, BookInv, SearchTypeOK
<1>4. frames' \in Seq(Frame) /\ Len(frames') = n - 1
      /\ \A i \in 1..(n - 1) : frames'[i] = frames[i]
  BY <1>1 DEF Leave, BookInv, SearchTypeOK
<1>5. graph' = graph /\ Frame' = Frame
  BY DEF Leave, Frame
<1>6. \A i \in 1..(n - 1) : path[i] # path[n]
  BY <1>1 DEF BookInv, PathBookkeeping
<1>7. active' = Range(path')
  <2>1. active' = Range(path) \ {path[n]}
    BY <1>2 DEF Leave, Deactivated, BookInv, PathBookkeeping
  <2>a. \A j \in 1..n : j # n <=> j \in 1..(n - 1)
    <3>1. n \in Nat \ {0}
      BY <1>1
    <3> HIDE DEF n
    <3> QED  BY <3>1
  <2>2. ASSUME NEW x \in active'  PROVE x \in Range(path')
    <3>1. PICK i \in 1..n : x = path[i] /\ i # n
      BY <2>1, <2>2, <1>1 DEF Range
    <3>2. i \in 1..(n - 1)
      BY <3>1, <2>a, Zenon
    <3> QED  BY <3>1, <3>2, <1>3, Zenon DEF Range
  <2>3. ASSUME NEW x \in Range(path')  PROVE x \in active'
    <3>1. PICK i \in 1..(n - 1) : x = path[i]
      BY <2>3, <1>3, Zenon DEF Range
    <3>2. i \in 1..n
      BY <1>1
    <3> QED  BY <3>1, <3>2, <2>1, <1>1, <1>6, Zenon DEF Range
  <2> QED  BY <2>2, <2>3, Zenon
<1>8. DOMAIN stackIndex' = active'
  BY DEF Leave
<1>9. \A i \in 1..(n - 1) : stackIndex'[path'[i]] = i - 1
  <2> SUFFICES ASSUME NEW i \in 1..(n - 1)  PROVE stackIndex'[path'[i]] = i - 1
    OBVIOUS
  <2>1. path'[i] = path[i] /\ i \in DOMAIN path /\ i \in DOMAIN path'
    BY <1>1, <1>3
  <2>2. path[i] \in active'
    BY <2>1, <1>7 DEF Range
  <2>3. stackIndex'[path[i]] = stackIndex[path[i]]
    BY <2>2 DEF Leave
  <2> QED  BY <2>1, <2>3 DEF BookInv, PathBookkeeping
<1>10. \A i \in 1..(n - 1) : frames'[i].node = path'[i]
  <2> SUFFICES ASSUME NEW i \in 1..(n - 1)  PROVE frames'[i].node = path'[i]
    OBVIOUS
  <2>1. frames'[i] = frames[i] /\ path'[i] = path[i] /\ i \in DOMAIN path
    BY <1>1, <1>3, <1>4
  <2> QED  BY <2>1 DEF BookInv, PathBookkeeping
<1> QED
  BY <1>3, <1>4, <1>5, <1>7, <1>8, <1>9, <1>10, Zenon
     DEF BookInv, SearchTypeOK, PathBookkeeping

\* Every step of the search keeps the records in step.
LEMMA BookStep ==
  ASSUME BookInv, [SearchNext]_searchVars
  PROVE  BookInv'
<1>1. CASE UNCHANGED searchVars
  BY <1>1 DEF searchVars, BookInv, SearchTypeOK, PathBookkeeping, Frame
<1> QED
  BY <1>1, StartBook, LeaveBook, AdvanceBook, DescendBook
     DEF SearchNext, SearchReturns

\* CycleDetectionRule starts with empty records.
LEMMA BookInit == SearchInit => BookInv
<1> SUFFICES ASSUME SearchInit  PROVE BookInv
  OBVIOUS
<1>1. path = <<>> /\ frames = <<>> /\ active = {} /\ stackIndex = <<>>
  BY DEF SearchInit
<1> QED  BY <1>1 DEF BookInv, SearchTypeOK, PathBookkeeping, Range

\* In every definition, at every moment of the cycle search, the traversal
\* stack, the active set, the stack index and the frame stack of
\* CycleDetectionRule describe one and the same path.
THEOREM PathBookkeepingHolds == SearchSpec => []PathBookkeeping
<1>1. BookInv => PathBookkeeping
  BY DEF BookInv
<1> QED  BY <1>1, BookInit, BookStep, PTL DEF SearchSpec

-----------------------------------------------------------------------------
WalkInv == BookInv /\ PathIsWalk /\ CyclesFollowGraph

\* The dependency in hand is an edge from the last node of the path.
LEMMA TopEdge ==
  ASSUME BookInv, frames # <<>>, ~Exhausted
  PROVE  Len(path) \in Nat \ {0} /\ Edge(path[Len(path)], Dependency)
<1> DEFINE n == Len(path)
<1>1. n \in Nat \ {0} /\ Len(frames) = n /\ n \in DOMAIN path /\ frames[n] \in Frame
  BY DEF BookInv, SearchTypeOK, PathBookkeeping
<1>2. Top = frames[n] /\ Top.node = path[n] /\ Top.next \in Nat \ {0}
  BY <1>1 DEF Top, Frame, BookInv, PathBookkeeping
<1> QED  BY <1>1, <1>2 DEF Edge, Exhausted, Dependency

\* Entering the dependency in hand, or the first node, keeps the path a walk.
LEMMA EnterWalk ==
  ASSUME BookInv, PathIsWalk, NEW x, NEW rest, Enter(x, rest),
         path # <<>> => Edge(path[Len(path)], x)
  PROVE  PathIsWalk'
<1> DEFINE n == Len(path)
<1>1. n \in Nat /\ Len(path') = n + 1 /\ path'[n + 1] = x
      /\ \A i \in 1..n : path'[i] = path[i]
  BY DEF Enter, BookInv, SearchTypeOK
<1>2. graph' = graph
  BY DEF Enter
<1> SUFFICES ASSUME NEW i \in 1..n
             PROVE  Edge(path'[i], path'[i + 1])
  BY <1>1, <1>2 DEF PathIsWalk, Edge
<1>3. CASE i = n
  BY <1>1, <1>3 DEF BookInv, SearchTypeOK
<1>4. CASE i # n
  <2>1. i \in 1..(n - 1) /\ i + 1 \in 1..n
    BY <1>1, <1>4
  <2> QED  BY <2>1, <1>1 DEF PathIsWalk
<1> QED  BY <1>3, <1>4

\* The reported path runs from the active dependency to the end of the walk,
\* and the dependency in hand closes it.
LEMMA ReportedCycle ==
  ASSUME WalkInv, ReportCycle
  PROVE  LET p == CyclePath(Dependency)
         IN  /\ p \in Seq(DOMAIN graph) /\ p # <<>>
             /\ \A i \in 1..(Len(p) - 1) : Edge(p[i], p[i + 1])
             /\ Edge(p[Len(p)], p[1])
<1> DEFINE n == Len(path)
           p == CyclePath(Dependency)
<1>1. n \in Nat \ {0} /\ Edge(path[n], Dependency)
  BY TopEdge DEF WalkInv, ReportCycle
<1>2. PICK k \in 1..n : path[k] = Dependency /\ stackIndex[Dependency] = k - 1
  <2>1. DOMAIN path = 1..n
    BY DEF WalkInv, BookInv, SearchTypeOK
  <2>2. \E k \in 1..n : path[k] = Dependency
    BY <2>1 DEF WalkInv, BookInv, PathBookkeeping, ReportCycle, Range
  <2> QED  BY <2>1, <2>2 DEF WalkInv, BookInv, PathBookkeeping
<1>3. p = SubSeq(path, k, n)
  <2>1. k - 1 + 1 = k
    OBVIOUS
  <2> QED  BY <1>2, <2>1, Zenon DEF CyclePath
<1>4. path \in Seq(DOMAIN graph)
  BY DEF WalkInv, BookInv, SearchTypeOK
<1>5. p \in Seq(DOMAIN graph) /\ Len(p) = n - k + 1
      /\ \A i \in 1..(n - k + 1) : p[i] = path[k + i - 1]
  <2>1. n \in Nat
    BY <1>1
  <2> HIDE DEF p
  <2>2. p \in Seq(DOMAIN graph)
    BY <1>3, <1>4, <2>1
  <2>3. Len(p) = n - k + 1
    BY <1>3, <1>4, <2>1
  <2>4. \A i \in 1..(n - k + 1) : p[i] = path[k + i - 1]
    BY <1>3, <1>4, <2>1
  <2> QED  BY <2>2, <2>3, <2>4
<1>6. p # <<>> /\ p[1] = Dependency /\ p[Len(p)] = path[n]
  BY <1>1, <1>2, <1>5
<1>7. ASSUME NEW i \in 1..(Len(p) - 1)  PROVE Edge(p[i], p[i + 1])
  <2>1. p[i] = path[k + i - 1] /\ p[i + 1] = path[k + i]
        /\ k + i - 1 \in 1..(n - 1) /\ (k + i - 1) + 1 = k + i
    BY <1>1, <1>2, <1>5
  <2> QED  BY <2>1 DEF WalkInv, PathIsWalk
<1> HIDE DEF p
<1>8. Edge(p[Len(p)], p[1])
  BY <1>1, <1>6
<1> QED  BY <1>5, <1>6, <1>7, <1>8 DEF p

\* A step that changes neither the graph nor the reported cycles.
LEMMA CyclesKept ==
  ASSUME CyclesFollowGraph, graph' = graph, cycles' = cycles
  PROVE  CyclesFollowGraph'
<1>1. \A x, y : Edge(x, y)' <=> Edge(x, y)
  BY Zenon DEF Edge
<1> QED  BY <1>1, Zenon DEF CyclesFollowGraph

\* Every step of the search keeps the path a walk and the cycles closed walks.
LEMMA WalkStep ==
  ASSUME WalkInv, [SearchNext]_searchVars
  PROVE  WalkInv'
<1>0. BookInv /\ BookInv'
  BY BookStep DEF WalkInv
<1>1. CASE StartSearch
  <2>1. PICK i \in DOMAIN nodes : Enter(nodes[i].id, frames)
    BY <1>1 DEF StartSearch
  <2>2. path = <<>>
    BY <1>0, <1>1 DEF StartSearch, BookInv, SearchTypeOK, PathBookkeeping
  <2>3. PathIsWalk'
    BY <1>0, <2>1, <2>2, EnterWalk DEF WalkInv
  <2>4. CyclesFollowGraph'
    BY <2>1, CyclesKept, Zenon DEF Enter, WalkInv
  <2> QED  BY <1>0, <2>3, <2>4 DEF WalkInv
<1>2. CASE Descend
  <2>1. Enter(Dependency, Advanced) /\ frames # <<>> /\ ~Exhausted
    BY <1>2 DEF Descend
  <2>2. PathIsWalk'
    BY <1>0, <2>1, TopEdge, EnterWalk DEF WalkInv
  <2>3. CyclesFollowGraph'
    BY <2>1, CyclesKept, Zenon DEF Enter, WalkInv
  <2> QED  BY <1>0, <2>2, <2>3 DEF WalkInv
<1>3. CASE Leave
  <2>1. graph' = graph /\ cycles' = cycles
    BY <1>3 DEF Leave
  <2>2. Len(path) \in Nat \ {0} /\ Len(path') = Len(path) - 1
        /\ \A i \in 1..(Len(path) - 1) : path'[i] = path[i]
    BY <1>0, <1>3 DEF Leave, BookInv, SearchTypeOK, PathBookkeeping
  <2>3. ASSUME NEW i \in 1..(Len(path') - 1)
        PROVE  Edge(path'[i], path'[i + 1])
    <3>1. i \in 1..(Len(path) - 1) /\ i + 1 \in 1..(Len(path) - 1)
      BY <2>2
    <3> QED  BY <3>1, <2>2 DEF WalkInv, PathIsWalk
  <2>4. PathIsWalk'
    BY <2>1, <2>3, Zenon DEF PathIsWalk, Edge
  <2>5. CyclesFollowGraph'
    BY <2>1, CyclesKept, Zenon DEF WalkInv
  <2> QED  BY <1>0, <2>4, <2>5 DEF WalkInv
<1>4. CASE ReportCycle
  <2>1. graph' = graph /\ path' = path
        /\ cycles' = cycles \cup {CyclePath(Dependency)}
    BY <1>4 DEF ReportCycle
  <2>2. PathIsWalk'
    BY <2>1 DEF WalkInv, PathIsWalk, Edge
  <2>3. CyclesFollowGraph'
    <3> DEFINE Closed(p) == /\ p \in Seq(DOMAIN graph) /\ p # <<>>
                            /\ \A i \in 1..(Len(p) - 1) : Edge(p[i], p[i + 1])
                            /\ Edge(p[Len(p)], p[1])
    <3>1. Closed(CyclePath(Dependency))
      BY <1>4, ReportedCycle, Zenon
    <3>2. \A p \in cycles : Closed(p)
      BY Zenon DEF WalkInv, CyclesFollowGraph
    <3>3. \A p \in cycles' : Closed(p)
      <4> HIDE DEF Closed
      <4> QED  BY <2>1, <3>1, <3>2, Zenon
    <3>4. \A x, y : Edge(x, y)' <=> Edge(x, y)
      BY <2>1, Zenon DEF Edge
    <3> QED  BY <2>1, <3>3, <3>4, Zenon DEF CyclesFollowGraph
  <2> QED  BY <1>0, <2>2, <2>3 DEF WalkInv
<1>5. CASE SkipDependency \/ SearchReturns \/ UNCHANGED searchVars
  <2>1. graph' = graph /\ path' = path /\ cycles' = cycles
    BY <1>5 DEF SkipDependency, SearchReturns, searchVars
  <2> QED  BY <1>0, <2>1 DEF WalkInv, PathIsWalk, CyclesFollowGraph, Edge
<1> QED  BY <1>1, <1>2, <1>3, <1>4, <1>5 DEF SearchNext

\* In every definition, each path CycleDetectionRule reports is a cycle of
\* the graph it built: consecutive nodes depend on each other, and the last
\* one depends on the first, which is why the rule leaves the closing
\* dependency implied.
THEOREM ReportedCyclesClosed == SearchSpec => []CyclesFollowGraph
<1>1. SearchInit => WalkInv
  <2> SUFFICES ASSUME SearchInit  PROVE WalkInv
    OBVIOUS
  <2>1. path = <<>> /\ cycles = {}
    BY DEF SearchInit
  <2> QED  BY <2>1, BookInit DEF WalkInv, PathIsWalk, CyclesFollowGraph
<1>2. WalkInv => CyclesFollowGraph
  BY DEF WalkInv
<1> QED  BY <1>1, <1>2, WalkStep, PTL DEF SearchSpec

=============================================================================
